---------------------------- MODULE Texts_proofs ----------------------------
(* Proofs about the two components whose state is the text that prompts are  *)
(* made of: Prompts (its types, what is proposed, whose texts a prompt is    *)
(* made of, what a save may do to it) and, from "Sequences of positions" on, *)
(* Learning (its types, what an example rests on, and that what the operator *)
(* put into the library or turned off stays so).                             *)
EXTENDS Prompts, Learning, TLAPS, SequenceTheorems, WellFoundedInduction, FiniteSetTheorems

-----------------------------------------------------------------------------
(* Induction, stated for sets                                               *)

\* A non-empty set of naturals has a least element, and Min chooses it.
LEMMA Least ==
  ASSUME NEW S \in SUBSET Nat, S # {}
  PROVE  Min(S) \in S /\ \A n \in S : Min(S) <= n
<1>1. \E x \in S : \A y \in S : ~ (<<y, x>> \in OpToRel(<, Nat))
  BY NatLessThanWellFounded, WFMin
<1>2. PICK x \in S : \A y \in S : ~ (<<y, x>> \in OpToRel(<, Nat))
  BY <1>1
<1>3. \A y \in S : ~ (y < x)
  BY <1>2 DEF OpToRel
<1>4. ASSUME NEW y \in S PROVE x <= y
  <2>1. x \in Nat /\ y \in Nat /\ ~ (y < x)
    BY <1>3
  <2> QED BY <2>1
<1>5. \E y \in S : \A z \in S : y <= z
  BY <1>4
<1> QED BY <1>5, Zenon DEF Min

\* What holds of 0 and with every number of its successor holds of all.
LEMMA NatInduct ==
  ASSUME NEW T \in SUBSET Nat, 0 \in T, \A n \in T : n + 1 \in T
  PROVE  T = Nat
<1> DEFINE S == Nat \ T
<1>1. SUFFICES ASSUME S # {} PROVE FALSE
  OBVIOUS
<1>2. Min(S) \in S /\ \A n \in S : Min(S) <= n
  <2>1. S \in SUBSET Nat
    OBVIOUS
  <2> HIDE DEF S
  <2> QED BY <1>1, <2>1, Least
<1>3. PICK x \in S : \A n \in S : x <= n
  BY <1>2
<1>4. x # 0 /\ x - 1 \in Nat /\ (x - 1) + 1 = x
  OBVIOUS
<1>5. x - 1 \in T
  BY <1>3, <1>4
<1> QED BY <1>3, <1>4, <1>5

\* What holds of the empty sequence and stays true when an element is appended
\* holds of every sequence.
LEMMA SeqInduct ==
  ASSUME NEW S, NEW T \in SUBSET Seq(S), <<>> \in T,
         \A p \in T, s \in S : Append(p, s) \in T
  PROVE  T = Seq(S)
<1> DEFINE U == {n \in Nat : \A p \in Seq(S) : Len(p) = n => p \in T}
<1>1. 0 \in U
  <2>1. \A p \in Seq(S) : Len(p) = 0 => p = <<>>
    BY EmptySeq
  <2> QED BY <2>1
<1>2. ASSUME NEW n \in U PROVE n + 1 \in U
  <2>1. SUFFICES ASSUME NEW p \in Seq(S), Len(p) = n + 1 PROVE p \in T
    OBVIOUS
  <2>2. p # <<>>
    BY <2>1, EmptySeq
  <2>3. PICK q \in Seq(S), s \in S : p = Append(q, s)
    BY <2>2, SequenceEmptyOrAppend
  <2>4. Len(q) = n
    BY <2>1, <2>3, AppendProperties, LenProperties
  <2> QED BY <2>3, <2>4
<1>3. U = Nat
  <2>1. U \in SUBSET Nat
    OBVIOUS
  <2> HIDE DEF U
  <2> QED BY <1>1, <1>2, <2>1, NatInduct
<1>4. ASSUME NEW p \in Seq(S) PROVE p \in T
  <2>1. Len(p) \in U
    BY <1>3, LenProperties
  <2> QED BY <2>1
<1> QED BY <1>4

\* f lists the values of folding a step over the prefixes of p up to the N-th.
FoldOf(f, start, step, p, N) ==
  f[0] = start /\ \A n \in 1 .. N : f[n] = step[<<f[n - 1], p[n]>>]

\* Folding a step over a sequence passes through a value for every prefix.
LEMMA Folded ==
  ASSUME NEW A, NEW S, NEW start \in A, NEW step \in [A \X S -> A], NEW p \in Seq(S)
  PROVE  \E f \in [0 .. Len(p) -> A] : FoldOf(f, start, step, p, Len(p))
<1> USE DEF FoldOf
<1> DEFINE Fold(f, N) == FoldOf(f, start, step, p, N)
           T == {N \in Nat : N <= Len(p) => \E f \in [0 .. N -> A] : Fold(f, N)}
<1>a. Len(p) \in Nat /\ \A n \in 1 .. Len(p) : p[n] \in S
  BY LenProperties, ElementOfSeq
<1>1. 0 \in T
  <2> DEFINE f == [n \in 0 .. 0 |-> start]
  <2>1. f \in [0 .. 0 -> A] /\ Fold(f, 0)
    OBVIOUS
  <2> QED BY <2>1
<1>2. ASSUME NEW N \in T PROVE N + 1 \in T
  <2>1. SUFFICES ASSUME N + 1 <= Len(p)
                 PROVE  \E f \in [0 .. N + 1 -> A] : Fold(f, N + 1)
    OBVIOUS
  <2>2. PICK f \in [0 .. N -> A] : Fold(f, N)
    BY <1>a, <2>1
  <2> DEFINE g == [n \in 0 .. N + 1 |-> IF n = N + 1 THEN step[<<f[N], p[N + 1]>>] ELSE f[n]]
  <2>3. p[N + 1] \in S /\ f[N] \in A
    BY <1>a, <2>1
  <2>4. g \in [0 .. N + 1 -> A]
    BY <2>3
  <2>5. \A n \in 0 .. N : g[n] = f[n]
    OBVIOUS
  <2>6. g[N + 1] = step[<<g[N], p[N + 1]>>]
    <3>1. g[N + 1] = step[<<f[N], p[N + 1]>>]
      OBVIOUS
    <3>2. g[N] = f[N]
      BY <2>5
    <3> HIDE DEF g
    <3> QED BY <3>1, <3>2
  <2>7. g[0] = start
    BY <2>2, <2>5
  <2>8. ASSUME NEW n \in 1 .. N + 1 PROVE g[n] = step[<<g[n - 1], p[n]>>]
    <3>1. CASE n = N + 1
      BY <3>1, <2>6
    <3>2. CASE n # N + 1
      <4>1. n \in 1 .. N /\ n - 1 \in 0 .. N /\ n \in 0 .. N
        BY <3>2
      <4> QED BY <2>2, <2>5, <4>1
    <3> QED BY <3>1, <3>2
  <2> HIDE DEF g
  <2> QED BY <2>4, <2>7, <2>8
<1>3. T = Nat
  <2>1. T \in SUBSET Nat
    OBVIOUS
  <2> HIDE DEF T
  <2> QED BY <1>1, <1>2, <2>1, NatInduct
<1>4. Len(p) \in T
  BY <1>3, <1>a
<1> QED BY <1>4, <1>a

-----------------------------------------------------------------------------
(* dedupe_email_sections, section by section                                *)

\* f lists what is kept of the prefixes of p up to the N-th.
KeptOf(f, p, N) ==
  /\ f[0] = <<>>
  /\ \A n \in 1 .. N : f[n] = KeepFirst(f[n - 1], p[n])

Alike(f, g, M, N) == \A n \in M .. N : f[n] = g[n]

LEMMA KeepFirstType ==
  ASSUME NEW S, NEW kept \in Seq(S), NEW s \in S
  PROVE  KeepFirst(kept, s) \in Seq(S)
BY AppendProperties DEF KeepFirst

LEMMA KeptAlike ==
  ASSUME NEW N \in Nat, NEW p, NEW q, NEW f, NEW g,
         Alike(p, q, 1, N), KeptOf(f, p, N), KeptOf(g, q, N)
  PROVE  Alike(f, g, 0, N)
<1> USE DEF Alike, KeptOf
<1> DEFINE T == {n \in Nat : n <= N => f[n] = g[n]}
<1>1. 0 \in T
  OBVIOUS
<1>2. ASSUME NEW n \in T PROVE n + 1 \in T
  <2>1. SUFFICES ASSUME n + 1 <= N PROVE f[n + 1] = g[n + 1]
    OBVIOUS
  <2>2. f[n] = g[n] /\ n + 1 \in 1 .. N /\ (n + 1) - 1 = n
    BY <2>1
  <2> QED BY <2>2
<1>3. T = Nat
  <2>1. T \in SUBSET Nat
    OBVIOUS
  <2> HIDE DEF T
  <2> QED BY <1>1, <1>2, <2>1, NatInduct
<1> QED BY <1>3

LEMMA DedupeSteps ==
  ASSUME NEW S, NEW p \in Seq(S)
  PROVE  \E f \in [0 .. Len(p) -> Seq(S)] : KeptOf(f, p, Len(p)) /\ Dedupe(p) = f[Len(p)]
<1> DEFINE step == [x \in Seq(S) \X S |-> KeepFirst(x[1], x[2])]
           Is(f) == f = [n \in 0 .. Len(p) |-> IF n = 0 THEN <<>> ELSE KeepFirst(f[n - 1], p[n])]
           kept == CHOOSE f : Is(f)
<1>a. Len(p) \in Nat /\ \A n \in 1 .. Len(p) : p[n] \in S
  BY LenProperties, ElementOfSeq
<1>1. step \in [Seq(S) \X S -> Seq(S)]
  BY KeepFirstType
<1>2. PICK f \in [0 .. Len(p) -> Seq(S)] : FoldOf(f, <<>>, step, p, Len(p))
  <2> DEFINE A == Seq(S)
             none == <<>>
  <2>1. none \in A /\ step \in [A \X S -> A]
    BY <1>1, EmptySeq
  <2>2. \E f \in [0 .. Len(p) -> A] : FoldOf(f, none, step, p, Len(p))
    <3> HIDE DEF A, none, step
    <3> QED BY <2>1, Folded
  <2> QED BY <2>2
<1>3. \A n \in 1 .. Len(p) : f[n] = KeepFirst(f[n - 1], p[n])
  <2>1. ASSUME NEW n \in 1 .. Len(p) PROVE f[n - 1] \in Seq(S) /\ p[n] \in S
    BY <1>a
  <2> QED BY <1>2, <2>1 DEF FoldOf
<1>4. Is(f)
  <2>1. ASSUME NEW n \in 0 .. Len(p)
        PROVE  f[n] = IF n = 0 THEN <<>> ELSE KeepFirst(f[n - 1], p[n])
    BY <1>2, <1>3 DEF FoldOf
  <2> QED BY <2>1
<1>5. Is(kept)
  BY <1>4
<1>6. Dedupe(p) = kept[Len(p)]
  BY DEF Dedupe
<1> HIDE DEF kept
<1>7. KeptOf(kept, p, Len(p))
  BY <1>5, <1>a DEF KeptOf
<1>8. KeptOf(f, p, Len(p))
  BY <1>2, <1>3 DEF KeptOf, FoldOf
<1>9. Alike(f, kept, 0, Len(p))
  <2>1. Alike(p, p, 1, Len(p))
    BY DEF Alike
  <2> QED BY <1>7, <1>8, <1>a, <2>1, KeptAlike
<1>10. Dedupe(p) = f[Len(p)]
  BY <1>6, <1>9, <1>a DEF Alike
<1> QED BY <1>2, <1>8, <1>10

LEMMA DedupeEmpty == Dedupe(<<>>) = <<>>
<1>1. <<>> \in Seq({}) /\ Len(<<>>) = 0
  BY EmptySeq
<1>2. PICK f \in [0 .. Len(<<>>) -> Seq({})] : KeptOf(f, <<>>, Len(<<>>)) /\ Dedupe(<<>>) = f[Len(<<>>)]
  BY <1>1, DedupeSteps
<1> QED BY <1>1, <1>2 DEF KeptOf

LEMMA DedupeAppend ==
  ASSUME NEW S, NEW p \in Seq(S), NEW s \in S
  PROVE  Dedupe(Append(p, s)) = KeepFirst(Dedupe(p), s)
<1> DEFINE q == Append(p, s)
<1>1. /\ q \in Seq(S) /\ Len(q) = Len(p) + 1 /\ Len(p) \in Nat
      /\ \A i \in 1 .. Len(p) : q[i] = p[i]
      /\ q[Len(p) + 1] = s
  BY AppendProperties, LenProperties
<1> HIDE DEF q
<1>2. PICK f \in [0 .. Len(p) -> Seq(S)] : KeptOf(f, p, Len(p)) /\ Dedupe(p) = f[Len(p)]
  BY DedupeSteps
<1>3. PICK g \in [0 .. Len(q) -> Seq(S)] : KeptOf(g, q, Len(q)) /\ Dedupe(q) = g[Len(q)]
  BY <1>1, DedupeSteps
<1>4. Alike(p, q, 1, Len(p)) /\ KeptOf(f, p, Len(p)) /\ KeptOf(g, q, Len(p))
  BY <1>1, <1>2, <1>3 DEF KeptOf, Alike
<1>5. Alike(f, g, 0, Len(p))
  <2>1. Len(p) \in Nat
    BY <1>1
  <2> QED BY <1>4, <2>1, KeptAlike
<1>6. g[Len(p) + 1] = KeepFirst(g[Len(p)], s)
  BY <1>1, <1>3 DEF KeptOf
<1>7. Dedupe(q) = KeepFirst(Dedupe(p), s)
  BY <1>1, <1>2, <1>3, <1>5, <1>6 DEF Alike
<1> QED BY <1>7 DEF q

\* f lists what is left of the prefixes of p up to the N-th.
LeftOf(f, titles, p, N) ==
  /\ f[0] = <<>>
  /\ \A n \in 1 .. N : f[n] = LeaveOut(titles, f[n - 1], p[n])

LEMMA LeftAlike ==
  ASSUME NEW N \in Nat, NEW titles, NEW p, NEW q, NEW f, NEW g,
         Alike(p, q, 1, N), LeftOf(f, titles, p, N), LeftOf(g, titles, q, N)
  PROVE  Alike(f, g, 0, N)
<1> USE DEF Alike, LeftOf
<1> DEFINE T == {n \in Nat : n <= N => f[n] = g[n]}
<1>1. 0 \in T
  OBVIOUS
<1>2. ASSUME NEW n \in T PROVE n + 1 \in T
  <2>1. SUFFICES ASSUME n + 1 <= N PROVE f[n + 1] = g[n + 1]
    OBVIOUS
  <2>2. f[n] = g[n] /\ n + 1 \in 1 .. N /\ (n + 1) - 1 = n
    BY <2>1
  <2> QED BY <2>2
<1>3. T = Nat
  <2>1. T \in SUBSET Nat
    OBVIOUS
  <2> HIDE DEF T
  <2> QED BY <1>1, <1>2, <2>1, NatInduct
<1> QED BY <1>3

LEMMA WithoutSteps ==
  ASSUME NEW S, NEW p \in Seq(S), NEW titles
  PROVE  \E f \in [0 .. Len(p) -> Seq(S)] :
           LeftOf(f, titles, p, Len(p)) /\ Without(titles, p) = f[Len(p)]
<1> DEFINE step == [x \in Seq(S) \X S |-> LeaveOut(titles, x[1], x[2])]
           Is(f) == f = [n \in 0 .. Len(p) |->
                           IF n = 0 THEN <<>> ELSE LeaveOut(titles, f[n - 1], p[n])]
           left == CHOOSE f : Is(f)
<1>a. Len(p) \in Nat /\ \A n \in 1 .. Len(p) : p[n] \in S
  BY LenProperties, ElementOfSeq
<1>1. step \in [Seq(S) \X S -> Seq(S)]
  BY AppendProperties DEF LeaveOut
<1>2. PICK f \in [0 .. Len(p) -> Seq(S)] : FoldOf(f, <<>>, step, p, Len(p))
  <2> DEFINE A == Seq(S)
             none == <<>>
  <2>1. none \in A /\ step \in [A \X S -> A]
    BY <1>1, EmptySeq
  <2>2. \E f \in [0 .. Len(p) -> A] : FoldOf(f, none, step, p, Len(p))
    <3> HIDE DEF A, none, step
    <3> QED BY <2>1, Folded
  <2> QED BY <2>2
<1>3. \A n \in 1 .. Len(p) : f[n] = LeaveOut(titles, f[n - 1], p[n])
  <2>1. ASSUME NEW n \in 1 .. Len(p) PROVE f[n - 1] \in Seq(S) /\ p[n] \in S
    BY <1>a
  <2> QED BY <1>2, <2>1 DEF FoldOf
<1>4. Is(f)
  <2>1. ASSUME NEW n \in 0 .. Len(p)
        PROVE  f[n] = IF n = 0 THEN <<>> ELSE LeaveOut(titles, f[n - 1], p[n])
    BY <1>2, <1>3 DEF FoldOf
  <2> QED BY <2>1
<1>5. Is(left)
  BY <1>4
<1>6. Without(titles, p) = left[Len(p)]
  BY DEF Without
<1> HIDE DEF left
<1>7. LeftOf(left, titles, p, Len(p))
  BY <1>5, <1>a DEF LeftOf
<1>8. LeftOf(f, titles, p, Len(p))
  BY <1>2, <1>3 DEF LeftOf, FoldOf
<1>9. Alike(f, left, 0, Len(p))
  <2>1. Alike(p, p, 1, Len(p))
    BY DEF Alike
  <2> QED BY <1>7, <1>8, <1>a, <2>1, LeftAlike
<1>10. Without(titles, p) = f[Len(p)]
  BY <1>6, <1>9, <1>a DEF Alike
<1> QED BY <1>2, <1>8, <1>10

LEMMA WithoutAppend ==
  ASSUME NEW S, NEW p \in Seq(S), NEW s \in S, NEW titles
  PROVE  Without(titles, Append(p, s)) = LeaveOut(titles, Without(titles, p), s)
<1> DEFINE q == Append(p, s)
<1>1. /\ q \in Seq(S) /\ Len(q) = Len(p) + 1 /\ Len(p) \in Nat
      /\ \A i \in 1 .. Len(p) : q[i] = p[i]
      /\ q[Len(p) + 1] = s
  BY AppendProperties, LenProperties
<1> HIDE DEF q
<1>2. PICK f \in [0 .. Len(p) -> Seq(S)] :
        LeftOf(f, titles, p, Len(p)) /\ Without(titles, p) = f[Len(p)]
  BY WithoutSteps
<1>3. PICK g \in [0 .. Len(q) -> Seq(S)] :
        LeftOf(g, titles, q, Len(q)) /\ Without(titles, q) = g[Len(q)]
  BY <1>1, WithoutSteps
<1>4. Alike(p, q, 1, Len(p)) /\ LeftOf(f, titles, p, Len(p)) /\ LeftOf(g, titles, q, Len(p))
  BY <1>1, <1>2, <1>3 DEF LeftOf, Alike
<1>5. Alike(f, g, 0, Len(p))
  <2>1. Len(p) \in Nat
    BY <1>1
  <2> QED BY <1>4, <2>1, LeftAlike
<1>6. g[Len(p) + 1] = LeaveOut(titles, g[Len(p)], s)
  BY <1>1, <1>3 DEF LeftOf
<1>7. Without(titles, q) = LeaveOut(titles, Without(titles, p), s)
  BY <1>1, <1>2, <1>3, <1>5, <1>6 DEF Alike
<1> QED BY <1>7 DEF q

-----------------------------------------------------------------------------
(* What a prompt holds once it was deduplicated                             *)

LEMMA DedupeType ==
  ASSUME NEW S, NEW p \in Seq(S)
  PROVE  Dedupe(p) \in Seq(S)
<1>1. PICK f \in [0 .. Len(p) -> Seq(S)] : KeptOf(f, p, Len(p)) /\ Dedupe(p) = f[Len(p)]
  BY DedupeSteps
<1>2. Len(p) \in 0 .. Len(p)
  BY LenProperties
<1> QED BY <1>1, <1>2

LEMMA TitlesAppend ==
  ASSUME NEW S, NEW p \in Seq(S), NEW s \in S
  PROVE  TitlesOf(Append(p, s)) = TitlesOf(p) \cup {s.title}
<1> DEFINE q == Append(p, s)
<1>1. /\ DOMAIN p = 1 .. Len(p) /\ DOMAIN q = 1 .. Len(p) + 1 /\ Len(p) \in Nat
      /\ \A i \in 1 .. Len(p) : q[i] = p[i]
      /\ q[Len(p) + 1] = s
  BY AppendProperties, LenProperties
<1> HIDE DEF q
<1>2. ASSUME NEW t \in TitlesOf(q) PROVE t \in TitlesOf(p) \cup {s.title}
  BY <1>1 DEF TitlesOf
<1>3. TitlesOf(p) \subseteq TitlesOf(q)
  BY <1>1 DEF TitlesOf
<1>4. s.title \in TitlesOf(q)
  BY <1>1 DEF TitlesOf
<1>5. TitlesOf(q) = TitlesOf(p) \cup {s.title}
  BY <1>2, <1>3, <1>4
<1> QED BY <1>5 DEF q

LEMMA OneMore ==
  ASSUME NEW S, NEW p \in Seq(S), NEW s \in S
  PROVE  HasOneOfEach(Append(p, s)) <=> HasOneOfEach(p) /\ s.title \notin TitlesOf(p)
<1> DEFINE q == Append(p, s)
<1>1. /\ DOMAIN p = 1 .. Len(p) /\ DOMAIN q = 1 .. Len(p) + 1 /\ Len(p) \in Nat
      /\ \A i \in 1 .. Len(p) : q[i] = p[i]
      /\ q[Len(p) + 1] = s
  BY AppendProperties, LenProperties
<1> HIDE DEF q
<1>2. ASSUME HasOneOfEach(q) PROVE HasOneOfEach(p) /\ s.title \notin TitlesOf(p)
  <2>1. HasOneOfEach(p)
    BY <1>1, <1>2 DEF HasOneOfEach
  <2>2. \A i \in DOMAIN p : q[i].title = q[Len(p) + 1].title => i = Len(p) + 1
    BY <1>1, <1>2 DEF HasOneOfEach
  <2>3. \A i \in DOMAIN p : p[i].title # s.title
    BY <1>1, <2>2
  <2> QED BY <2>1, <2>3 DEF TitlesOf
<1>3. ASSUME HasOneOfEach(p), s.title \notin TitlesOf(p) PROVE HasOneOfEach(q)
  <2>1. SUFFICES ASSUME NEW i \in DOMAIN q, NEW j \in DOMAIN q, q[i].title = q[j].title
                 PROVE  i = j
    BY DEF HasOneOfEach
  <2>2. \A n \in 1 .. Len(p) : p[n].title # s.title
    BY <1>1, <1>3 DEF TitlesOf
  <2>3. CASE i \in 1 .. Len(p) /\ j \in 1 .. Len(p)
    BY <1>1, <1>3, <2>1, <2>3 DEF HasOneOfEach
  <2>4. CASE i = Len(p) + 1 \/ j = Len(p) + 1
    BY <1>1, <2>1, <2>2, <2>4
  <2> QED BY <1>1, <2>3, <2>4
<1> QED BY <1>2, <1>3 DEF q

\* A deduplicated prompt has the titles of the prompt, each once.
LEMMA DedupeShape ==
  ASSUME NEW S, NEW p \in Seq(S)
  PROVE  HasOneOfEach(Dedupe(p)) /\ TitlesOf(Dedupe(p)) = TitlesOf(p)
<1> DEFINE T == {q \in Seq(S) : HasOneOfEach(Dedupe(q)) /\ TitlesOf(Dedupe(q)) = TitlesOf(q)}
<1>1. <<>> \in T
  <2>1. HasOneOfEach(<<>>)
    BY DEF HasOneOfEach
  <2> QED BY <2>1, EmptySeq, DedupeEmpty
<1>2. ASSUME NEW q \in T, NEW s \in S PROVE Append(q, s) \in T
  <2>1. Dedupe(Append(q, s)) = KeepFirst(Dedupe(q), s)
    BY DedupeAppend
  <2>2. Dedupe(q) \in Seq(S) /\ Append(q, s) \in Seq(S)
    BY DedupeType, AppendProperties
  <2>3. TitlesOf(Append(q, s)) = TitlesOf(q) \cup {s.title}
    BY TitlesAppend
  <2>4. CASE s.title \in TitlesOf(q)
    <3>1. Dedupe(Append(q, s)) = Dedupe(q)
      BY <2>1, <2>4 DEF KeepFirst
    <3> QED BY <2>2, <2>3, <2>4, <3>1
  <2>5. CASE s.title \notin TitlesOf(q)
    <3>1. Dedupe(Append(q, s)) = Append(Dedupe(q), s)
      BY <2>1, <2>5 DEF KeepFirst
    <3>2. HasOneOfEach(Append(Dedupe(q), s))
      BY <2>2, <2>5, OneMore
    <3>3. TitlesOf(Append(Dedupe(q), s)) = TitlesOf(q) \cup {s.title}
      BY <2>2, TitlesAppend
    <3> QED BY <2>2, <2>3, <3>1, <3>2, <3>3
  <2> QED BY <2>4, <2>5
<1>3. T = Seq(S)
  <2>1. T \in SUBSET Seq(S)
    OBVIOUS
  <2> HIDE DEF T
  <2> QED BY <1>1, <1>2, <2>1, SeqInduct
<1> QED BY <1>3

\* Nothing is left out of a prompt that has one section of each title.
LEMMA DedupeOnce ==
  ASSUME NEW S, NEW p \in Seq(S), HasOneOfEach(p)
  PROVE  Dedupe(p) = p
<1> DEFINE T == {q \in Seq(S) : HasOneOfEach(q) => Dedupe(q) = q}
<1>1. <<>> \in T
  BY EmptySeq, DedupeEmpty
<1>2. ASSUME NEW q \in T, NEW s \in S PROVE Append(q, s) \in T
  <2>1. SUFFICES ASSUME HasOneOfEach(Append(q, s)) PROVE Dedupe(Append(q, s)) = Append(q, s)
    BY AppendProperties
  <2>2. HasOneOfEach(q) /\ s.title \notin TitlesOf(q)
    BY <2>1, OneMore
  <2>3. Dedupe(Append(q, s)) = KeepFirst(Dedupe(q), s)
    BY DedupeAppend
  <2> QED BY <2>2, <2>3 DEF KeepFirst
<1>3. T = Seq(S)
  <2>1. T \in SUBSET Seq(S)
    OBVIOUS
  <2> HIDE DEF T
  <2> QED BY <1>1, <1>2, <2>1, SeqInduct
<1> QED BY <1>3

-----------------------------------------------------------------------------
(* merge_self_improvement_addendum                                          *)

LEMMA TitlesConcat ==
  ASSUME NEW S, NEW p \in Seq(S), NEW q \in Seq(S)
  PROVE  TitlesOf(p \o q) = TitlesOf(p) \cup TitlesOf(q)
<1> DEFINE r == p \o q
<1>1. /\ DOMAIN p = 1 .. Len(p) /\ DOMAIN q = 1 .. Len(q) /\ DOMAIN r = 1 .. Len(p) + Len(q)
      /\ Len(p) \in Nat /\ Len(q) \in Nat
      /\ \A i \in 1 .. Len(p) + Len(q) : r[i] = IF i <= Len(p) THEN p[i] ELSE q[i - Len(p)]
  BY ConcatProperties, LenProperties
<1> HIDE DEF r
<1>2. ASSUME NEW i \in DOMAIN r PROVE r[i].title \in TitlesOf(p) \cup TitlesOf(q)
  <2>1. CASE i <= Len(p)
    BY <1>1, <2>1 DEF TitlesOf
  <2>2. CASE ~ (i <= Len(p))
    <3>1. i - Len(p) \in DOMAIN q /\ r[i] = q[i - Len(p)]
      BY <1>1, <2>2
    <3> QED BY <3>1 DEF TitlesOf
  <2> QED BY <2>1, <2>2
<1>3. ASSUME NEW i \in DOMAIN p PROVE p[i].title \in TitlesOf(r)
  <2>1. i \in DOMAIN r /\ r[i] = p[i]
    BY <1>1
  <2> QED BY <2>1 DEF TitlesOf
<1>4. ASSUME NEW i \in DOMAIN q PROVE q[i].title \in TitlesOf(r)
  <2>1. Len(p) + i \in DOMAIN r /\ r[Len(p) + i] = q[i]
    BY <1>1
  <2> QED BY <2>1 DEF TitlesOf
<1>5. TitlesOf(r) = TitlesOf(p) \cup TitlesOf(q)
  BY <1>2, <1>3, <1>4 DEF TitlesOf
<1> QED BY <1>5 DEF r

LEMMA OneSection ==
  ASSUME NEW S, NEW s \in S
  PROVE  <<s>> \in Seq(S) /\ TitlesOf(<<s>>) = {s.title}
<1>1. <<s>> = Append(<<>>, s)
  OBVIOUS
<1>2. TitlesOf(<<>>) = {}
  BY DEF TitlesOf
<1>3. <<s>> \in Seq(S)
  OBVIOUS
<1>4. TitlesOf(<<s>>) = {s.title}
  <2>1. <<>> \in Seq(S)
    BY EmptySeq
  <2>2. TitlesOf(Append(<<>>, s)) = TitlesOf(<<>>) \cup {s.title}
    BY <2>1, TitlesAppend
  <2> QED BY <1>1, <1>2, <2>2
<1> QED BY <1>3, <1>4

\* In m the directive d stands behind the header of p's addendum, which was
\* appended with it if p has none.
Merged(S, p, d, m) ==
  \/ m = (p \o <<Own(Header)>>) \o d
  \/ \E a, b \in Seq(S) :
       p = a \o b /\ Header \in TitlesOf(a) /\ m = Dedupe((a \o d) \o b)

LEMMA MergePlace ==
  ASSUME NEW S, NEW p \in Seq(S), NEW d \in Seq(S)
  PROVE  Merged(S, p, d, Merge(p, d))
<1> USE DEF Merged
<1> DEFINE I == {i \in 1 .. Len(p) : p[i].title = Header}
           at == IF I # {} THEN Min(I) ELSE 0
<1>a. Len(p) \in Nat /\ DOMAIN p = 1 .. Len(p) /\ \A i \in 1 .. Len(p) : p[i] \in S
  BY LenProperties, ElementOfSeq
<1>1. Merge(p, d) = IF at = 0 THEN (p \o <<Own(Header)>>) \o d
                    ELSE Dedupe((SubSeq(p, 1, at) \o d) \o SubSeq(p, at + 1, Len(p)))
  BY DEF Merge, SelectInSeq
<1>2. CASE at = 0
  BY <1>1, <1>2
<1>3. CASE at # 0
  <2>1. at \in I
    <3>1. I # {} /\ I \in SUBSET Nat
      BY <1>3
    <3>2. Min(I) \in I
      <4> HIDE DEF I
      <4> QED BY <3>1, Least
    <3> QED BY <3>1, <3>2
  <2>2. at \in 1 .. Len(p) /\ p[at].title = Header
    BY <2>1
  <2> HIDE DEF at, I
  <2> DEFINE a == SubSeq(p, 1, at)
             b == SubSeq(p, at + 1, Len(p))
  <2>3. /\ a \in Seq(S) /\ Len(a) = at /\ a[at] = p[at]
        /\ b \in Seq(S)
    <3>1. 1 \in Int /\ at \in Int /\ at + 1 \in Int /\ Len(p) \in Int
      BY <1>a, <2>2
    <3>2. \A i \in 1 .. at : p[i] \in S
      BY <1>a, <2>2
    <3>3. \A i \in at + 1 .. Len(p) : p[i] \in S
      BY <1>a, <2>2
    <3>4. /\ a \in Seq(S) /\ Len(a) = IF 1 <= at THEN at - 1 + 1 ELSE 0
          /\ \A i \in 1 .. at - 1 + 1 : a[i] = p[1 + i - 1]
      BY <3>1, <3>2, SubSeqProperties
    <3>5. b \in Seq(S)
      BY <3>1, <3>3, SubSeqProperties
    <3> HIDE DEF a, b
    <3> QED BY <2>2, <3>4, <3>5
  <2>4. p = a \o b
    <3>1. 1 \in 1 .. Len(p) + 1 /\ at \in 1 - 1 .. Len(p) /\ Len(p) \in at .. Len(p)
      BY <1>a, <2>2
    <3>2. a \o b = SubSeq(p, 1, Len(p))
      BY <3>1, ConcatAdjacentSubSeq
    <3>3. SubSeq(p, 1, Len(p)) = p
      BY SubSeqFull
    <3> QED BY <3>2, <3>3
  <2>5. Merge(p, d) = Dedupe((a \o d) \o b)
    BY <1>1, <1>3
  <2>6. Header \in TitlesOf(a)
    <3>1. at \in DOMAIN a
      BY <2>2, <2>3, LenProperties
    <3> HIDE DEF a
    <3> QED BY <2>2, <2>3, <3>1 DEF TitlesOf
  <2> HIDE DEF a, b
  <2> QED BY <2>3, <2>4, <2>5, <2>6
<1> QED BY <1>2, <1>3

LEMMA MergeType ==
  ASSUME NEW S, NEW p \in Seq(S), NEW d \in Seq(S), Own(Header) \in S
  PROVE  Merge(p, d) \in Seq(S)
<1>1. CASE Merge(p, d) = (p \o <<Own(Header)>>) \o d
  BY <1>1, OneSection, ConcatProperties
<1>2. CASE \E a, b \in Seq(S) :
             p = a \o b /\ Header \in TitlesOf(a) /\ Merge(p, d) = Dedupe((a \o d) \o b)
  <2>1. PICK a \in Seq(S), b \in Seq(S) : Merge(p, d) = Dedupe((a \o d) \o b)
    BY <1>2
  <2>2. (a \o d) \o b \in Seq(S)
    BY ConcatProperties
  <2> QED BY <2>1, <2>2, DedupeType
<1> QED BY <1>1, <1>2, MergePlace DEF Merged

\* A section of one of these titles, put anywhere into a prompt, leaves the other
\* sections as they are.
LEMMA InsertLeaves ==
  ASSUME NEW S, NEW a \in Seq(S), NEW s \in S, NEW titles, s.title \in titles, NEW b \in Seq(S),
         NEW d, d = <<s>>
  PROVE  Without(titles, Dedupe((a \o d) \o b)) = Without(titles, Dedupe(a \o b))
<1> DEFINE New(c) == (a \o d) \o c
           Old(c) == a \o c
           T == {c \in Seq(S) :
                   /\ Without(titles, Dedupe(New(c))) = Without(titles, Dedupe(Old(c)))
                   /\ TitlesOf(New(c)) \cup titles = TitlesOf(Old(c)) \cup titles}
<1>a. \A c \in Seq(S) : New(c) \in Seq(S) /\ Old(c) \in Seq(S)
  BY OneSection, ConcatProperties
<1>1. <<>> \in T
  <2>1. New(<<>>) = Append(a, s) /\ Old(<<>>) = a /\ <<>> \in Seq(S)
    <3>1. a \o d \in Seq(S) /\ a \o d = Append(a, s) /\ <<>> \in Seq(S)
      BY OneSection, ConcatProperties, AppendIsConcat, EmptySeq
    <3> QED BY <3>1, ConcatEmptySeq
  <2>2. Without(titles, Dedupe(Append(a, s))) = Without(titles, Dedupe(a))
    <3>1. Dedupe(Append(a, s)) = KeepFirst(Dedupe(a), s) /\ Dedupe(a) \in Seq(S)
      BY DedupeAppend, DedupeType
    <3>2. Without(titles, Append(Dedupe(a), s)) = Without(titles, Dedupe(a))
      BY <3>1, WithoutAppend DEF LeaveOut
    <3> QED BY <3>1, <3>2 DEF KeepFirst
  <2>3. TitlesOf(Append(a, s)) \cup titles = TitlesOf(a) \cup titles
    BY TitlesAppend
  <2> QED BY <2>1, <2>2, <2>3
<1>2. ASSUME NEW c \in T, NEW e \in S PROVE Append(c, e) \in T
  <2> DEFINE n == New(c)
             o == Old(c)
  <2>1. n \in Seq(S) /\ o \in Seq(S) /\ Append(c, e) \in Seq(S)
    BY <1>a, AppendProperties
  <2>2. New(Append(c, e)) = Append(n, e) /\ Old(Append(c, e)) = Append(o, e)
    <3>1. <<e>> \in Seq(S) /\ a \o d \in Seq(S) /\ Append(c, e) = c \o <<e>>
      BY OneSection, ConcatProperties, AppendIsConcat
    <3>2. ((a \o d) \o c) \o <<e>> = (a \o d) \o (c \o <<e>>)
      BY <3>1, ConcatAssociative
    <3>3. (a \o c) \o <<e>> = a \o (c \o <<e>>)
      BY <3>1, ConcatAssociative
    <3>4. Append(n, e) = n \o <<e>> /\ Append(o, e) = o \o <<e>>
      BY <2>1, AppendIsConcat
    <3> QED BY <3>1, <3>2, <3>3, <3>4
  <2>3. /\ Without(titles, Dedupe(n)) = Without(titles, Dedupe(o))
        /\ TitlesOf(n) \cup titles = TitlesOf(o) \cup titles
    OBVIOUS
  <2> HIDE DEF n, o, New, Old
  <2>4. /\ Dedupe(Append(n, e)) = KeepFirst(Dedupe(n), e)
        /\ Dedupe(Append(o, e)) = KeepFirst(Dedupe(o), e)
        /\ Dedupe(n) \in Seq(S) /\ Dedupe(o) \in Seq(S)
        /\ TitlesOf(Dedupe(n)) = TitlesOf(n) /\ TitlesOf(Dedupe(o)) = TitlesOf(o)
    BY <2>1, DedupeAppend, DedupeType, DedupeShape
  <2>5. /\ Without(titles, Append(Dedupe(n), e)) = LeaveOut(titles, Without(titles, Dedupe(n)), e)
        /\ Without(titles, Append(Dedupe(o), e)) = LeaveOut(titles, Without(titles, Dedupe(o)), e)
    BY <2>4, WithoutAppend
  <2>6. TitlesOf(Append(n, e)) \cup titles = TitlesOf(Append(o, e)) \cup titles
    <3>1. TitlesOf(Append(n, e)) = TitlesOf(n) \cup {e.title}
      BY <2>1, TitlesAppend
    <3>2. TitlesOf(Append(o, e)) = TitlesOf(o) \cup {e.title}
      BY <2>1, TitlesAppend
    <3> QED BY <2>3, <3>1, <3>2
  <2>7. Without(titles, Dedupe(Append(n, e))) = Without(titles, Dedupe(Append(o, e)))
    <3>1. CASE e.title \in titles
      BY <2>3, <2>4, <2>5, <3>1 DEF LeaveOut, KeepFirst
    <3>2. CASE e.title \notin titles
      <4>1. e.title \in TitlesOf(n) <=> e.title \in TitlesOf(o)
        BY <2>3, <3>2
      <4> QED BY <2>3, <2>4, <2>5, <4>1 DEF KeepFirst
    <3> QED BY <3>1, <3>2
  <2>8. Without(titles, Dedupe(New(Append(c, e)))) = Without(titles, Dedupe(Old(Append(c, e))))
    BY <2>2, <2>7
  <2>9. TitlesOf(New(Append(c, e))) \cup titles = TitlesOf(Old(Append(c, e))) \cup titles
    BY <2>2, <2>6
  <2> QED BY <2>1, <2>8, <2>9
<1>3. T = Seq(S)
  <2>1. T \in SUBSET Seq(S)
    OBVIOUS
  <2> HIDE DEF T
  <2> QED BY <1>1, <1>2, <2>1, SeqInduct
<1> QED BY <1>3

\* What is stored after a merge has the addendum and one section of the directive,
\* and the other sections of what would have been stored without it.
LEMMA MergeKeeps ==
  ASSUME NEW S, NEW p \in Seq(S), NEW kind, Own(kind) \in S, Own(Header) \in S
  PROVE  Keeps(Dedupe(p), Dedupe(Merge(p, Directive(kind))), kind)
<1> DEFINE d == Directive(kind)
           m == Merge(p, d)
           titles == {Header, kind}
           h == Own(Header)
           e == Own(kind)
           f == <<h>>
<1>1. /\ d = <<e>> /\ f = <<h>> /\ e.title = kind /\ h.title = Header
      /\ e \in S /\ h \in S /\ e.title \in titles /\ h.title \in titles
  BY DEF Directive, Own, Section
<1>2. d \in Seq(S) /\ TitlesOf(d) = {kind} /\ f \in Seq(S) /\ TitlesOf(f) = {Header}
  <2> HIDE DEF d, e, h, f
  <2> QED BY <1>1, OneSection
<1>3. m \in Seq(S)
  BY <1>2, MergeType
<1>4. \/ m = (p \o f) \o d
      \/ \E a, b \in Seq(S) :
           p = a \o b /\ Header \in TitlesOf(a) /\ m = Dedupe((a \o d) \o b)
  <2>1. Merged(S, p, d, m)
    <3>1. d \in Seq(S)
      BY <1>2
    <3> HIDE DEF d
    <3> QED BY <3>1, MergePlace
  <2> QED BY <2>1 DEF Merged
<1>5. titles = {Header, kind}
  OBVIOUS
<1> HIDE DEF d, m, h, e, f, titles
<1>6. ASSUME m = (p \o f) \o d PROVE Keeps(Dedupe(p), Dedupe(m), kind)
  <2>1. PICK q \in Seq(S) : q = p \o f
    BY <1>2, ConcatProperties
  <2>2. TitlesOf(q) = TitlesOf(p) \cup {Header}
    BY <1>2, <2>1, TitlesConcat
  <2>3. TitlesOf(q \o d) = TitlesOf(q) \cup {kind}
    BY <1>2, TitlesConcat
  <2>4. TitlesOf(Dedupe(m)) = TitlesOf(m)
    BY <1>3, DedupeShape
  <2>5. titles \subseteq TitlesOf(Dedupe(m))
    BY <1>5, <1>6, <2>1, <2>2, <2>3, <2>4
  <2>6. PICK none \in Seq(S) : none = <<>>
    BY EmptySeq
  <2>7. Without(titles, Dedupe((p \o f) \o none)) = Without(titles, Dedupe(p \o none))
    BY <1>1, InsertLeaves
  <2>8. Without(titles, Dedupe((q \o d) \o none)) = Without(titles, Dedupe(q \o none))
    BY <1>1, InsertLeaves
  <2>9. p \o none = p /\ q \o none = q /\ m \o none = m
    BY <1>3, <2>6, ConcatEmptySeq
  <2>10. Without(titles, Dedupe(m)) = Without(titles, Dedupe(p))
    BY <1>1, <1>6, <2>1, <2>7, <2>8, <2>9
  <2> QED BY <1>5, <2>5, <2>10 DEF Keeps
<1>7. ASSUME \E a, b \in Seq(S) :
               p = a \o b /\ Header \in TitlesOf(a) /\ m = Dedupe((a \o d) \o b)
      PROVE  Keeps(Dedupe(p), Dedupe(m), kind)
  <2>1. PICK a \in Seq(S), b \in Seq(S) :
          p = a \o b /\ Header \in TitlesOf(a) /\ m = Dedupe((a \o d) \o b)
    BY <1>7
  <2>2. PICK c \in Seq(S) : c = a \o d
    BY <1>2, ConcatProperties
  <2>3. PICK n \in Seq(S) : n = c \o b
    BY ConcatProperties
  <2>4. Dedupe(m) = Dedupe(n)
    <3>1. Dedupe(n) \in Seq(S) /\ HasOneOfEach(Dedupe(n))
      BY DedupeType, DedupeShape
    <3>2. Dedupe(Dedupe(n)) = Dedupe(n)
      BY <3>1, DedupeOnce
    <3> QED BY <2>1, <2>2, <2>3, <3>2
  <2>5. titles \subseteq TitlesOf(Dedupe(n))
    <3>1. TitlesOf(c) = TitlesOf(a) \cup {kind}
      BY <1>2, <2>2, TitlesConcat
    <3>2. TitlesOf(n) = TitlesOf(c) \cup TitlesOf(b)
      BY <2>3, TitlesConcat
    <3>3. TitlesOf(Dedupe(n)) = TitlesOf(n)
      BY DedupeShape
    <3> QED BY <1>5, <2>1, <3>1, <3>2, <3>3
  <2>6. Without(titles, Dedupe((a \o d) \o b)) = Without(titles, Dedupe(a \o b))
    BY <1>1, InsertLeaves
  <2> QED BY <1>1, <1>5, <2>1, <2>2, <2>3, <2>4, <2>5, <2>6 DEF Keeps
<1>8. Keeps(Dedupe(p), Dedupe(m), kind)
  BY <1>4, <1>6, <1>7
<1> QED BY <1>8 DEF m, d

-----------------------------------------------------------------------------
(* Texts of a workspace                                                     *)

\* The sections that the code or an editor of w has written.
Theirs(w) == {s \in Sections : s.from \in {w, "code"}}

LEMMA OwnSections ==
  ASSUME NEW w \in Workspaces
  PROVE  /\ Theirs(w) \subseteq Sections
         /\ \A t \in Titles : Own(t) \in Theirs(w)
         /\ \A t \in Titles, n \in 0 .. MaxEdits : Section(t, w, n) \in Theirs(w)
BY PromptsAssumption DEF Theirs, Sections, Own, Section

LEMMA KnownTitles ==
  /\ Kinds \subseteq Titles /\ Header \in Titles /\ "EXAMPLE" \in Titles
  /\ Rewritten \subseteq Titles
BY DEF Titles

LEMMA DefaultOwn ==
  ASSUME NEW w \in Workspaces
  PROVE  DefaultBody \in Seq(Theirs(w)) /\ Legacy \in Seq(Theirs(w))
<1> DEFINE s == Own("EXAMPLE")
<1>1. s \in Theirs(w)
  BY OwnSections, KnownTitles
<1>2. <<s>> \in Seq(Theirs(w))
  <2> HIDE DEF s
  <2> QED BY <1>1, OneSection
<1>3. DefaultBody \in Seq(Theirs(w))
  BY <1>2 DEF DefaultBody
<1> QED BY <1>3, ConcatProperties DEF Legacy

LEMMA DirectiveOwn ==
  ASSUME NEW w \in Workspaces, NEW kind \in Kinds
  PROVE  Directive(kind) \in Seq(Theirs(w))
<1> DEFINE s == Own(kind)
<1>1. s \in Theirs(w)
  BY OwnSections, KnownTitles
<1>2. <<s>> \in Seq(Theirs(w))
  <2> HIDE DEF s
  <2> QED BY <1>1, OneSection
<1> QED BY <1>2 DEF Directive

\* What an operator makes of a prompt has its sections and the editor's.
LEMMA EditsOwn ==
  ASSUME NEW S, NEW p \in Seq(S), NEW w, NEW n,
         \A t \in Rewritten : Section(t, w, n) \in S,
         NEW q \in EditsOf(p, w, n)
  PROVE  q \in Seq(S)
<1> DEFINE touched == {i \in DOMAIN p : p[i].title \in Rewritten}
<1>a. Len(p) \in Nat /\ DOMAIN p = 1 .. Len(p) /\ \A i \in 1 .. Len(p) : p[i] \in S
  BY LenProperties, ElementOfSeq
<1>1. ASSUME NEW i \in touched, q = [p EXCEPT ![i] = Section(p[i].title, w, n)]
      PROVE  q \in Seq(S)
  <2> DEFINE e == Section(p[i].title, w, n)
  <2>1. e \in S /\ i \in 1 .. Len(p)
    BY <1>a
  <2> HIDE DEF e
  <2>2. [p EXCEPT ![i] = e] \in Seq(S)
    BY <2>1, ExceptSeq
  <2> QED BY <1>1, <2>2 DEF e
<1>2. ASSUME NEW i \in touched, q = RemoveAt(p, i) PROVE q \in Seq(S)
  <2> DEFINE a == SubSeq(p, 1, i - 1)
             b == SubSeq(p, i + 1, Len(p))
  <2>1. 1 \in Int /\ i - 1 \in Int /\ i + 1 \in Int /\ Len(p) \in Int
    BY <1>a
  <2>2. (\A j \in 1 .. i - 1 : p[j] \in S) /\ (\A j \in i + 1 .. Len(p) : p[j] \in S)
    BY <1>a
  <2>3. a \in Seq(S)
    BY <2>1, <2>2, SubSeqProperties
  <2>4. b \in Seq(S)
    BY <2>1, <2>2, SubSeqProperties
  <2>5. q = a \o b
    BY <1>2 DEF RemoveAt
  <2> HIDE DEF a, b
  <2> QED BY <2>3, <2>4, <2>5, ConcatProperties
<1>3. ASSUME NEW t \in Rewritten, q = Append(p, Section(t, w, n)) PROVE q \in Seq(S)
  <2> DEFINE e == Section(t, w, n)
  <2>1. e \in S
    OBVIOUS
  <2> HIDE DEF e
  <2>2. Append(p, e) \in Seq(S)
    BY <2>1, AppendProperties
  <2> QED BY <1>3, <2>2 DEF e
<1>4. \/ \E i \in touched : q = [p EXCEPT ![i] = Section(p[i].title, w, n)]
      \/ \E i \in touched : q = RemoveAt(p, i)
      \/ \E t \in Rewritten : q = Append(p, Section(t, w, n))
  BY DEF EditsOf
<1> QED BY <1>1, <1>2, <1>3, <1>4

-----------------------------------------------------------------------------
(* What diagnose proposes                                                   *)

\* The fields of a report are counts; no hours are negative but for a delivery
\* that there is none of.
LEMMA ReportFields ==
  ASSUME NEW report \in Reports
  PROVE  /\ report.sent \in Nat /\ report.contacted \in Nat /\ report.opens \in Nat
         /\ report.unique \in Nat \cup {-1} /\ report.replies \in Nat /\ report.bounces \in Nat
         /\ report.positive \in Nat /\ report.opportunities \in Nat
         /\ report.contacts \in SUBSET Nat /\ report.local \in Nat \cup {-1}
BY PromptsAssumption DEF Report

\* A proposal is made of one of two bottlenecks.
LEMMA ProposedKind ==
  ASSUME NEW report \in Reports, Actionable(report)
  PROVE  Diagnosis(report).kind \in Kinds
BY DEF Actionable, Diagnosis, Finding, Kinds

\* What the report of a proposal shows.
RipeReport(report, kind) ==
  /\ report.sent >= 50 /\ ~BounceHigh(report)
  /\ kind = "open_rate" <=> OpenLow(report)
  /\ kind = "reply_rate" =>
       /\ ReplyLow(report)
       /\ report.positive = 0 /\ report.opportunities = 0
       /\ \A hours \in report.contacts : hours >= 48
       /\ report.contacts = {} => report.local \notin 0 .. 47
  /\ Diagnosis(report).status = "ready_for_approval" => report.sent >= 200

LEMMA ProposedRipe ==
  ASSUME NEW report \in Reports, Actionable(report)
  PROVE  RipeReport(report, Diagnosis(report).kind)
<1>a. /\ report.sent \in Nat /\ report.positive \in Nat /\ report.opportunities \in Nat
      /\ report.contacts \in SUBSET Nat /\ report.local \in Nat \cup {-1}
  BY ReportFields
<1>1. ~ BounceHigh(report) /\ report.sent # 0
  BY DEF Actionable, Diagnosis, Finding
<1>2. ASSUME PromptChange(report.sent) \in {"draft", "ready_for_approval"}
      PROVE  /\ report.sent >= 50
             /\ PromptChange(report.sent) = "ready_for_approval" => report.sent >= 200
  <2>1. CASE report.sent < 50
    BY <1>2, <2>1 DEF PromptChange, Confidence
  <2>2. CASE ~ (report.sent < 50) /\ report.sent < 200
    BY <1>a, <1>2, <2>2 DEF PromptChange, Confidence
  <2>3. CASE ~ (report.sent < 50) /\ ~ (report.sent < 200)
    BY <1>a, <2>3
  <2> QED BY <2>1, <2>2, <2>3
<1>3. CASE OpenLow(report)
  <2>1. Diagnosis(report) = Finding("open_rate", PromptChange(report.sent))
    BY <1>1, <1>3 DEF Diagnosis
  <2>2. Diagnosis(report).kind = "open_rate" /\ Diagnosis(report).status = PromptChange(report.sent)
    BY <2>1 DEF Finding
  <2> QED BY <1>1, <1>2, <1>3, <2>2 DEF RipeReport, Actionable
<1>4. CASE ~ OpenLow(report)
  <2>1. ReplyLow(report) /\ Diagnosis(report) = Finding("reply_rate", DiagnoseReplies(report))
    BY <1>1, <1>4 DEF Diagnosis, Actionable, Finding
  <2>2. /\ Diagnosis(report).kind = "reply_rate"
        /\ Diagnosis(report).status = DiagnoseReplies(report)
        /\ DiagnoseReplies(report) \in {"draft", "ready_for_approval"}
    BY <2>1 DEF Finding, Actionable
  <2>3. /\ ~ TooFresh(report, 48) /\ ~ Positive(report)
        /\ DiagnoseReplies(report) = PromptChange(report.sent)
    BY <2>2 DEF DiagnoseReplies
  <2>4. report.positive = 0 /\ report.opportunities = 0
    BY <1>a, <2>3 DEF Positive
  <2>5. ASSUME NEW hours \in report.contacts PROVE hours >= 48
    <3>1. HoursSince(report) \in report.contacts /\ HoursSince(report) <= hours
      BY <1>a, <2>5, Least DEF HoursSince
    <3>2. HoursSince(report) \in Nat /\ ~ (HoursSince(report) < 48) /\ hours \in Nat
      BY <1>a, <2>3, <3>1 DEF TooFresh
    <3> HIDE DEF HoursSince
    <3> QED BY <3>1, <3>2
  <2>6. ASSUME report.contacts = {} PROVE report.local \notin 0 .. 47
    <3>1. HoursSince(report) = report.local
      BY <2>6 DEF HoursSince
    <3>2. ~ (report.local >= 0 /\ report.local < 48)
      BY <2>3, <3>1 DEF TooFresh
    <3> QED BY <1>a, <3>2
  <2> QED BY <1>1, <1>2, <1>4, <2>1, <2>2, <2>3, <2>4, <2>5, <2>6 DEF RipeReport
<1> QED BY <1>3, <1>4

-----------------------------------------------------------------------------
(* Types                                                                    *)

\* The rows are proposals, of the kind that diagnose has found.
Proposals ==
  \A r \in DOMAIN recs :
    Actionable(recs[r].report) /\ recs[r].kind = Diagnosis(recs[r].report).kind

\* A call that is about to insert holds one actionable report; one that works on a
\* row knows it and its workspace.
Busy(job) ==
  /\ job \in Call
  /\ job.rec \in 0 .. Len(recs)
  /\ job.pc = "saving" => \E report \in Reports : job.report = {report} /\ Actionable(report)
  /\ job.pc \in {"approving", "applying", "restoring"}
       => job.rec \in DOMAIN recs /\ job.ws = recs[job.rec].ws

Working == calls \in [Calls -> Call] /\ \A k \in Calls : Busy(calls[k])

Tables ==
  /\ overlay \in [Workspaces -> Prompt]
  /\ recs \in Seq(Rec) /\ Len(recs) <= MaxRecs
  /\ edits \in 0 .. MaxEdits /\ faults \in 0 .. MaxFaults
  /\ applied \in Seq(Approval) /\ Len(applied) = Len(recs)
  /\ lost \subseteq DOMAIN recs /\ borrowed \subseteq Workspaces
  /\ Proposals

Typed == Tables /\ Working

LEMMA TypedTypes == Typed => TypeOK
BY DEF Typed, Tables, Working, Busy, TypeOK

LEMMA PromptTypes ==
  /\ <<>> \in Prompt
  /\ DefaultBody \in Prompt /\ Legacy \in Prompt
  /\ \A p \in Prompt : Stored(p) \in Prompt
  /\ \A p \in Prompt, kind \in Kinds : Merge(p, Directive(kind)) \in Prompt
<1>1. DefaultWorkspace \in Workspaces
  BY PromptsAssumption
<1>2. Theirs(DefaultWorkspace) \subseteq Sections
  BY <1>1, OwnSections
<1>3. DefaultBody \in Prompt /\ Legacy \in Prompt
  BY <1>1, <1>2, DefaultOwn, SeqMonotonic DEF Prompt
<1>4. \A p \in Prompt : Stored(p) \in Prompt
  BY DedupeType DEF Prompt, Stored
<1>5. ASSUME NEW p \in Prompt, NEW kind \in Kinds PROVE Merge(p, Directive(kind)) \in Prompt
  <2>1. Directive(kind) \in Seq(Sections)
    BY <1>1, <1>2, DirectiveOwn, SeqMonotonic
  <2>2. Own(Header) \in Sections
    BY <1>1, <1>2, OwnSections, KnownTitles
  <2> QED BY <2>1, <2>2, MergeType DEF Prompt
<1> QED BY <1>3, <1>4, <1>5, EmptySeq DEF Prompt

LEMMA IdleBusy == ASSUME Typed PROVE Busy(Idle)
<1>1. Idle \in Call
  BY PromptsAssumption, PromptTypes DEF Idle, Call, Proposed, Approval
<1>2. Idle.rec = 0 /\ Idle.pc = "idle"
  BY DEF Idle
<1> QED BY <1>1, <1>2, LenProperties DEF Busy, Typed, Tables

\* Rows stay where they are and keep their workspace and their kind.
RecsKept ==
  /\ Len(recs') >= Len(recs)
  /\ \A r \in DOMAIN recs : recs'[r].ws = recs[r].ws /\ recs'[r].kind = recs[r].kind

\* The other calls go on with what they hold.
LEMMA OthersWork ==
  ASSUME Typed, Tables', RecsKept,
         \/ calls' = calls
         \/ \E k \in Calls : \E job \in {calls'[k]} :
              calls' = [calls EXCEPT ![k] = job] /\ Busy(job)'
  PROVE  Working'
<1>a. /\ DOMAIN recs = 1 .. Len(recs) /\ Len(recs) \in Nat
      /\ DOMAIN recs' = 1 .. Len(recs') /\ Len(recs') \in Nat
  BY LenProperties DEF Typed, Tables
<1>1. ASSUME NEW k \in Calls, calls'[k] = calls[k] PROVE Busy(calls[k])'
  <2>1. Busy(calls[k])
    BY DEF Typed, Working
  <2>2. \A n \in 0 .. Len(recs) : n \in 0 .. Len(recs')
    BY <1>a DEF RecsKept
  <2>3. \A n \in DOMAIN recs : n \in DOMAIN recs' /\ recs'[n].ws = recs[n].ws
    BY <1>a DEF RecsKept
  <2> QED BY <1>1, <2>1, <2>2, <2>3 DEF Busy
<1>2. CASE calls' = calls
  BY <1>1, <1>2 DEF Typed, Working
<1>3. ASSUME NEW k \in Calls, NEW job \in {calls'[k]},
             calls' = [calls EXCEPT ![k] = job], Busy(job)'
      PROVE  Working'
  <2>1. calls' \in [Calls -> Call]
    BY <1>3 DEF Typed, Working, Busy
  <2>2. \A j \in Calls : j # k => calls'[j] = calls[j]
    BY <1>3 DEF Typed, Working
  <2>3. Busy(calls[k])'
    BY <1>3
  <2> QED BY <1>1, <2>1, <2>2, <2>3 DEF Working
<1> QED BY <1>2, <1>3

LEMMA RowWritten ==
  ASSUME Typed, NEW r \in DOMAIN recs, NEW row \in Rec, recs' = [recs EXCEPT ![r] = row],
         row.ws = recs[r].ws, row.kind = recs[r].kind, row.report = recs[r].report
  PROVE  /\ recs' \in Seq(Rec) /\ Len(recs') = Len(recs) /\ DOMAIN recs' = DOMAIN recs
         /\ Proposals' /\ RecsKept
<1>1. recs \in Seq(Rec) /\ DOMAIN recs = 1 .. Len(recs) /\ Len(recs) \in Nat
  BY LenProperties DEF Typed, Tables
<1>2. /\ recs' \in Seq(Rec) /\ Len(recs') = Len(recs)
      /\ \A j \in 1 .. Len(recs) : recs'[j] = IF j = r THEN row ELSE recs[j]
  BY <1>1, ExceptSeq
<1>3. DOMAIN recs' = 1 .. Len(recs')
  BY <1>2, LenProperties
<1>4. \A j \in DOMAIN recs : /\ recs'[j].ws = recs[j].ws /\ recs'[j].kind = recs[j].kind
                             /\ recs'[j].report = recs[j].report
  BY <1>1, <1>2
<1>5. Proposals'
  BY <1>1, <1>2, <1>3, <1>4 DEF Proposals, Typed, Tables
<1> QED BY <1>1, <1>2, <1>3, <1>4, <1>5 DEF RecsKept

LEMMA ApprovalWritten ==
  ASSUME Typed, NEW r \in DOMAIN recs, NEW e \in Approval, applied' = [applied EXCEPT ![r] = e]
  PROVE  applied' \in Seq(Approval) /\ Len(applied') = Len(applied)
<1>1. applied \in Seq(Approval) /\ r \in 1 .. Len(applied)
  BY LenProperties DEF Typed, Tables
<1> QED BY <1>1, ExceptSeq

\* Effective(w) is stored or the code's own.
LEMMA EffectiveType ==
  ASSUME Typed, NEW w \in Workspaces
  PROVE  Effective(w) \in Prompt
BY PromptTypes DEF Effective, Typed, Tables

\* Texts of a call are prompts.
LEMMA TextType ==
  ASSUME Typed, NEW k \in Calls
  PROVE  calls[k].text \in Prompt /\ calls[k].ws \in Workspaces
BY DEF Typed, Working, Call

\* A save, of a prompt, leaves prompts.
LEMMA SaveType ==
  ASSUME Typed, NEW w \in Workspaces, NEW p \in Prompt, Save(w, p)
  PROVE  overlay' \in [Workspaces -> Prompt]
BY PromptTypes DEF Save, Typed, Tables

LEMMA RecsStay == ASSUME UNCHANGED recs, Typed PROVE RecsKept
BY LenProperties DEF RecsKept, Typed, Tables

\* A call that begins is well typed; nothing else has changed but for the rows.
LEMMA TypedBegin ==
  ASSUME Typed, Tables', RecsKept, NEW k \in Calls, NEW job, Begin(k, job), Busy(job)'
  PROVE  Typed'
<1>1. calls' = [calls EXCEPT ![k] = job] /\ calls'[k] = job
  BY DEF Begin, Typed, Working
<1>2. Working'
  BY <1>1, OthersWork
<1> QED BY <1>2 DEF Typed

LEMMA TypedEnd ==
  ASSUME Typed, Tables', RecsKept, NEW k \in Calls, End(k)
  PROVE  Typed'
<1>1. calls' = [calls EXCEPT ![k] = Idle] /\ calls'[k] = Idle
  BY DEF End, Typed, Working
<1>2. Busy(Idle)'
  <2>1. Idle \in Call /\ Idle.rec = 0 /\ Idle.pc = "idle"
    BY IdleBusy DEF Busy, Idle
  <2>2. 0 \in 0 .. Len(recs')
    BY LenProperties DEF Tables
  <2> QED BY <2>1, <2>2 DEF Busy
<1>3. Working'
  BY <1>1, <1>2, OthersWork
<1> QED BY <1>3 DEF Typed

\* A fault stays within the bound.
LEMMA FaultType == ASSUME Typed, Fault PROVE faults' \in 0 .. MaxFaults
BY PromptsAssumption DEF Fault, Typed, Tables

LEMMA RowType ==
  ASSUME Typed, NEW r \in DOMAIN recs
  PROVE  /\ r \in 1 .. Len(recs) /\ r \in 0 .. MaxRecs /\ DOMAIN recs = 1 .. Len(recs)
         /\ Len(recs) \in Nat
         /\ recs[r] \in Rec /\ recs[r].ws \in Workspaces /\ recs[r].kind \in Kinds
         /\ recs[r].report \in Reports /\ recs[r].snapshot \in Prompt
         /\ DOMAIN applied = DOMAIN recs /\ applied[r] \in Approval
<1>1. /\ recs \in Seq(Rec) /\ Len(recs) <= MaxRecs
      /\ applied \in Seq(Approval) /\ Len(applied) = Len(recs)
  BY DEF Typed, Tables
<1>2. /\ DOMAIN recs = 1 .. Len(recs) /\ Len(recs) \in Nat /\ DOMAIN applied = 1 .. Len(recs)
  BY <1>1, LenProperties
<1>3. recs[r] \in Rec /\ applied[r] \in Approval
  BY <1>1, <1>2, ElementOfSeq
<1>4. r \in 0 .. MaxRecs
  BY <1>1, <1>2, PromptsAssumption
<1> QED BY <1>2, <1>3, <1>4 DEF Rec

LEMMA TypedDiagnose == ASSUME Typed, NEW k \in Calls, Diagnose(k) PROVE Typed'
<1>1. PICK w \in Diagnosed, report \in Reports :
        /\ Actionable(report)
        /\ Begin(k, [Idle EXCEPT !.pc = "saving", !.ws = w, !.report = {report},
                                 !.text = Effective(DefaultWorkspace)])
        /\ UNCHANGED <<overlay, recs, edits, faults, applied, lost, borrowed>>
  BY DEF Diagnose
<1>j. PICK job : job = [Idle EXCEPT !.pc = "saving", !.ws = w, !.report = {report},
                                    !.text = Effective(DefaultWorkspace)]
  OBVIOUS
<1>2. Tables' /\ RecsKept
  BY <1>1, RecsStay DEF Typed, Tables, Proposals
<1>3. Busy(job)'
  <2>1. w \in Workspaces /\ DefaultWorkspace \in Workspaces
    BY PromptsAssumption
  <2>2. Effective(DefaultWorkspace) \in Prompt
    BY <2>1, EffectiveType
  <2>3. Idle \in Call /\ Idle.rec = 0
    BY IdleBusy DEF Busy, Idle
  <2>4. job \in Call
    BY <1>j, <2>1, <2>2, <2>3 DEF Call
  <2>5. job.pc = "saving" /\ job.rec = 0 /\ job.report = {report}
    BY <1>j, <2>3 DEF Call
  <2>6. 0 \in 0 .. Len(recs')
    BY <1>2, LenProperties DEF Tables
  <2> QED BY <1>1, <2>4, <2>5, <2>6 DEF Busy
<1>4. Begin(k, job)
  BY <1>1, <1>j
<1> QED BY <1>2, <1>3, <1>4, TypedBegin

LEMMA TypedSaveRecommendation == ASSUME Typed, NEW k \in Calls, SaveRecommendation(k) PROVE Typed'
<1> DEFINE report == CHOOSE r \in calls[k].report : TRUE
           row == [ws |-> calls[k].ws, kind |-> Diagnosis(report).kind, report |-> report,
                   status |-> "open", snapshot |-> calls[k].text]
<1>1. /\ calls[k].pc = "saving" /\ Len(recs) < MaxRecs
      /\ recs' = Append(recs, row) /\ applied' = Append(applied, Proposed) /\ End(k)
      /\ UNCHANGED <<overlay, edits, faults, lost, borrowed>>
  BY DEF SaveRecommendation
<1>2. report \in Reports /\ Actionable(report)
  BY <1>1 DEF Typed, Working, Busy
<1> HIDE DEF report
<1>3. row \in Rec
  <2>1. Diagnosis(report).kind \in Kinds
    BY <1>2, ProposedKind
  <2> QED BY <1>2, <2>1, TextType DEF Rec, Statuses
<1>4. row.report = report /\ row.kind = Diagnosis(report).kind
  OBVIOUS
<1> HIDE DEF row
<1>5. /\ recs \in Seq(Rec) /\ DOMAIN recs = 1 .. Len(recs) /\ Len(recs) \in Nat
      /\ recs' \in Seq(Rec) /\ Len(recs') = Len(recs) + 1
      /\ \A r \in 1 .. Len(recs) : recs'[r] = recs[r]
      /\ recs'[Len(recs) + 1] = row
      /\ DOMAIN recs' = 1 .. Len(recs) + 1
  <2>1. recs \in Seq(Rec)
    BY DEF Typed, Tables
  <2>2. recs' \in Seq(Rec) /\ Len(recs') = Len(recs) + 1
    BY <1>1, <1>3, <2>1, AppendProperties
  <2> QED BY <1>1, <1>3, <2>1, <2>2, AppendProperties, LenProperties
<1>6. applied' \in Seq(Approval) /\ Len(applied') = Len(applied) + 1
  <2>1. Proposed \in Approval
    BY PromptTypes DEF Proposed, Approval
  <2> QED BY <1>1, <2>1, AppendProperties DEF Typed, Tables
<1>7. RecsKept
  BY <1>5 DEF RecsKept
<1>8. Proposals'
  <2>1. ASSUME NEW r \in DOMAIN recs'
        PROVE  Actionable(recs'[r].report) /\ recs'[r].kind = Diagnosis(recs'[r].report).kind
    <3>1. CASE r \in 1 .. Len(recs)
      BY <1>5, <3>1 DEF Typed, Tables, Proposals
    <3>2. CASE r = Len(recs) + 1
      BY <1>2, <1>4, <1>5, <3>2
    <3> QED BY <1>5, <3>1, <3>2
  <2> QED BY <2>1 DEF Proposals
<1>9. Len(recs') <= MaxRecs
  BY <1>1, <1>5, PromptsAssumption
<1>10. lost' \subseteq DOMAIN recs'
  BY <1>1, <1>5 DEF Typed, Tables
<1>11. Tables'
  BY <1>1, <1>5, <1>6, <1>8, <1>9, <1>10 DEF Typed, Tables
<1> QED BY <1>1, <1>7, <1>11, TypedEnd

LEMMA TypedApproveRead ==
  ASSUME Typed, NEW k \in Calls, NEW r \in DOMAIN recs, NEW previous \in Prompt,
         ApproveRead(k, r, previous), faults' \in 0 .. MaxFaults
  PROVE  Typed'
<1>j. PICK job : job = [Idle EXCEPT !.pc = "approving", !.rec = r, !.ws = recs[r].ws,
                                    !.text = previous]
  OBVIOUS
<1>1. Begin(k, job) /\ UNCHANGED <<overlay, recs, edits, applied, lost, borrowed>>
  BY <1>j DEF ApproveRead
<1>2. Tables' /\ RecsKept
  BY <1>1, RecsStay DEF Typed, Tables, Proposals
<1>3. Busy(job)'
  <2>1. recs[r].ws \in Workspaces /\ r \in 0 .. Len(recs) /\ r \in 0 .. MaxRecs
    BY RowType
  <2>2. Idle \in Call
    BY IdleBusy DEF Busy
  <2>3. job \in Call
    BY <1>j, <2>1, <2>2 DEF Call
  <2>4. job.pc = "approving" /\ job.rec = r /\ job.ws = recs[r].ws
    BY <1>j, <2>2 DEF Call
  <2> QED BY <1>1, <2>1, <2>3, <2>4 DEF Busy
<1> QED BY <1>1, <1>2, <1>3, TypedBegin

LEMMA TypedApprove == ASSUME Typed, NEW k \in Calls, Approve(k) PROVE Typed'
<1>1. PICK r \in DOMAIN recs : ApproveRead(k, r, Previous(r)) /\ UNCHANGED faults
  BY DEF Approve
<1>2. recs[r].ws \in Workspaces
  BY RowType
<1>3. Previous(r) \in Prompt
  BY <1>2, EffectiveType DEF Previous
<1>4. faults' \in 0 .. MaxFaults
  BY <1>1 DEF Typed, Tables
<1> QED BY <1>1, <1>3, <1>4, TypedApproveRead

LEMMA TypedApproveUnread == ASSUME Typed, NEW k \in Calls, ApproveUnread(k) PROVE Typed'
<1>1. PICK r \in DOMAIN recs : ApproveRead(k, r, DefaultBody) /\ Fault
  BY DEF ApproveUnread
<1> QED BY <1>1, FaultType, PromptTypes, TypedApproveRead

LEMMA TypedApproveCommit == ASSUME Typed, NEW k \in Calls, ApproveCommit(k) PROVE Typed'
<1>r. PICK r : r = calls[k].rec
  OBVIOUS
<1>w. PICK row : row = [recs[r] EXCEPT !.status = "approved", !.snapshot = calls[k].text]
  OBVIOUS
<1>j. PICK job : job = [calls[k] EXCEPT !.pc = "applying"]
  OBVIOUS
<1>1. /\ calls[k].pc = "approving"
      /\ recs' = [recs EXCEPT ![r].status = "approved", ![r].snapshot = calls[k].text]
      /\ calls' = [calls EXCEPT ![k].pc = "applying"]
      /\ applied' = [applied EXCEPT ![r] = Committed(calls[k].text)]
      /\ UNCHANGED <<overlay, edits, faults, lost, borrowed>>
  BY <1>r DEF ApproveCommit
<1>2. r \in DOMAIN recs /\ calls[k].ws = recs[r].ws /\ calls[k] \in Call /\ calls[k].text \in Prompt
  BY <1>1, <1>r, TextType DEF Typed, Working, Busy
<1>3. recs[r] \in Rec /\ DOMAIN recs = 1 .. Len(recs) /\ r \in 0 .. Len(recs)
  BY <1>2, RowType
<1>4. /\ row \in Rec /\ row.ws = recs[r].ws /\ row.kind = recs[r].kind
      /\ row.report = recs[r].report
  BY <1>2, <1>3, <1>w DEF Rec, Statuses
<1>5. recs' = [recs EXCEPT ![r] = row]
  BY <1>1, <1>2, <1>3, <1>w
<1>6. Committed(calls[k].text) \in Approval
  BY <1>2, PromptTypes DEF Committed, Proposed, Approval
<1>7. calls' = [calls EXCEPT ![k] = job] /\ calls'[k] = job
  BY <1>1, <1>j DEF Typed, Working
<1>8. job \in Call /\ job.rec = r /\ job.pc = "applying" /\ job.ws = recs[r].ws
  BY <1>2, <1>j, <1>r DEF Call
<1>9. /\ recs' \in Seq(Rec) /\ Len(recs') = Len(recs) /\ DOMAIN recs' = DOMAIN recs
      /\ Proposals' /\ RecsKept
  BY <1>2, <1>4, <1>5, RowWritten
<1>10. applied' \in Seq(Approval) /\ Len(applied') = Len(applied)
  BY <1>1, <1>2, <1>6, ApprovalWritten
<1>11. Tables'
  BY <1>1, <1>9, <1>10 DEF Typed, Tables
<1>12. Busy(job)'
  BY <1>2, <1>3, <1>8, <1>9 DEF Busy, RecsKept
<1>13. Working'
  BY <1>7, <1>9, <1>11, <1>12, OthersWork
<1> QED BY <1>11, <1>13 DEF Typed

LEMMA TypedApproveSave == ASSUME Typed, NEW k \in Calls, ApproveSave(k) PROVE Typed'
<1> DEFINE r == calls[k].rec
           w == calls[k].ws
           right == Effective(w) = calls[k].text /\ applied[r].read = calls[k].text
           e == [applied[r] EXCEPT !.state = "saved", !.before = Effective(w), !.faithful = right]
<1>1. /\ calls[k].pc = "applying"
      /\ Save(w, Merge(calls[k].text, Directive(recs[r].kind)))
      /\ applied' = [applied EXCEPT ![r].state = "saved", ![r].before = Effective(w),
                                    ![r].faithful = right]
      /\ End(k)
      /\ UNCHANGED <<recs, edits, faults, lost, borrowed>>
  BY DEF ApproveSave
<1>2. r \in DOMAIN recs /\ w \in Workspaces /\ calls[k].text \in Prompt
  BY <1>1, TextType DEF Typed, Working, Busy
<1>3. /\ DOMAIN recs = 1 .. Len(recs) /\ recs[r] \in Rec
      /\ DOMAIN applied = 1 .. Len(recs) /\ applied[r] \in Approval
  BY <1>2, LenProperties, ElementOfSeq DEF Typed, Tables
<1>4. overlay' \in [Workspaces -> Prompt]
  <2>1. Merge(calls[k].text, Directive(recs[r].kind)) \in Prompt
    BY <1>2, <1>3, PromptTypes DEF Rec
  <2> QED BY <1>1, <1>2, <2>1, SaveType
<1>5. e \in Approval
  <2>1. right \in BOOLEAN /\ Effective(w) \in Prompt
    BY <1>2, EffectiveType
  <2> HIDE DEF right
  <2> QED BY <1>3, <2>1 DEF Approval
<1>6. applied' = [applied EXCEPT ![r] = e]
  <2> HIDE DEF right
  <2> QED BY <1>1, <1>2, <1>3
<1> HIDE DEF e
<1>7. applied' \in Seq(Approval) /\ Len(applied') = Len(applied)
  BY <1>2, <1>5, <1>6, ApprovalWritten
<1>8. Tables' /\ RecsKept
  BY <1>1, <1>4, <1>7, RecsStay DEF Typed, Tables, Proposals
<1> QED BY <1>1, <1>8, TypedEnd

LEMMA StatusWritten ==
  ASSUME Typed, NEW r \in DOMAIN recs, recs' = [recs EXCEPT ![r].status = "open"]
  PROVE  /\ recs' \in Seq(Rec) /\ Len(recs') = Len(recs) /\ DOMAIN recs' = DOMAIN recs
         /\ Proposals' /\ RecsKept
<1> DEFINE row == [recs[r] EXCEPT !.status = "open"]
<1>1. recs[r] \in Rec /\ DOMAIN recs = 1 .. Len(recs)
  BY LenProperties, ElementOfSeq DEF Typed, Tables
<1>2. /\ row \in Rec /\ row.ws = recs[r].ws /\ row.kind = recs[r].kind
      /\ row.report = recs[r].report
  BY <1>1 DEF Rec, Statuses
<1>3. recs' = [recs EXCEPT ![r] = row]
  BY <1>1
<1> HIDE DEF row
<1> QED BY <1>2, <1>3, RowWritten

LEMMA TypedRollback == ASSUME Typed, NEW k \in Calls, Rollback(k) PROVE Typed'
<1>1. PICK r \in DOMAIN recs :
        /\ recs' = [recs EXCEPT ![r].status = "open"]
        /\ Begin(k, [Idle EXCEPT !.pc = "restoring", !.rec = r, !.ws = recs[r].ws,
                                 !.text = recs[r].snapshot, !.undoes = applied[r]])
        /\ borrowed' = IF applied[r].state = "proposed" THEN borrowed \cup {recs[r].ws}
                       ELSE borrowed
        /\ UNCHANGED <<overlay, edits, faults, applied, lost>>
  BY DEF Rollback
<1>j. PICK job : job = [Idle EXCEPT !.pc = "restoring", !.rec = r, !.ws = recs[r].ws,
                                    !.text = recs[r].snapshot, !.undoes = applied[r]]
  OBVIOUS
<1>2. /\ recs' \in Seq(Rec) /\ Len(recs') = Len(recs) /\ DOMAIN recs' = DOMAIN recs
      /\ Proposals' /\ RecsKept
  BY <1>1, StatusWritten
<1>3. /\ DOMAIN recs = 1 .. Len(recs) /\ Len(recs) \in Nat /\ recs[r] \in Rec
      /\ applied[r] \in Approval
  BY RowType
<1>4. recs[r].ws \in Workspaces /\ recs[r].snapshot \in Prompt
  BY RowType
<1>5. borrowed' \subseteq Workspaces
  BY <1>1, <1>4 DEF Typed, Tables
<1>6. Tables'
  BY <1>1, <1>2, <1>5 DEF Typed, Tables
<1>7. Busy(job)'
  <2>1. r \in 0 .. Len(recs) /\ r \in 0 .. MaxRecs
    BY RowType
  <2>2. Idle \in Call
    BY IdleBusy DEF Busy
  <2>3. job \in Call
    BY <1>3, <1>4, <1>j, <2>1, <2>2 DEF Call
  <2>4. job.pc = "restoring" /\ job.rec = r /\ job.ws = recs[r].ws
    BY <1>j, <2>2 DEF Call
  <2> QED BY <1>2, <2>1, <2>3, <2>4 DEF Busy, RecsKept
<1>8. Begin(k, job)
  BY <1>1, <1>j
<1> QED BY <1>2, <1>6, <1>7, <1>8, TypedBegin

LEMMA TypedReopen == ASSUME Typed, NEW r \in DOMAIN recs, Reopen(r) PROVE Typed'
<1>1. /\ recs' \in Seq(Rec) /\ Len(recs') = Len(recs) /\ DOMAIN recs' = DOMAIN recs
      /\ Proposals' /\ RecsKept
  BY StatusWritten DEF Reopen
<1>2. Tables' /\ calls' = calls
  BY <1>1 DEF Reopen, Typed, Tables
<1> QED BY <1>1, <1>2, OthersWork DEF Typed

\* A call that reads a text to write it back.
LEMMA TypedReads ==
  ASSUME Typed, NEW k \in Calls, NEW pc \in {"editing", "cleaning"}, NEW w \in Workspaces,
         NEW text \in Prompt, Begin(k, [Idle EXCEPT !.pc = pc, !.ws = w, !.text = text]),
         UNCHANGED <<overlay, recs, edits, faults, applied, lost, borrowed>>
  PROVE  Typed'
<1> DEFINE job == [Idle EXCEPT !.pc = pc, !.ws = w, !.text = text]
<1>1. Tables' /\ RecsKept
  BY RecsStay DEF Typed, Tables, Proposals
<1>2. Busy(job)'
  <2>1. Idle \in Call /\ Idle.rec = 0
    BY IdleBusy DEF Busy, Idle
  <2>2. job \in Call
    BY <2>1 DEF Call
  <2>3. job.pc = pc /\ job.rec = 0
    BY <2>1 DEF Call
  <2>4. 0 \in 0 .. Len(recs')
    BY <1>1, LenProperties DEF Tables
  <2> HIDE DEF job
  <2> QED BY <2>2, <2>3, <2>4 DEF Busy
<1>3. Begin(k, job)
  OBVIOUS
<1> HIDE DEF job
<1> QED BY <1>1, <1>2, <1>3, TypedBegin

\* A call that writes a prompt and ends.
LEMMA TypedWrites ==
  ASSUME Typed, NEW k \in Calls, NEW w \in Workspaces, NEW p \in Prompt, Save(w, p), End(k),
         edits' \in 0 .. MaxEdits, UNCHANGED <<recs, faults, applied, lost, borrowed>>
  PROVE  Typed'
<1>1. overlay' \in [Workspaces -> Prompt]
  BY SaveType
<1>2. Tables' /\ RecsKept
  BY <1>1, RecsStay DEF Typed, Tables, Proposals
<1> QED BY <1>2, TypedEnd

LEMMA TypedReset == ASSUME Typed, NEW ws \in SUBSET Workspaces, Reset(ws) PROVE Typed'
<1>1. overlay' \in [Workspaces -> Prompt]
  BY PromptTypes DEF Reset, Typed, Tables
<1>2. Tables' /\ RecsKept /\ calls' = calls
  BY <1>1, RecsStay DEF Reset, Typed, Tables, Proposals
<1> QED BY <1>2, OthersWork DEF Typed

LEMMA TypedDie == ASSUME Typed, NEW k \in Calls, Die(k) PROVE Typed'
<1>1. lost' \subseteq DOMAIN recs
  BY DEF Die, Typed, Tables, Working, Busy
<1>2. faults' \in 0 .. MaxFaults
  BY FaultType DEF Die
<1>3. Tables' /\ RecsKept
  BY <1>1, <1>2, RecsStay DEF Die, Typed, Tables, Proposals
<1> QED BY <1>3, TypedEnd DEF Die

LEMMA TypedInit == Init => Typed
<1> SUFFICES ASSUME Init PROVE Typed
  OBVIOUS
<1>1. recs = <<>> /\ applied = <<>> /\ lost = {} /\ borrowed = {} /\ edits = 0 /\ faults = 0
  BY DEF Init
<1>2. overlay \in [Workspaces -> Prompt]
  BY PromptTypes DEF Init
<1>3. /\ recs \in Seq(Rec) /\ Len(recs) = 0 /\ applied \in Seq(Approval) /\ Len(applied) = 0
      /\ DOMAIN recs = {}
  BY <1>1, EmptySeq
<1>4. Tables
  BY <1>1, <1>2, <1>3, PromptsAssumption DEF Tables, Proposals
<1>5. Busy(Idle)
  <2>1. Idle \in Call
    BY PromptsAssumption, PromptTypes DEF Idle, Call, Proposed, Approval
  <2>2. Idle.rec = 0 /\ Idle.pc = "idle"
    BY DEF Idle
  <2> QED BY <1>3, <2>1, <2>2 DEF Busy
<1>6. Working
  <2>1. Idle \in Call
    BY <1>5 DEF Busy
  <2> QED BY <1>5, <2>1 DEF Init, Working
<1> QED BY <1>4, <1>6 DEF Typed

LEMMA TypedStep == Typed /\ [Next]_vars => Typed'
<1> SUFFICES ASSUME Typed, [Next]_vars PROVE Typed'
  OBVIOUS
<1>1. ASSUME NEW k \in Calls,
             \/ Diagnose(k) \/ Approve(k) \/ ApproveUnread(k) \/ Rollback(k)
             \/ SaveRecommendation(k) \/ ApproveCommit(k) \/ ApproveSave(k) \/ Die(k)
      PROVE  Typed'
  BY <1>1, TypedDiagnose, TypedApprove, TypedApproveUnread, TypedRollback,
     TypedSaveRecommendation, TypedApproveCommit, TypedApproveSave, TypedDie
<1>2. ASSUME NEW k \in Calls, EditorLoad(k) PROVE Typed'
  <2>1. PICK w \in Workspaces :
          /\ Begin(k, [Idle EXCEPT !.pc = "editing", !.ws = w, !.text = Effective(w)])
          /\ UNCHANGED <<overlay, recs, edits, faults, applied, lost, borrowed>>
    BY <1>2 DEF EditorLoad
  <2> QED BY <2>1, EffectiveType, TypedReads
<1>3. ASSUME NEW k \in Calls, EditorSave(k) PROVE Typed'
  <2>1. /\ edits < MaxEdits /\ edits' = edits + 1 /\ End(k)
        /\ UNCHANGED <<recs, faults, applied, lost, borrowed>>
    BY <1>3 DEF EditorSave
  <2>2. edits' \in 0 .. MaxEdits
    BY <2>1, PromptsAssumption DEF Typed, Tables
  <2>3. PICK p \in EditsOf(calls[k].text, calls[k].ws, edits') : Save(calls[k].ws, p)
    BY <1>3 DEF EditorSave
  <2>4. p \in Prompt
    <3>1. calls[k].text \in Seq(Sections) /\ calls[k].ws \in Workspaces
      BY TextType DEF Prompt
    <3>2. \A t \in Rewritten : Section(t, calls[k].ws, edits') \in Sections
      BY <2>2, <3>1, KnownTitles, OwnSections
    <3>3. \E n \in {edits'} : n = edits'
      OBVIOUS
    <3>4. PICK n \in {edits'} : n = edits'
      BY <3>3
    <3> QED BY <2>3, <3>1, <3>2, <3>4, EditsOwn DEF Prompt
  <2> QED BY <2>1, <2>2, <2>3, <2>4, TextType, TypedWrites
<1>4. ASSUME NEW k \in Calls, EditorLeave(k) PROVE Typed'
  <2>1. Tables' /\ RecsKept
    BY <1>4, RecsStay DEF EditorLeave, Typed, Tables, Proposals
  <2> QED BY <1>4, <2>1, TypedEnd DEF EditorLeave
<1>5. ASSUME NEW k \in Calls, CleanRead(k) PROVE Typed'
  <2>1. PICK w \in Workspaces :
          /\ Begin(k, [Idle EXCEPT !.pc = "cleaning", !.ws = w, !.text = overlay[w]])
          /\ UNCHANGED <<overlay, recs, edits, faults, applied, lost, borrowed>>
    BY <1>5 DEF CleanRead
  <2>2. overlay[w] \in Prompt
    BY DEF Typed, Tables
  <2> QED BY <2>1, <2>2, TypedReads
<1>6. ASSUME NEW k \in Calls, RollbackSave(k) \/ CleanSave(k) PROVE Typed'
  <2>1. /\ Save(calls[k].ws, calls[k].text) /\ End(k)
        /\ UNCHANGED <<recs, edits, faults, applied, lost, borrowed>>
    BY <1>6 DEF RollbackSave, CleanSave
  <2>2. edits' \in 0 .. MaxEdits
    BY <2>1 DEF Typed, Tables
  <2> QED BY <2>1, <2>2, TextType, TypedWrites
<1>7. ASSUME NEW r \in DOMAIN recs, Reopen(r) PROVE Typed'
  BY <1>7, TypedReopen
<1>8. ASSUME NEW w \in Workspaces, Reset({w}) PROVE Typed'
  BY <1>8, TypedReset
<1>9. ASSUME Reset(Workspaces) PROVE Typed'
  BY <1>9, TypedReset
<1>10. ASSUME UNCHANGED vars PROVE Typed'
  <2>1. Tables' /\ RecsKept /\ calls' = calls
    BY <1>10, RecsStay DEF vars, Typed, Tables, Proposals
  <2> QED BY <2>1, OthersWork DEF Typed
<1> QED BY <1>1, <1>2, <1>3, <1>4, <1>5, <1>6, <1>7, <1>8, <1>9, <1>10 DEF Next, Continue

\* Overlays, rows, calls and history are well typed, whatever is read before and
\* written after other calls.
THEOREM TypeCorrect == Spec => []TypeOK
<1>1. Init => Typed
  BY TypedInit
<1>2. Typed /\ [Next]_vars => Typed'
  BY TypedStep
<1>3. Typed => TypeOK
  BY TypedTypes
<1> QED BY <1>1, <1>2, <1>3, PTL DEF Spec

\* A row without 50 sends, ready without 200, with bounces too high, or a reply fix
\* while contacts are recent or replies good is never stored.
THEOREM ProposalsRipeCorrect == Spec => []ProposalsRipe
<1>1. Init => Typed
  BY TypedInit
<1>2. Typed /\ [Next]_vars => Typed'
  BY TypedStep
<1>3. ASSUME Typed PROVE ProposalsRipe
  <2>1. ASSUME NEW r \in DOMAIN recs PROVE RipeReport(recs[r].report, recs[r].kind)
    <3>1. /\ recs[r].report \in Reports /\ Actionable(recs[r].report)
          /\ recs[r].kind = Diagnosis(recs[r].report).kind
      BY <1>3, RowType DEF Typed, Tables, Proposals
    <3> QED BY <3>1, ProposedRipe
  <2> QED BY <2>1 DEF RipeReport, ProposalsRipe
<1> QED BY <1>1, <1>2, <1>3, PTL DEF Spec

-----------------------------------------------------------------------------
(* Whose texts a prompt is made of, and what a row remembers                *)

Texts(w) == Seq(Theirs(w))

\* Once approved, a row holds the prompt that its approval read, a text of its own
\* workspace unless a foreign snapshot went into that one's prompt.
Remembers(row, last, foreign) ==
  /\ last.state # "proposed" =>
       row.snapshot = last.read /\ (row.ws \notin foreign => row.snapshot \in Texts(row.ws))
  /\ last.faithful => last.state # "proposed" /\ last.before = last.read

\* A call that is to write a prompt has a text of the workspace in hand; one that
\* applies an addendum has its row committed, and one that undoes a faithful approval
\* the prompt which this one found.
Carries(job, history, foreign) ==
  /\ job.pc \in {"approving", "applying", "restoring", "editing", "cleaning"}
       /\ job.ws \notin foreign => job.text \in Texts(job.ws)
  /\ job.pc = "applying" => history[job.rec].state # "proposed"
  /\ job.pc = "restoring" /\ job.undoes.faithful => job.undoes.before = job.text

Origins ==
  /\ \A w \in Workspaces \ borrowed : overlay[w] \in Texts(w)
  /\ \A r \in DOMAIN recs : Remembers(recs[r], applied[r], borrowed)
  /\ \A k \in Calls : Carries(calls[k], applied, borrowed)

\* What a step must keep for the rest to stay.
LEMMA OriginsKept ==
  ASSUME Typed, Typed', Origins, borrowed \subseteq borrowed',
         \A w \in Workspaces \ borrowed' : overlay'[w] = overlay[w] \/ overlay'[w] \in Texts(w),
         \A r \in DOMAIN recs' :
           \/ /\ r \in DOMAIN recs /\ applied'[r] = applied[r]
              /\ recs'[r].ws = recs[r].ws /\ recs'[r].snapshot = recs[r].snapshot
           \/ Remembers(recs'[r], applied'[r], borrowed'),
         \A k \in Calls :
           calls'[k] = calls[k] \/ Carries(calls'[k], applied', borrowed'),
         \A r \in DOMAIN recs : applied[r].state # "proposed" => applied'[r].state # "proposed"
  PROVE  Origins'
<1>1. \A w \in Workspaces \ borrowed' : overlay'[w] \in Texts(w)
  BY DEF Origins
<1>2. \A r \in DOMAIN recs' : Remembers(recs'[r], applied'[r], borrowed')
  BY DEF Origins, Remembers
<1>3. ASSUME NEW k \in Calls, calls'[k] = calls[k] PROVE Carries(calls'[k], applied', borrowed')
  <2>1. Carries(calls[k], applied, borrowed)
    BY DEF Origins
  <2>2. calls[k].pc = "applying" => calls[k].rec \in DOMAIN recs
    BY DEF Typed, Working, Busy
  <2> QED BY <1>3, <2>1, <2>2 DEF Carries
<1> QED BY <1>1, <1>2, <1>3 DEF Origins

\* The prompt in force is a text of the workspace.
LEMMA EffectiveOwn ==
  ASSUME Typed, Origins, NEW w \in Workspaces, w \notin borrowed
  PROVE  Effective(w) \in Texts(w)
BY DefaultOwn DEF Effective, Origins, Texts

LEMMA BeginEffect ==
  ASSUME Typed, NEW k \in Calls, NEW job, Begin(k, job)
  PROVE  calls[k] = Idle /\ \A j \in Calls : calls'[j] = IF j = k THEN job ELSE calls[j]
BY DEF Begin, Typed, Working

LEMMA EndEffect ==
  ASSUME Typed, NEW k \in Calls, End(k)
  PROVE  \A j \in Calls : calls'[j] = IF j = k THEN Idle ELSE calls[j]
BY DEF End, Typed, Working

LEMMA IdleCarries == \A history, foreign : Carries(Idle, history, foreign)
BY DEF Idle, Carries

\* A save writes a deduplicated text of the workspace.
LEMMA SaveEffect ==
  ASSUME Typed, NEW w \in Workspaces, NEW p, Save(w, p)
  PROVE  /\ overlay'[w] = Dedupe(p)
         /\ \A v \in Workspaces : v # w => overlay'[v] = overlay[v]
         /\ p \in Texts(w) => overlay'[w] \in Texts(w)
BY DedupeType DEF Save, Stored, Texts, Typed, Tables

\* A call that writes a text of its workspace and ends.
LEMMA OriginsWrites ==
  ASSUME Typed, Typed', Origins, NEW k \in Calls, NEW w \in Workspaces, NEW p, Save(w, p),
         w \notin borrowed => p \in Texts(w), End(k), UNCHANGED <<recs, applied, borrowed>>
  PROVE  Origins'
<1>1. \A v \in Workspaces \ borrowed' : overlay'[v] = overlay[v] \/ overlay'[v] \in Texts(v)
  BY SaveEffect
<1>2. \A j \in Calls : calls'[j] = calls[j] \/ Carries(calls'[j], applied', borrowed')
  BY EndEffect, IdleCarries
<1> QED BY <1>1, <1>2, OriginsKept

\* A call that takes a text of its workspace to write it back.
LEMMA OriginsReads ==
  ASSUME Typed, Typed', Origins, NEW k \in Calls, NEW job,
         Begin(k, job), job.pc \notin {"applying", "restoring"},
         job.pc # "saving" /\ job.ws \notin borrowed => job.text \in Texts(job.ws),
         UNCHANGED <<overlay, recs, applied, borrowed>>
  PROVE  Origins'
<1>1. \A j \in Calls : calls'[j] = calls[j] \/ Carries(calls'[j], applied', borrowed')
  BY BeginEffect DEF Carries
<1> QED BY <1>1, OriginsKept

LEMMA OriginsApproveCommit ==
  ASSUME Typed, Typed', Origins, NEW k \in Calls, ApproveCommit(k) PROVE Origins'
<1>r. PICK r : r = calls[k].rec
  OBVIOUS
<1>1. /\ calls[k].pc = "approving"
      /\ recs' = [recs EXCEPT ![r].status = "approved", ![r].snapshot = calls[k].text]
      /\ calls' = [calls EXCEPT ![k].pc = "applying"]
      /\ applied' = [applied EXCEPT ![r] = Committed(calls[k].text)]
      /\ UNCHANGED <<overlay, edits, faults, lost, borrowed>>
  BY <1>r DEF ApproveCommit
<1>2. r \in DOMAIN recs /\ calls[k].ws = recs[r].ws /\ calls[k] \in Call
  BY <1>1, <1>r DEF Typed, Working, Busy
<1>3. DOMAIN recs = DOMAIN applied /\ recs[r] \in Rec
  BY <1>2, RowType
<1>4. /\ applied'[r].state = "committed" /\ applied'[r].read = calls[k].text
      /\ applied'[r].faithful = FALSE
      /\ \A q \in DOMAIN recs : q # r => applied'[q] = applied[q]
  BY <1>1, <1>2, <1>3 DEF Committed, Proposed
<1>5. /\ recs'[r].ws = recs[r].ws /\ recs'[r].snapshot = calls[k].text
      /\ DOMAIN recs' = DOMAIN recs
      /\ \A q \in DOMAIN recs : q # r => recs'[q] = recs[q]
  BY <1>1, <1>2, <1>3 DEF Rec
<1>6. calls[k].ws \notin borrowed => calls[k].text \in Texts(calls[k].ws)
  BY <1>1 DEF Origins, Carries
<1>7. Remembers(recs'[r], applied'[r], borrowed')
  BY <1>1, <1>2, <1>4, <1>5, <1>6 DEF Remembers
<1>8. /\ calls'[k].pc = "applying" /\ calls'[k].rec = r /\ calls'[k].ws = calls[k].ws
      /\ calls'[k].text = calls[k].text
      /\ \A j \in Calls : j # k => calls'[j] = calls[j]
  BY <1>1, <1>2, <1>r DEF Typed, Working, Call
<1>9. Carries(calls'[k], applied', borrowed')
  BY <1>1, <1>4, <1>6, <1>8 DEF Carries
<1> QED BY <1>1, <1>4, <1>5, <1>7, <1>8, <1>9, OriginsKept

LEMMA OriginsApproveSave ==
  ASSUME Typed, Typed', Origins, NEW k \in Calls, ApproveSave(k) PROVE Origins'
<1>r. PICK r : r = calls[k].rec
  OBVIOUS
<1>w. PICK w : w = calls[k].ws
  OBVIOUS
<1>t. PICK text : text = calls[k].text
  OBVIOUS
<1>p. PICK p : p = Merge(text, Directive(recs[r].kind))
  OBVIOUS
<1>1. /\ calls[k].pc = "applying" /\ Save(w, p) /\ End(k)
      /\ applied' = [applied EXCEPT ![r].state = "saved", ![r].before = Effective(w),
                                    ![r].faithful = Effective(w) = text
                                                      /\ applied[r].read = text]
      /\ UNCHANGED <<recs, edits, faults, lost, borrowed>>
  BY <1>r, <1>w, <1>t, <1>p DEF ApproveSave
<1>2. r \in DOMAIN recs /\ w \in Workspaces /\ w = recs[r].ws
  BY <1>1, <1>r, <1>w, TextType DEF Typed, Working, Busy
<1>3. DOMAIN applied = DOMAIN recs /\ applied[r] \in Approval /\ recs[r].kind \in Kinds
  BY <1>2, RowType
<1>4. (w \notin borrowed => text \in Texts(w)) /\ applied[r].state # "proposed"
  BY <1>1, <1>r, <1>w, <1>t DEF Origins, Carries
<1>5. w \notin borrowed => p \in Texts(w)
  <2>1. Directive(recs[r].kind) \in Texts(w) /\ Own(Header) \in Theirs(w)
    BY <1>2, <1>3, DirectiveOwn, OwnSections, KnownTitles DEF Texts
  <2> QED BY <1>4, <1>p, <2>1, MergeType DEF Texts
<1>6. /\ applied'[r].state = "saved" /\ applied'[r].before = Effective(w)
      /\ applied'[r].read = applied[r].read
      /\ applied'[r].faithful => Effective(w) = text /\ applied[r].read = text
      /\ \A q \in DOMAIN recs : q # r => applied'[q] = applied[q]
  BY <1>1, <1>2, <1>3 DEF Approval
<1>7. Remembers(recs'[r], applied'[r], borrowed')
  <2>1. Remembers(recs[r], applied[r], borrowed)
    BY <1>2 DEF Origins
  <2> QED BY <1>1, <1>4, <1>6, <2>1 DEF Remembers
<1>8. \A v \in Workspaces \ borrowed' : overlay'[v] = overlay[v] \/ overlay'[v] \in Texts(v)
  BY <1>1, <1>2, <1>5, SaveEffect
<1>9. \A j \in Calls : calls'[j] = calls[j] \/ Carries(calls'[j], applied', borrowed')
  BY <1>1, EndEffect, IdleCarries
<1>10. \A q \in DOMAIN recs' :
         \/ /\ q \in DOMAIN recs /\ applied'[q] = applied[q]
            /\ recs'[q].ws = recs[q].ws /\ recs'[q].snapshot = recs[q].snapshot
         \/ Remembers(recs'[q], applied'[q], borrowed')
  BY <1>1, <1>6, <1>7
<1>11. \A q \in DOMAIN recs : applied[q].state # "proposed" => applied'[q].state # "proposed"
  BY <1>6
<1>12. borrowed \subseteq borrowed'
  BY <1>1
<1> QED BY <1>8, <1>9, <1>10, <1>11, <1>12, OriginsKept

LEMMA OriginsRollback ==
  ASSUME Typed, Typed', Origins, NEW k \in Calls, Rollback(k) PROVE Origins'
<1>1. PICK r \in DOMAIN recs :
        /\ recs' = [recs EXCEPT ![r].status = "open"]
        /\ Begin(k, [Idle EXCEPT !.pc = "restoring", !.rec = r, !.ws = recs[r].ws,
                                 !.text = recs[r].snapshot, !.undoes = applied[r]])
        /\ borrowed' = IF applied[r].state = "proposed" THEN borrowed \cup {recs[r].ws}
                       ELSE borrowed
        /\ UNCHANGED <<overlay, edits, faults, applied, lost>>
  BY DEF Rollback
<1>j. PICK job : job = [Idle EXCEPT !.pc = "restoring", !.rec = r, !.ws = recs[r].ws,
                                    !.text = recs[r].snapshot, !.undoes = applied[r]]
  OBVIOUS
<1>2. Begin(k, job)
  BY <1>1, <1>j
<1>3. /\ job.pc = "restoring" /\ job.ws = recs[r].ws /\ job.text = recs[r].snapshot
      /\ job.undoes = applied[r]
  BY <1>j DEF Idle
<1>4. Remembers(recs[r], applied[r], borrowed)
  BY DEF Origins
<1>5. Carries(job, applied', borrowed')
  BY <1>1, <1>3, <1>4 DEF Carries, Remembers
<1>6. \A j \in Calls : calls'[j] = calls[j] \/ Carries(calls'[j], applied', borrowed')
  BY <1>2, <1>5, BeginEffect
<1>7. \A q \in DOMAIN recs' : q \in DOMAIN recs /\ recs'[q].ws = recs[q].ws
                              /\ recs'[q].snapshot = recs[q].snapshot
  BY <1>1, RowType DEF Rec
<1>8. borrowed \subseteq borrowed'
  BY <1>1
<1> QED BY <1>1, <1>6, <1>7, <1>8, OriginsKept

LEMMA OriginsSaveRecommendation ==
  ASSUME Typed, Typed', Origins, NEW k \in Calls, SaveRecommendation(k) PROVE Origins'
<1>1. /\ \E row : recs' = Append(recs, row)
      /\ applied' = Append(applied, Proposed) /\ End(k)
      /\ UNCHANGED <<overlay, edits, faults, lost, borrowed>>
  BY DEF SaveRecommendation
<1>2. PICK row : recs' = Append(recs, row)
  BY <1>1
<1>3. /\ recs \in Seq(Rec) /\ recs' \in Seq(Rec) /\ applied \in Seq(Approval)
      /\ Len(applied) = Len(recs) /\ applied' \in Seq(Approval) /\ Len(recs') = Len(applied')
  BY DEF Typed, Tables
<1>4. Proposed \in Approval
  BY PromptTypes DEF Proposed, Approval
<1>5. /\ Len(applied') = Len(applied) + 1 /\ applied'[Len(applied) + 1] = Proposed
      /\ \A r \in 1 .. Len(applied) : applied'[r] = applied[r]
  BY <1>1, <1>3, <1>4, AppendProperties
<1>6. /\ DOMAIN recs = 1 .. Len(recs) /\ DOMAIN recs' = 1 .. Len(recs) + 1 /\ Len(recs) \in Nat
      /\ DOMAIN applied = 1 .. Len(recs)
  BY <1>3, <1>5, LenProperties
<1>7. \A r \in 1 .. Len(recs) : recs'[r] = recs[r]
  BY <1>2, <1>3, <1>6
<1>8. Remembers(recs'[Len(recs) + 1], Proposed, borrowed')
  BY DEF Remembers, Proposed
<1>9. \A r \in DOMAIN recs' :
        \/ /\ r \in DOMAIN recs /\ applied'[r] = applied[r]
           /\ recs'[r].ws = recs[r].ws /\ recs'[r].snapshot = recs[r].snapshot
        \/ Remembers(recs'[r], applied'[r], borrowed')
  BY <1>3, <1>5, <1>6, <1>7, <1>8
<1>10. \A j \in Calls : calls'[j] = calls[j] \/ Carries(calls'[j], applied', borrowed')
  BY <1>1, EndEffect, IdleCarries
<1>11. \A r \in DOMAIN recs : applied[r].state # "proposed" => applied'[r].state # "proposed"
  BY <1>3, <1>5, <1>6
<1> QED BY <1>1, <1>9, <1>10, <1>11, OriginsKept

LEMMA OriginsApproveRead ==
  ASSUME Typed, Typed', Origins, NEW k \in Calls, NEW r \in DOMAIN recs, NEW previous,
         ApproveRead(k, r, previous), recs[r].ws \notin borrowed => previous \in Texts(recs[r].ws)
  PROVE  Origins'
<1>j. PICK job : job = [Idle EXCEPT !.pc = "approving", !.rec = r, !.ws = recs[r].ws,
                                    !.text = previous]
  OBVIOUS
<1>1. Begin(k, job) /\ UNCHANGED <<overlay, recs, applied, borrowed>>
  BY <1>j DEF ApproveRead
<1>2. job.pc = "approving" /\ job.ws = recs[r].ws /\ job.text = previous
  BY <1>j DEF Idle
<1> QED BY <1>1, <1>2, OriginsReads

LEMMA OriginsStep == Typed /\ Origins /\ [Next]_vars => Origins'
<1> SUFFICES ASSUME Typed, Origins, [Next]_vars PROVE Origins'
  OBVIOUS
<1>0. Typed'
  BY TypedStep
<1>1. ASSUME NEW k \in Calls,
             SaveRecommendation(k) \/ ApproveCommit(k) \/ ApproveSave(k) \/ Rollback(k)
      PROVE  Origins'
  BY <1>0, <1>1, OriginsSaveRecommendation, OriginsApproveCommit, OriginsApproveSave,
     OriginsRollback
<1>2. ASSUME NEW k \in Calls, Diagnose(k) PROVE Origins'
  <2>1. PICK w \in Diagnosed, report \in Reports :
          /\ Begin(k, [Idle EXCEPT !.pc = "saving", !.ws = w, !.report = {report},
                                   !.text = Effective(DefaultWorkspace)])
          /\ UNCHANGED <<overlay, recs, edits, faults, applied, lost, borrowed>>
    BY <1>2 DEF Diagnose
  <2>j. PICK job : job = [Idle EXCEPT !.pc = "saving", !.ws = w, !.report = {report},
                                      !.text = Effective(DefaultWorkspace)]
    OBVIOUS
  <2>2. job.pc = "saving"
    BY <2>j DEF Idle
  <2>3. Begin(k, job)
    BY <2>1, <2>j
  <2> QED BY <1>0, <2>1, <2>2, <2>3, OriginsReads
<1>3. ASSUME NEW k \in Calls, Approve(k) PROVE Origins'
  <2>1. PICK r \in DOMAIN recs : ApproveRead(k, r, Previous(r))
    BY <1>3 DEF Approve
  <2>2. recs[r].ws \in Workspaces
    BY RowType
  <2>3. recs[r].ws \notin borrowed => Previous(r) \in Texts(recs[r].ws)
    BY <2>2, EffectiveOwn DEF Previous
  <2>4. PICK previous : previous = Previous(r)
    OBVIOUS
  <2> QED BY <1>0, <2>1, <2>3, <2>4, OriginsApproveRead
<1>4. ASSUME NEW k \in Calls, ApproveUnread(k) PROVE Origins'
  <2>1. PICK r \in DOMAIN recs : ApproveRead(k, r, DefaultBody)
    BY <1>4 DEF ApproveUnread
  <2>2. DefaultBody \in Texts(recs[r].ws)
    BY RowType, DefaultOwn DEF Texts
  <2> QED BY <1>0, <2>1, <2>2, OriginsApproveRead
<1>5. ASSUME NEW k \in Calls, EditorLoad(k) PROVE Origins'
  <2>1. PICK w \in Workspaces :
          /\ Begin(k, [Idle EXCEPT !.pc = "editing", !.ws = w, !.text = Effective(w)])
          /\ UNCHANGED <<overlay, recs, edits, faults, applied, lost, borrowed>>
    BY <1>5 DEF EditorLoad
  <2>j. PICK job : job = [Idle EXCEPT !.pc = "editing", !.ws = w, !.text = Effective(w)]
    OBVIOUS
  <2>2. job.pc = "editing" /\ job.ws = w /\ job.text = Effective(w) /\ Begin(k, job)
    BY <2>1, <2>j DEF Idle
  <2> QED BY <1>0, <2>1, <2>2, EffectiveOwn, OriginsReads
<1>6. ASSUME NEW k \in Calls, CleanRead(k) PROVE Origins'
  <2>1. PICK w \in Workspaces :
          /\ Begin(k, [Idle EXCEPT !.pc = "cleaning", !.ws = w, !.text = overlay[w]])
          /\ UNCHANGED <<overlay, recs, edits, faults, applied, lost, borrowed>>
    BY <1>6 DEF CleanRead
  <2>j. PICK job : job = [Idle EXCEPT !.pc = "cleaning", !.ws = w, !.text = overlay[w]]
    OBVIOUS
  <2>2. job.pc = "cleaning" /\ job.ws = w /\ job.text = overlay[w] /\ Begin(k, job)
    BY <2>1, <2>j DEF Idle
  <2>3. w \notin borrowed => overlay[w] \in Texts(w)
    BY DEF Origins
  <2> QED BY <1>0, <2>1, <2>2, <2>3, OriginsReads
<1>7. ASSUME NEW k \in Calls, EditorSave(k) PROVE Origins'
  <2>1. /\ calls[k].pc = "editing" /\ End(k) /\ UNCHANGED <<recs, faults, applied, lost, borrowed>>
    BY <1>7 DEF EditorSave
  <2>2. PICK p \in EditsOf(calls[k].text, calls[k].ws, edits') : Save(calls[k].ws, p)
    BY <1>7 DEF EditorSave
  <2>3. calls[k].ws \in Workspaces
    BY TextType
  <2>4. edits' \in 0 .. MaxEdits
    BY <1>0 DEF Typed, Tables
  <2>5. ASSUME calls[k].ws \notin borrowed PROVE p \in Texts(calls[k].ws)
    <3>1. calls[k].text \in Seq(Theirs(calls[k].ws))
      BY <2>1, <2>5 DEF Origins, Carries, Texts
    <3>2. \A t \in Rewritten : Section(t, calls[k].ws, edits') \in Theirs(calls[k].ws)
      BY <2>3, <2>4, KnownTitles, OwnSections
    <3>3. PICK n : n = edits'
      OBVIOUS
    <3>4. PICK w : w = calls[k].ws
      OBVIOUS
    <3> QED BY <2>2, <3>1, <3>2, <3>3, <3>4, EditsOwn DEF Texts
  <2> QED BY <1>0, <2>1, <2>2, <2>3, <2>5, OriginsWrites
<1>8. ASSUME NEW k \in Calls, RollbackSave(k) \/ CleanSave(k) PROVE Origins'
  <2>1. /\ calls[k].pc \in {"restoring", "cleaning"} /\ Save(calls[k].ws, calls[k].text) /\ End(k)
        /\ UNCHANGED <<recs, edits, faults, applied, lost, borrowed>>
    BY <1>8 DEF RollbackSave, CleanSave
  <2>2. calls[k].ws \in Workspaces
    BY TextType
  <2>3. calls[k].ws \notin borrowed => calls[k].text \in Texts(calls[k].ws)
    BY <2>1 DEF Origins, Carries
  <2> QED BY <1>0, <2>1, <2>2, <2>3, OriginsWrites
<1>9. ASSUME NEW k \in Calls, EditorLeave(k) \/ Die(k) PROVE Origins'
  <2>1. End(k) /\ UNCHANGED <<overlay, recs, applied, borrowed>>
    BY <1>9 DEF EditorLeave, Die
  <2>2. \A j \in Calls : calls'[j] = calls[j] \/ Carries(calls'[j], applied', borrowed')
    BY <2>1, EndEffect, IdleCarries
  <2> QED BY <1>0, <2>1, <2>2, OriginsKept
<1>10. ASSUME NEW r \in DOMAIN recs, Reopen(r) PROVE Origins'
  <2>1. \A q \in DOMAIN recs' : q \in DOMAIN recs /\ recs'[q].ws = recs[q].ws
                                /\ recs'[q].snapshot = recs[q].snapshot
    BY <1>10, RowType DEF Reopen, Rec
  <2> QED BY <1>0, <1>10, <2>1, OriginsKept DEF Reopen
<1>11. ASSUME NEW ws \in SUBSET Workspaces, Reset(ws) PROVE Origins'
  <2>1. \A w \in Workspaces : overlay'[w] = overlay[w] \/ overlay'[w] \in Texts(w)
    BY <1>11, EmptySeq DEF Reset, Texts
  <2> QED BY <1>0, <1>11, <2>1, OriginsKept DEF Reset
<1>12. CASE UNCHANGED vars
  BY <1>12 DEF vars, Origins
<1> QED BY <1>1, <1>2, <1>3, <1>4, <1>5, <1>6, <1>7, <1>8, <1>9, <1>10, <1>11, <1>12
     DEF Next, Continue

LEMMA OriginsInit == Init => Origins
<1> SUFFICES ASSUME Init PROVE Origins
  OBVIOUS
<1>1. \A w \in Workspaces : overlay[w] \in Texts(w)
  BY DefaultOwn, EmptySeq DEF Init, Texts
<1>2. DOMAIN recs = {}
  BY EmptySeq DEF Init
<1>3. \A k \in Calls : Carries(calls[k], applied, borrowed)
  BY IdleCarries DEF Init
<1> QED BY <1>1, <1>2, <1>3 DEF Origins

-----------------------------------------------------------------------------
(* Approved rows are applied                                                *)

\* A step after which no more rows are approved, and what was saved, lost or about
\* to be saved still is, or is one step further.
LEMMA AppliedKept ==
  ASSUME Typed, ApprovedIsApplied, lost \subseteq lost',
         \A r \in DOMAIN recs' : recs'[r].status = "approved"
           => r \in DOMAIN recs /\ recs[r].status = "approved",
         \A r \in DOMAIN recs : applied[r].state = "saved" => applied'[r].state = "saved",
         \A k \in Calls : calls[k].pc = "applying"
           => calls'[k] = calls[k] \/ calls[k].rec \in lost' \/ applied'[calls[k].rec].state = "saved"
  PROVE  ApprovedIsApplied'
<1> SUFFICES ASSUME NEW r \in DOMAIN recs', recs'[r].status = "approved"
             PROVE  \/ applied'[r].state = "saved" \/ r \in lost'
                    \/ \E k \in Calls : calls'[k].pc = "applying" /\ calls'[k].rec = r
  BY DEF ApprovedIsApplied
<1>1. \/ applied[r].state = "saved" \/ r \in lost
      \/ \E k \in Calls : calls[k].pc = "applying" /\ calls[k].rec = r
  BY DEF ApprovedIsApplied
<1>2. r \in DOMAIN recs
  OBVIOUS
<1> QED BY <1>1, <1>2

LEMMA AppliedBegin ==
  ASSUME Typed, ApprovedIsApplied, NEW k \in Calls, NEW job, Begin(k, job),
         UNCHANGED <<recs, applied, lost>>
  PROVE  ApprovedIsApplied'
<1>1. \A j \in Calls : calls[j].pc = "applying" => calls'[j] = calls[j]
  BY BeginEffect DEF Idle
<1> QED BY <1>1, AppliedKept

LEMMA AppliedEnd ==
  ASSUME Typed, ApprovedIsApplied, NEW k \in Calls, End(k), calls[k].pc # "applying",
         UNCHANGED <<recs, applied, lost>>
  PROVE  ApprovedIsApplied'
<1>1. \A j \in Calls : calls[j].pc = "applying" => calls'[j] = calls[j]
  BY EndEffect
<1> QED BY <1>1, AppliedKept

LEMMA AppliedStep == Typed /\ ApprovedIsApplied /\ [Next]_vars => ApprovedIsApplied'
<1> SUFFICES ASSUME Typed, ApprovedIsApplied, [Next]_vars PROVE ApprovedIsApplied'
  OBVIOUS
<1>1. ASSUME NEW k \in Calls, \/ Diagnose(k) \/ Approve(k) \/ ApproveUnread(k)
                              \/ EditorLoad(k) \/ CleanRead(k)
      PROVE  ApprovedIsApplied'
  <2>1. (\E job : Begin(k, job)) /\ UNCHANGED <<recs, applied, lost>>
    BY <1>1 DEF Diagnose, Approve, ApproveUnread, ApproveRead, EditorLoad, CleanRead
  <2> QED BY <2>1, AppliedBegin
<1>2. ASSUME NEW k \in Calls, EditorSave(k) \/ EditorLeave(k) \/ RollbackSave(k) \/ CleanSave(k)
      PROVE  ApprovedIsApplied'
  <2>1. End(k) /\ calls[k].pc # "applying" /\ UNCHANGED <<recs, applied, lost>>
    BY <1>2 DEF EditorSave, EditorLeave, RollbackSave, CleanSave
  <2> QED BY <2>1, AppliedEnd
<1>3. ASSUME NEW k \in Calls, Die(k) PROVE ApprovedIsApplied'
  <2>1. /\ lost' = IF calls[k].pc = "applying" THEN lost \cup {calls[k].rec} ELSE lost
        /\ End(k) /\ UNCHANGED <<recs, applied>>
    BY <1>3 DEF Die
  <2>2. \A j \in Calls : calls[j].pc = "applying" => calls'[j] = calls[j] \/ calls[j].rec \in lost'
    BY <2>1, EndEffect
  <2> QED BY <2>1, <2>2, AppliedKept
<1>4. ASSUME NEW k \in Calls, SaveRecommendation(k) PROVE ApprovedIsApplied'
  <2>r. PICK report : report = CHOOSE r \in calls[k].report : TRUE
    OBVIOUS
  <2>p. PICK row : row = [ws |-> calls[k].ws, kind |-> Diagnosis(report).kind,
                          report |-> report, status |-> "open", snapshot |-> calls[k].text]
    OBVIOUS
  <2>1. /\ recs' = Append(recs, row) /\ row.status = "open"
    <3>1. recs' = Append(recs, [ws |-> calls[k].ws, kind |-> Diagnosis(report).kind,
                                report |-> report, status |-> "open",
                                snapshot |-> calls[k].text])
      BY <1>4, <2>r DEF SaveRecommendation
    <3>2. row.status = "open"
      BY <2>p
    <3> QED BY <2>p, <3>1, <3>2
  <2>2. /\ applied' = Append(applied, Proposed) /\ End(k) /\ calls[k].pc = "saving"
        /\ UNCHANGED lost
    BY <1>4 DEF SaveRecommendation
  <2>3. /\ recs \in Seq(Rec) /\ applied \in Seq(Approval) /\ Len(applied) = Len(recs)
    BY DEF Typed, Tables
  <2>4. /\ DOMAIN recs = 1 .. Len(recs) /\ DOMAIN applied = 1 .. Len(recs) /\ Len(recs) \in Nat
    BY <2>3, LenProperties
  <2>5. /\ DOMAIN recs' = 1 .. Len(recs) + 1 /\ recs'[Len(recs) + 1] = row
        /\ \A r \in DOMAIN recs : recs'[r] = recs[r]
    BY <2>1, <2>3, <2>4
  <2>6. \A r \in DOMAIN recs : applied'[r] = applied[r]
    BY <2>2, <2>3, <2>4
  <2>7. \A r \in DOMAIN recs' : recs'[r].status = "approved"
          => r \in DOMAIN recs /\ recs[r].status = "approved"
    BY <2>1, <2>4, <2>5
  <2>8. \A j \in Calls : calls[j].pc = "applying" => calls'[j] = calls[j]
    BY <2>2, EndEffect
  <2> QED BY <2>2, <2>6, <2>7, <2>8, AppliedKept
<1>5. ASSUME NEW k \in Calls, ApproveCommit(k) PROVE ApprovedIsApplied'
  <2>r. PICK r : r = calls[k].rec
    OBVIOUS
  <2>1. /\ calls[k].pc = "approving"
        /\ recs' = [recs EXCEPT ![r].status = "approved", ![r].snapshot = calls[k].text]
        /\ calls' = [calls EXCEPT ![k].pc = "applying"]
        /\ applied' = [applied EXCEPT ![r] = Committed(calls[k].text)]
        /\ UNCHANGED lost
    BY <1>5, <2>r DEF ApproveCommit
  <2>2. /\ calls'[k].pc = "applying" /\ calls'[k].rec = r
        /\ \A j \in Calls : j # k => calls'[j] = calls[j]
    BY <2>1, <2>r DEF Typed, Working, Call
  <2>3. /\ DOMAIN recs' = DOMAIN recs
        /\ \A q \in DOMAIN recs : q # r => recs'[q] = recs[q]
    BY <2>1
  <2>4. \A q \in DOMAIN recs : q # r => applied'[q] = applied[q]
    BY <2>1, RowType
  <2>5. ASSUME NEW q \in DOMAIN recs', recs'[q].status = "approved"
        PROVE  \/ applied'[q].state = "saved" \/ q \in lost'
               \/ \E j \in Calls : calls'[j].pc = "applying" /\ calls'[j].rec = q
    <3>1. CASE q = r
      BY <2>2, <3>1
    <3>2. CASE q # r
      <4>1. \/ applied[q].state = "saved" \/ q \in lost
            \/ \E j \in Calls : calls[j].pc = "applying" /\ calls[j].rec = q
        BY <2>3, <2>5, <3>2 DEF ApprovedIsApplied
      <4> QED BY <2>1, <2>2, <2>3, <2>4, <3>2, <4>1
    <3> QED BY <3>1, <3>2
  <2> QED BY <2>5 DEF ApprovedIsApplied
<1>6. ASSUME NEW k \in Calls, ApproveSave(k) PROVE ApprovedIsApplied'
  <2>r. PICK r : r = calls[k].rec
    OBVIOUS
  <2>t. PICK text, w : text = calls[k].text /\ w = calls[k].ws
    OBVIOUS
  <2>1. /\ calls[k].pc = "applying" /\ End(k)
        /\ applied' = [applied EXCEPT ![r].state = "saved", ![r].before = Effective(w),
                                      ![r].faithful = Effective(w) = text
                                                        /\ applied[r].read = text]
        /\ UNCHANGED <<recs, lost>>
    BY <1>6, <2>r, <2>t DEF ApproveSave
  <2>2. r \in DOMAIN recs
    BY <2>1, <2>r DEF Typed, Working, Busy
  <2>3. DOMAIN applied = DOMAIN recs /\ applied[r] \in Approval
    BY <2>2, RowType
  <2>4. /\ applied'[r].state = "saved"
        /\ \A q \in DOMAIN recs : q # r => applied'[q] = applied[q]
    BY <2>1, <2>2, <2>3 DEF Approval
  <2>5. \A j \in Calls : calls[j].pc = "applying"
          => calls'[j] = calls[j] \/ applied'[calls[j].rec].state = "saved"
    BY <2>1, <2>4, <2>r, EndEffect
  <2>6. \A q \in DOMAIN recs : applied[q].state = "saved" => applied'[q].state = "saved"
    BY <2>4
  <2> QED BY <2>1, <2>5, <2>6, AppliedKept
<1>7. ASSUME NEW k \in Calls, Rollback(k) PROVE ApprovedIsApplied'
  <2>1. PICK r \in DOMAIN recs : /\ recs' = [recs EXCEPT ![r].status = "open"]
                                 /\ UNCHANGED <<applied, lost>>
    BY <1>7 DEF Rollback
  <2>2. \E job : Begin(k, job)
    BY <1>7 DEF Rollback
  <2>3. \A q \in DOMAIN recs' : recs'[q].status = "approved"
          => q \in DOMAIN recs /\ recs[q].status = "approved"
    BY <2>1, RowType DEF Rec
  <2>4. \A j \in Calls : calls[j].pc = "applying" => calls'[j] = calls[j]
    BY <2>2, BeginEffect DEF Idle
  <2> QED BY <2>1, <2>3, <2>4, AppliedKept
<1>8. ASSUME NEW r \in DOMAIN recs, Reopen(r) PROVE ApprovedIsApplied'
  <2>1. \A q \in DOMAIN recs' : recs'[q].status = "approved"
          => q \in DOMAIN recs /\ recs[q].status = "approved"
    BY <1>8, RowType DEF Reopen, Rec
  <2> QED BY <1>8, <2>1, AppliedKept DEF Reopen
<1>9. ASSUME NEW ws, Reset(ws) PROVE ApprovedIsApplied'
  BY <1>9 DEF Reset, ApprovedIsApplied
<1>10. CASE UNCHANGED vars
  BY <1>10 DEF vars, ApprovedIsApplied
<1> QED BY <1>1, <1>2, <1>3, <1>4, <1>5, <1>6, <1>7, <1>8, <1>9, <1>10 DEF Next, Continue

\* An approved row's addendum was saved or its approval was cut short, and a
\* prompt is made of its workspace's texts, unless a row that was never approved
\* was rolled back there.
THEOREM PromptsAccountedCorrect == Spec => []PromptsAccounted
<1>1. Init => Typed /\ Origins /\ ApprovedIsApplied
  <2>1. Init => ApprovedIsApplied
    BY EmptySeq DEF Init, ApprovedIsApplied
  <2> QED BY <2>1, TypedInit, OriginsInit
<1>2. (Typed /\ Origins /\ ApprovedIsApplied) /\ [Next]_vars
        => (Typed /\ Origins /\ ApprovedIsApplied)'
  BY TypedStep, OriginsStep, AppliedStep
<1>3. Typed /\ Origins /\ ApprovedIsApplied => PromptsAccounted
  <2>1. ASSUME Typed, Origins PROVE OwnPrompts
    <3>1. ASSUME NEW w \in Workspaces \ borrowed, NEW i \in DOMAIN overlay[w]
          PROVE  overlay[w][i].from \in {w, "code"}
      <4>1. overlay[w] \in Seq(Theirs(w))
        BY <2>1 DEF Origins, Texts
      <4>2. overlay[w][i] \in Theirs(w)
        BY <4>1, LenProperties, ElementOfSeq
      <4> QED BY <4>2 DEF Theirs
    <3> QED BY <3>1 DEF OwnPrompts
  <2> QED BY <2>1 DEF PromptsAccounted
<1> QED BY <1>1, <1>2, <1>3, PTL DEF Spec

-----------------------------------------------------------------------------
(* Saves                                                                    *)

\* A prompt is reset or becomes what deduplication leaves of some prompt.
LEMMA OverlaySteps ==
  ASSUME Typed, [Next]_vars, NEW w \in Workspaces, overlay'[w] # overlay[w]
  PROVE  HasOneOfEach(overlay'[w])
<1>1. ASSUME NEW v \in Workspaces, NEW p \in Prompt, Save(v, p) PROVE HasOneOfEach(overlay'[w])
  <2>1. v = w /\ overlay'[w] = Dedupe(p)
    BY <1>1, SaveEffect
  <2> QED BY <2>1, DedupeShape DEF Prompt
<1>2. ASSUME NEW ws, Reset(ws) PROVE HasOneOfEach(overlay'[w])
  <2>1. overlay'[w] = <<>>
    BY <1>2 DEF Reset
  <2> QED BY <2>1 DEF HasOneOfEach
<1>3. ASSUME NEW k \in Calls, ApproveSave(k) PROVE HasOneOfEach(overlay'[w])
  <2>1. Save(calls[k].ws, Merge(calls[k].text, Directive(recs[calls[k].rec].kind)))
    BY <1>3 DEF ApproveSave
  <2>2. calls[k].rec \in DOMAIN recs
    BY <1>3 DEF ApproveSave, Typed, Working, Busy
  <2>3. recs[calls[k].rec].kind \in Kinds
    BY <2>2, RowType
  <2>4. Merge(calls[k].text, Directive(recs[calls[k].rec].kind)) \in Prompt
    BY <2>3, TextType, PromptTypes
  <2> QED BY <1>1, <2>1, <2>4, TextType
<1>4. ASSUME NEW k \in Calls, RollbackSave(k) \/ CleanSave(k) PROVE HasOneOfEach(overlay'[w])
  BY <1>1, <1>4, TextType DEF RollbackSave, CleanSave
<1>5. ASSUME NEW k \in Calls, EditorSave(k) PROVE HasOneOfEach(overlay'[w])
  <2>1. PICK p \in EditsOf(calls[k].text, calls[k].ws, edits') : Save(calls[k].ws, p)
    BY <1>5 DEF EditorSave
  <2>2. edits' \in 0 .. MaxEdits
    BY <1>5, PromptsAssumption DEF EditorSave, Typed, Tables
  <2>3. calls[k].text \in Seq(Sections) /\ calls[k].ws \in Workspaces
    BY TextType DEF Prompt
  <2>4. \A t \in Rewritten : Section(t, calls[k].ws, edits') \in Sections
    BY <2>2, <2>3, KnownTitles, OwnSections
  <2>5. PICK n : n = edits'
    OBVIOUS
  <2>6. p \in Prompt
    BY <2>1, <2>3, <2>4, <2>5, EditsOwn DEF Prompt
  <2> QED BY <1>1, <2>1, <2>3, <2>6
<1>6. overlay' # overlay
  OBVIOUS
<1> QED BY <1>2, <1>3, <1>4, <1>5, <1>6
     DEF Next, Continue, vars, Diagnose, Approve, ApproveUnread, ApproveRead, Rollback, EditorLoad,
         EditorLeave, CleanRead, SaveRecommendation, ApproveCommit, Reopen, Die

\* The one step that takes a call from pc while a prompt changes.
LEMMA SavingSteps ==
  ASSUME Typed, [Next]_vars, NEW k \in Calls
  PROVE  /\ Saves(k, "applying") => ApproveSave(k)
         /\ Saves(k, "restoring") => RollbackSave(k)
<1> SUFFICES ASSUME overlay' # overlay, calls'[k] # calls[k],
                    calls[k].pc \in {"applying", "restoring"}
             PROVE  ApproveSave(k) \/ RollbackSave(k)
  BY DEF Saves, ApproveSave, RollbackSave
<1>1. ASSUME NEW j \in Calls, \/ ApproveSave(j) \/ RollbackSave(j) \/ CleanSave(j) \/ EditorSave(j)
      PROVE  ApproveSave(k) \/ RollbackSave(k)
  <2>1. End(j)
    BY <1>1 DEF ApproveSave, RollbackSave, CleanSave, EditorSave
  <2>2. j = k
    BY <2>1, EndEffect
  <2> QED BY <1>1, <2>2 DEF CleanSave, EditorSave
<1> QED BY <1>1
     DEF Next, Continue, vars, Diagnose, Approve, ApproveUnread, ApproveRead, Rollback, EditorLoad,
         EditorLeave, CleanRead, SaveRecommendation, ApproveCommit, Reopen, Reset, Die

\* No save leaves a header twice; an approval appends, unless the prompt changed or
\* could not be read between its read and its save; and the rollback of a row whose
\* approval appended to the prompt in the row brings that prompt back.
THEOREM SavesSoundCorrect == Spec => SavesSound
<1>1. Init => Typed /\ Origins
  BY TypedInit, OriginsInit
<1>2. (Typed /\ Origins) /\ [Next]_vars => (Typed /\ Origins)'
  BY TypedStep, OriginsStep
<1>3. Typed /\ [Next]_vars
        => [\A w \in Workspaces : overlay'[w] # overlay[w] => HasOneOfEach(overlay'[w])]_vars
  BY OverlaySteps
<1>4. Typed /\ [Next]_vars
        => [\A k \in Calls :
              Saves(k, "applying") /\ calls[k].text = Effective(calls[k].ws)
                => Keeps(Stored(calls[k].text), overlay'[calls[k].ws],
                         recs[calls[k].rec].kind)]_vars
  <2>1. SUFFICES ASSUME Typed, [Next]_vars, NEW k \in Calls, Saves(k, "applying")
                 PROVE  Keeps(Dedupe(calls[k].text), overlay'[calls[k].ws], recs[calls[k].rec].kind)
    BY DEF Stored
  <2>2. PICK p, w, kind : p = calls[k].text /\ w = calls[k].ws /\ kind = recs[calls[k].rec].kind
    OBVIOUS
  <2>3. ApproveSave(k)
    BY <2>1, SavingSteps
  <2>4. calls[k].rec \in DOMAIN recs
    BY <2>1, <2>3 DEF ApproveSave, Typed, Working, Busy
  <2>5. kind \in Kinds /\ p \in Seq(Sections) /\ w \in Workspaces
    BY <2>1, <2>2, <2>4, RowType, TextType DEF Prompt
  <2>6. overlay'[w] = Dedupe(Merge(p, Directive(kind)))
    BY <2>1, <2>2, <2>3, <2>5, SaveEffect DEF ApproveSave
  <2>7. Own(kind) \in Sections /\ Own(Header) \in Sections
    BY <2>5, OwnSections, KnownTitles
  <2>8. Keeps(Dedupe(p), Dedupe(Merge(p, Directive(kind))), kind)
    BY <2>5, <2>7, MergeKeeps
  <2> QED BY <2>2, <2>6, <2>8
<1>5. Typed /\ Origins /\ [Next]_vars
        => [\A k \in Calls :
              Saves(k, "restoring") /\ calls[k].undoes.faithful
                => overlay'[calls[k].ws] = Dedupe(calls[k].undoes.before)]_vars
  <2>1. SUFFICES ASSUME Typed, Origins, [Next]_vars, NEW k \in Calls,
                        Saves(k, "restoring"), calls[k].undoes.faithful
                 PROVE  overlay'[calls[k].ws] = Dedupe(calls[k].undoes.before)
    OBVIOUS
  <2>2. RollbackSave(k)
    BY <2>1, SavingSteps
  <2>3. overlay'[calls[k].ws] = Dedupe(calls[k].text)
    BY <2>1, <2>2, TextType, SaveEffect DEF RollbackSave
  <2>4. calls[k].undoes.before = calls[k].text
    BY <2>1, <2>2 DEF RollbackSave, Origins, Carries
  <2> QED BY <2>3, <2>4
<1> QED BY <1>1, <1>2, <1>3, <1>4, <1>5, PTL
     DEF Spec, SavesSound, SavedOnce, ApprovalAppends, UndoRestores

-----------------------------------------------------------------------------
(* Sequences of positions                                                   *)

\* f lists what is picked of the prefixes of items up to the N-th.
PickOf(f, items, at, N) ==
  /\ f[0] = <<>>
  /\ \A n \in 1 .. N : f[n] = IF n \in at THEN Append(f[n - 1], items[n]) ELSE f[n - 1]

\* Picking passes through a value for every prefix.
LEMMA PickSteps ==
  ASSUME NEW S, NEW items \in Seq(S), NEW at
  PROVE  \E f : PickOf(f, items, at, Len(items)) /\ Picked(items, at) = f[Len(items)]
<1> DEFINE N == Len(items)
           Is(f) == f = [n \in 0 .. N |->
                          IF n = 0 THEN <<>>
                          ELSE IF n \in at THEN Append(f[n - 1], items[n]) ELSE f[n - 1]]
           T == {m \in Nat : m <= N => \E f : DOMAIN f = 0 .. m /\ PickOf(f, items, at, m)}
           picked == CHOOSE f : Is(f)
<1>a. N \in Nat
  BY LenProperties
<1>1. 0 \in T
  <2> DEFINE f == [n \in 0 .. 0 |-> <<>>]
  <2>1. DOMAIN f = 0 .. 0 /\ PickOf(f, items, at, 0)
    BY DEF PickOf
  <2> QED BY <2>1
<1>2. ASSUME NEW m \in T PROVE m + 1 \in T
  <2>1. SUFFICES ASSUME m + 1 <= N
                 PROVE  \E f : DOMAIN f = 0 .. m + 1 /\ PickOf(f, items, at, m + 1)
    OBVIOUS
  <2>2. PICK f : DOMAIN f = 0 .. m /\ PickOf(f, items, at, m)
    BY <1>a, <2>1
  <2> DEFINE last == IF m + 1 \in at THEN Append(f[m], items[m + 1]) ELSE f[m]
             g == [n \in 0 .. m + 1 |-> IF n = m + 1 THEN last ELSE f[n]]
  <2>3. \A n \in 0 .. m : g[n] = f[n]
    OBVIOUS
  <2>4. g[m + 1] = last
    OBVIOUS
  <2>5. DOMAIN g = 0 .. m + 1
    OBVIOUS
  <2> HIDE DEF g
  <2>6. ASSUME NEW n \in 1 .. m + 1
        PROVE  g[n] = IF n \in at THEN Append(g[n - 1], items[n]) ELSE g[n - 1]
    <3>1. CASE n = m + 1
      <4>1. n - 1 = m /\ m \in 0 .. m
        BY <3>1
      <4>2. g[n - 1] = f[m]
        BY <2>3, <4>1
      <4> QED BY <2>4, <3>1, <4>2
    <3>2. CASE n # m + 1
      <4>1. n \in 1 .. m /\ n - 1 \in 0 .. m /\ n \in 0 .. m
        BY <3>2
      <4>2. g[n] = f[n] /\ g[n - 1] = f[n - 1]
        BY <2>3, <4>1
      <4> QED BY <2>2, <4>1, <4>2 DEF PickOf
    <3> QED BY <3>1, <3>2
  <2>7. g[0] = <<>>
    BY <2>2, <2>3 DEF PickOf
  <2> QED BY <2>5, <2>6, <2>7 DEF PickOf
<1>3. T = Nat
  <2>1. T \in SUBSET Nat
    OBVIOUS
  <2> HIDE DEF T
  <2> QED BY <1>1, <1>2, <2>1, NatInduct
<1>4. PICK f : DOMAIN f = 0 .. N /\ PickOf(f, items, at, N)
  BY <1>3, <1>a
<1> DEFINE h == [n \in 0 .. N |-> f[n]]
<1>5. Is(h)
  <2>1. ASSUME NEW n \in 0 .. N
        PROVE  h[n] = IF n = 0 THEN <<>>
                      ELSE IF n \in at THEN Append(h[n - 1], items[n]) ELSE h[n - 1]
    <3>1. CASE n = 0
      BY <1>4, <1>a, <3>1 DEF PickOf
    <3>2. CASE n # 0
      <4>1. n \in 1 .. N /\ n - 1 \in 0 .. N
        BY <3>2
      <4> QED BY <1>4, <3>2, <4>1 DEF PickOf
    <3> QED BY <3>1, <3>2
  <2> QED BY <2>1
<1>6. Is(picked)
  BY <1>5
<1>7. Picked(items, at) = picked[N]
  BY DEF Picked
<1> HIDE DEF picked
<1>8. PickOf(picked, items, at, N)
  <2>1. picked[0] = <<>>
    BY <1>6, <1>a
  <2>2. ASSUME NEW n \in 1 .. N
        PROVE  picked[n] = IF n \in at THEN Append(picked[n - 1], items[n]) ELSE picked[n - 1]
    <3>1. n \in 0 .. N /\ n # 0
      OBVIOUS
    <3> QED BY <1>6, <3>1
  <2> QED BY <2>1, <2>2 DEF PickOf
<1> QED BY <1>7, <1>8

\* out lists elements of items, each from a position of its own in the set from.
Places(pos, out, items, from) ==
  /\ pos \in [1 .. Len(out) -> from]
  /\ \A i, j \in 1 .. Len(out) : pos[i] = pos[j] => i = j
  /\ \A i \in 1 .. Len(out) : out[i] = items[pos[i]]

Finds(out, items, from) == \A q \in from : \E i \in 1 .. Len(out) : out[i] = items[q]

LEMMA PlacesAppend ==
  ASSUME NEW S, NEW items \in Seq(S), NEW out \in Seq(S), NEW n \in 1 .. Len(items),
         NEW at, n \in at,
         \E pos : Places(pos, out, items, at \cap (1 .. n - 1)),
         Finds(out, items, at \cap (1 .. n - 1))
  PROVE  /\ \E pos : Places(pos, Append(out, items[n]), items, at \cap (1 .. n))
         /\ Finds(Append(out, items[n]), items, at \cap (1 .. n))
<1> DEFINE longer == Append(out, items[n])
<1>1. PICK pos : Places(pos, out, items, at \cap (1 .. n - 1))
  OBVIOUS
<1>2. /\ Len(longer) = Len(out) + 1 /\ Len(out) \in Nat
      /\ \A i \in 1 .. Len(out) : longer[i] = out[i]
      /\ longer[Len(out) + 1] = items[n]
  BY ElementOfSeq, AppendProperties, LenProperties
<1>3. n \in Nat /\ Len(items) \in Nat
  BY LenProperties
<1> HIDE DEF longer
<1> DEFINE p == [i \in 1 .. Len(out) + 1 |-> IF i = Len(out) + 1 THEN n ELSE pos[i]]
<1>4. \A i \in 1 .. Len(out) : pos[i] \in at /\ pos[i] \in 1 .. n - 1 /\ p[i] = pos[i]
  BY <1>1, <1>2 DEF Places
<1>5. p[Len(out) + 1] = n
  BY <1>2
<1>6. p \in [1 .. Len(longer) -> at \cap (1 .. n)]
  <2>1. ASSUME NEW i \in 1 .. Len(out) + 1 PROVE p[i] \in at \cap (1 .. n)
    <3>1. CASE i = Len(out) + 1
      <4>1. n \in at \cap (1 .. n)
        BY <1>3
      <4> HIDE DEF p
      <4> QED BY <1>5, <3>1, <4>1
    <3>2. CASE i # Len(out) + 1
      <4>1. i \in 1 .. Len(out)
        BY <1>2, <3>2
      <4>2. pos[i] \in at /\ pos[i] \in 1 .. n - 1 /\ p[i] = pos[i]
        BY <1>4, <4>1
      <4> HIDE DEF p
      <4> QED BY <1>3, <4>2
    <3> QED BY <3>1, <3>2
  <2>2. p = [i \in 1 .. Len(out) + 1 |-> p[i]]
    OBVIOUS
  <2> HIDE DEF p
  <2> QED BY <1>2, <2>1, <2>2
<1> HIDE DEF p
<1>7. ASSUME NEW i \in 1 .. Len(longer), NEW j \in 1 .. Len(longer), p[i] = p[j]
      PROVE  i = j
  <2>1. CASE i = Len(out) + 1 /\ j # Len(out) + 1
    BY <1>2, <1>3, <1>4, <1>5, <1>7, <2>1
  <2>2. CASE i # Len(out) + 1 /\ j = Len(out) + 1
    BY <1>2, <1>3, <1>4, <1>5, <1>7, <2>2
  <2>3. CASE i # Len(out) + 1 /\ j # Len(out) + 1
    <3>1. i \in 1 .. Len(out) /\ j \in 1 .. Len(out)
      BY <1>2, <2>3
    <3> QED BY <1>1, <1>4, <1>7, <3>1 DEF Places
  <2> QED BY <2>1, <2>2, <2>3
<1>8. ASSUME NEW i \in 1 .. Len(longer) PROVE longer[i] = items[p[i]]
  <2>1. CASE i = Len(out) + 1
    BY <1>2, <1>5, <2>1
  <2>2. CASE i # Len(out) + 1
    <3>1. i \in 1 .. Len(out)
      BY <1>2, <2>2
    <3> QED BY <1>1, <1>2, <1>4, <3>1 DEF Places
  <2> QED BY <2>1, <2>2
<1>9. Places(p, longer, items, at \cap (1 .. n))
  BY <1>6, <1>7, <1>8 DEF Places
<1>10. ASSUME NEW q \in at \cap (1 .. n)
       PROVE  \E i \in 1 .. Len(longer) : longer[i] = items[q]
  <2>1. CASE q = n
    <3>1. Len(out) + 1 \in 1 .. Len(longer)
      BY <1>2
    <3> QED BY <1>2, <2>1, <3>1
  <2>2. CASE q # n
    <3>1. q \in at \cap (1 .. n - 1)
      BY <1>3, <2>2
    <3>2. PICK i \in 1 .. Len(out) : out[i] = items[q]
      BY <3>1 DEF Finds
    <3>3. i \in 1 .. Len(longer) /\ longer[i] = items[q]
      BY <1>2, <3>2
    <3> QED BY <3>3
  <2> QED BY <2>1, <2>2
<1> QED BY <1>9, <1>10 DEF Finds, longer

\* What is picked of a prefix, and from where.
PickSound(S, out, items, at, n) ==
  /\ out \in Seq(S)
  /\ Len(out) <= n
  /\ \E pos : Places(pos, out, items, at \cap (1 .. n))
  /\ Finds(out, items, at \cap (1 .. n))

LEMMA PickFacts ==
  ASSUME NEW S, NEW items \in Seq(S), NEW at, NEW f, PickOf(f, items, at, Len(items))
  PROVE  \A n \in 0 .. Len(items) : PickSound(S, f[n], items, at, n)
<1> DEFINE N == Len(items)
           T == {n \in Nat : n <= N => PickSound(S, f[n], items, at, n)}
<1>a. N \in Nat
  BY LenProperties
<1>1. 0 \in T
  <2>1. f[0] = <<>> /\ <<>> \in Seq(S) /\ Len(<<>>) = 0
    BY EmptySeq DEF PickOf
  <2> DEFINE p == [i \in 1 .. 0 |-> i]
  <2>2. Places(p, f[0], items, at \cap (1 .. 0))
    BY <2>1 DEF Places
  <2>3. Finds(f[0], items, at \cap (1 .. 0))
    BY DEF Finds
  <2>4. \E pos : Places(pos, f[0], items, at \cap (1 .. 0))
    BY <2>2, Zenon
  <2> HIDE DEF p
  <2>5. f[0] \in Seq(S) /\ Len(f[0]) <= 0
    BY <2>1
  <2>6. PickSound(S, f[0], items, at, 0)
    BY <2>3, <2>4, <2>5, Zenon DEF PickSound
  <2> QED BY <2>6
<1>2. ASSUME NEW n \in T PROVE n + 1 \in T
  <2>1. SUFFICES ASSUME n + 1 <= N PROVE PickSound(S, f[n + 1], items, at, n + 1)
    OBVIOUS
  <2>2. PickSound(S, f[n], items, at, n) /\ n + 1 \in 1 .. N /\ (n + 1) - 1 = n
    BY <1>a, <2>1
  <2>3. CASE n + 1 \in at
    <3>1. f[n + 1] = Append(f[n], items[n + 1])
      BY <2>2, <2>3 DEF PickOf
    <3>2. items[n + 1] \in S
      BY <2>2, ElementOfSeq
    <3>3. Append(f[n], items[n + 1]) \in Seq(S) /\ Len(Append(f[n], items[n + 1])) <= n + 1
      BY <2>2, <3>2, AppendProperties, LenProperties DEF PickSound
    <3>4. PICK m : m = n + 1
      OBVIOUS
    <3>5. /\ \E pos : Places(pos, Append(f[n], items[m]), items, at \cap (1 .. m))
          /\ Finds(Append(f[n], items[m]), items, at \cap (1 .. m))
      <4>1. m \in 1 .. Len(items) /\ m \in at /\ m - 1 = n
        BY <2>2, <2>3, <3>4
      <4>2. f[n] \in Seq(S) /\ (\E pos : Places(pos, f[n], items, at \cap (1 .. m - 1)))
            /\ Finds(f[n], items, at \cap (1 .. m - 1))
        BY <2>2, <4>1 DEF PickSound
      <4> QED BY <4>1, <4>2, PlacesAppend
    <3> QED BY <3>1, <3>3, <3>4, <3>5 DEF PickSound
  <2>4. CASE n + 1 \notin at
    <3>1. f[n + 1] = f[n]
      BY <2>2, <2>4 DEF PickOf
    <3>2. at \cap (1 .. n + 1) = at \cap (1 .. n)
      BY <2>4
    <3>3. f[n] \in Seq(S) /\ Len(f[n]) <= n + 1
      BY <2>2, LenProperties DEF PickSound
    <3> QED BY <2>2, <3>1, <3>2, <3>3, Zenon DEF PickSound
  <2> QED BY <2>3, <2>4
<1>3. T = Nat
  <2>1. T \in SUBSET Nat
    OBVIOUS
  <2> HIDE DEF T
  <2> QED BY <1>1, <1>2, <2>1, NatInduct
<1> QED BY <1>3, <1>a

\* out is made of elements of items, none of them twice.
Within(out, items) == \E pos : Places(pos, out, items, DOMAIN items)

LEMMA PickedFacts ==
  ASSUME NEW S, NEW items \in Seq(S), NEW at
  PROVE  /\ Picked(items, at) \in Seq(S)
         /\ \E pos : Places(pos, Picked(items, at), items, at \cap DOMAIN items)
<1>1. PICK f : PickOf(f, items, at, Len(items)) /\ Picked(items, at) = f[Len(items)]
  BY PickSteps
<1>2. Len(items) \in 0 .. Len(items) /\ DOMAIN items = 1 .. Len(items)
  BY LenProperties
<1>3. PickSound(S, f[Len(items)], items, at, Len(items))
  BY <1>1, <1>2, PickFacts
<1> QED BY <1>1, <1>2, <1>3 DEF PickSound

LEMMA PlacesMore ==
  ASSUME NEW pos, NEW out, NEW items, NEW A, NEW B, A \subseteq B, Places(pos, out, items, A)
  PROVE  Places(pos, out, items, B)
BY DEF Places

LEMMA PlacesConcat ==
  ASSUME NEW S, NEW items \in Seq(S), NEW out \in Seq(S), NEW more \in Seq(S),
         NEW A, NEW B, A \cap B = {},
         \E pos : Places(pos, out, items, A), \E pos : Places(pos, more, items, B)
  PROVE  \E pos : Places(pos, out \o more, items, A \cup B)
<1>1. PICK p : Places(p, out, items, A)
  OBVIOUS
<1>2. PICK q : Places(q, more, items, B)
  OBVIOUS
<1> DEFINE all == out \o more
           m == Len(out)
           pos == [i \in 1 .. Len(all) |-> IF i <= m THEN p[i] ELSE q[i - m]]
<1>3. /\ m \in Nat /\ Len(more) \in Nat
      /\ Len(all) = m + Len(more)
      /\ \A i \in 1 .. Len(all) : all[i] = IF i <= m THEN out[i] ELSE more[i - m]
  BY LenProperties, ConcatProperties
<1> HIDE DEF m, all
<1>4. ASSUME NEW i \in 1 .. Len(all), i <= m
      PROVE  i \in 1 .. Len(out) /\ pos[i] = p[i] /\ p[i] \in A /\ all[i] = items[pos[i]]
  <2>1. i \in 1 .. Len(out)
    BY <1>3, <1>4 DEF m
  <2> QED BY <1>1, <1>3, <1>4, <2>1 DEF Places
<1>5. ASSUME NEW i \in 1 .. Len(all), ~ (i <= m)
      PROVE  /\ i - m \in 1 .. Len(more) /\ pos[i] = q[i - m] /\ q[i - m] \in B
             /\ all[i] = items[pos[i]]
  <2>1. i - m \in 1 .. Len(more)
    BY <1>3, <1>5
  <2> QED BY <1>2, <1>3, <1>5, <2>1 DEF Places
<1>6. pos \in [1 .. Len(all) -> A \cup B]
  <2>1. \A i \in 1 .. Len(all) : pos[i] \in A \cup B
    BY <1>4, <1>5
  <2> QED BY <2>1
<1> HIDE DEF pos
<1>7. ASSUME NEW i \in 1 .. Len(all), NEW j \in 1 .. Len(all), pos[i] = pos[j]
      PROVE  i = j
  <2>1. CASE i <= m /\ j <= m
    BY <1>1, <1>4, <1>7, <2>1 DEF Places
  <2>2. CASE ~ (i <= m) /\ ~ (j <= m)
    <3>1. i - m = j - m
      BY <1>2, <1>5, <1>7, <2>2 DEF Places
    <3> QED BY <3>1, <1>3
  <2>3. CASE i <= m /\ ~ (j <= m)
    <3>1. pos[i] \in A /\ pos[j] \in B
      BY <1>4, <1>5, <2>3
    <3> QED BY <1>7, <3>1
  <2>4. CASE ~ (i <= m) /\ j <= m
    <3>1. pos[i] \in B /\ pos[j] \in A
      BY <1>4, <1>5, <2>4
    <3> QED BY <1>7, <3>1
  <2> QED BY <2>1, <2>2, <2>3, <2>4
<1>8. Places(pos, all, items, A \cup B)
  BY <1>4, <1>5, <1>6, <1>7 DEF Places
<1> QED BY <1>8 DEF all

LEMMA WithinTrans ==
  ASSUME NEW S, NEW a \in Seq(S), NEW b \in Seq(S), NEW c \in Seq(S),
         Within(a, b), Within(b, c)
  PROVE  Within(a, c)
<1>1. PICK p : Places(p, a, b, DOMAIN b)
  BY DEF Within
<1>2. PICK q : Places(q, b, c, DOMAIN c)
  BY DEF Within
<1>3. DOMAIN b = 1 .. Len(b)
  BY LenProperties
<1> DEFINE r == [i \in 1 .. Len(a) |-> q[p[i]]]
<1>4. \A i \in 1 .. Len(a) : p[i] \in 1 .. Len(b) /\ r[i] = q[p[i]] /\ r[i] \in DOMAIN c
  BY <1>1, <1>2, <1>3 DEF Places
<1>5. r \in [1 .. Len(a) -> DOMAIN c]
  BY <1>4
<1> HIDE DEF r
<1>6. ASSUME NEW i \in 1 .. Len(a), NEW j \in 1 .. Len(a), r[i] = r[j]
      PROVE  i = j
  <2>1. p[i] = p[j]
    BY <1>2, <1>4, <1>6 DEF Places
  <2> QED BY <1>1, <2>1 DEF Places
<1>7. \A i \in 1 .. Len(a) : a[i] = c[r[i]]
  BY <1>1, <1>2, <1>4 DEF Places
<1> QED BY <1>5, <1>6, <1>7 DEF Places, Within

\* First is the front of a sequence.
LEMMA FirstFacts ==
  ASSUME NEW S, NEW items \in Seq(S), NEW n \in Nat
  PROVE  /\ First(n, items) \in Seq(S)
         /\ Len(First(n, items)) <= n
         /\ Within(First(n, items), items)
         /\ \A i \in 1 .. n : i <= Len(items) =>
              i <= Len(First(n, items)) /\ First(n, items)[i] = items[i]
<1> DEFINE m == IF Len(items) < n THEN Len(items) ELSE n
           out == First(n, items)
           pos == [i \in 1 .. m |-> i]
<1>1. /\ m \in Nat /\ m <= n /\ m <= Len(items) /\ Len(items) \in Nat
      /\ \A i \in 1 .. n : i <= Len(items) => i <= m
      /\ DOMAIN items = 1 .. Len(items)
  BY LenProperties
<1> HIDE DEF m
<1>2. out = SubSeq(items, 1, m)
  BY DEF First, m
<1>3. \A i \in 1 .. m : items[i] \in S
  BY <1>1, ElementOfSeq
<1>4. /\ SubSeq(items, 1, m) \in Seq(S)
      /\ Len(SubSeq(items, 1, m)) = IF 1 <= m THEN m - 1 + 1 ELSE 0
      /\ \A i \in 1 .. m - 1 + 1 : SubSeq(items, 1, m)[i] = items[1 + i - 1]
  <2>1. 1 \in Int /\ m \in Int
    BY <1>1
  <2> QED BY <1>3, <2>1, SubSeqProperties
<1>5. out \in Seq(S) /\ Len(out) = m /\ \A i \in 1 .. m : out[i] = items[i]
  BY <1>1, <1>2, <1>4
<1> HIDE DEF out
<1>6. Places(pos, out, items, DOMAIN items)
  <2>1. \A i \in 1 .. m : pos[i] = i /\ pos[i] \in DOMAIN items
    BY <1>1
  <2>2. pos \in [1 .. Len(out) -> DOMAIN items]
    BY <1>5, <2>1
  <2> QED BY <1>5, <2>1, <2>2 DEF Places
<1>7. Within(out, items)
  BY <1>6, Zenon DEF Within
<1>8. \A i \in 1 .. n : i <= Len(items) => i <= Len(out) /\ out[i] = items[i]
  BY <1>1, <1>5
<1> QED BY <1>1, <1>5, <1>7, <1>8 DEF out

LEMMA RankedFacts ==
  ASSUME NEW S, NEW items \in Seq(S)
  PROVE  Ranked(items) \in Seq(S) /\ Within(Ranked(items), items)
<1> DEFINE A == SeedsAt(items)
           B == DOMAIN items \ SeedsAt(items)
<1>1. Picked(items, A) \in Seq(S) /\ Picked(items, B) \in Seq(S)
  BY PickedFacts
<1>2. /\ \E pos : Places(pos, Picked(items, A), items, A \cap DOMAIN items)
      /\ \E pos : Places(pos, Picked(items, B), items, B \cap DOMAIN items)
  BY PickedFacts
<1>3. PICK C, D : C = A \cap DOMAIN items /\ D = B \cap DOMAIN items
  OBVIOUS
<1>4. C \cap D = {} /\ C \cup D = DOMAIN items
  BY <1>3
<1> HIDE DEF A, B
<1>5. \E pos : Places(pos, Picked(items, A) \o Picked(items, B), items, C \cup D)
  BY <1>1, <1>2, <1>3, <1>4, PlacesConcat
<1>6. Ranked(items) = Picked(items, A) \o Picked(items, B)
  BY DEF Ranked, A, B
<1>7. Ranked(items) \in Seq(S)
  BY <1>1, <1>6, ConcatProperties
<1> QED BY <1>4, <1>5, <1>6, <1>7 DEF Within

\* f lists the entries with a stamp up to the N-th, the newest first.
NewestOf(f, items, N) ==
  /\ f[0] = Picked(items, StampedAt(items, 0))
  /\ \A n \in 1 .. N : f[n] = Picked(items, StampedAt(items, n)) \o f[n - 1]

LEMMA NewestSteps ==
  ASSUME runs \in Nat, NEW items
  PROVE  \E f : NewestOf(f, items, runs) /\ NewestFirst(items) = f[runs]
<1> DEFINE Batch(n) == Picked(items, StampedAt(items, n))
           Is(f) == f = [n \in 0 .. runs |-> IF n = 0 THEN Batch(n) ELSE Batch(n) \o f[n - 1]]
           T == {m \in Nat : m <= runs => \E f : DOMAIN f = 0 .. m /\ NewestOf(f, items, m)}
           newest == CHOOSE f : Is(f)
<1>1. 0 \in T
  <2> DEFINE f == [n \in 0 .. 0 |-> Batch(0)]
  <2>1. DOMAIN f = 0 .. 0 /\ NewestOf(f, items, 0)
    BY DEF NewestOf
  <2> QED BY <2>1
<1>2. ASSUME NEW m \in T PROVE m + 1 \in T
  <2>1. SUFFICES ASSUME m + 1 <= runs
                 PROVE  \E f : DOMAIN f = 0 .. m + 1 /\ NewestOf(f, items, m + 1)
    OBVIOUS
  <2>2. PICK f : DOMAIN f = 0 .. m /\ NewestOf(f, items, m)
    BY <2>1
  <2> DEFINE last == Batch(m + 1) \o f[m]
             g == [n \in 0 .. m + 1 |-> IF n = m + 1 THEN last ELSE f[n]]
  <2>3. \A n \in 0 .. m : g[n] = f[n]
    OBVIOUS
  <2>4. g[m + 1] = last
    OBVIOUS
  <2>5. DOMAIN g = 0 .. m + 1
    OBVIOUS
  <2> HIDE DEF g
  <2>6. ASSUME NEW n \in 1 .. m + 1 PROVE g[n] = Batch(n) \o g[n - 1]
    <3>1. CASE n = m + 1
      <4>1. n - 1 = m /\ m \in 0 .. m
        BY <3>1
      <4>2. g[n - 1] = f[m]
        BY <2>3, <4>1
      <4> QED BY <2>4, <3>1, <4>2
    <3>2. CASE n # m + 1
      <4>1. n \in 1 .. m /\ n - 1 \in 0 .. m /\ n \in 0 .. m
        BY <3>2
      <4>2. g[n] = f[n] /\ g[n - 1] = f[n - 1]
        BY <2>3, <4>1
      <4> QED BY <2>2, <4>1, <4>2 DEF NewestOf
    <3> QED BY <3>1, <3>2
  <2>7. g[0] = Batch(0)
    BY <2>2, <2>3 DEF NewestOf
  <2> QED BY <2>5, <2>6, <2>7 DEF NewestOf
<1>3. T = Nat
  <2>1. T \in SUBSET Nat
    OBVIOUS
  <2> HIDE DEF T
  <2> QED BY <1>1, <1>2, <2>1, NatInduct
<1>4. PICK f : DOMAIN f = 0 .. runs /\ NewestOf(f, items, runs)
  BY <1>3
<1> DEFINE h == [n \in 0 .. runs |-> f[n]]
<1>5. Is(h)
  <2>1. ASSUME NEW n \in 0 .. runs
        PROVE  h[n] = IF n = 0 THEN Batch(n) ELSE Batch(n) \o h[n - 1]
    <3>1. CASE n = 0
      BY <1>4, <3>1 DEF NewestOf
    <3>2. CASE n # 0
      <4>1. n \in 1 .. runs /\ n - 1 \in 0 .. runs
        BY <3>2
      <4> QED BY <1>4, <3>2, <4>1 DEF NewestOf
    <3> QED BY <3>1, <3>2
  <2> QED BY <2>1
<1>6. Is(newest)
  BY <1>5
<1>7. NewestFirst(items) = newest[runs]
  BY DEF NewestFirst
<1> HIDE DEF newest
<1>8. NewestOf(newest, items, runs)
  <2>1. newest[0] = Batch(0)
    BY <1>6
  <2>2. ASSUME NEW n \in 1 .. runs PROVE newest[n] = Batch(n) \o newest[n - 1]
    <3>1. n \in 0 .. runs /\ n # 0
      OBVIOUS
    <3> QED BY <1>6, <3>1
  <2> QED BY <2>1, <2>2 DEF NewestOf
<1> QED BY <1>7, <1>8

StampedTo(items, n) == {i \in DOMAIN items : items[i].stamp \in 0 .. n}

NewestSound(S, out, items, n) ==
  out \in Seq(S) /\ \E pos : Places(pos, out, items, StampedTo(items, n))

LEMMA NewestFacts ==
  ASSUME runs \in Nat, NEW S, NEW items \in Seq(S)
  PROVE  NewestFirst(items) \in Seq(S) /\ Within(NewestFirst(items), items)
<1>1. PICK f : NewestOf(f, items, runs) /\ NewestFirst(items) = f[runs]
  BY NewestSteps
<1> DEFINE T == {n \in Nat : n <= runs => NewestSound(S, f[n], items, n)}
           Batch(n) == Picked(items, StampedAt(items, n))
<1>2. ASSUME NEW n
      PROVE  Batch(n) \in Seq(S) /\ \E pos : Places(pos, Batch(n), items, StampedAt(items, n))
  <2>1. StampedAt(items, n) \cap DOMAIN items = StampedAt(items, n)
    BY DEF StampedAt
  <2> QED BY <2>1, PickedFacts
<1>3. 0 \in T
  <2>1. f[0] = Batch(0)
    BY <1>1 DEF NewestOf
  <2>2. StampedAt(items, 0) = StampedTo(items, 0)
    BY DEF StampedAt, StampedTo
  <2>3. NewestSound(S, f[0], items, 0)
    <3> HIDE DEF Batch
    <3> QED BY <1>2, <2>1, <2>2, Zenon DEF NewestSound
  <2> QED BY <2>3
<1>4. ASSUME NEW n \in T PROVE n + 1 \in T
  <2>1. SUFFICES ASSUME n + 1 <= runs PROVE NewestSound(S, f[n + 1], items, n + 1)
    OBVIOUS
  <2>2. NewestSound(S, f[n], items, n)
    BY <2>1
  <2>3. PICK m, A, B : m = n + 1 /\ A = StampedAt(items, m) /\ B = StampedTo(items, n)
    OBVIOUS
  <2>4. f[m] = Batch(m) \o f[n]
    <3>1. m \in 1 .. runs /\ m - 1 = n
      BY <2>1, <2>3
    <3>2. f[m] = Batch(m) \o f[m - 1]
      BY <1>1, <3>1 DEF NewestOf
    <3> HIDE DEF Batch
    <3> QED BY <3>1, <3>2
  <2>5. A \cap B = {} /\ A \cup B = StampedTo(items, m)
    BY <2>3 DEF StampedAt, StampedTo
  <2>6. /\ Batch(m) \in Seq(S) /\ f[n] \in Seq(S)
        /\ \E pos : Places(pos, Batch(m), items, A)
        /\ \E pos : Places(pos, f[n], items, B)
    BY <1>2, <2>2, <2>3 DEF NewestSound
  <2> HIDE DEF Batch
  <2>7. \E pos : Places(pos, Batch(m) \o f[n], items, A \cup B)
    BY <2>5, <2>6, PlacesConcat
  <2>8. Batch(m) \o f[n] \in Seq(S)
    BY <2>6, ConcatProperties
  <2>9. NewestSound(S, f[m], items, m)
    BY <2>4, <2>5, <2>7, <2>8, Zenon DEF NewestSound
  <2> QED BY <2>3, <2>9
<1>5. T = Nat
  <2>1. T \in SUBSET Nat
    OBVIOUS
  <2> HIDE DEF T
  <2> QED BY <1>3, <1>4, <2>1, NatInduct
<1>6. NewestSound(S, f[runs], items, runs)
  BY <1>5
<1>7. StampedTo(items, runs) \subseteq DOMAIN items
  BY DEF StampedTo
<1>8. PICK pos : Places(pos, f[runs], items, StampedTo(items, runs))
  BY <1>6 DEF NewestSound
<1>9. Places(pos, f[runs], items, DOMAIN items)
  BY <1>7, <1>8, PlacesMore
<1> QED BY <1>1, <1>6, <1>9 DEF Within, NewestSound

Halves(a, b, n) == Len(a) \in Nat /\ Len(b) \in Nat /\ Len(a) + Len(b) = n

\* Picking from two halves of a sequence takes every element once.
LEMMA PickSplit ==
  ASSUME NEW S, NEW items \in Seq(S), NEW at, NEW f, NEW g,
         PickOf(f, items, at, Len(items)), PickOf(g, items, DOMAIN items \ at, Len(items))
  PROVE  \A n \in 0 .. Len(items) : Halves(f[n], g[n], n)
<1> DEFINE N == Len(items)
           rest == DOMAIN items \ at
           T == {n \in Nat : n <= N => Halves(f[n], g[n], n)}
<1>a. N \in Nat /\ DOMAIN items = 1 .. N
  BY LenProperties
<1>b. \A n \in 0 .. N : PickSound(S, f[n], items, at, n) /\ PickSound(S, g[n], items, rest, n)
  BY PickFacts
<1>1. 0 \in T
  <2>1. f[0] = <<>> /\ g[0] = <<>> /\ Len(<<>>) = 0
    BY EmptySeq DEF PickOf
  <2>2. Halves(f[0], g[0], 0)
    BY <2>1 DEF Halves
  <2> QED BY <2>2
<1>2. ASSUME NEW n \in T PROVE n + 1 \in T
  <2>1. SUFFICES ASSUME n + 1 <= N PROVE Halves(f[n + 1], g[n + 1], n + 1)
    OBVIOUS
  <2>2. PICK m : m = n + 1
    OBVIOUS
  <2>3. /\ m \in 1 .. N /\ m - 1 = n /\ n \in 0 .. N /\ items[m] \in S
        /\ Halves(f[n], g[n], n)
    BY <1>a, <2>1, <2>2, ElementOfSeq
  <2>4. f[n] \in Seq(S) /\ g[n] \in Seq(S)
    BY <1>b, <2>3 DEF PickSound
  <2>a. PICK a, b : a = Len(f[n]) /\ b = Len(g[n])
    OBVIOUS
  <2>5. /\ Len(Append(f[n], items[m])) = a + 1
        /\ Len(Append(g[n], items[m])) = b + 1
        /\ a \in Nat /\ b \in Nat /\ a + b = n /\ n \in Nat /\ m = n + 1
    <3>1. n \in Nat /\ m = n + 1
      BY <1>a, <2>2, <2>3
    <3>2. a \in Nat /\ b \in Nat /\ a + b = n
      BY <2>3, <2>a DEF Halves
    <3>3. /\ Len(Append(f[n], items[m])) = Len(f[n]) + 1
          /\ Len(Append(g[n], items[m])) = Len(g[n]) + 1
      BY <2>3, <2>4, AppendProperties
    <3> QED BY <2>a, <3>1, <3>2, <3>3
  <2>b. (a + 1) + b = m /\ a + (b + 1) = m /\ a + 1 \in Nat /\ b + 1 \in Nat
    BY <2>5
  <2>6. CASE m \in at
    <3>3. Halves(Append(f[n], items[m]), g[n], m)
      BY <2>5, <2>a, <2>b DEF Halves
    <3>1. f[m] = Append(f[n], items[m]) /\ g[m] = g[n]
      BY <2>3, <2>6 DEF PickOf
    <3>2. Halves(f[m], g[m], m)
      BY <3>1, <3>3
    <3> QED BY <2>2, <3>2
  <2>7. CASE m \notin at
    <3>3. Halves(f[n], Append(g[n], items[m]), m)
      BY <2>5, <2>a, <2>b DEF Halves
    <3>1. g[m] = Append(g[n], items[m]) /\ f[m] = f[n]
      BY <1>a, <2>3, <2>7 DEF PickOf
    <3>2. Halves(f[m], g[m], m)
      BY <3>1, <3>3
    <3> QED BY <2>2, <3>2
  <2> QED BY <2>6, <2>7
<1>3. T = Nat
  <2>1. T \in SUBSET Nat
    OBVIOUS
  <2> HIDE DEF T
  <2> QED BY <1>1, <1>2, <2>1, NatInduct
<1> QED BY <1>3, <1>a

Grows(f, at, M, n) ==
  /\ Len(f[M]) <= Len(f[n])
  /\ \A i \in 1 .. Len(f[M]) : f[n][i] = f[M][i]
  /\ (\A q \in at : q <= M) => f[n] = f[M]

\* What is picked of a prefix is the front of what is picked of all, and all of it
\* when nothing comes later.
LEMMA PickGrows ==
  ASSUME NEW S, NEW items \in Seq(S), NEW at, NEW f, PickOf(f, items, at, Len(items)),
         NEW M \in 0 .. Len(items)
  PROVE  \A n \in M .. Len(items) : Grows(f, at, M, n)
<1> USE DEF Grows
<1> DEFINE N == Len(items)
           Grown(n) == Grows(f, at, M, n)
           T == {d \in Nat : M + d <= N => Grown(M + d)}
<1>a. N \in Nat /\ M \in Nat /\ M <= N
  BY LenProperties
<1>b. \A n \in 0 .. N : f[n] \in Seq(S) /\ Len(f[n]) \in Nat
  BY PickFacts, LenProperties DEF PickSound
<1>1. 0 \in T
  <2>1. M + 0 = M /\ Len(f[M]) \in Nat
    BY <1>a, <1>b
  <2> QED BY <2>1
<1>2. ASSUME NEW d \in T PROVE d + 1 \in T
  <2>1. SUFFICES ASSUME M + (d + 1) <= N PROVE Grown(M + (d + 1))
    OBVIOUS
  <2>2. PICK n, m : n = M + d /\ m = M + (d + 1)
    OBVIOUS
  <2>3. m \in 1 .. N /\ m - 1 = n /\ n \in 0 .. N /\ m \in 0 .. N /\ m > M /\ items[m] \in S
    BY <1>a, <2>1, <2>2, ElementOfSeq
  <2>4. Grown(n)
    BY <1>a, <2>1, <2>2
  <2>5. CASE m \in at
    <3>1. f[m] = Append(f[n], items[m])
      BY <2>3, <2>5 DEF PickOf
    <3>2. Len(f[m]) = Len(f[n]) + 1 /\ \A i \in 1 .. Len(f[n]) : f[m][i] = f[n][i]
      BY <1>b, <2>3, <3>1, AppendProperties
    <3>3. Len(f[M]) \in Nat /\ Len(f[n]) \in Nat
      BY <1>a, <1>b, <2>3
    <3>4. ~ \A q \in at : q <= M
      BY <1>a, <2>3, <2>5
    <3>5. Grown(m)
      BY <2>4, <3>2, <3>3, <3>4
    <3> QED BY <2>2, <3>5
  <2>6. CASE m \notin at
    <3>1. f[m] = f[n]
      BY <2>3, <2>6 DEF PickOf
    <3>2. Grown(m)
      BY <2>4, <3>1
    <3> QED BY <2>2, <3>2
  <2> QED BY <2>5, <2>6
<1>3. T = Nat
  <2>1. T \in SUBSET Nat
    OBVIOUS
  <2> HIDE DEF T
  <2> QED BY <1>1, <1>2, <2>1, NatInduct
<1>4. ASSUME NEW n \in M .. N PROVE Grown(n)
  <2>1. PICK d \in Nat : d = n - M
    BY <1>a
  <2>2. M + d = n /\ n <= N
    BY <1>a, <2>1
  <2>3. d \in T
    BY <1>3
  <2>4. M + d <= N => Grown(M + d)
    BY <2>3
  <2> HIDE DEF Grown
  <2> QED BY <2>2, <2>4
<1> QED BY <1>4

-----------------------------------------------------------------------------
(* Libraries as sequences of entries                                        *)

\* What stands in a library that is extended stays in it, whatever its limit:
\* seeds come first, and the new entries come last.
LEMMA ExtendedKeeps ==
  ASSUME NEW S, NEW items \in Seq(S), NEW new \in Seq(S), Len(items) <= MaxLibrary,
         \A i \in DOMAIN new : new[i].source # "seed"
  PROVE  \A q \in DOMAIN items :
           \E i \in DOMAIN Extended(items, new) : Extended(items, new)[i] = items[q]
<1> DEFINE all == items \o new
           at == SeedsAt(all)
           rest == DOMAIN all \ at
           M == Len(items)
           N == Len(all)
           out == Extended(items, new)
<1>1. /\ all \in Seq(S) /\ M \in Nat /\ N \in Nat /\ M <= N /\ Len(new) \in Nat
      /\ DOMAIN all = 1 .. N /\ DOMAIN items = 1 .. M /\ DOMAIN new = 1 .. Len(new)
      /\ N = M + Len(new)
      /\ \A i \in 1 .. N : all[i] = IF i <= M THEN items[i] ELSE new[i - M]
  BY LenProperties, ConcatProperties
<1>2. \A q \in at : q \in DOMAIN all /\ q <= M
  <2>1. ASSUME NEW q \in at, ~ (q <= M) PROVE FALSE
    <3>1. q \in 1 .. N /\ all[q].source = "seed"
      BY <1>1 DEF SeedsAt
    <3>2. all[q] = new[q - M] /\ q - M \in DOMAIN new
      BY <1>1, <2>1, <3>1
    <3> QED BY <3>1, <3>2
  <2> QED BY <2>1 DEF SeedsAt
<1> HIDE DEF all, at
<1>3. PICK f : PickOf(f, all, at, N) /\ Picked(all, at) = f[N]
  BY <1>1, PickSteps
<1>4. PICK g : PickOf(g, all, rest, N) /\ Picked(all, rest) = g[N]
  BY <1>1, PickSteps
<1>5. M \in 0 .. N /\ N \in M .. N /\ N \in 0 .. N
  BY <1>1
<1>6. PickSound(S, f[M], all, at, M) /\ PickSound(S, g[M], all, rest, M)
  BY <1>1, <1>3, <1>4, <1>5, PickFacts
<1>7. f[N] \in Seq(S) /\ g[N] \in Seq(S)
  BY <1>1, <1>3, <1>4, <1>5, PickFacts DEF PickSound
<1>8. f[N] = f[M]
  <2>1. Grows(f, at, M, N)
    BY <1>1, <1>3, <1>5, PickGrows
  <2> HIDE DEF M, N
  <2> QED BY <1>2, <2>1 DEF Grows
<1>9. Len(g[M]) <= Len(g[N]) /\ \A i \in 1 .. Len(g[M]) : g[N][i] = g[M][i]
  <2>1. Grows(g, rest, M, N)
    BY <1>1, <1>4, <1>5, PickGrows
  <2> QED BY <2>1 DEF Grows
<1>10. Halves(f[M], g[M], M)
  BY <1>1, <1>3, <1>4, <1>5, PickSplit
<1> DEFINE ranked == f[N] \o g[N]
<1>a. PICK a, b, c : a = Len(f[M]) /\ b = Len(g[M]) /\ c = Len(g[N])
  OBVIOUS
<1>b. a \in Nat /\ b \in Nat /\ c \in Nat /\ a + b = M /\ b <= c
  BY <1>7, <1>9, <1>10, <1>a, LenProperties DEF Halves
<1>11. /\ ranked \in Seq(S)
       /\ Len(ranked) = a + c
       /\ \A i \in 1 .. a + c : ranked[i] = IF i <= a THEN f[M][i] ELSE g[N][i - a]
  <2>1. PICK x, y : x = f[N] /\ y = g[N]
    OBVIOUS
  <2>2. x \in Seq(S) /\ y \in Seq(S) /\ Len(x) = a /\ Len(y) = c
    BY <1>7, <1>8, <1>a, <2>1
  <2>3. /\ x \o y \in Seq(S) /\ Len(x \o y) = a + c
        /\ \A i \in 1 .. a + c : (x \o y)[i] = IF i <= a THEN x[i] ELSE y[i - a]
    BY <2>2, ConcatProperties
  <2> QED BY <1>8, <2>1, <2>3
<1>12. out = First(MaxLibrary, ranked)
  BY <1>3, <1>4 DEF Extended, Trimmed, Ranked, all, at
<1> HIDE DEF ranked
<1>13. ASSUME NEW q \in DOMAIN items PROVE \E i \in 1 .. M : i <= Len(ranked) /\ ranked[i] = items[q]
  <2>1. q \in 1 .. M /\ q \in 1 .. N /\ all[q] = items[q]
    BY <1>1
  <2>2. CASE q \in at
    <3>1. PICK i \in 1 .. a : f[M][i] = all[q]
      BY <1>6, <1>a, <2>1, <2>2 DEF PickSound, Finds
    <3>2. i \in 1 .. M /\ i <= a + c /\ i <= a /\ i \in 1 .. a + c
      <4> HIDE DEF M
      <4> QED BY <1>b
    <3> QED BY <1>11, <2>1, <3>1, <3>2
  <2>3. CASE q \notin at
    <3>1. q \in rest \cap (1 .. M)
      BY <1>1, <2>1, <2>3
    <3>2. PICK j \in 1 .. b : g[M][j] = all[q]
      BY <1>6, <1>a, <3>1 DEF PickSound, Finds
    <3>3. PICK i : i = a + j
      OBVIOUS
    <3>4. i \in 1 .. M /\ i <= a + c /\ ~ (i <= a) /\ i - a = j /\ i \in 1 .. a + c
      <4> HIDE DEF M
      <4> QED BY <1>b, <3>3
    <3>5. ranked[i] = g[N][j]
      BY <1>11, <3>4
    <3>6. ranked[i] = items[q]
      BY <1>9, <1>a, <2>1, <3>2, <3>5
    <3> QED BY <1>11, <3>4, <3>6
  <2> QED BY <2>2, <2>3
<1>14. /\ out \in Seq(S)
       /\ \A i \in 1 .. MaxLibrary : i <= Len(ranked) => i <= Len(out) /\ out[i] = ranked[i]
  <2>1. MaxLibrary \in Nat
    BY LearningAssumption
  <2>2. PICK x : x = ranked
    OBVIOUS
  <2>3. x \in Seq(S)
    BY <1>11, <2>2
  <2>4. /\ First(MaxLibrary, x) \in Seq(S)
        /\ \A i \in 1 .. MaxLibrary : i <= Len(x) =>
             i <= Len(First(MaxLibrary, x)) /\ First(MaxLibrary, x)[i] = x[i]
    BY <2>1, <2>3, FirstFacts
  <2> HIDE DEF out
  <2> QED BY <1>12, <2>2, <2>4
<1> HIDE DEF out
<1>15. ASSUME NEW q \in DOMAIN items PROVE \E i \in DOMAIN out : out[i] = items[q]
  <2>1. PICK i \in 1 .. M : i <= Len(ranked) /\ ranked[i] = items[q]
    BY <1>13
  <2>2. i \in 1 .. MaxLibrary
    BY <1>1, LearningAssumption
  <2>3. i \in DOMAIN out /\ out[i] = items[q]
    BY <1>14, <2>1, <2>2, LenProperties
  <2> QED BY <2>3
<1> QED BY <1>15 DEF out

LEMMA ExtendedFacts ==
  ASSUME NEW S, NEW items \in Seq(S), NEW new \in Seq(S)
  PROVE  /\ Extended(items, new) \in Seq(S)
         /\ Len(Extended(items, new)) <= MaxLibrary
         /\ Within(Extended(items, new), items \o new)
<1>1. PICK all : all = items \o new
  OBVIOUS
<1>2. all \in Seq(S)
  BY <1>1, ConcatProperties
<1>3. PICK ranked : ranked = Ranked(all)
  OBVIOUS
<1>4. ranked \in Seq(S) /\ Within(ranked, all)
  BY <1>2, <1>3, RankedFacts
<1>5. PICK out : out = First(MaxLibrary, ranked)
  OBVIOUS
<1>6. out \in Seq(S) /\ Len(out) <= MaxLibrary /\ Within(out, ranked)
  <2>1. MaxLibrary \in Nat
    BY LearningAssumption
  <2> QED BY <1>4, <1>5, <2>1, FirstFacts
<1>7. Within(out, all)
  BY <1>2, <1>4, <1>6, WithinTrans
<1>8. Extended(items, new) = out
  BY <1>1, <1>3, <1>5 DEF Extended, Trimmed
<1> QED BY <1>1, <1>6, <1>7, <1>8

\* An old reply has no reason that could be valid.
EntrySound(f, e) ==
  IF f = "winners"
  THEN /\ Backed(e, "up")
       /\ e.source = "reply" /\ e.reason # "valid" => e.of \in OldReplies
  ELSE e.source = "rating" /\ Backed(e, "feedback")

Good(f, items) ==
  /\ items \in Seq(Entry)
  /\ Unique(items)
  /\ \A i \in DOMAIN items : EntrySound(f, items[i])

\* What a library is at any time, on disk and in a call.
Sound(f, items) == Good(f, items) /\ Len(items) <= MaxLibrary

RatingsSound ==
  /\ ratings \in Seq([of : Contents, rating : {"up", "down", "feedback"}])
  /\ \A i, j \in DOMAIN ratings : ratings[i].of = ratings[j].of => i = j

LEMMA GoodEmpty == ASSUME NEW f PROVE Sound(f, <<>>)
<1>1. <<>> \in Seq(Entry) /\ Len(<<>>) = 0 /\ DOMAIN <<>> = {}
  BY EmptySeq
<1>2. 0 <= MaxLibrary
  BY LearningAssumption
<1> QED BY <1>1, <1>2 DEF Sound, Good, Unique

LEMMA GoodWithin ==
  ASSUME NEW f, NEW items, Good(f, items), NEW out \in Seq(Entry), Within(out, items)
  PROVE  Good(f, out)
<1>1. PICK pos : Places(pos, out, items, DOMAIN items)
  BY DEF Within
<1>2. DOMAIN out = 1 .. Len(out)
  BY LenProperties
<1>3. \A i \in DOMAIN out : pos[i] \in DOMAIN items /\ out[i] = items[pos[i]]
  BY <1>1, <1>2 DEF Places
<1>4. Unique(out)
  <2>1. ASSUME NEW i \in DOMAIN out, NEW j \in DOMAIN out,
               out[i].source = out[j].source, out[i].of = out[j].of
        PROVE  i = j
    <3>1. pos[i] = pos[j]
      BY <1>3, <2>1 DEF Good, Unique
    <3> QED BY <1>1, <1>2, <3>1 DEF Places
  <2> QED BY <2>1 DEF Unique
<1>5. \A i \in DOMAIN out : EntrySound(f, out[i])
  BY <1>3 DEF Good
<1> QED BY <1>4, <1>5 DEF Good

LEMMA GoodConcat ==
  ASSUME NEW f, NEW items, NEW new, Good(f, items), Good(f, new),
         \A i \in DOMAIN new : ~ Has(items, new[i].source, new[i].of)
  PROVE  Good(f, items \o new)
<1> DEFINE all == items \o new
           m == Len(items)
<1>1. /\ items \in Seq(Entry) /\ new \in Seq(Entry) /\ m \in Nat /\ Len(new) \in Nat
      /\ DOMAIN items = 1 .. m /\ DOMAIN new = 1 .. Len(new)
  BY LenProperties DEF Good
<1>2. /\ all \in Seq(Entry) /\ Len(all) = m + Len(new)
      /\ \A i \in 1 .. m + Len(new) : all[i] = IF i <= m THEN items[i] ELSE new[i - m]
  BY <1>1, ConcatProperties
<1>3. DOMAIN all = 1 .. m + Len(new)
  BY <1>2, LenProperties
<1> HIDE DEF all, m
<1>4. ASSUME NEW i \in DOMAIN all, i <= m
      PROVE  i \in DOMAIN items /\ all[i] = items[i]
  BY <1>1, <1>2, <1>3, <1>4
<1>5. ASSUME NEW i \in DOMAIN all, ~ (i <= m)
      PROVE  i - m \in DOMAIN new /\ all[i] = new[i - m]
  BY <1>1, <1>2, <1>3, <1>5
<1>6. \A i \in DOMAIN all : EntrySound(f, all[i])
  BY <1>4, <1>5 DEF Good
<1>7. ASSUME NEW i \in DOMAIN all, NEW j \in DOMAIN all,
             all[i].source = all[j].source, all[i].of = all[j].of
      PROVE  i = j
  <2>1. CASE i <= m /\ j <= m
    BY <1>4, <1>7, <2>1 DEF Good, Unique
  <2>2. CASE ~ (i <= m) /\ ~ (j <= m)
    <3>1. i - m = j - m
      BY <1>5, <1>7, <2>2 DEF Good, Unique
    <3> QED BY <1>1, <1>3, <3>1
  <2>3. CASE i <= m /\ ~ (j <= m)
    <3>1. i \in DOMAIN items /\ j - m \in DOMAIN new /\ all[i] = items[i] /\ all[j] = new[j - m]
      BY <1>4, <1>5, <2>3
    <3> QED BY <1>7, <3>1 DEF Has
  <2>4. CASE ~ (i <= m) /\ j <= m
    <3>1. j \in DOMAIN items /\ i - m \in DOMAIN new /\ all[j] = items[j] /\ all[i] = new[i - m]
      BY <1>4, <1>5, <2>4
    <3> QED BY <1>7, <3>1 DEF Has
  <2> QED BY <2>1, <2>2, <2>3, <2>4
<1> QED BY <1>2, <1>6, <1>7 DEF Good, Unique, all

LEMMA SoundExtended ==
  ASSUME NEW items, NEW new, Good("winners", items), Good("winners", new),
         \A i \in DOMAIN new : ~ Has(items, new[i].source, new[i].of)
  PROVE  Sound("winners", Extended(items, new))
<1>1. items \in Seq(Entry) /\ new \in Seq(Entry)
  BY DEF Good
<1>2. Good("winners", items \o new)
  BY GoodConcat
<1>3. /\ Extended(items, new) \in Seq(Entry) /\ Len(Extended(items, new)) <= MaxLibrary
      /\ Within(Extended(items, new), items \o new)
  BY <1>1, ExtendedFacts
<1>4. Good("winners", Extended(items, new))
  BY <1>2, <1>3, GoodWithin
<1> QED BY <1>3, <1>4 DEF Sound

LEMMA NewEntryFacts ==
  ASSUME NEW source \in {"rating", "reply"}, NEW c \in Contents, NEW stamp \in 0 .. MaxRuns
  PROVE  /\ NewEntry(source, c, stamp) \in Entry
         /\ NewEntry(source, c, stamp).source = source
         /\ NewEntry(source, c, stamp).of = c
         /\ NewEntry(source, c, stamp).reason = "valid"
         /\ NewEntry(source, c, stamp).active
BY DEF NewEntry, Entry

\* The entries a roll-up adds.
LEMMA RatedFacts ==
  ASSUME RatingsSound, NEW f \in Files, NEW items, NEW stamp \in 0 .. MaxRuns,
         NEW rating, rating = IF f = "winners" THEN "up" ELSE "feedback"
  PROVE  /\ Good(f, Rated(items, rating, stamp))
         /\ \A i \in DOMAIN Rated(items, rating, stamp) :
              /\ Rated(items, rating, stamp)[i].source = "rating"
              /\ ~ Has(items, Rated(items, rating, stamp)[i].source,
                       Rated(items, rating, stamp)[i].of)
<1> DEFINE R == [of : Contents, rating : {"up", "down", "feedback"}]
           at == {n \in DOMAIN ratings :
                    ratings[n].rating = rating /\ ~ Has(items, "rating", ratings[n].of)}
           due == Picked(ratings, at)
           new == Rated(items, rating, stamp)
<1>1. ratings \in Seq(R)
  BY DEF RatingsSound
<1>2. due \in Seq(R)
  BY <1>1, PickedFacts
<1>3. PICK pos : Places(pos, due, ratings, at \cap DOMAIN ratings)
  BY <1>1, PickedFacts
<1>4. Len(due) \in Nat /\ DOMAIN due = 1 .. Len(due)
  BY <1>2, LenProperties
<1>5. new = [i \in DOMAIN due |-> NewEntry("rating", due[i].of, stamp)]
  BY DEF Rated
<1>6. \A i \in DOMAIN due : pos[i] \in at /\ pos[i] \in DOMAIN ratings /\ due[i] = ratings[pos[i]]
  BY <1>3, <1>4 DEF Places
<1> HIDE DEF due, new
<1>7. \A i \in DOMAIN due : due[i].of \in Contents
  <2>1. \A i \in DOMAIN due : due[i] \in R
    <3> HIDE DEF R
    <3> QED BY <1>2, <1>4, ElementOfSeq
  <2> QED BY <2>1
<1>8. \A i \in DOMAIN due : new[i] \in Entry /\ new[i].source = "rating" /\ new[i].of = due[i].of
  BY <1>5, <1>7, NewEntryFacts
<1>9. new \in Seq(Entry) /\ DOMAIN new = DOMAIN due
  BY <1>4, <1>5, <1>8
<1>10. \A i \in DOMAIN due : ratings[pos[i]].rating = rating /\ ~ Has(items, "rating", due[i].of)
  BY <1>6
<1>11. Unique(new)
  <2>1. ASSUME NEW i \in DOMAIN due, NEW j \in DOMAIN due, new[i].of = new[j].of PROVE i = j
    <3>1. pos[i] = pos[j]
      BY <1>6, <1>8, <2>1 DEF RatingsSound
    <3> QED BY <1>3, <1>4, <3>1 DEF Places
  <2> QED BY <1>9, <2>1 DEF Unique
<1>12. ASSUME NEW i \in DOMAIN new PROVE EntrySound(f, new[i])
  <2>1. Backed(new[i], rating)
    BY <1>6, <1>8, <1>9, <1>10 DEF Backed
  <2> QED BY <1>8, <1>9, <2>1 DEF EntrySound, Files
<1>13. \A i \in DOMAIN new : new[i].source = "rating" /\ ~ Has(items, new[i].source, new[i].of)
  BY <1>8, <1>9, <1>10
<1> QED BY <1>9, <1>11, <1>12, <1>13 DEF Good, new

\* What Instantly reports as replied has an answer.
Answers == \A c \in Contents : "replied" \in metrics[c] => c \in answered

\* The entries a promotion adds.
LEMMA PromotedFacts ==
  ASSUME Answers, NEW items, NEW order \in SetToSeqs(Repliers(items)), NEW new,
         new = [i \in DOMAIN order |-> NewEntry("reply", order[i], 0)]
  PROVE  /\ Good("winners", new)
         /\ \A i \in DOMAIN new :
              new[i].source = "reply" /\ ~ Has(items, new[i].source, new[i].of)
<1> DEFINE C == Repliers(items)
           m == Cardinality(C)
<1>1. C \subseteq Contents /\ \A c \in C : c \in answered /\ ~ Has(items, "reply", c)
  BY DEF Repliers, Answers
<1>2. m \in Nat
  <2>1. IsFiniteSet(C)
    <3> HIDE DEF C
    <3> QED BY <1>1, FS_Subset, LearningAssumption
  <2> HIDE DEF C
  <2> QED BY <2>1, FS_CardinalityType
<1>3. /\ order \in [1 .. m -> C]
      /\ \A i, j \in 1 .. m : i # j => order[i] # order[j]
  BY DEF SetToSeqs
<1> HIDE DEF C, m
<1>4. DOMAIN order = 1 .. m /\ \A i \in 1 .. m : order[i] \in C /\ order[i] \in Contents
  BY <1>1, <1>3
<1>5. /\ DOMAIN new = 1 .. m
      /\ \A i \in 1 .. m : /\ new[i] \in Entry /\ new[i].source = "reply"
                           /\ new[i].of = order[i] /\ new[i].reason = "valid"
  <2>1. 0 \in 0 .. MaxRuns
    BY LearningAssumption
  <2>2. \A i \in 1 .. m : new[i] = NewEntry("reply", order[i], 0)
    BY <1>4
  <2> QED BY <1>4, <2>1, <2>2, NewEntryFacts
<1>6. new \in Seq(Entry)
  BY <1>2, <1>4, <1>5
<1>7. Unique(new)
  BY <1>3, <1>5 DEF Unique
<1>8. \A i \in DOMAIN new : EntrySound("winners", new[i])
  BY <1>1, <1>4, <1>5 DEF EntrySound, Backed
<1>9. \A i \in DOMAIN new : new[i].source = "reply" /\ ~ Has(items, new[i].source, new[i].of)
  BY <1>1, <1>4, <1>5
<1> QED BY <1>6, <1>7, <1>8, <1>9 DEF Good

\* A library in which every entry keeps its copy and what it rests on.
Alters(new, items) ==
  /\ DOMAIN new = DOMAIN items
  /\ \A i \in DOMAIN items :
       /\ new[i] \in Entry
       /\ new[i].source = items[i].source /\ new[i].of = items[i].of
       /\ items[i].source = "reply" /\ new[i].reason # "valid" => items[i].reason # "valid"

LEMMA AltersSound ==
  ASSUME NEW f, NEW items, Sound(f, items), NEW new, Alters(new, items),
         new = [i \in DOMAIN items |-> new[i]]
  PROVE  Sound(f, new)
<1>1. items \in Seq(Entry) /\ Len(items) \in Nat /\ DOMAIN items = 1 .. Len(items)
  BY LenProperties DEF Sound, Good
<1>2. \A i \in 1 .. Len(items) : new[i] \in Entry
  BY <1>1 DEF Alters
<1>3. new \in Seq(Entry) /\ Len(new) = Len(items)
  BY <1>1, <1>2
<1>4. Unique(new)
  BY DEF Alters, Sound, Good, Unique
<1>5. ASSUME NEW i \in DOMAIN new PROVE EntrySound(f, new[i])
  <2>1. /\ i \in DOMAIN items
        /\ new[i].source = items[i].source /\ new[i].of = items[i].of
        /\ items[i].source = "reply" /\ new[i].reason # "valid" => items[i].reason # "valid"
    BY DEF Alters
  <2>2. EntrySound(f, items[i])
    BY <2>1 DEF Sound, Good
  <2>3. \A rating : Backed(items[i], rating) => Backed(new[i], rating)
    BY <2>1 DEF Backed
  <2> QED BY <2>1, <2>2, <2>3 DEF EntrySound
<1> QED BY <1>3, <1>4, <1>5 DEF Sound, Good

LEMMA CleanedFacts ==
  ASSUME NEW e \in Entry, NEW failed \in BOOLEAN
  PROVE  /\ Cleaned(e, failed) \in Entry
         /\ Cleaned(e, failed).source = e.source /\ Cleaned(e, failed).of = e.of
         /\ e.source = "reply" /\ Cleaned(e, failed).reason # "valid" => e.reason # "valid"
         /\ Cleaned(e, failed).active =>
              e.active \/ e.source = "seed" \/ (e.source = "reply" /\ e.reason # "valid")
<1> DEFINE c == Cleaned(e, failed)
<1>1. /\ e.source \in {"seed", "rating", "reply"} /\ e.of \in Seeds \cup Contents
      /\ e.reason \in {"valid", "missing", "unconfirmed"} /\ e.active \in BOOLEAN
      /\ e.stamp \in 0 .. MaxRuns
      /\ e = [source |-> e.source, of |-> e.of, reason |-> e.reason, active |-> e.active,
              stamp |-> e.stamp]
  BY DEF Entry
<1>2. CASE e.source = "seed"
  <2>1. c = [e EXCEPT !.reason = "valid", !.active = TRUE]
    BY <1>2 DEF Cleaned
  <2> HIDE DEF c
  <2>2. c \in Entry /\ c.source = e.source /\ c.of = e.of
    BY <1>1, <2>1 DEF Entry
  <2> QED BY <1>2, <2>2 DEF c
<1>3. CASE e.source # "seed" /\ (e.source = "rating" \/ e.reason = "valid")
  <2>1. c = [e EXCEPT !.reason = "valid"]
    BY <1>1, <1>3 DEF Cleaned
  <2> HIDE DEF c
  <2>2. c \in Entry /\ c.source = e.source /\ c.of = e.of /\ c.reason = "valid" /\ c.active = e.active
    BY <1>1, <2>1 DEF Entry
  <2> QED BY <2>2 DEF c
<1>4. CASE e.source # "seed" /\ e.source # "rating" /\ e.reason # "valid"
  <2>1. PICK yes \in BOOLEAN : yes = Confirmed(e, failed)
    BY DEF Confirmed
  <2>2. c = [e EXCEPT !.reason = IF yes THEN "valid" ELSE "unconfirmed", !.active = yes]
    BY <1>1, <1>4, <2>1 DEF Cleaned
  <2> HIDE DEF c
  <2>3. c \in Entry /\ c.source = e.source /\ c.of = e.of
    BY <1>1, <2>2 DEF Entry
  <2> QED BY <1>1, <1>4, <2>3 DEF c
<1> QED BY <1>2, <1>3, <1>4

-----------------------------------------------------------------------------
(* The invariant of the libraries                                           *)

Jobs4 == {"sync", "ratings", "promote", "cleanup"}

Outs == {<<"winners", "negatives">>, <<"winners">>, <<"negatives">>}

\* The winners are written before the negatives.
Shaped(c) ==
  /\ c.pc \in {"begin", "negatives", "db"} => c.todo # <<>>
  /\ c.pc \in {"open", "write", "replace"} => c.out \in Outs

\* Whatever a call carries of a library is as sound as the library.
ProcessSound(c) ==
  /\ c \in Process
  /\ Shaped(c)
  /\ \A f \in Files : Sound(f, c.lib[f])

FilesSound ==
  /\ file \in [Files -> [whole : BOOLEAN, items : Seq(Entry)]]
  /\ \A f \in Files : Sound(f, file[f].items)

ProcessesSound == call \in [Processes -> Process] /\ \A k \in Processes : ProcessSound(call[k])

ShelfSound == shelf \in Seq(Entry) /\ \A i \in DOMAIN shelf : Backed(shelf[i], "up")

TablesSound ==
  /\ RatingsSound
  /\ metrics \in [Contents -> SUBSET {"replied", "positive"}]
  /\ Answers
  /\ answered \subseteq Contents

CountsTyped ==
  /\ runs \in 0 .. MaxRuns
  /\ failures \in 0 .. MaxFailures
  /\ demoted \subseteq {"rating", "reply"} \X Contents
  /\ wiped \in BOOLEAN

LibrariesInv == FilesSound /\ ProcessesSound /\ ShelfSound /\ TablesSound /\ CountsTyped

LEMMA OutsFacts ==
  ASSUME NEW out \in Outs
  PROVE  /\ out \in Seq(Files) /\ out # <<>> /\ Head(out) \in Files
         /\ Len(out) > 1 => Tail(out) = <<"negatives">> /\ Head(out) = "winners"
         /\ Head(out) # "winners" => out = <<"negatives">>
<1>1. out \in Seq(Files)
  <2>1. "winners" \in Files /\ "negatives" \in Files
    BY DEF Files
  <2>2. /\ <<"winners", "negatives">> \in Seq(Files)
        /\ <<"winners">> \in Seq(Files)
        /\ <<"negatives">> \in Seq(Files)
    BY <2>1
  <2> QED BY <2>2 DEF Outs
<1>2. out # <<>> /\ Head(out) \in Files /\ (Head(out) # "winners" => out = <<"negatives">>)
  BY DEF Outs, Files
<1>3. ASSUME Len(out) > 1 PROVE Tail(out) = <<"negatives">> /\ Head(out) = "winners"
  <2>1. out = <<"winners", "negatives">>
    BY <1>3 DEF Outs
  <2>2. Head(out) = "winners"
    BY <2>1
  <2>3. Tail(out) = <<"negatives">>
    BY <2>1
  <2> QED BY <2>2, <2>3
<1> QED BY <1>1, <1>2, <1>3

LEMMA ProcessMade ==
  ASSUME NEW c \in Process, \A f \in Files : Sound(f, c.lib[f]),
         c.pc \in {"begin", "negatives", "db"} => c.todo # <<>>,
         c.pc \in {"open", "write", "replace"} => c.out \in Outs
  PROVE  ProcessSound(c)
BY DEF ProcessSound, Shaped

LEMMA ProcessFields ==
  ASSUME NEW c, ProcessSound(c)
  PROVE  /\ c.pc \in Pcs /\ c.todo \in Seq(Jobs4) /\ c.lib \in [Files -> Seq(Entry)]
         /\ c.out \in Seq(Files) /\ c.fate \in {"mine", "written", "replaced"}
         /\ c.old \in BOOLEAN
         /\ \A f \in Files : Sound(f, c.lib[f])
         /\ c.pc \in {"begin", "negatives", "db"} => c.todo # <<>>
         /\ c.pc \in {"open", "write", "replace"} => c.out \in Outs
         /\ c = [pc |-> c.pc, todo |-> c.todo, lib |-> c.lib, out |-> c.out, fate |-> c.fate,
                 old |-> c.old]
BY DEF ProcessSound, Process, Shaped, Jobs4

LEMMA NoLibFacts == NoLib \in [Files -> Seq(Entry)] /\ \A f \in Files : Sound(f, NoLib[f])
<1>1. \A f \in Files : NoLib[f] = <<>>
  BY DEF NoLib
<1>2. <<>> \in Seq(Entry)
  BY EmptySeq
<1> QED BY <1>1, <1>2, GoodEmpty DEF NoLib

\* A call that starts a job, or has none.
LEMMA StartedSound ==
  /\ ProcessSound(AtRest)
  /\ ProcessSound([AtRest EXCEPT !.pc = "copy"])
  /\ \A todo \in Seq(Jobs4) :
       todo # <<>> => ProcessSound([AtRest EXCEPT !.pc = "begin", !.todo = todo])
<1>1. AtRest \in Process /\ AtRest.pc = "idle" /\ AtRest.lib = NoLib
  BY EmptySeq, NoLibFacts DEF AtRest, Process, Pcs
<1>2. ProcessSound(AtRest)
  BY <1>1, NoLibFacts, ProcessMade
<1>3. ProcessSound([AtRest EXCEPT !.pc = "copy"])
  <2>1. PICK c : c = [AtRest EXCEPT !.pc = "copy"]
    OBVIOUS
  <2>2. c \in Process /\ c.pc = "copy" /\ c.lib = NoLib
    BY <1>1, <2>1 DEF Process, Pcs
  <2> QED BY <2>1, <2>2, NoLibFacts, ProcessMade
<1>4. ASSUME NEW todo \in Seq(Jobs4), todo # <<>>
      PROVE  ProcessSound([AtRest EXCEPT !.pc = "begin", !.todo = todo])
  <2>1. PICK c : c = [AtRest EXCEPT !.pc = "begin", !.todo = todo]
    OBVIOUS
  <2>2. c \in Process /\ c.pc = "begin" /\ c.lib = NoLib /\ c.todo = todo
    BY <1>1, <2>1 DEF Process, Pcs, Jobs4
  <2> QED BY <1>4, <2>1, <2>2, NoLibFacts, ProcessMade
<1> QED BY <1>2, <1>3, <1>4

\* Ratings are not taken back, and an answer remains one.
TablesGrow ==
  /\ \A i \in DOMAIN ratings : i \in DOMAIN ratings' /\ ratings'[i] = ratings[i]
  /\ answered \subseteq answered'

LEMMA TablesStay == ASSUME UNCHANGED <<ratings, answered>> PROVE TablesGrow
BY DEF TablesGrow

LEMMA BackedStays ==
  ASSUME TablesGrow, NEW e, NEW rating, Backed(e, rating)
  PROVE  Backed(e, rating)'
BY DEF TablesGrow, Backed

LEMMA SoundStays ==
  ASSUME TablesGrow, NEW f, NEW items, Sound(f, items)
  PROVE  Sound(f, items)'
<1>1. \A i \in DOMAIN items : EntrySound(f, items[i])'
  <2>1. ASSUME NEW i \in DOMAIN items PROVE EntrySound(f, items[i])'
    <3>1. PICK e : e = items[i]
      OBVIOUS
    <3>2. EntrySound(f, e)
      BY <3>1 DEF Sound, Good
    <3>3. \A rating : Backed(e, rating) => Backed(e, rating)'
      BY BackedStays
    <3>4. EntrySound(f, e)'
      BY <3>2, <3>3 DEF EntrySound
    <3> QED BY <3>1, <3>4
  <2> QED BY <2>1
<1>2. Unique(items)'
  BY DEF Sound, Good, Unique
<1> QED BY <1>1, <1>2 DEF Sound, Good

LEMMA ProcessStays ==
  ASSUME TablesGrow, NEW c, ProcessSound(c)
  PROVE  ProcessSound(c)'
<1>1. ASSUME NEW f \in Files PROVE Sound(f, c.lib[f])'
  <2>1. PICK items : items = c.lib[f]
    OBVIOUS
  <2>2. Sound(f, items)
    BY <2>1 DEF ProcessSound
  <2>3. Sound(f, items)'
    BY <2>2, SoundStays
  <2> QED BY <2>1, <2>3
<1> QED BY <1>1 DEF ProcessSound, Shaped

FilesNow == file' \in [Files -> [whole : BOOLEAN, items : Seq(Entry)]]
            /\ \A f \in Files : Sound(f, file'[f].items)

CallsNow == call' \in [Processes -> Process] /\ \A k \in Processes : ProcessSound(call'[k])

ShelfNow == shelf' \in Seq(Entry) /\ \A i \in DOMAIN shelf' : Backed(shelf'[i], "up")

\* What a step leaves is sound by the tables it found, and they only grow.
LEMMA InvStep ==
  ASSUME TablesGrow, TablesSound', CountsTyped', FilesNow, CallsNow, ShelfNow
  PROVE  LibrariesInv'
<1>1. FilesSound'
  <2>1. ASSUME NEW f \in Files PROVE Sound(f, file[f].items)'
    <3>1. PICK items : items = file'[f].items
      OBVIOUS
    <3>2. Sound(f, items)'
      BY <3>1, SoundStays DEF FilesNow
    <3> QED BY <3>1, <3>2
  <2> QED BY <2>1 DEF FilesSound, FilesNow
<1>2. ProcessesSound'
  <2>1. ASSUME NEW k \in Processes PROVE ProcessSound(call[k])'
    <3>1. PICK c : c = call'[k]
      OBVIOUS
    <3>2. ProcessSound(c)'
      BY <3>1, ProcessStays DEF CallsNow
    <3> QED BY <3>1, <3>2
  <2> QED BY <2>1 DEF ProcessesSound, CallsNow
<1>3. ShelfSound'
  <2>1. ASSUME NEW i \in DOMAIN shelf' PROVE Backed(shelf[i], "up")'
    <3>1. PICK e : e = shelf'[i]
      OBVIOUS
    <3>2. Backed(e, "up")'
      BY <3>1, BackedStays DEF ShelfNow
    <3> QED BY <3>1, <3>2
  <2> QED BY <2>1 DEF ShelfSound, ShelfNow
<1> QED BY <1>1, <1>2, <1>3 DEF LibrariesInv

LEMMA FilesKept == ASSUME FilesSound, UNCHANGED file PROVE FilesNow
BY DEF FilesSound, FilesNow

LEMMA CallsKept == ASSUME ProcessesSound, UNCHANGED call PROVE CallsNow
BY DEF ProcessesSound, CallsNow

LEMMA CallMoved ==
  ASSUME ProcessesSound, NEW k \in Processes, NEW c, ProcessSound(c),
         call' = [call EXCEPT ![k] = c]
  PROVE  CallsNow
<1>1. c \in Process
  BY DEF ProcessSound
<1> QED BY <1>1 DEF ProcessesSound, CallsNow

LEMMA ShelfKept == ASSUME ShelfSound, UNCHANGED shelf PROVE ShelfNow
BY DEF ShelfSound, ShelfNow

LEMMA TablesKept ==
  ASSUME TablesSound, UNCHANGED <<ratings, metrics, answered>>
  PROVE  TablesSound' /\ TablesGrow
BY TablesStay DEF TablesSound, RatingsSound, Answers

\* A file as a reader finds it.
LEMMA LoadedSound ==
  ASSUME FilesSound, NEW f \in Files
  PROVE  Sound(f, Loaded(f)) /\ Loaded(f) \in Seq(Entry)
<1>1. Sound(f, Loaded(f))
  BY GoodEmpty DEF FilesSound, Loaded
<1> QED BY <1>1 DEF Sound, Good

LEMMA NextSound ==
  ASSUME NEW c, ProcessSound(c)
  PROVE  ProcessSound(Next1(c))
<1>1. c.todo \in Seq(Jobs4) /\ Len(c.todo) \in Nat
  BY ProcessFields, LenProperties
<1>2. CASE Len(c.todo) <= 1
  BY <1>2, StartedSound DEF Next1
<1>3. CASE ~ (Len(c.todo) <= 1)
  <2>1. c.todo # <<>>
    BY <1>1, <1>3, EmptySeq
  <2>2. Tail(c.todo) \in Seq(Jobs4) /\ Len(Tail(c.todo)) = Len(c.todo) - 1
    BY <1>1, <2>1, HeadTailProperties
  <2>3. Tail(c.todo) # <<>>
    <3>1. PICK n \in Nat : n = Len(c.todo)
      BY <1>1
    <3>a. ~ (n <= 1) /\ Len(Tail(c.todo)) = n - 1
      BY <1>3, <2>2, <3>1
    <3>2. n - 1 # 0
      BY <3>a
    <3>3. Len(<<>>) = 0
      OBVIOUS
    <3>4. Len(Tail(c.todo)) # 0
      <4> PICK l : l = Len(Tail(c.todo))
        OBVIOUS
      <4> QED BY <3>a, <3>2
    <3> QED BY <3>3, <3>4
  <2>4. Next1(c) = [AtRest EXCEPT !.pc = "begin", !.todo = Tail(c.todo)]
    BY <1>3 DEF Next1
  <2> QED BY <2>2, <2>3, <2>4, StartedSound
<1> QED BY <1>2, <1>3

LEMMA ScriptsTyped ==
  ASSUME NEW script \in Jobs
  PROVE  Scripts[script] \in Seq(Jobs4) /\ Scripts[script] # <<>>
<1>1. script \in {"pull", "ratings", "cleanup"}
  BY LearningAssumption
<1>2. /\ <<"sync", "ratings", "promote">> \in Seq(Jobs4)
      /\ <<"ratings">> \in Seq(Jobs4) /\ <<"cleanup">> \in Seq(Jobs4)
  <2>1. /\ "sync" \in Jobs4 /\ "ratings" \in Jobs4 /\ "promote" \in Jobs4 /\ "cleanup" \in Jobs4
    BY DEF Jobs4
  <2> QED BY <2>1
<1>3. /\ Scripts["pull"] = <<"sync", "ratings", "promote">>
      /\ Scripts["ratings"] = <<"ratings">> /\ Scripts["cleanup"] = <<"cleanup">>
  BY DEF Scripts
<1>4. <<"sync", "ratings", "promote">> # <<>> /\ <<"ratings">> # <<>> /\ <<"cleanup">> # <<>>
  OBVIOUS
<1> QED BY <1>1, <1>2, <1>3, <1>4

LEMMA InvStartScript ==
  ASSUME LibrariesInv, NEW k \in Processes, NEW script \in Jobs, StartScript(k, script)
  PROVE  LibrariesInv'
<1>1. PICK c : c = [AtRest EXCEPT !.pc = "begin", !.todo = Scripts[script]]
  OBVIOUS
<1>2. ProcessSound(c)
  BY <1>1, ScriptsTyped, StartedSound
<1>3. call' = [call EXCEPT ![k] = c] /\ UNCHANGED <<file, shelf, ratings, metrics, answered>>
  BY <1>1 DEF StartScript, DB
<1>4. CallsNow
  BY <1>2, <1>3, CallMoved DEF LibrariesInv
<1>5. CountsTyped'
  BY LearningAssumption DEF StartScript, Idles, LibrariesInv, CountsTyped
<1> QED BY <1>3, <1>4, <1>5, FilesKept, ShelfKept, TablesKept, InvStep DEF LibrariesInv

LEMMA InvSyncLead ==
  ASSUME LibrariesInv, NEW k \in Processes, NEW c \in Delivered, SyncLead(k, c)
  PROVE  LibrariesInv'
<1>1. PICK m \in Metrics :
        /\ metrics' = [metrics EXCEPT ![c] = m]
        /\ answered' = IF "replied" \in m THEN answered \cup {c} ELSE answered
  BY DEF SyncLead
<1>2. UNCHANGED <<file, shelf, ratings, call, runs, failures, demoted, wiped>>
  BY DEF SyncLead
<1>3. m \in SUBSET {"replied", "positive"} /\ c \in Contents
  BY LearningAssumption
<1>4. TablesSound'
  <2>1. metrics' \in [Contents -> SUBSET {"replied", "positive"}]
    BY <1>1, <1>3 DEF LibrariesInv, TablesSound
  <2>2. Answers'
    BY <1>1, <1>3 DEF LibrariesInv, TablesSound, Answers
  <2>3. RatingsSound' /\ (answered \subseteq Contents)'
    BY <1>1, <1>2, <1>3 DEF LibrariesInv, TablesSound, RatingsSound
  <2> QED BY <2>1, <2>2, <2>3 DEF TablesSound
<1>5. TablesGrow
  BY <1>1, <1>2 DEF TablesGrow
<1>6. CountsTyped'
  BY <1>2 DEF LibrariesInv, CountsTyped
<1> QED BY <1>2, <1>4, <1>5, <1>6, FilesKept, CallsKept, ShelfKept, InvStep DEF LibrariesInv

LEMMA InvSyncEnd ==
  ASSUME LibrariesInv, NEW k \in Processes, SyncEnd(k)
  PROVE  LibrariesInv'
<1>1. PICK c : c = Next1(call[k])
  OBVIOUS
<1>2. ProcessSound(c)
  BY <1>1, NextSound DEF LibrariesInv, ProcessesSound
<1>3. call' = [call EXCEPT ![k] = c]
      /\ UNCHANGED <<file, shelf, ratings, metrics, answered, runs, failures, demoted, wiped>>
  BY <1>1 DEF SyncEnd, DB
<1>4. CallsNow
  BY <1>2, <1>3, CallMoved DEF LibrariesInv
<1>5. CountsTyped'
  BY <1>3 DEF LibrariesInv, CountsTyped
<1> QED BY <1>3, <1>4, <1>5, FilesKept, ShelfKept, TablesKept, InvStep DEF LibrariesInv

LEMMA InvLoadWinners ==
  ASSUME LibrariesInv, NEW k \in Processes, LoadWinners(k)
  PROVE  LibrariesInv'
<1>1. PICK b, c, items, lib, pc :
        /\ b = call[k] /\ c = call'[k] /\ items = Loaded("winners")
        /\ lib = [b.lib EXCEPT !["winners"] = items]
        /\ pc = IF Head(b.todo) = "ratings" THEN "negatives" ELSE "db"
  OBVIOUS
<1>2. /\ ProcessSound(b) /\ b.pc = "begin"
      /\ Sound("winners", items) /\ items \in Seq(Entry) /\ "winners" \in Files
  BY <1>1, LoadedSound DEF LibrariesInv, ProcessesSound, LoadWinners, Files
<1>3. call' = [call EXCEPT ![k] = [b EXCEPT !.lib = lib, !.pc = pc]]
  BY <1>1 DEF LoadWinners
<1>4. c = [b EXCEPT !.lib = lib, !.pc = pc] /\ call' = [call EXCEPT ![k] = c]
  BY <1>1, <1>3 DEF LibrariesInv, ProcessesSound
<1>5. lib \in [Files -> Seq(Entry)] /\ \A f \in Files : Sound(f, lib[f])
  BY <1>1, <1>2, ProcessFields
<1>6. c \in Process /\ c.lib = lib /\ c.pc = pc /\ c.todo = b.todo /\ pc \in {"negatives", "db"}
  <2>1. b \in Process /\ pc \in Pcs /\ pc \in {"negatives", "db"}
    BY <1>1, <1>2 DEF Pcs, ProcessSound
  <2> QED BY <1>4, <1>5, <2>1 DEF Process
<1>7. ProcessSound(c)
  BY <1>2, <1>5, <1>6, ProcessFields, ProcessMade
<1>8. UNCHANGED <<file, shelf, ratings, metrics, answered, runs, failures, demoted>>
  BY DEF LoadWinners, DB
<1>9. CallsNow
  BY <1>4, <1>7, CallMoved DEF LibrariesInv
<1>10. CountsTyped'
  BY <1>8 DEF LibrariesInv, CountsTyped, LoadWinners, FilesSound, Files
<1> QED BY <1>8, <1>9, <1>10, FilesKept, ShelfKept, TablesKept, InvStep DEF LibrariesInv

LEMMA InvLoadNegatives ==
  ASSUME LibrariesInv, NEW k \in Processes, LoadNegatives(k)
  PROVE  LibrariesInv'
<1>1. PICK b, c, items, lib :
        /\ b = call[k] /\ c = call'[k] /\ items = Loaded("negatives")
        /\ lib = [b.lib EXCEPT !["negatives"] = items]
  OBVIOUS
<1>2. /\ ProcessSound(b) /\ b.pc = "negatives"
      /\ Sound("negatives", items) /\ items \in Seq(Entry) /\ "negatives" \in Files
  BY <1>1, LoadedSound DEF LibrariesInv, ProcessesSound, LoadNegatives, Files
<1>3. call' = [call EXCEPT ![k] = [b EXCEPT !.lib = lib, !.pc = "db"]]
  BY <1>1 DEF LoadNegatives
<1>4. c = [b EXCEPT !.lib = lib, !.pc = "db"] /\ call' = [call EXCEPT ![k] = c]
  BY <1>1, <1>3 DEF LibrariesInv, ProcessesSound
<1>5. lib \in [Files -> Seq(Entry)] /\ \A f \in Files : Sound(f, lib[f])
  BY <1>1, <1>2, ProcessFields
<1>6. c \in Process /\ c.lib = lib /\ c.pc = "db" /\ c.todo = b.todo
  <2>1. b \in Process
    BY <1>2 DEF ProcessSound
  <2> QED BY <1>4, <1>5, <2>1 DEF Process, Pcs
<1>7. ProcessSound(c)
  BY <1>2, <1>5, <1>6, ProcessFields, ProcessMade
<1>8. UNCHANGED <<file, shelf, ratings, metrics, answered, runs, failures, demoted, wiped>>
  BY DEF LoadNegatives, DB
<1>9. CallsNow
  BY <1>4, <1>7, CallMoved DEF LibrariesInv
<1>10. CountsTyped'
  BY <1>8 DEF LibrariesInv, CountsTyped
<1> QED BY <1>8, <1>9, <1>10, FilesKept, ShelfKept, TablesKept, InvStep DEF LibrariesInv

\* A job hands over the libraries it has made.
LEMMA PrepareStep ==
  ASSUME LibrariesInv, NEW k \in Processes, NEW lib \in [Files -> Seq(Entry)],
         NEW out \in Outs, \A f \in Files : Sound(f, lib[f]), Prepare(k, lib, out),
         failures' \in 0 .. MaxFailures
  PROVE  LibrariesInv'
<1>1. PICK b, c : b = call[k] /\ c = [call[k] EXCEPT !.lib = lib, !.out = out, !.pc = "open"]
  OBVIOUS
<1>2. b \in Process
  BY <1>1 DEF LibrariesInv, ProcessesSound
<1>3. call' = [call EXCEPT ![k] = c]
  BY <1>1 DEF Prepare
<1>4. c \in Process /\ c.lib = lib /\ c.pc = "open" /\ c.out = out
  BY <1>1, <1>2, OutsFacts DEF Process, Pcs
<1>5. ProcessSound(c)
  BY <1>4, ProcessMade
<1>6. UNCHANGED <<file, shelf, ratings, metrics, answered, runs, demoted, wiped>>
  BY DEF Prepare, DB
<1>7. CallsNow
  BY <1>3, <1>5, CallMoved DEF LibrariesInv
<1>8. CountsTyped'
  BY <1>6 DEF LibrariesInv, CountsTyped
<1> QED BY <1>6, <1>7, <1>8, FilesKept, ShelfKept, TablesKept, InvStep DEF LibrariesInv

LEMMA NoNewFailure ==
  ASSUME LibrariesInv, UNCHANGED failures PROVE failures' \in 0 .. MaxFailures
BY DEF LibrariesInv, CountsTyped

LEMMA NewFailure ==
  ASSUME LibrariesInv, Failure PROVE failures' \in 0 .. MaxFailures
BY LearningAssumption DEF LibrariesInv, CountsTyped, Failure

LEMMA LibOf ==
  ASSUME LibrariesInv, NEW k \in Processes
  PROVE  /\ Sound("winners", call[k].lib["winners"])
         /\ Sound("negatives", call[k].lib["negatives"])
<1>1. "winners" \in Files /\ "negatives" \in Files
  BY DEF Files
<1> QED BY <1>1 DEF LibrariesInv, ProcessesSound, ProcessSound

\* What process_ratings makes of the negatives.
LEMMA NegativesMade ==
  ASSUME LibrariesInv, NEW neg, Sound("negatives", neg)
  PROVE  Sound("negatives", Trimmed(NewestFirst(neg \o Rated(neg, "feedback", runs))))
<1>1. runs \in Nat /\ runs \in 0 .. MaxRuns /\ MaxLibrary \in Nat
  BY LearningAssumption DEF LibrariesInv, CountsTyped
<1>2. PICK new : new = Rated(neg, "feedback", runs)
  OBVIOUS
<1>3. /\ Good("negatives", new)
      /\ \A i \in DOMAIN new : ~ Has(neg, new[i].source, new[i].of)
  BY <1>1, <1>2, RatedFacts DEF LibrariesInv, TablesSound, Files
<1>4. PICK all : all = neg \o new
  OBVIOUS
<1>5. Good("negatives", all)
  BY <1>3, <1>4, GoodConcat DEF Sound
<1>6. PICK ranked : ranked = NewestFirst(all)
  OBVIOUS
<1>7. ranked \in Seq(Entry) /\ Within(ranked, all)
  BY <1>1, <1>5, <1>6, NewestFacts DEF Good
<1>8. Good("negatives", ranked)
  BY <1>5, <1>7, GoodWithin
<1>9. PICK out : out = First(MaxLibrary, ranked)
  OBVIOUS
<1>10. out \in Seq(Entry) /\ Len(out) <= MaxLibrary /\ Within(out, ranked)
  BY <1>1, <1>7, <1>9, FirstFacts
<1>11. Good("negatives", out)
  BY <1>8, <1>10, GoodWithin
<1> QED BY <1>2, <1>4, <1>6, <1>9, <1>10, <1>11 DEF Sound, Trimmed

LEMMA InvProcessRatings ==
  ASSUME LibrariesInv, NEW k \in Processes, ProcessRatings(k)
  PROVE  LibrariesInv'
<1>1. PICK win, neg, x, y, lib :
        /\ win = call[k].lib["winners"] /\ neg = call[k].lib["negatives"]
        /\ x = Extended(win, Rated(win, "up", 0))
        /\ y = Trimmed(NewestFirst(neg \o Rated(neg, "feedback", runs)))
        /\ lib = [winners |-> x, negatives |-> y]
  OBVIOUS
<1>2. Sound("winners", win) /\ Sound("negatives", neg)
  BY <1>1, LibOf
<1>3. Sound("winners", x)
  <2>1. 0 \in 0 .. MaxRuns /\ "winners" \in Files
    BY LearningAssumption DEF Files
  <2>2. PICK new : new = Rated(win, "up", 0)
    OBVIOUS
  <2>3. Good("winners", new) /\ \A i \in DOMAIN new : ~ Has(win, new[i].source, new[i].of)
    BY <2>1, <2>2, RatedFacts DEF LibrariesInv, TablesSound
  <2> QED BY <1>1, <1>2, <2>2, <2>3, SoundExtended DEF Sound
<1>4. Sound("negatives", y)
  BY <1>1, <1>2, NegativesMade
<1>5. x \in Seq(Entry) /\ y \in Seq(Entry)
  BY <1>3, <1>4 DEF Sound, Good
<1>6. lib \in [Files -> Seq(Entry)] /\ \A f \in Files : Sound(f, lib[f])
  <2>1. lib["winners"] = x /\ lib["negatives"] = y
    BY <1>1
  <2>2. DOMAIN lib = Files
    BY <1>1 DEF Files
  <2>3. lib = [f \in Files |-> IF f = "winners" THEN x ELSE y]
    BY <1>1 DEF Files
  <2> QED BY <1>3, <1>4, <1>5, <2>1, <2>3 DEF Files
<1>7. <<"winners", "negatives">> \in Outs
  BY DEF Outs
<1>8. Prepare(k, lib, <<"winners", "negatives">>) /\ UNCHANGED failures
  BY <1>1 DEF ProcessRatings
<1> QED BY <1>6, <1>7, <1>8, NoNewFailure, PrepareStep

\* Libraries of which only the winners are there.
LEMMA WinnersOnly ==
  ASSUME NEW x, Sound("winners", x)
  PROVE  /\ [NoLib EXCEPT !["winners"] = x] \in [Files -> Seq(Entry)]
         /\ [NoLib EXCEPT !["winners"] = x]["winners"] = x
         /\ \A f \in Files : Sound(f, [NoLib EXCEPT !["winners"] = x][f])
<1>1. x \in Seq(Entry) /\ "winners" \in Files
  BY DEF Sound, Good, Files
<1>2. PICK lib : lib = [NoLib EXCEPT !["winners"] = x]
  OBVIOUS
<1>3. lib \in [Files -> Seq(Entry)] /\ lib["winners"] = x
      /\ \A f \in Files : f # "winners" => lib[f] = NoLib[f]
  BY <1>1, <1>2, NoLibFacts
<1>4. \A f \in Files : Sound(f, lib[f])
  BY <1>3, NoLibFacts
<1> QED BY <1>2, <1>3, <1>4

LEMMA InvPromoteWinners ==
  ASSUME LibrariesInv, NEW k \in Processes, PromoteWinners(k)
  PROVE  LibrariesInv'
<1>1. PICK win : win = call[k].lib["winners"]
  OBVIOUS
<1>2. PICK order \in SetToSeqs(Repliers(win)) :
        Prepare(k, [NoLib EXCEPT !["winners"] =
                      Extended(win, [i \in DOMAIN order |-> NewEntry("reply", order[i], 0)])],
                <<"winners">>)
  BY <1>1 DEF PromoteWinners
<1>3. PICK new, x : new = [i \in DOMAIN order |-> NewEntry("reply", order[i], 0)]
                    /\ x = Extended(win, new)
  OBVIOUS
<1>4. Good("winners", new) /\ \A i \in DOMAIN new : ~ Has(win, new[i].source, new[i].of)
  BY <1>3, PromotedFacts DEF LibrariesInv, TablesSound
<1>5. Sound("winners", win)
  BY <1>1, LibOf
<1>6. Sound("winners", x)
  BY <1>3, <1>4, <1>5, SoundExtended DEF Sound
<1>7. PICK lib : lib = [NoLib EXCEPT !["winners"] = x]
  OBVIOUS
<1>8. lib \in [Files -> Seq(Entry)] /\ \A f \in Files : Sound(f, lib[f])
  BY <1>6, <1>7, WinnersOnly
<1>9. <<"winners">> \in Outs /\ Prepare(k, lib, <<"winners">>) /\ UNCHANGED failures
  BY <1>2, <1>3, <1>7 DEF Outs, PromoteWinners
<1> QED BY <1>8, <1>9, NoNewFailure, PrepareStep

\* What a cleanup makes of the winners.
LEMMA WinnersCleaned ==
  ASSUME NEW win, Sound("winners", win), NEW failed \in BOOLEAN, NEW new,
         new = [i \in DOMAIN win |-> Cleaned(win[i], failed)]
  PROVE  Sound("winners", new) /\ Alters(new, win)
<1>1. \A i \in DOMAIN win : win[i] \in Entry
  BY LenProperties, ElementOfSeq DEF Sound, Good
<1>2. Alters(new, win)
  <2>1. ASSUME NEW i \in DOMAIN win
        PROVE  /\ new[i] \in Entry /\ new[i].source = win[i].source /\ new[i].of = win[i].of
               /\ win[i].source = "reply" /\ new[i].reason # "valid" => win[i].reason # "valid"
    <3>1. win[i] \in Entry /\ new[i] = Cleaned(win[i], failed)
      BY <1>1
    <3> QED BY <3>1, CleanedFacts
  <2> QED BY <2>1 DEF Alters
<1>3. new = [i \in DOMAIN win |-> new[i]]
  OBVIOUS
<1> QED BY <1>2, <1>3, AltersSound

LEMMA InvCleanupWinners ==
  ASSUME LibrariesInv, NEW k \in Processes, NEW failed \in BOOLEAN, CleanupWinners(k, failed)
  PROVE  LibrariesInv'
<1>1. PICK win, new : win = call[k].lib["winners"]
                      /\ new = [i \in DOMAIN win |-> Cleaned(win[i], failed)]
  OBVIOUS
<1>2. Sound("winners", new)
  BY <1>1, LibOf, WinnersCleaned
<1>3. PICK lib : lib = [NoLib EXCEPT !["winners"] = new]
  OBVIOUS
<1>4. lib \in [Files -> Seq(Entry)] /\ \A f \in Files : Sound(f, lib[f])
  BY <1>2, <1>3, WinnersOnly
<1>5. <<"winners">> \in Outs /\ Prepare(k, lib, <<"winners">>)
  BY <1>1, <1>3 DEF Outs, CleanupWinners
<1>6. failures' \in 0 .. MaxFailures
  BY NoNewFailure, NewFailure DEF CleanupWinners
<1> QED BY <1>4, <1>5, <1>6, PrepareStep

\* c goes on with all it holds, but for what it may not know: the fate of its file
\* and whether its libraries are old.
SameWork(c, d) ==
  /\ d \in Process
  /\ d.pc = c.pc /\ d.todo = c.todo /\ d.lib = c.lib /\ d.out = c.out

LEMMA SameWorkSound ==
  ASSUME NEW c, NEW d, ProcessSound(c), SameWork(c, d)
  PROVE  ProcessSound(d)
BY DEF ProcessSound, Shaped, SameWork

LEMMA FatesFacts ==
  ASSUME NEW moved \in [Processes -> Process], NEW k \in Processes, NEW f,
         NEW fate \in {"mine", "written", "replaced"}
  PROVE  /\ Fates(moved, k, f, fate) \in [Processes -> Process]
         /\ Fates(moved, k, f, fate)[k] = moved[k]
         /\ \A j \in Processes : /\ SameWork(moved[j], Fates(moved, k, f, fate)[j])
                                 /\ Fates(moved, k, f, fate)[j].old = moved[j].old
<1>1. PICK after : after = Fates(moved, k, f, fate)
  OBVIOUS
<1>2. after = [j \in Processes |-> IF j # k /\ Writing(j, f) THEN [moved[j] EXCEPT !.fate = fate]
                                   ELSE moved[j]]
  BY <1>1 DEF Fates
<1>3. ASSUME NEW j \in Processes
      PROVE  SameWork(moved[j], after[j]) /\ after[j].old = moved[j].old
  <2>1. PICK c \in Process : c = moved[j]
    OBVIOUS
  <2>2. after[j] = [c EXCEPT !.fate = fate] \/ after[j] = c
    BY <1>2, <2>1
  <2>3. /\ [c EXCEPT !.fate = fate] \in Process
        /\ [c EXCEPT !.fate = fate].pc = c.pc /\ [c EXCEPT !.fate = fate].todo = c.todo
        /\ [c EXCEPT !.fate = fate].lib = c.lib /\ [c EXCEPT !.fate = fate].out = c.out
        /\ [c EXCEPT !.fate = fate].old = c.old
    BY DEF Process
  <2>4. SameWork(c, [c EXCEPT !.fate = fate]) /\ SameWork(c, c)
    BY <2>3 DEF SameWork
  <2> QED BY <2>1, <2>2, <2>3, <2>4
<1>4. after \in [Processes -> Process]
  BY <1>2, <1>3 DEF SameWork
<1>5. after[k] = moved[k]
  BY <1>2
<1> QED BY <1>1, <1>3, <1>4, <1>5

\* One file changes, to nothing or to what a call held.
LEMMA FileMoved ==
  ASSUME FilesSound, NEW f \in Files, NEW whole \in BOOLEAN, NEW items, Sound(f, items),
         file' = [file EXCEPT ![f] = [whole |-> whole, items |-> items]]
  PROVE  FilesNow
<1>1. items \in Seq(Entry)
  BY DEF Sound, Good
<1>2. PICK new : new = [whole |-> whole, items |-> items]
  OBVIOUS
<1>3. new \in [whole : BOOLEAN, items : Seq(Entry)] /\ new.items = items
  BY <1>1, <1>2
<1>4. file' = [file EXCEPT ![f] = new]
  BY <1>2
<1> QED BY <1>3, <1>4 DEF FilesSound, FilesNow

LEMMA InvOpen ==
  ASSUME LibrariesInv, NEW k \in Processes, Open(k)
  PROVE  LibrariesInv'
<1>1. PICK f, b, c : /\ f = Head(call[k].out) /\ b = call[k]
                     /\ c = [call[k] EXCEPT !.pc = "write", !.fate = "mine"]
  OBVIOUS
<1>2. /\ b.pc = "open" /\ call' = [call EXCEPT ![k] = c]
      /\ file' = [file EXCEPT ![f] = [whole |-> FALSE, items |-> <<>>]]
      /\ UNCHANGED <<shelf, ratings, metrics, answered, runs, failures, demoted, wiped>>
  BY <1>1 DEF Open, DB
<1>3. ProcessSound(b)
  BY <1>1 DEF LibrariesInv, ProcessesSound
<1>4. b.out \in Outs /\ f \in Files
  BY <1>1, <1>2, <1>3, ProcessFields, OutsFacts
<1>5. c \in Process /\ c.pc = "write" /\ c.lib = b.lib /\ c.out = b.out
  <2>1. b \in Process
    BY <1>3 DEF ProcessSound
  <2> QED BY <1>1, <2>1 DEF Process, Pcs
<1>6. ProcessSound(c)
  BY <1>3, <1>4, <1>5, ProcessFields, ProcessMade
<1>7. FilesNow
  <2>1. PICK none : none = <<>>
    OBVIOUS
  <2>2. file' = [file EXCEPT ![f] = [whole |-> FALSE, items |-> none]] /\ Sound(f, none)
    BY <1>2, <2>1, GoodEmpty
  <2> QED BY <1>4, <2>2, FileMoved DEF LibrariesInv
<1>8. CallsNow
  BY <1>2, <1>6, CallMoved DEF LibrariesInv
<1>9. CountsTyped'
  BY <1>2 DEF LibrariesInv, CountsTyped
<1> QED BY <1>2, <1>7, <1>8, <1>9, ShelfKept, TablesKept, InvStep DEF LibrariesInv

\* What a call does after it has written its first or only file.
Rest(c) ==
  IF Len(c.out) > 1 THEN [c EXCEPT !.pc = "open", !.out = Tail(@), !.fate = "mine"]
  ELSE Next1(c)

LEMMA RestFacts ==
  ASSUME NEW c, ProcessSound(c), c.out \in Outs
  PROVE  /\ ProcessSound(Rest(c))
         /\ Rest(c).pc \in {"idle", "begin"} \/ (Rest(c).pc = "open" /\ Rest(c).out = <<"negatives">>)
<1>1. CASE Len(c.out) > 1
  <2>1. PICK out, d : out = Tail(c.out) /\ d = [c EXCEPT !.pc = "open", !.out = out, !.fate = "mine"]
    OBVIOUS
  <2>2. out = <<"negatives">> /\ out \in Outs
    BY <1>1, <2>1, OutsFacts DEF Outs
  <2>3. c \in Process /\ out \in Seq(Files)
    BY <2>2, OutsFacts DEF ProcessSound
  <2>4. d \in Process /\ d.pc = "open" /\ d.out = out /\ d.lib = c.lib
    BY <2>1, <2>3 DEF Process, Pcs
  <2>5. ProcessSound(d)
    BY <2>2, <2>4, ProcessFields, ProcessMade
  <2>6. Rest(c) = d
    BY <1>1, <2>1 DEF Rest
  <2> QED BY <2>2, <2>4, <2>5, <2>6
<1>2. CASE ~ (Len(c.out) > 1)
  <2>1. Rest(c) = Next1(c)
    BY <1>2 DEF Rest
  <2>2. Next1(c).pc \in {"idle", "begin"}
    BY DEF Next1, AtRest
  <2> QED BY <2>1, <2>2, NextSound
<1> QED BY <1>1, <1>2

LEMMA WriteParts ==
  ASSUME LibrariesInv, NEW k \in Processes, Write(k), NEW b, b = call[k]
  PROVE  /\ b.pc = "write" /\ b.out \in Outs /\ ProcessSound(b)
         /\ Head(b.out) \in Files
         /\ call' = Fates([call EXCEPT ![k] = Rest(b)], k, Head(b.out), "written")
         /\ [call EXCEPT ![k] = Rest(b)] \in [Processes -> Process]
         /\ \/ UNCHANGED file /\ b.fate = "replaced"
            \/ /\ b.fate # "replaced"
               /\ \E whole \in BOOLEAN, items \in {b.lib[Head(b.out)], <<>>} :
                    /\ whole => items = b.lib[Head(b.out)]
                    /\ file' = [file EXCEPT ![Head(b.out)] = [whole |-> whole, items |-> items]]
         /\ demoted' = IF Head(b.out) = "winners" /\ b.old /\ b.fate # "replaced"
                       THEN demoted \cap Marked(b.lib["winners"], FALSE) ELSE demoted
         /\ UNCHANGED <<shelf, ratings, metrics, answered, runs, failures, wiped>>
<1>1. b.pc = "write" /\ ProcessSound(b)
  BY DEF Write, LibrariesInv, ProcessesSound
<1>2. b.out \in Outs /\ Head(b.out) \in Files
  BY <1>1, ProcessFields, OutsFacts
<1>3. ProcessSound(Rest(b))
  BY <1>1, <1>2, RestFacts
<1>4. call' = Fates([call EXCEPT ![k] = Rest(b)], k, Head(b.out), "written")
  BY DEF Write, Rest
<1>5. Rest(b) \in Process
  BY <1>3 DEF ProcessSound
<1>6. [call EXCEPT ![k] = Rest(b)] \in [Processes -> Process]
  BY <1>5 DEF LibrariesInv, ProcessesSound
<1>7. \/ UNCHANGED file /\ b.fate = "replaced"
      \/ /\ b.fate # "replaced"
         /\ \E whole \in BOOLEAN, items \in {b.lib[Head(b.out)], <<>>} :
              /\ whole => items = b.lib[Head(b.out)]
              /\ file' = [file EXCEPT ![Head(b.out)] = [whole |-> whole, items |-> items]]
  <2>1. CASE b.fate = "replaced"
    BY <2>1 DEF Write
  <2>2. CASE b.fate # "replaced"
    <3>1. PICK whole \in BOOLEAN :
            file' = [file EXCEPT ![Head(b.out)] =
                       [whole |-> whole, items |-> IF whole THEN b.lib[Head(b.out)] ELSE <<>>]]
      BY <2>2 DEF Write
    <3>2. PICK items : items = IF whole THEN b.lib[Head(b.out)] ELSE <<>>
      OBVIOUS
    <3>3. items \in {b.lib[Head(b.out)], <<>>} /\ (whole => items = b.lib[Head(b.out)])
      BY <3>2
    <3>4. file' = [file EXCEPT ![Head(b.out)] = [whole |-> whole, items |-> items]]
      BY <3>1, <3>2
    <3> QED BY <2>2, <3>3, <3>4
  <2> QED BY <2>1, <2>2
<1>8. demoted' = IF Head(b.out) = "winners" /\ b.old /\ b.fate # "replaced"
                 THEN demoted \cap Marked(b.lib["winners"], FALSE) ELSE demoted
  BY DEF Write
<1>9. UNCHANGED <<shelf, ratings, metrics, answered, runs, failures, wiped>>
  BY DEF Write, DB
<1> QED BY <1>1, <1>2, <1>4, <1>6, <1>7, <1>8, <1>9

LEMMA InvWrite ==
  ASSUME LibrariesInv, NEW k \in Processes, Write(k)
  PROVE  LibrariesInv'
<1>1. PICK b, moved : b = call[k] /\ moved = [call EXCEPT ![k] = Rest(b)]
  OBVIOUS
<1>2. PICK f : f = Head(b.out)
  OBVIOUS
<1>3. /\ ProcessSound(b) /\ b.out \in Outs /\ f \in Files
      /\ call' = Fates(moved, k, f, "written") /\ moved \in [Processes -> Process]
      /\ UNCHANGED <<shelf, ratings, metrics, answered, runs, failures, wiped>>
      /\ demoted' \subseteq demoted
  BY <1>1, <1>2, WriteParts
<1>4. FilesNow
  <2>1. CASE UNCHANGED file
    BY <2>1, FilesKept DEF LibrariesInv
  <2>2. CASE ~ UNCHANGED file
    <3>1. PICK whole \in BOOLEAN, items \in {b.lib[f], <<>>} :
            file' = [file EXCEPT ![f] = [whole |-> whole, items |-> items]]
      BY <1>1, <1>2, <2>2, WriteParts
    <3>2. Sound(f, items)
      BY <1>3, <3>1, GoodEmpty, ProcessFields
    <3> QED BY <1>3, <3>1, <3>2, FileMoved DEF LibrariesInv
  <2> QED BY <2>1, <2>2
<1>5. CallsNow
  <2>1. /\ call' \in [Processes -> Process]
        /\ \A j \in Processes : SameWork(moved[j], call'[j])
    BY <1>3, FatesFacts
  <2>2. ASSUME NEW j \in Processes PROVE ProcessSound(moved[j])
    BY <1>1, <1>3, RestFacts DEF LibrariesInv, ProcessesSound
  <2> QED BY <2>1, <2>2, SameWorkSound DEF CallsNow
<1>6. CountsTyped'
  BY <1>3 DEF LibrariesInv, CountsTyped
<1> QED BY <1>3, <1>4, <1>5, <1>6, ShelfKept, TablesKept, InvStep DEF LibrariesInv

LEMMA InvProcessDies ==
  ASSUME LibrariesInv, NEW k \in Processes, ProcessDies(k)
  PROVE  LibrariesInv'
<1>1. PICK c : c = AtRest
  OBVIOUS
<1>2. /\ ProcessSound(c) /\ call' = [call EXCEPT ![k] = c]
      /\ UNCHANGED <<file, shelf, ratings, metrics, answered, runs, demoted, wiped>>
  BY <1>1, StartedSound DEF ProcessDies, DB
<1>3. CallsNow
  BY <1>2, CallMoved DEF LibrariesInv
<1>4. failures' \in 0 .. MaxFailures
  BY NewFailure DEF ProcessDies
<1>5. CountsTyped'
  BY <1>2, <1>4 DEF LibrariesInv, CountsTyped
<1> QED BY <1>2, <1>3, <1>5, FilesKept, ShelfKept, TablesKept, InvStep DEF LibrariesInv

LEMMA InvRecordRating ==
  ASSUME LibrariesInv, NEW given \in Given, RecordRating(given[1], given[2])
  PROVE  LibrariesInv'
<1> DEFINE R == [of : Contents, rating : {"up", "down", "feedback"}]
<1>1. PICK c, rating, row : c = given[1] /\ rating = given[2] /\ row = [of |-> c, rating |-> rating]
  OBVIOUS
<1>2. c \in Contents /\ rating \in {"up", "down", "feedback"}
  BY <1>1, LearningAssumption
<1>3. /\ \A i \in DOMAIN ratings : ratings[i].of # c
      /\ ratings' = Append(ratings, row)
      /\ UNCHANGED <<file, shelf, metrics, call, runs, failures, answered, demoted, wiped>>
  BY <1>1 DEF RecordRating
<1>4. row \in R /\ row.of = c
  BY <1>1, <1>2
<1>5. ratings \in Seq(R) /\ Len(ratings) \in Nat /\ DOMAIN ratings = 1 .. Len(ratings)
  BY LenProperties DEF LibrariesInv, TablesSound, RatingsSound
<1> HIDE DEF R
<1>6. PICK n \in Nat : n = Len(ratings)
  BY <1>5
<1>7. /\ ratings' \in Seq(R) /\ DOMAIN ratings' = 1 .. n + 1
      /\ \A i \in 1 .. n : ratings'[i] = ratings[i]
      /\ ratings'[n + 1] = row
  BY <1>3, <1>4, <1>5, <1>6, AppendProperties, LenProperties
<1>8. ASSUME NEW i \in 1 .. n + 1, NEW j \in 1 .. n + 1, ratings'[i].of = ratings'[j].of
      PROVE  i = j
  <2>1. CASE i \in 1 .. n /\ j \in 1 .. n
    BY <1>5, <1>6, <1>7, <1>8, <2>1 DEF LibrariesInv, TablesSound, RatingsSound
  <2>2. CASE i = n + 1 /\ j \in 1 .. n
    BY <1>3, <1>4, <1>5, <1>6, <1>7, <1>8, <2>2
  <2>3. CASE i \in 1 .. n /\ j = n + 1
    BY <1>3, <1>4, <1>5, <1>6, <1>7, <1>8, <2>3
  <2> QED BY <2>1, <2>2, <2>3
<1>9. RatingsSound'
  BY <1>7, <1>8 DEF RatingsSound, R
<1>10. TablesSound'
  BY <1>3, <1>9 DEF LibrariesInv, TablesSound, Answers
<1>11. TablesGrow
  BY <1>3, <1>5, <1>6, <1>7 DEF TablesGrow
<1>12. CountsTyped'
  BY <1>3 DEF LibrariesInv, CountsTyped
<1> QED BY <1>3, <1>10, <1>11, <1>12, FilesKept, CallsKept, ShelfKept, InvStep DEF LibrariesInv

\* What a page makes of a file.
LEMMA TurnedSound ==
  ASSUME NEW f, NEW items, Sound(f, items), NEW i \in DOMAIN items, NEW active \in BOOLEAN,
         NEW new, new = [items EXCEPT ![i].active = active]
  PROVE  Sound(f, new) /\ Alters(new, items)
<1>1. \A n \in DOMAIN items : items[n] \in Entry
  BY LenProperties, ElementOfSeq DEF Sound, Good
<1>2. DOMAIN new = DOMAIN items /\ new = [n \in DOMAIN items |-> new[n]]
  OBVIOUS
<1>3. \A n \in DOMAIN items : new[n] = IF n = i THEN [items[i] EXCEPT !.active = active]
                                       ELSE items[n]
  OBVIOUS
<1>4. Alters(new, items)
  <2>1. ASSUME NEW n \in DOMAIN items
        PROVE  /\ new[n] \in Entry /\ new[n].source = items[n].source /\ new[n].of = items[n].of
               /\ new[n].reason = items[n].reason
    <3>1. PICK e \in Entry : e = items[n]
      BY <1>1
    <3>2. new[n] = [e EXCEPT !.active = active] \/ new[n] = e
      BY <1>3, <3>1
    <3>3. /\ [e EXCEPT !.active = active] \in Entry
          /\ [e EXCEPT !.active = active].source = e.source
          /\ [e EXCEPT !.active = active].of = e.of
          /\ [e EXCEPT !.active = active].reason = e.reason
      BY DEF Entry
    <3> QED BY <3>1, <3>2, <3>3
  <2> QED BY <1>2, <2>1 DEF Alters
<1> QED BY <1>2, <1>4, AltersSound

\* A page that is about to replace f.
Reader(f, new) == [AtRest EXCEPT !.pc = "replace", !.out = <<f>>, !.lib[f] = new]

Turns(c, f, new) == c.pc = "replace" /\ Head(c.out) = f /\ c.lib[f] = new

LEMMA ReaderMade ==
  ASSUME NEW f \in Files, NEW new, Sound(f, new), NEW c, c = Reader(f, new)
  PROVE  ProcessSound(c) /\ Turns(c, f, new)
<1>1. PICK lib : lib = [NoLib EXCEPT ![f] = new]
  OBVIOUS
<1>2. new \in Seq(Entry)
  BY DEF Sound, Good
<1>3. lib \in [Files -> Seq(Entry)] /\ lib[f] = new /\ \A g \in Files : Sound(g, lib[g])
  BY <1>1, <1>2, NoLibFacts
<1>4. <<f>> \in Outs
  BY DEF Outs, Files
<1>5. PICK out : out = <<f>>
  OBVIOUS
<1>6. AtRest \in Process /\ AtRest.lib = NoLib /\ AtRest.old = FALSE
  BY StartedSound DEF ProcessSound, AtRest
<1>7. c = [AtRest EXCEPT !.pc = "replace", !.out = out, !.lib = lib]
  BY <1>1, <1>5, <1>6 DEF Reader
<1>8. out \in Seq(Files)
  BY <1>4, <1>5, OutsFacts
<1>9. c \in Process /\ c.pc = "replace" /\ c.out = out /\ c.lib = lib /\ c.old = FALSE
  BY <1>3, <1>6, <1>7, <1>8 DEF Process, Pcs
<1>10. Head(out) = f
  BY <1>5
<1> QED BY <1>3, <1>4, <1>5, <1>9, <1>10, ProcessMade DEF Turns

LEMMA InvReadEntry ==
  ASSUME LibrariesInv, NEW k \in Processes, NEW f \in Files, NEW i \in 1 .. MaxLibrary,
         NEW active \in BOOLEAN, ReadEntry(k, f, i, active)
  PROVE  LibrariesInv'
<1>1. PICK items, new, c :
        /\ items = Loaded(f) /\ new = [items EXCEPT ![i].active = active]
        /\ c = Reader(f, new)
  OBVIOUS
<1>2. /\ i \in DOMAIN items /\ call' = [call EXCEPT ![k] = c]
      /\ UNCHANGED <<file, shelf, ratings, metrics, answered, failures, demoted, wiped>>
      /\ runs < MaxRuns /\ runs' = runs + 1
  BY <1>1 DEF ReadEntry, DB, Idles, Reader
<1>3. Sound(f, items)
  BY <1>1, LoadedSound DEF LibrariesInv
<1>4. Sound(f, new)
  BY <1>1, <1>2, <1>3, TurnedSound
<1>5. ProcessSound(c)
  BY <1>1, <1>4, ReaderMade
<1>6. CallsNow
  BY <1>2, <1>5, CallMoved DEF LibrariesInv
<1>7. CountsTyped'
  BY <1>2, LearningAssumption DEF LibrariesInv, CountsTyped
<1> QED BY <1>2, <1>6, <1>7, FilesKept, ShelfKept, TablesKept, InvStep DEF LibrariesInv

\* The winners that are off are of rated or answered copies.
LEMMA MarkedTyped ==
  ASSUME LibrariesInv, NEW items, Sound("winners", items), NEW active
  PROVE  Marked(items, active) \subseteq {"rating", "reply"} \X Contents
<1>1. ASSUME NEW i \in DOMAIN items, items[i].source # "seed"
      PROVE  items[i].source \in {"rating", "reply"} /\ items[i].of \in Contents
  <2>1. PICK e : e = items[i]
    OBVIOUS
  <2>2. Backed(e, "up")
    BY <2>1 DEF Sound, Good, EntrySound
  <2>3. \A n \in DOMAIN ratings : ratings[n].of \in Contents
    <3> DEFINE R == [of : Contents, rating : {"up", "down", "feedback"}]
    <3>1. ratings \in Seq(R)
      BY DEF LibrariesInv, TablesSound, RatingsSound
    <3>2. \A n \in DOMAIN ratings : ratings[n] \in R
      <4> HIDE DEF R
      <4> QED BY <3>1, LenProperties, ElementOfSeq
    <3> QED BY <3>2
  <2>4. answered \subseteq Contents
    BY DEF LibrariesInv, TablesSound
  <2> QED BY <1>1, <2>1, <2>2, <2>3, <2>4 DEF Backed
<1> QED BY <1>1 DEF Marked

\* The step of a page that replaces f with what it holds.
Replaces(k, b, f) ==
  /\ b.pc = "replace" /\ b.out \in Outs /\ f \in Files /\ ProcessSound(b)
  /\ file' = [file EXCEPT ![f] = [whole |-> TRUE, items |-> b.lib[f]]]
  /\ demoted' = IF f = "winners" THEN Marked(b.lib["winners"], FALSE) ELSE demoted
  /\ UNCHANGED <<shelf, ratings, metrics, answered, runs, failures, wiped>>
  /\ call'[k].pc = "idle" /\ call' \in [Processes -> Process]
  /\ ProcessSound(call'[k])
  /\ \A j \in Processes \ {k} :
       /\ SameWork(call[j], call'[j])
       /\ call'[j].old = (call[j].old \/ (f = "winners" /\ Holding(call[j])))

LEMMA ReplaceParts ==
  ASSUME LibrariesInv, NEW k \in Processes, ReplaceEntry(k), NEW b, b = call[k],
         NEW f, f = Head(b.out)
  PROVE  Replaces(k, b, f)
<1>1. b.pc = "replace" /\ ProcessSound(b)
  BY DEF ReplaceEntry, LibrariesInv, ProcessesSound
<1>2. b.out \in Outs /\ f \in Files
  BY <1>1, ProcessFields, OutsFacts
<1>3. PICK moved, after : moved = [call EXCEPT ![k] = AtRest] /\ after = Fates(moved, k, f, "replaced")
  OBVIOUS
<1>4. AtRest \in Process /\ AtRest.pc = "idle" /\ ProcessSound(AtRest)
  BY StartedSound DEF ProcessSound, AtRest
<1>5. /\ moved \in [Processes -> Process] /\ moved[k] = AtRest
      /\ \A j \in Processes \ {k} : moved[j] = call[j]
  BY <1>3, <1>4 DEF LibrariesInv, ProcessesSound
<1>6. /\ after \in [Processes -> Process] /\ after[k] = AtRest
      /\ \A j \in Processes : SameWork(moved[j], after[j]) /\ after[j].old = moved[j].old
  <2>1. PICK fate \in {"mine", "written", "replaced"} : fate = "replaced"
    OBVIOUS
  <2>2. after = Fates(moved, k, f, fate)
    BY <1>3, <2>1
  <2>3. moved \in [Processes -> Process] /\ moved[k] = AtRest
    BY <1>5
  <2> QED BY <2>2, <2>3, FatesFacts
<1>7. /\ file' = [file EXCEPT ![f] = [whole |-> TRUE, items |-> b.lib[f]]]
      /\ demoted' = IF f = "winners" THEN Marked(b.lib["winners"], FALSE) ELSE demoted
      /\ UNCHANGED <<shelf, ratings, metrics, answered, runs, failures, wiped>>
  BY DEF ReplaceEntry, DB
<1>8. \/ f = "winners" /\ call' = [j \in Processes |-> [after[j] EXCEPT !.old = @ \/ Holding(after[j])]]
      \/ f # "winners" /\ call' = after
  BY <1>3 DEF ReplaceEntry
<1>9. ASSUME NEW j \in Processes
      PROVE  /\ SameWork(moved[j], call'[j])
             /\ call'[j].old = (moved[j].old \/ (f = "winners" /\ Holding(moved[j])))
  <2>1. PICK c \in Process, d \in Process : c = moved[j] /\ d = after[j]
    BY <1>5, <1>6
  <2>2. SameWork(c, d) /\ d.old = c.old /\ c.old \in BOOLEAN
    BY <1>6, <2>1 DEF Process
  <2>3. PICK h \in BOOLEAN : h = (d.old \/ Holding(d))
    OBVIOUS
  <2>4. Holding(d) = Holding(c)
    BY <2>2 DEF SameWork, Holding
  <2>5. CASE f = "winners"
    <3>1. call'[j] = [d EXCEPT !.old = h]
      BY <1>8, <2>1, <2>3, <2>5
    <3>2. /\ [d EXCEPT !.old = h] \in Process /\ [d EXCEPT !.old = h].old = h
          /\ [d EXCEPT !.old = h].pc = d.pc /\ [d EXCEPT !.old = h].todo = d.todo
          /\ [d EXCEPT !.old = h].lib = d.lib /\ [d EXCEPT !.old = h].out = d.out
      BY DEF Process
    <3>3. SameWork(c, call'[j])
      BY <2>2, <3>1, <3>2 DEF SameWork
    <3>4. call'[j].old = (c.old \/ Holding(c))
      BY <2>2, <2>3, <2>4, <3>1, <3>2
    <3> QED BY <2>1, <2>5, <3>3, <3>4
  <2>6. CASE f # "winners"
    BY <1>8, <2>1, <2>2, <2>6
  <2> QED BY <2>5, <2>6
<1>10. call' \in [Processes -> Process]
  <2>1. \A j \in Processes : call'[j] \in Process
    BY <1>9 DEF SameWork
  <2>2. DOMAIN call' = Processes /\ call' = [j \in DOMAIN call' |-> call'[j]]
    BY <1>6, <1>8
  <2> QED BY <2>1, <2>2
<1>11. call'[k].pc = "idle" /\ ProcessSound(call'[k])
  <2>1. SameWork(AtRest, call'[k])
    BY <1>5, <1>9
  <2> QED BY <1>4, <2>1, SameWorkSound DEF SameWork
<1>12. \A j \in Processes \ {k} :
         /\ SameWork(call[j], call'[j])
         /\ call'[j].old = (call[j].old \/ (f = "winners" /\ Holding(call[j])))
  BY <1>5, <1>9
<1> QED BY <1>1, <1>2, <1>7, <1>10, <1>11, <1>12 DEF Replaces

LEMMA InvReplaceEntry ==
  ASSUME LibrariesInv, NEW k \in Processes, ReplaceEntry(k)
  PROVE  LibrariesInv'
<1>1. PICK b, f : b = call[k] /\ f = Head(b.out)
  OBVIOUS
<1>2. PICK items : items = b.lib[f]
  OBVIOUS
<1>3. /\ f \in Files /\ ProcessSound(b)
      /\ file' = [file EXCEPT ![f] = [whole |-> TRUE, items |-> items]]
      /\ demoted' = IF f = "winners" THEN Marked(items, FALSE) ELSE demoted
      /\ UNCHANGED <<shelf, ratings, metrics, answered, runs, failures, wiped>>
      /\ ProcessSound(call'[k]) /\ call' \in [Processes -> Process]
      /\ \A j \in Processes \ {k} : SameWork(call[j], call'[j])
  <2>1. Replaces(k, b, f)
    BY <1>1, ReplaceParts
  <2> QED BY <1>2, <2>1 DEF Replaces
<1>4. Sound(f, items)
  BY <1>2, <1>3, ProcessFields
<1>5. FilesNow
  BY <1>3, <1>4, FileMoved DEF LibrariesInv
<1>6. CallsNow
  <2>1. \A j \in Processes : ProcessSound(call[j])
    BY DEF LibrariesInv, ProcessesSound
  <2> QED BY <1>3, <2>1, SameWorkSound DEF CallsNow
<1>7. CountsTyped'
  <2>1. demoted' \subseteq {"rating", "reply"} \X Contents
    BY <1>3, <1>4, MarkedTyped DEF LibrariesInv, CountsTyped
  <2> QED BY <1>3, <2>1 DEF LibrariesInv, CountsTyped
<1> QED BY <1>3, <1>5, <1>6, <1>7, ShelfKept, TablesKept, InvStep DEF LibrariesInv

LEMMA InvCheckShelf ==
  ASSUME LibrariesInv, NEW k \in Processes, CheckShelf(k)
  PROVE  LibrariesInv'
<1>1. PICK c : c = [AtRest EXCEPT !.pc = "copy"]
  OBVIOUS
<1>2. /\ ProcessSound(c) /\ call' = [call EXCEPT ![k] = c]
      /\ UNCHANGED <<file, shelf, ratings, metrics, answered, failures, demoted, wiped>>
      /\ runs < MaxRuns /\ runs' = runs + 1
  BY <1>1, StartedSound DEF CheckShelf, DB, Idles
<1>3. CallsNow
  BY <1>2, CallMoved DEF LibrariesInv
<1>4. CountsTyped'
  BY <1>2, LearningAssumption DEF LibrariesInv, CountsTyped
<1> QED BY <1>2, <1>3, <1>4, FilesKept, ShelfKept, TablesKept, InvStep DEF LibrariesInv

LEMMA InvCopyToShelf ==
  ASSUME LibrariesInv, NEW k \in Processes, CopyToShelf(k)
  PROVE  LibrariesInv'
<1>1. PICK c, items : c = AtRest /\ items = Loaded("winners")
  OBVIOUS
<1>2. /\ ProcessSound(c) /\ call' = [call EXCEPT ![k] = c] /\ shelf' = shelf \o items
      /\ UNCHANGED <<file, ratings, metrics, answered, runs, failures, demoted, wiped>>
  BY <1>1, StartedSound DEF CopyToShelf
<1>3. Sound("winners", items) /\ items \in Seq(Entry)
  BY <1>1, LoadedSound DEF LibrariesInv, Files
<1>4. CallsNow
  BY <1>2, CallMoved DEF LibrariesInv
<1>5. ShelfNow
  <2>1. PICK m, n : m = Len(shelf) /\ n = Len(items)
    OBVIOUS
  <2>2. /\ shelf \in Seq(Entry) /\ m \in Nat /\ n \in Nat
        /\ DOMAIN shelf = 1 .. m /\ DOMAIN items = 1 .. n
    BY <1>3, <2>1, LenProperties DEF LibrariesInv, ShelfSound
  <2>3. /\ shelf' \in Seq(Entry) /\ Len(shelf') = m + n
        /\ \A i \in 1 .. m + n : shelf'[i] = IF i <= m THEN shelf[i] ELSE items[i - m]
    BY <1>2, <1>3, <2>1, <2>2, ConcatProperties
  <2>4. DOMAIN shelf' = 1 .. m + n
    BY <2>3, LenProperties
  <2>5. ASSUME NEW i \in DOMAIN shelf' PROVE Backed(shelf'[i], "up")
    <3>1. CASE i <= m
      <4>1. i \in DOMAIN shelf /\ shelf'[i] = shelf[i]
        BY <2>2, <2>3, <2>4, <3>1
      <4> QED BY <4>1 DEF LibrariesInv, ShelfSound
    <3>2. CASE ~ (i <= m)
      <4>1. i - m \in DOMAIN items /\ shelf'[i] = items[i - m]
        BY <2>2, <2>3, <2>4, <3>2
      <4> QED BY <1>3, <4>1 DEF Sound, Good, EntrySound
    <3> QED BY <3>1, <3>2
  <2> QED BY <2>3, <2>5 DEF ShelfNow
<1>6. CountsTyped'
  BY <1>2 DEF LibrariesInv, CountsTyped
<1> QED BY <1>2, <1>4, <1>5, <1>6, FilesKept, TablesKept, InvStep DEF LibrariesInv

-----------------------------------------------------------------------------
(* The library in the repository                                            *)

\* An order of a finite set lists it once.
LEMMA OrderFacts ==
  ASSUME NEW S, IsFiniteSet(S), NEW order \in SetToSeqs(S)
  PROVE  /\ Cardinality(S) \in Nat
         /\ order \in [1 .. Cardinality(S) -> S]
         /\ \A i, j \in 1 .. Cardinality(S) : order[i] = order[j] => i = j
         /\ \A s \in S : \E i \in 1 .. Cardinality(S) : order[i] = s
<1> DEFINE m == Cardinality(S)
<1>1. m \in Nat
  BY FS_CardinalityType
<1>2. order \in [1 .. m -> S] /\ \A i, j \in 1 .. m : i # j => order[i] # order[j]
  BY DEF SetToSeqs
<1> HIDE DEF m
<1>3. order \in Injection(1 .. m, S)
  BY <1>2 DEF Injection, IsInjective
<1>4. Cardinality(1 .. m) = m
  <2>1. 1 \in Int /\ m \in Int
    BY <1>1
  <2>2. Cardinality(1 .. m) = IF 1 > m THEN 0 ELSE m - 1 + 1
    BY <2>1, FS_Interval
  <2> QED BY <1>1, <2>2
<1>5. order \in Surjection(1 .. m, S)
  <2>1. Cardinality(1 .. m) = Cardinality(S)
    BY <1>4 DEF m
  <2> QED BY <1>3, <2>1, FS_Injection
<1>6. \A s \in S : \E i \in 1 .. m : order[i] = s
  BY <1>5 DEF Surjection
<1> QED BY <1>1, <1>2, <1>6 DEF m

LEMMA SeedsMade ==
  ASSUME NEW order \in SetToSeqs(Seeds), NEW new,
         new = [i \in DOMAIN order |-> NewEntry("seed", order[i], 0)]
  PROVE  /\ Good("winners", new) /\ Len(new) = Cardinality(Seeds)
         /\ \A i \in DOMAIN new : new[i].source = "seed"
         /\ \A s \in Seeds : Has(new, "seed", s)
<1>1. PICK m : m = Cardinality(Seeds)
  OBVIOUS
<1>2. /\ m \in Nat /\ order \in [1 .. m -> Seeds]
      /\ \A i, j \in 1 .. m : order[i] = order[j] => i = j
      /\ \A s \in Seeds : \E i \in 1 .. m : order[i] = s
  BY <1>1, LearningAssumption, OrderFacts
<1>3. DOMAIN new = 1 .. m /\ \A i \in 1 .. m : new[i] = NewEntry("seed", order[i], 0)
  BY <1>2
<1>4. \A s \in Seeds : /\ NewEntry("seed", s, 0) \in Entry
                       /\ NewEntry("seed", s, 0).source = "seed"
                       /\ NewEntry("seed", s, 0).of = s
  BY LearningAssumption DEF NewEntry, Entry
<1>5. \A i \in 1 .. m : new[i] \in Entry /\ new[i].source = "seed" /\ new[i].of = order[i]
  BY <1>2, <1>3, <1>4
<1>6. new \in Seq(Entry) /\ Len(new) = m
  BY <1>2, <1>3, <1>5
<1>7. Unique(new)
  BY <1>2, <1>3, <1>5 DEF Unique
<1>8. \A i \in DOMAIN new : EntrySound("winners", new[i])
  BY <1>2, <1>3, <1>5 DEF EntrySound, Backed
<1>9. \A s \in Seeds : Has(new, "seed", s)
  BY <1>2, <1>3, <1>5 DEF Has
<1> QED BY <1>1, <1>3, <1>5, <1>6, <1>7, <1>8, <1>9 DEF Good

OldEntry(c) == [NewEntry("reply", c, 0) EXCEPT !.reason = "missing"]

LEMMA OldEntryFacts ==
  ASSUME NEW c \in Contents
  PROVE  OldEntry(c) \in Entry /\ OldEntry(c).source = "reply" /\ OldEntry(c).of = c
<1>1. PICK e : e = NewEntry("reply", c, 0)
  OBVIOUS
<1>2. e \in Entry /\ e.source = "reply" /\ e.of = c
  <2>1. 0 \in 0 .. MaxRuns
    BY LearningAssumption
  <2> QED BY <1>1, <2>1, NewEntryFacts
<1>3. OldEntry(c) = [e EXCEPT !.reason = "missing"]
  BY <1>1 DEF OldEntry
<1> QED BY <1>2, <1>3 DEF Entry

LEMMA OldRepliesMade ==
  ASSUME answered = OldReplies, NEW order \in SetToSeqs(OldReplies), NEW new,
         new = [i \in DOMAIN order |-> OldEntry(order[i])]
  PROVE  /\ Good("winners", new) /\ Len(new) = Cardinality(OldReplies)
         /\ \A i \in DOMAIN new : new[i].source = "reply"
<1>1. PICK m : m = Cardinality(OldReplies)
  OBVIOUS
<1>2. IsFiniteSet(OldReplies) /\ OldReplies \subseteq Contents
  BY LearningAssumption, FS_Subset
<1>3. /\ m \in Nat /\ order \in [1 .. m -> OldReplies]
      /\ \A i, j \in 1 .. m : order[i] = order[j] => i = j
  BY <1>1, <1>2, OrderFacts
<1>4. DOMAIN new = 1 .. m /\ \A i \in 1 .. m : new[i] = OldEntry(order[i])
  BY <1>3
<1>5. \A c \in OldReplies :
        OldEntry(c) \in Entry /\ OldEntry(c).source = "reply" /\ OldEntry(c).of = c
  BY <1>2, OldEntryFacts
<1>6. \A i \in 1 .. m : new[i] \in Entry /\ new[i].source = "reply" /\ new[i].of = order[i]
  BY <1>3, <1>4, <1>5
<1>7. new \in Seq(Entry) /\ Len(new) = m
  BY <1>3, <1>4, <1>6
<1>8. Unique(new)
  BY <1>3, <1>4, <1>6 DEF Unique
<1>9. \A i \in DOMAIN new : EntrySound("winners", new[i])
  BY <1>3, <1>4, <1>6 DEF EntrySound, Backed
<1> QED BY <1>1, <1>4, <1>6, <1>7, <1>8, <1>9 DEF Good

LEMMA FirstWinners ==
  ASSUME LibraryInit
  PROVE  /\ file \in [Files -> [whole : BOOLEAN, items : Seq(Entry)]]
         /\ \A f \in Files : file[f].whole
         /\ file["negatives"].items = <<>>
         /\ Sound("winners", file["winners"].items)
         /\ \A s \in Seeds : Has(file["winners"].items, "seed", s)
<1>1. PICK seeds \in SetToSeqs(Seeds), legacy \in SetToSeqs(OldReplies) :
        file = [f \in Files |->
          [whole |-> TRUE,
           items |-> IF f = "negatives" THEN <<>>
                     ELSE [i \in DOMAIN seeds |-> NewEntry("seed", seeds[i], 0)]
                       \o [i \in DOMAIN legacy |->
                            [NewEntry("reply", legacy[i], 0) EXCEPT !.reason = "missing"]]]]
  BY DEF LibraryInit
<1>2. PICK a, b, all :
        /\ a = [i \in DOMAIN seeds |-> NewEntry("seed", seeds[i], 0)]
        /\ b = [i \in DOMAIN legacy |-> OldEntry(legacy[i])]
        /\ all = a \o b
  OBVIOUS
<1>3. file = [f \in Files |-> [whole |-> TRUE, items |-> IF f = "negatives" THEN <<>> ELSE all]]
  BY <1>1, <1>2 DEF OldEntry
<1>4. /\ Good("winners", a) /\ Len(a) = Cardinality(Seeds)
      /\ \A i \in DOMAIN a : a[i].source = "seed"
      /\ \A s \in Seeds : Has(a, "seed", s)
  BY <1>2, SeedsMade
<1>5. answered = OldReplies
  BY DEF LibraryInit
<1>6. /\ Good("winners", b) /\ Len(b) = Cardinality(OldReplies)
      /\ \A i \in DOMAIN b : b[i].source = "reply"
  BY <1>2, <1>5, OldRepliesMade
<1>7. Good("winners", all)
  <2>1. \A i \in DOMAIN b : ~ Has(a, b[i].source, b[i].of)
    BY <1>4, <1>6 DEF Has
  <2> QED BY <1>2, <1>4, <1>6, <2>1, GoodConcat
<1>8. /\ all \in Seq(Entry) /\ Len(all) = Len(a) + Len(b)
      /\ \A i \in 1 .. Len(a) : i \in DOMAIN all /\ all[i] = a[i]
  <2>1. PICK m \in Nat, n \in Nat : m = Len(a) /\ n = Len(b)
    BY <1>4, <1>6, LenProperties DEF Good
  <2>2. /\ a \o b \in Seq(Entry) /\ Len(a \o b) = m + n
        /\ \A i \in 1 .. m + n : (a \o b)[i] = IF i <= m THEN a[i] ELSE b[i - m]
    BY <1>4, <1>6, <2>1, ConcatProperties DEF Good
  <2>3. DOMAIN (a \o b) = 1 .. m + n
    BY <2>2, LenProperties
  <2>4. \A i \in 1 .. m : i \in 1 .. m + n /\ i <= m
    OBVIOUS
  <2> QED BY <1>2, <2>1, <2>2, <2>3, <2>4
<1>9. Sound("winners", all)
  BY <1>4, <1>6, <1>7, <1>8, LearningAssumption DEF Sound
<1>10. \A s \in Seeds : Has(all, "seed", s)
  <2>1. DOMAIN a = 1 .. Len(a)
    BY <1>4, LenProperties DEF Good
  <2> QED BY <1>4, <1>8, <2>1 DEF Has
<1>11. PICK none : none = <<>>
  OBVIOUS
<1>12. none \in Seq(Entry)
  BY <1>11, EmptySeq
<1>13. file = [f \in Files |-> [whole |-> TRUE, items |-> IF f = "negatives" THEN none ELSE all]]
  BY <1>3, <1>11
<1>14. file \in [Files -> [whole : BOOLEAN, items : Seq(Entry)]]
  BY <1>8, <1>12, <1>13
<1>15. \A f \in Files : file[f].whole /\ file[f].items = IF f = "negatives" THEN none ELSE all
  BY <1>13
<1>16. file["winners"].items = all /\ file["negatives"].items = <<>>
  BY <1>11, <1>15 DEF Files
<1> QED BY <1>9, <1>10, <1>14, <1>15, <1>16

LEMMA InvInit == LibraryInit => LibrariesInv
<1> SUFFICES ASSUME LibraryInit PROVE LibrariesInv
  OBVIOUS
<1>1. FilesSound
  <2>1. PICK win, neg : win = file["winners"].items /\ neg = file["negatives"].items
    OBVIOUS
  <2>2. Sound("winners", win) /\ Sound("negatives", neg)
    BY <2>1, FirstWinners, GoodEmpty
  <2> QED BY <2>1, <2>2, FirstWinners DEF FilesSound, Files
<1>2. ProcessesSound
  <2>1. AtRest \in Process
    BY StartedSound DEF ProcessSound
  <2>2. call = [k \in Processes |-> AtRest]
    BY DEF LibraryInit
  <2> QED BY <2>1, <2>2, StartedSound DEF ProcessesSound
<1>3. ShelfSound
  <2>1. shelf = <<>> /\ DOMAIN <<>> = {} /\ <<>> \in Seq(Entry)
    BY EmptySeq DEF LibraryInit
  <2> QED BY <2>1 DEF ShelfSound
<1>4. TablesSound
  <2>1. RatingsSound
    <3>1. ratings = <<>> /\ DOMAIN <<>> = {} /\ <<>> \in Seq([of : Contents, rating : {"up", "down", "feedback"}])
      BY EmptySeq DEF LibraryInit
    <3> QED BY <3>1 DEF RatingsSound
  <2>2. PICK m \in [OldReplies -> Metrics] :
          metrics = [c \in Contents |-> IF c \in OldReplies THEN m[c] ELSE {}]
    BY DEF LibraryInit
  <2>3. metrics \in [Contents -> SUBSET {"replied", "positive"}]
    BY <2>2, LearningAssumption
  <2>4. answered = OldReplies /\ answered \subseteq Contents
    BY LearningAssumption DEF LibraryInit
  <2>5. Answers
    BY <2>2, <2>4 DEF Answers
  <2> QED BY <2>1, <2>3, <2>4, <2>5 DEF TablesSound
<1>5. CountsTyped
  <2>1. runs = 0 /\ failures = 0 /\ demoted = {} /\ wiped = FALSE
    BY DEF LibraryInit
  <2>2. 0 \in 0 .. MaxRuns /\ 0 \in 0 .. MaxFailures
    BY LearningAssumption
  <2> QED BY <2>1, <2>2 DEF CountsTyped
<1> QED BY <1>1, <1>2, <1>3, <1>4, <1>5 DEF LibrariesInv

LEMMA LibrariesStep == LibrariesInv /\ [LibraryNext]_libraryVars => LibrariesInv'
<1> SUFFICES ASSUME LibrariesInv, [LibraryNext]_libraryVars PROVE LibrariesInv'
  OBVIOUS
<1>1. CASE UNCHANGED libraryVars
  <2>1. UNCHANGED <<file, shelf, ratings, metrics, call, runs, failures, answered, demoted, wiped>>
    BY <1>1 DEF libraryVars
  <2>2. CountsTyped'
    BY <2>1 DEF LibrariesInv, CountsTyped
  <2> QED BY <2>1, <2>2, FilesKept, CallsKept, ShelfKept, TablesKept, InvStep DEF LibrariesInv
<1>2. ASSUME NEW k \in Processes, Script(k) PROVE LibrariesInv'
  BY <1>2, InvStartScript, InvSyncLead, InvSyncEnd, InvLoadWinners, InvLoadNegatives,
     InvProcessRatings, InvPromoteWinners, InvCleanupWinners, InvOpen, InvWrite DEF Script
<1>3. ASSUME NEW k \in Processes, Page(k) PROVE LibrariesInv'
  BY <1>3, InvReadEntry, InvReplaceEntry DEF Page
<1>4. ASSUME NEW k \in Processes, Startup(k) PROVE LibrariesInv'
  BY <1>4, InvCheckShelf, InvCopyToShelf DEF Startup
<1>5. ASSUME NEW k \in Processes, ProcessDies(k) PROVE LibrariesInv'
  BY <1>5, InvProcessDies
<1>6. ASSUME NEW given \in Given, RecordRating(given[1], given[2]) PROVE LibrariesInv'
  BY <1>6, InvRecordRating
<1> QED BY <1>1, <1>2, <1>3, <1>4, <1>5, <1>6 DEF LibraryNext

LEMMA LibrariesInvariant == LibrarySpec => []LibrariesInv
BY InvInit, LibrariesStep, PTL DEF LibrarySpec

\* Files, calls, tables and marks are well typed and no library outgrows its limit,
\* whatever is read before and written after other calls, truncated or replaced.
THEOREM LibraryTypeCorrect == LibrarySpec => []LibraryTyped
<1>1. LibrariesInv => LibraryTyped
  BY DEF LibrariesInv, FilesSound, ProcessesSound, ShelfSound, TablesSound, RatingsSound, CountsTyped,
         LibraryTyped, Sound
<1> QED BY <1>1, LibrariesInvariant, PTL

LEMMA ExamplesBacked ==
  ASSUME LibrariesInv
  PROVE  /\ Examples \in Seq(Entry)
         /\ \A i \in DOMAIN Examples : Backed(Examples[i], "up")
<1>1. PICK library, ranked, out :
        /\ library = Loaded("winners")
        /\ ranked = Ranked(Picked(library, {n \in DOMAIN library : Quotable(library[n])}))
        /\ out = Examples
  OBVIOUS
<1>2. Sound("winners", library) /\ library \in Seq(Entry)
  BY <1>1, LoadedSound DEF LibrariesInv, Files
<1>3. ranked \in Seq(Entry) /\ \A i \in DOMAIN ranked : Backed(ranked[i], "up")
  <2>1. PICK at, some : at = {n \in DOMAIN library : Quotable(library[n])} /\ some = Picked(library, at)
    OBVIOUS
  <2>2. some \in Seq(Entry) /\ \E pos : Places(pos, some, library, at \cap DOMAIN library)
    BY <1>2, <2>1, PickedFacts
  <2>3. Within(some, library)
    <3>1. at \cap DOMAIN library \subseteq DOMAIN library
      OBVIOUS
    <3> QED BY <2>2, <3>1, PlacesMore DEF Within
  <2>4. ranked \in Seq(Entry) /\ Within(ranked, some)
    BY <1>1, <2>1, <2>2, RankedFacts
  <2>5. Good("winners", ranked)
    BY <1>2, <2>2, <2>3, <2>4, GoodWithin DEF Sound
  <2> QED BY <2>4, <2>5 DEF Good, EntrySound
<1>4. PICK from : from = IF shelf # <<>> THEN shelf ELSE ranked
  OBVIOUS
<1>5. from \in Seq(Entry) /\ \A i \in DOMAIN from : Backed(from[i], "up")
  BY <1>3, <1>4 DEF LibrariesInv, ShelfSound
<1>6. out = First(Quota, from)
  BY <1>1, <1>4 DEF Examples
<1>7. Quota \in Nat
  BY LearningAssumption
<1>8. out \in Seq(Entry) /\ Within(out, from)
  BY <1>5, <1>6, <1>7, FirstFacts
<1>9. ASSUME NEW i \in DOMAIN out PROVE Backed(out[i], "up")
  <2>1. PICK pos : Places(pos, out, from, DOMAIN from)
    BY <1>8 DEF Within
  <2>2. DOMAIN out = 1 .. Len(out)
    BY <1>8, LenProperties
  <2>3. pos[i] \in DOMAIN from /\ out[i] = from[pos[i]]
    BY <2>1, <2>2 DEF Places
  <2> QED BY <1>5, <2>3
<1> QED BY <1>1, <1>8, <1>9

\* A library names no copy twice for one reason, and every example in a library or
\* a prompt rests on a rating of its kind, an answer, or the operator.
THEOREM LibraryTrueCorrect == LibrarySpec => []LibraryTrue
<1>1. LibrariesInv => LibraryTrue
  <2> SUFFICES ASSUME LibrariesInv PROVE LibraryTrue
    OBVIOUS
  <2>1. \A f \in Files : Sound(f, file[f].items)
    BY DEF LibrariesInv, FilesSound
  <2>2. /\ \A i \in DOMAIN file["winners"].items : Backed(file["winners"].items[i], "up")
        /\ \A i \in DOMAIN file["negatives"].items :
             file["negatives"].items[i].source = "rating"
             /\ Backed(file["negatives"].items[i], "feedback")
    <3>1. PICK win, neg : win = file["winners"].items /\ neg = file["negatives"].items
      OBVIOUS
    <3>2. Sound("winners", win) /\ Sound("negatives", neg)
      BY <2>1, <3>1 DEF Files
    <3>3. /\ \A i \in DOMAIN win : Backed(win[i], "up")
          /\ \A i \in DOMAIN neg : neg[i].source = "rating" /\ Backed(neg[i], "feedback")
      BY <3>2 DEF Sound, Good, EntrySound
    <3> QED BY <3>1, <3>3
  <2>3. \A f \in Files : Unique(file[f].items)
    BY <2>1 DEF Sound, Good
  <2> QED BY <2>2, <2>3, ExamplesBacked DEF LibraryTrue
<1> QED BY <1>1, LibrariesInvariant, PTL

-----------------------------------------------------------------------------
(* What the operator has put in and turned off                              *)

\* The call holds winners that it is to write, or to change and write.
Bears(c) ==
  \/ c.pc \in {"negatives", "db"}
  \/ c.pc \in {"open", "write", "replace"} /\ Head(c.out) = "winners"

Seeded(items) == \A s \in Seeds : Has(items, "seed", s)

\* What is off is in the library, and off: a roll-up does not add it anew.
Obeys(items) ==
  \A d \in demoted :
    \/ d[1] = "reply" /\ d[2] \in OldReplies
    \/ /\ Has(items, d[1], d[2])
       /\ \A i \in DOMAIN items :
            items[i].source = d[1] /\ items[i].of = d[2] => ~ items[i].active

FileCurated ==
  file["winners"].whole => Seeded(file["winners"].items) /\ Obeys(file["winners"].items)

\* A page has turned one entry of a library of which another page may since have
\* turned some; a job has looked all of them up, unless it is old.
CallCurated(c) ==
  Bears(c) => /\ Seeded(c.lib["winners"])
              /\ ~ c.old /\ c.pc # "replace" => Obeys(c.lib["winners"])

CurationInv == wiped \/ (FileCurated /\ \A k \in Processes : CallCurated(call[k]))

LEMMA ExtendedCurated ==
  ASSUME NEW items, NEW new, Sound("winners", items), Good("winners", new), Seeded(items),
         \A i \in DOMAIN new :
           new[i].source # "seed" /\ ~ Has(items, new[i].source, new[i].of)
  PROVE  /\ Seeded(Extended(items, new))
         /\ Obeys(items) => Obeys(Extended(items, new))
<1>1. PICK out, all : out = Extended(items, new) /\ all = items \o new
  OBVIOUS
<1>2. items \in Seq(Entry) /\ new \in Seq(Entry) /\ Len(items) <= MaxLibrary
  BY DEF Sound, Good
<1>3. out \in Seq(Entry) /\ Within(out, all)
  BY <1>1, <1>2, ExtendedFacts
<1>4. \A q \in DOMAIN items : \E i \in DOMAIN out : out[i] = items[q]
  BY <1>1, <1>2, ExtendedKeeps
<1>5. \A source, c : Has(items, source, c) => Has(out, source, c)
  BY <1>4 DEF Has
<1>6. PICK pos : Places(pos, out, all, DOMAIN all)
  BY <1>3 DEF Within
<1>7. ASSUME NEW i \in DOMAIN out
      PROVE  (\E q \in DOMAIN items : out[i] = items[q]) \/ (\E q \in DOMAIN new : out[i] = new[q])
  <2>1. PICK m, n : m = Len(items) /\ n = Len(new)
    OBVIOUS
  <2>2. m \in Nat /\ n \in Nat /\ DOMAIN items = 1 .. m /\ DOMAIN new = 1 .. n
    BY <1>2, <2>1, LenProperties
  <2>3. /\ all \in Seq(Entry) /\ Len(all) = m + n
        /\ \A q \in 1 .. m + n : all[q] = IF q <= m THEN items[q] ELSE new[q - m]
    BY <1>1, <1>2, <2>1, ConcatProperties
  <2>4. DOMAIN all = 1 .. m + n /\ DOMAIN out = 1 .. Len(out)
    BY <1>3, <2>3, LenProperties
  <2>5. PICK q \in 1 .. m + n : out[i] = all[q]
    BY <1>6, <2>4 DEF Places
  <2>6. CASE q <= m
    BY <2>2, <2>3, <2>5, <2>6
  <2>7. CASE ~ (q <= m)
    <3>1. q - m \in 1 .. n
      BY <2>2, <2>7
    <3> QED BY <2>2, <2>3, <2>5, <2>7, <3>1
  <2> QED BY <2>6, <2>7
<1>8. ASSUME Obeys(items), NEW d \in demoted, ~ (d[1] = "reply" /\ d[2] \in OldReplies)
      PROVE  /\ Has(out, d[1], d[2])
             /\ \A i \in DOMAIN out : out[i].source = d[1] /\ out[i].of = d[2] => ~ out[i].active
  <2>1. /\ Has(items, d[1], d[2])
        /\ \A i \in DOMAIN items :
             items[i].source = d[1] /\ items[i].of = d[2] => ~ items[i].active
    BY <1>8 DEF Obeys
  <2>2. ASSUME NEW i \in DOMAIN out, out[i].source = d[1], out[i].of = d[2]
        PROVE  ~ out[i].active
    <3>1. \A q \in DOMAIN new : out[i] # new[q]
      BY <2>1, <2>2
    <3> QED BY <1>7, <2>1, <2>2, <3>1
  <2> QED BY <1>5, <2>1, <2>2
<1>9. Obeys(items) => Obeys(out)
  BY <1>8 DEF Obeys
<1> QED BY <1>1, <1>5, <1>9 DEF Seeded

LEMMA AltersSeeded ==
  ASSUME NEW items, NEW new, Alters(new, items), Seeded(items) PROVE Seeded(new)
BY DEF Alters, Seeded, Has

\* A cleanup turns on only seeds and old replies.
LEMMA CleanedObeys ==
  ASSUME LibrariesInv, NEW win, Sound("winners", win), Obeys(win), NEW failed \in BOOLEAN,
         NEW new, new = [i \in DOMAIN win |-> Cleaned(win[i], failed)]
  PROVE  Obeys(new)
<1>1. \A i \in DOMAIN win : win[i] \in Entry /\ EntrySound("winners", win[i])
  BY LenProperties, ElementOfSeq DEF Sound, Good
<1>2. DOMAIN new = DOMAIN win
  OBVIOUS
<1>3. ASSUME NEW i \in DOMAIN win
      PROVE  /\ new[i].source = win[i].source /\ new[i].of = win[i].of
             /\ new[i].active => \/ win[i].active \/ win[i].source = "seed"
                                 \/ win[i].source = "reply" /\ win[i].of \in OldReplies
  <2>1. PICK e \in Entry : e = win[i] /\ EntrySound("winners", e)
    BY <1>1
  <2>2. new[i] = Cleaned(e, failed)
    BY <2>1
  <2> QED BY <2>1, <2>2, CleanedFacts DEF EntrySound
<1>4. ASSUME NEW d \in demoted, ~ (d[1] = "reply" /\ d[2] \in OldReplies)
      PROVE  /\ Has(new, d[1], d[2])
             /\ \A i \in DOMAIN new : new[i].source = d[1] /\ new[i].of = d[2] => ~ new[i].active
  <2>1. /\ Has(win, d[1], d[2])
        /\ \A i \in DOMAIN win : win[i].source = d[1] /\ win[i].of = d[2] => ~ win[i].active
    BY <1>4 DEF Obeys
  <2>2. d[1] # "seed"
    BY DEF LibrariesInv, CountsTyped
  <2>3. Has(new, d[1], d[2])
    BY <1>2, <1>3, <2>1 DEF Has
  <2> QED BY <1>2, <1>3, <1>4, <2>1, <2>2, <2>3
<1> QED BY <1>4 DEF Obeys

\* What a page has just written it obeys.
LEMMA MarkedObeyed ==
  ASSUME NEW items, Unique(items), NEW d \in Marked(items, FALSE)
  PROVE  /\ Has(items, d[1], d[2])
         /\ \A i \in DOMAIN items :
              items[i].source = d[1] /\ items[i].of = d[2] => ~ items[i].active
<1>1. PICK i \in DOMAIN items : items[i].active = FALSE /\ d = <<items[i].source, items[i].of>>
  BY DEF Marked
<1>2. d[1] = items[i].source /\ d[2] = items[i].of
  BY <1>1
<1> QED BY <1>1, <1>2 DEF Has, Unique

LEMMA ObeysLess ==
  ASSUME demoted' \subseteq demoted, NEW items, Obeys(items) PROVE Obeys(items)'
BY DEF Obeys, Has

LEMMA CuratedLess ==
  ASSUME demoted' \subseteq demoted, NEW c, CallCurated(c) PROVE CallCurated(c)'
<1>1. PICK items : items = c.lib["winners"]
  OBVIOUS
<1>2. Obeys(items) => Obeys(items)'
  BY ObeysLess
<1> QED BY <1>1, <1>2 DEF CallCurated, Bears, Seeded, Has

LEMMA FileCuratedKept ==
  ASSUME FileCurated, file'["winners"] = file["winners"], demoted' \subseteq demoted
  PROVE  FileCurated'
<1>1. PICK items : items = file["winners"].items
  OBVIOUS
<1>2. Obeys(items) => Obeys(items)'
  BY ObeysLess
<1>3. file'["winners"].items = items
  BY <1>1
<1> QED BY <1>1, <1>2, <1>3 DEF FileCurated, Seeded, Has

\* One call goes on with winners as curated as they have to be.
LEMMA CurationMoved ==
  ASSUME LibrariesInv, CurationInv, NEW k \in Processes, NEW c,
         call' = [call EXCEPT ![k] = c], UNCHANGED <<file, demoted>>,
         wiped => wiped', ~ wiped' => CallCurated(c)
  PROVE  CurationInv'
<1>1. CASE wiped'
  BY <1>1 DEF CurationInv
<1>2. CASE ~ wiped'
  <2>1. FileCurated /\ \A j \in Processes : CallCurated(call[j])
    BY <1>2 DEF CurationInv
  <2>2. FileCurated'
    BY <2>1, FileCuratedKept
  <2>3. ASSUME NEW j \in Processes PROVE CallCurated(call[j])'
    <3>1. PICK d : d = call'[j]
      OBVIOUS
    <3>2. d = IF j = k THEN c ELSE call[j]
      BY <3>1 DEF LibrariesInv, ProcessesSound
    <3>3. CallCurated(d)
      BY <1>2, <2>1, <3>2
    <3>4. CallCurated(d)'
      BY <3>3, CuratedLess
    <3> QED BY <3>1, <3>4
  <2> QED BY <2>2, <2>3 DEF CurationInv
<1> QED BY <1>1, <1>2

LEMMA CurationKeptStill ==
  ASSUME CurationInv, UNCHANGED <<file, call, demoted, wiped>>
  PROVE  CurationInv'
<1>1. ASSUME FileCurated, NEW k \in Processes, CallCurated(call[k])
      PROVE  FileCurated' /\ CallCurated(call[k])'
  <2>1. PICK c : c = call[k]
    OBVIOUS
  <2>2. CallCurated(c)'
    BY <1>1, <2>1, CuratedLess
  <2>3. FileCurated'
    BY <1>1, FileCuratedKept
  <2> QED BY <2>1, <2>2, <2>3
<1>2. FileCurated => FileCurated'
  BY FileCuratedKept
<1> QED BY <1>1, <1>2 DEF CurationInv

LEMMA AtRestCurated ==
  /\ CallCurated(AtRest)
  /\ CallCurated([AtRest EXCEPT !.pc = "copy"])
  /\ \A todo : CallCurated([AtRest EXCEPT !.pc = "begin", !.todo = todo])
BY DEF CallCurated, Bears, AtRest

\* The steps after which a call holds no winners.
LEMMA CurEmptyHanded ==
  ASSUME LibrariesInv, CurationInv, NEW k \in Processes,
         (\E s \in Jobs : StartScript(k, s)) \/ SyncEnd(k)
         \/ ProcessDies(k) \/ CheckShelf(k) \/ CopyToShelf(k)
  PROVE  CurationInv'
<1>1. PICK c : c = call'[k]
  OBVIOUS
<1>2. call' = [call EXCEPT ![k] = c] /\ CallCurated(c) /\ UNCHANGED <<file, demoted, wiped>>
  <2>a. call \in [Processes -> Process]
    BY DEF LibrariesInv, ProcessesSound
  <2>1. ASSUME NEW s, StartScript(k, s)
        PROVE  /\ call' = [call EXCEPT ![k] = c] /\ CallCurated(c)
               /\ UNCHANGED <<file, demoted, wiped>>
    <3>1. PICK d : d = [AtRest EXCEPT !.pc = "begin", !.todo = Scripts[s]]
      OBVIOUS
    <3>2. call' = [call EXCEPT ![k] = d] /\ UNCHANGED <<file, demoted, wiped>>
      BY <2>1, <3>1 DEF StartScript
    <3> QED BY <1>1, <2>a, <3>1, <3>2, AtRestCurated
  <2>2. CASE SyncEnd(k)
    <3>1. PICK d : d = Next1(call[k])
      OBVIOUS
    <3>2. call' = [call EXCEPT ![k] = d] /\ UNCHANGED <<file, demoted, wiped>>
      BY <2>2, <3>1 DEF SyncEnd
    <3>3. CallCurated(d)
      BY <3>1, AtRestCurated DEF Next1
    <3> QED BY <1>1, <2>a, <3>2, <3>3
  <2>3. CASE ProcessDies(k)
    <3>1. PICK d : d = AtRest
      OBVIOUS
    <3>2. call' = [call EXCEPT ![k] = d] /\ UNCHANGED <<file, demoted, wiped>>
      BY <2>3, <3>1 DEF ProcessDies
    <3> QED BY <1>1, <2>a, <3>1, <3>2, AtRestCurated
  <2>4. CASE CheckShelf(k)
    <3>1. PICK d : d = [AtRest EXCEPT !.pc = "copy"]
      OBVIOUS
    <3>2. call' = [call EXCEPT ![k] = d] /\ UNCHANGED <<file, demoted, wiped>>
      BY <2>4, <3>1 DEF CheckShelf
    <3> QED BY <1>1, <2>a, <3>1, <3>2, AtRestCurated
  <2>5. CASE CopyToShelf(k)
    <3>1. PICK d : d = AtRest
      OBVIOUS
    <3>2. call' = [call EXCEPT ![k] = d] /\ UNCHANGED <<file, demoted, wiped>>
      BY <2>5, <3>1 DEF CopyToShelf
    <3> QED BY <1>1, <2>a, <3>1, <3>2, AtRestCurated
  <2> QED BY <2>1, <2>2, <2>3, <2>4, <2>5
<1> QED
  <2>1. UNCHANGED <<file, demoted>>
    BY <1>2
  <2>2. (wiped => wiped') /\ (~ wiped' => CallCurated(c)) /\ call' = [call EXCEPT ![k] = c]
    BY <1>2
  <2> QED BY <2>1, <2>2, CurationMoved, Zenon

LEMMA CurLoadWinners ==
  ASSUME LibrariesInv, CurationInv, NEW k \in Processes, LoadWinners(k)
  PROVE  CurationInv'
<1>1. PICK b, c, items, lib, pc :
        /\ b = call[k] /\ c = call'[k] /\ items = Loaded("winners")
        /\ lib = [b.lib EXCEPT !["winners"] = items]
        /\ pc = IF Head(b.todo) = "ratings" THEN "negatives" ELSE "db"
  OBVIOUS
<1>2. b \in Process /\ items \in Seq(Entry) /\ "winners" \in Files
  BY <1>1, LoadedSound DEF LibrariesInv, ProcessesSound, Files
<1>3. call' = [call EXCEPT ![k] = [b EXCEPT !.lib = lib, !.pc = pc]]
  BY <1>1 DEF LoadWinners
<1>4. c = [b EXCEPT !.lib = lib, !.pc = pc] /\ call' = [call EXCEPT ![k] = c]
  BY <1>1, <1>3 DEF LibrariesInv, ProcessesSound
<1>5. c.lib["winners"] = items
  BY <1>1, <1>2, <1>4 DEF Process
<1>6. UNCHANGED <<file, demoted>> /\ wiped' = (wiped \/ ~ file["winners"].whole)
  BY DEF LoadWinners
<1>7. ASSUME ~ wiped' PROVE CallCurated(c)
  <2>1. ~ wiped /\ file["winners"].whole
    BY <1>6, <1>7
  <2>2. items = file["winners"].items
    BY <1>1, <2>1 DEF Loaded
  <2>3. Seeded(items) /\ Obeys(items)
    BY <2>1, <2>2 DEF CurationInv, FileCurated
  <2> QED BY <1>5, <2>3 DEF CallCurated
<1>8. wiped => wiped'
  BY <1>6
<1> QED BY <1>4, <1>6, <1>7, <1>8, CurationMoved

LEMMA CurLoadNegatives ==
  ASSUME LibrariesInv, CurationInv, NEW k \in Processes, LoadNegatives(k)
  PROVE  CurationInv'
<1>1. PICK b, c, lib :
        /\ b = call[k] /\ c = call'[k]
        /\ lib = [b.lib EXCEPT !["negatives"] = Loaded("negatives")]
  OBVIOUS
<1>2. b \in Process /\ b.pc = "negatives"
  BY <1>1 DEF LibrariesInv, ProcessesSound, LoadNegatives
<1>3. call' = [call EXCEPT ![k] = [b EXCEPT !.lib = lib, !.pc = "db"]]
  BY <1>1 DEF LoadNegatives
<1>4. c = [b EXCEPT !.lib = lib, !.pc = "db"] /\ call' = [call EXCEPT ![k] = c]
  BY <1>1, <1>3 DEF LibrariesInv, ProcessesSound
<1>5. c.lib["winners"] = b.lib["winners"] /\ c.old = b.old
  BY <1>1, <1>2, <1>4 DEF Process, Files
<1>6. UNCHANGED <<file, demoted, wiped>>
  BY DEF LoadNegatives
<1>7. ASSUME ~ wiped' PROVE CallCurated(c)
  <2>1. CallCurated(b)
    BY <1>1, <1>6, <1>7 DEF CurationInv
  <2>2. Seeded(b.lib["winners"]) /\ (~ b.old => Obeys(b.lib["winners"]))
    BY <1>2, <2>1 DEF CallCurated, Bears
  <2> QED BY <1>5, <2>2 DEF CallCurated
<1> QED BY <1>4, <1>6, <1>7, CurationMoved

\* A job hands over winners made of the ones it holds.
LEMMA PrepareCurated ==
  ASSUME LibrariesInv, CurationInv, NEW k \in Processes, call[k].pc = "db", NEW lib, NEW out,
         Prepare(k, lib, out),
         Seeded(call[k].lib["winners"]) => Seeded(lib["winners"]),
         Seeded(call[k].lib["winners"]) /\ Obeys(call[k].lib["winners"]) => Obeys(lib["winners"])
  PROVE  CurationInv'
<1>1. PICK b, c : b = call[k] /\ c = [call[k] EXCEPT !.lib = lib, !.out = out, !.pc = "open"]
  OBVIOUS
<1>2. b \in Process /\ b.pc = "db"
  BY <1>1 DEF LibrariesInv, ProcessesSound
<1>3. call' = [call EXCEPT ![k] = c] /\ UNCHANGED <<file, demoted, wiped>>
  BY <1>1 DEF Prepare
<1>4. c.lib = lib /\ c.old = b.old
  BY <1>1, <1>2 DEF Process
<1>5. ASSUME ~ wiped' PROVE CallCurated(c)
  <2>1. CallCurated(b)
    BY <1>1, <1>3, <1>5 DEF CurationInv
  <2>2. Seeded(b.lib["winners"]) /\ (~ b.old => Obeys(b.lib["winners"]))
    BY <1>2, <2>1 DEF CallCurated, Bears
  <2>3. Seeded(lib["winners"]) /\ (~ c.old => Obeys(lib["winners"]))
    BY <1>1, <1>4, <2>2
  <2> QED BY <1>4, <2>3 DEF CallCurated
<1> QED BY <1>3, <1>5, CurationMoved

LEMMA CurProcessRatings ==
  ASSUME LibrariesInv, CurationInv, NEW k \in Processes, ProcessRatings(k)
  PROVE  CurationInv'
<1>1. PICK win, new, x, y, lib :
        /\ win = call[k].lib["winners"] /\ new = Rated(win, "up", 0)
        /\ x = Extended(win, new)
        /\ y = Trimmed(NewestFirst(call[k].lib["negatives"]
                                   \o Rated(call[k].lib["negatives"], "feedback", runs)))
        /\ lib = [winners |-> x, negatives |-> y]
  OBVIOUS
<1>2. Sound("winners", win)
  BY <1>1, LibOf
<1>3. /\ Good("winners", new)
      /\ \A i \in DOMAIN new : new[i].source = "rating" /\ ~ Has(win, new[i].source, new[i].of)
  <2>1. 0 \in 0 .. MaxRuns /\ "winners" \in Files /\ RatingsSound
    BY LearningAssumption DEF Files, LibrariesInv, TablesSound
  <2>2. PICK f, rating, stamp : f = "winners" /\ rating = "up" /\ stamp = 0
    OBVIOUS
  <2>3. rating = IF f = "winners" THEN "up" ELSE "feedback"
    BY <2>2
  <2>4. new = Rated(win, rating, stamp) /\ f \in Files /\ stamp \in 0 .. MaxRuns
    BY <1>1, <2>1, <2>2
  <2>5. Good(f, new)
    BY <2>1, <2>3, <2>4, RatedFacts
  <2>6. \A i \in DOMAIN new : new[i].source = "rating" /\ ~ Has(win, new[i].source, new[i].of)
    BY <2>1, <2>3, <2>4, RatedFacts
  <2> QED BY <2>2, <2>5, <2>6
<1>4. Seeded(win) => Seeded(x) /\ (Obeys(win) => Obeys(x))
  BY <1>1, <1>2, <1>3, ExtendedCurated
<1>5. lib["winners"] = x
  BY <1>1
<1>6. call[k].pc = "db" /\ Prepare(k, lib, <<"winners", "negatives">>)
  BY <1>1 DEF ProcessRatings, At
<1> QED BY <1>1, <1>4, <1>5, <1>6, PrepareCurated

LEMMA CurPromoteWinners ==
  ASSUME LibrariesInv, CurationInv, NEW k \in Processes, PromoteWinners(k)
  PROVE  CurationInv'
<1>1. PICK win : win = call[k].lib["winners"]
  OBVIOUS
<1>2. PICK order \in SetToSeqs(Repliers(win)) :
        Prepare(k, [NoLib EXCEPT !["winners"] =
                      Extended(win, [i \in DOMAIN order |-> NewEntry("reply", order[i], 0)])],
                <<"winners">>)
  BY <1>1 DEF PromoteWinners
<1>3. PICK new, x : new = [i \in DOMAIN order |-> NewEntry("reply", order[i], 0)]
                    /\ x = Extended(win, new)
  OBVIOUS
<1>4. /\ Good("winners", new)
      /\ \A i \in DOMAIN new : new[i].source = "reply" /\ ~ Has(win, new[i].source, new[i].of)
  BY <1>3, PromotedFacts DEF LibrariesInv, TablesSound
<1>5. Sound("winners", win)
  BY <1>1, LibOf
<1>6. Seeded(win) => Seeded(x) /\ (Obeys(win) => Obeys(x))
  BY <1>3, <1>4, <1>5, ExtendedCurated
<1>7. PICK lib : lib = [NoLib EXCEPT !["winners"] = x]
  OBVIOUS
<1>8. lib["winners"] = x
  BY <1>7 DEF NoLib, Files
<1>9. call[k].pc = "db" /\ Prepare(k, lib, <<"winners">>)
  BY <1>2, <1>3, <1>7 DEF PromoteWinners, At
<1> QED BY <1>1, <1>6, <1>8, <1>9, PrepareCurated

LEMMA CurCleanupWinners ==
  ASSUME LibrariesInv, CurationInv, NEW k \in Processes, NEW failed \in BOOLEAN,
         CleanupWinners(k, failed)
  PROVE  CurationInv'
<1>1. PICK win, new : win = call[k].lib["winners"]
                      /\ new = [i \in DOMAIN win |-> Cleaned(win[i], failed)]
  OBVIOUS
<1>2. Sound("winners", win) /\ Alters(new, win)
  BY <1>1, LibOf, WinnersCleaned
<1>3. (Seeded(win) => Seeded(new)) /\ (Obeys(win) => Obeys(new))
  BY <1>1, <1>2, AltersSeeded, CleanedObeys
<1>4. PICK lib : lib = [NoLib EXCEPT !["winners"] = new]
  OBVIOUS
<1>5. lib["winners"] = new
  BY <1>4 DEF NoLib, Files
<1>6. call[k].pc = "db" /\ Prepare(k, lib, <<"winners">>)
  BY <1>1, <1>4 DEF CleanupWinners, At
<1> QED BY <1>1, <1>3, <1>5, <1>6, PrepareCurated

LEMMA CurOpen ==
  ASSUME LibrariesInv, CurationInv, NEW k \in Processes, Open(k)
  PROVE  CurationInv'
<1>1. PICK f, b, c : /\ f = Head(call[k].out) /\ b = call[k]
                     /\ c = [call[k] EXCEPT !.pc = "write", !.fate = "mine"]
  OBVIOUS
<1>2. /\ b.pc = "open" /\ call' = [call EXCEPT ![k] = c] /\ f \in Files
      /\ file' = [file EXCEPT ![f] = [whole |-> FALSE, items |-> <<>>]]
      /\ UNCHANGED <<demoted, wiped>> /\ b \in Process
  <2>1. ProcessSound(b) /\ b.pc = "open"
    BY <1>1 DEF LibrariesInv, ProcessesSound, Open
  <2> QED BY <1>1, <2>1, ProcessFields, OutsFacts DEF Open, ProcessSound
<1>3. c.pc = "write" /\ c.lib = b.lib /\ c.out = b.out /\ c.old = b.old
  BY <1>1, <1>2 DEF Process
<1>4. CASE wiped'
  BY <1>4 DEF CurationInv
<1>5. CASE ~ wiped'
  <2>1. FileCurated /\ \A j \in Processes : CallCurated(call[j])
    BY <1>2, <1>5 DEF CurationInv
  <2>2. FileCurated'
    <3>1. CASE f = "winners"
      <4>1. PICK new : new = [whole |-> FALSE, items |-> <<>>]
        OBVIOUS
      <4>2. file' = [file EXCEPT ![f] = new] /\ new.whole = FALSE
        BY <1>2, <4>1
      <4>3. file'["winners"] = new
        BY <1>2, <3>1, <4>2 DEF LibrariesInv, FilesSound
      <4> QED BY <4>2, <4>3 DEF FileCurated
    <3>2. CASE f # "winners"
      <4>1. file'["winners"] = file["winners"]
        BY <1>2, <3>2 DEF LibrariesInv, FilesSound, Files
      <4> QED BY <1>2, <2>1, <4>1, FileCuratedKept
    <3> QED BY <3>1, <3>2
  <2>3. ASSUME NEW j \in Processes PROVE CallCurated(call[j])'
    <3>1. PICK d : d = call'[j]
      OBVIOUS
    <3>2. d = IF j = k THEN c ELSE call[j]
      BY <1>2, <3>1 DEF LibrariesInv, ProcessesSound
    <3>3. CallCurated(b)
      BY <1>1, <2>1
    <3>4. CallCurated(c)
      BY <1>2, <1>3, <3>3 DEF CallCurated, Bears
    <3>5. CallCurated(d)
      BY <2>1, <3>2, <3>4
    <3>6. CallCurated(d)'
      BY <1>2, <3>5, CuratedLess
    <3> QED BY <3>1, <3>6
  <2> QED BY <2>2, <2>3 DEF CurationInv
<1> QED BY <1>4, <1>5

\* A call that goes on as it was.
LEMMA SameWorkCurated ==
  ASSUME NEW c, NEW d, CallCurated(c), SameWork(c, d), c.old => d.old
  PROVE  CallCurated(d)
BY DEF CallCurated, Bears, SameWork

LEMMA CurWrite ==
  ASSUME LibrariesInv, CurationInv, NEW k \in Processes, Write(k)
  PROVE  CurationInv'
<1>1. PICK b, moved : b = call[k] /\ moved = [call EXCEPT ![k] = Rest(b)]
  OBVIOUS
<1>2. PICK f, win : f = Head(b.out) /\ win = b.lib["winners"]
  OBVIOUS
<1>3. /\ b.pc = "write" /\ ProcessSound(b) /\ b.out \in Outs /\ f \in Files
      /\ call' = Fates(moved, k, f, "written") /\ moved \in [Processes -> Process]
      /\ UNCHANGED wiped
      /\ demoted' = IF f = "winners" /\ b.old /\ b.fate # "replaced"
                    THEN demoted \cap Marked(win, FALSE) ELSE demoted
  BY <1>1, <1>2, WriteParts
<1>4. CASE wiped'
  BY <1>4 DEF CurationInv
<1>5. CASE ~ wiped'
  <2>1. FileCurated /\ \A j \in Processes : CallCurated(call[j])
    BY <1>3, <1>5 DEF CurationInv
  <2>2. demoted' \subseteq demoted
    BY <1>3
  <2>3. FileCurated'
    <3>1. CASE UNCHANGED file
      BY <2>1, <2>2, <3>1, FileCuratedKept
    <3>2. CASE ~ UNCHANGED file
      <4>1. b.fate # "replaced"
        BY <1>1, <3>2, WriteParts
      <4>2. PICK whole \in BOOLEAN, items \in {b.lib[f], <<>>} :
              /\ whole => items = b.lib[f]
              /\ file' = [file EXCEPT ![f] = [whole |-> whole, items |-> items]]
        BY <1>1, <1>2, <3>2, WriteParts
      <4>3. PICK new : new = [whole |-> whole, items |-> items]
        OBVIOUS
      <4>4. file' = [file EXCEPT ![f] = new] /\ new.whole = whole /\ new.items = items
        BY <4>2, <4>3
      <4>5. CASE f # "winners"
        <5>1. file'["winners"] = file["winners"]
          BY <4>4, <4>5 DEF LibrariesInv, FilesSound, Files
        <5> QED BY <2>1, <2>2, <5>1, FileCuratedKept
      <4>6. CASE f = "winners"
        <5>1. file'["winners"] = new
          BY <1>3, <4>4, <4>6 DEF LibrariesInv, FilesSound
        <5>2. ASSUME whole PROVE Seeded(win) /\ Obeys(win)'
          <6>1. CallCurated(b) /\ Bears(b)
            BY <1>1, <1>2, <1>3, <2>1, <4>6 DEF Bears
          <6>2. Seeded(win) /\ (~ b.old => Obeys(win))
            BY <1>2, <1>3, <6>1 DEF CallCurated
          <6>3. CASE ~ b.old
            BY <2>2, <6>2, <6>3, ObeysLess
          <6>4. CASE b.old
            <7>1. demoted' \subseteq Marked(win, FALSE)
              BY <1>3, <4>1, <4>6, <6>4
            <7>2. Unique(win)
              BY <1>2, <1>3, <4>6, ProcessFields DEF Sound, Good
            <7>3. \A d \in demoted' :
                    /\ Has(win, d[1], d[2])
                    /\ \A i \in DOMAIN win :
                         win[i].source = d[1] /\ win[i].of = d[2] => ~ win[i].active
              BY <7>1, <7>2, MarkedObeyed
            <7> QED BY <6>2, <7>3 DEF Obeys, Has
          <6> QED BY <6>3, <6>4
        <5>3. whole => items = win
          BY <1>2, <4>2, <4>6
        <5> QED BY <4>4, <5>1, <5>2, <5>3 DEF FileCurated, Seeded, Has
      <4> QED BY <4>5, <4>6
    <3> QED BY <3>1, <3>2
  <2>4. ASSUME NEW j \in Processes PROVE CallCurated(call[j])'
    <3>1. PICK d : d = call'[j]
      OBVIOUS
    <3>2. SameWork(moved[j], d) /\ d.old = moved[j].old
      BY <1>3, <3>1, FatesFacts
    <3>3. CallCurated(moved[j])
      <4>1. CASE j = k
        <5>1. moved[k] = Rest(b)
          BY <1>1 DEF LibrariesInv, ProcessesSound
        <5>2. PICK r : r = Rest(b)
          OBVIOUS
        <5>3. r.pc \in {"idle", "begin"} \/ (r.pc = "open" /\ r.out = <<"negatives">>)
          BY <1>3, <5>2, RestFacts
        <5>4. Head(<<"negatives">>) # "winners"
          OBVIOUS
        <5>5. ~ Bears(r)
          BY <5>3, <5>4 DEF Bears
        <5> QED BY <4>1, <5>1, <5>2, <5>5 DEF CallCurated
      <4>2. CASE j # k
        <5>1. moved[j] = call[j]
          BY <1>1, <4>2 DEF LibrariesInv, ProcessesSound
        <5> QED BY <2>1, <5>1
      <4> QED BY <4>1, <4>2
    <3>4. CallCurated(d)
      BY <3>2, <3>3, SameWorkCurated
    <3>5. CallCurated(d)'
      BY <2>2, <3>4, CuratedLess
    <3> QED BY <3>1, <3>5
  <2> QED BY <2>3, <2>4 DEF CurationInv
<1> QED BY <1>4, <1>5

LEMMA CurReadEntry ==
  ASSUME LibrariesInv, CurationInv, NEW k \in Processes, NEW f \in Files,
         NEW i \in 1 .. MaxLibrary, NEW active \in BOOLEAN, ReadEntry(k, f, i, active)
  PROVE  CurationInv'
<1>1. PICK items, new, c :
        /\ items = Loaded(f) /\ new = [items EXCEPT ![i].active = active] /\ c = Reader(f, new)
  OBVIOUS
<1>2. /\ i \in DOMAIN items /\ call' = [call EXCEPT ![k] = c]
      /\ UNCHANGED <<file, demoted, wiped>>
  BY <1>1 DEF ReadEntry, Reader
<1>3. Sound(f, items)
  BY <1>1, LoadedSound DEF LibrariesInv
<1>4. Sound(f, new) /\ Alters(new, items)
  BY <1>1, <1>2, <1>3, TurnedSound
<1>5. c.pc = "replace" /\ Head(c.out) = f /\ c.lib[f] = new
  <2>1. Sound(f, new) /\ c = Reader(f, new)
    BY <1>1, <1>4
  <2>2. Turns(c, f, new)
    BY <2>1, ReaderMade
  <2> QED BY <2>2 DEF Turns
<1>6. ASSUME ~ wiped' PROVE CallCurated(c)
  <2>1. CASE f = "winners"
    <3>1. file["winners"].whole /\ items = file["winners"].items
      <4>1. CASE ~ file[f].whole
        <5>1. items = <<>>
          BY <1>1, <4>1 DEF Loaded
        <5> QED BY <1>2, <5>1
      <4> QED BY <1>1, <2>1, <4>1 DEF Loaded
    <3>2. Seeded(items)
      BY <1>2, <1>6, <3>1 DEF CurationInv, FileCurated
    <3>3. Seeded(new)
      BY <1>4, <3>2, AltersSeeded
    <3> QED BY <1>5, <2>1, <3>3 DEF CallCurated
  <2>2. CASE f # "winners"
    <3>1. ~ Bears(c)
      BY <1>5, <2>2 DEF Bears
    <3> QED BY <3>1 DEF CallCurated
  <2> QED BY <2>1, <2>2
<1> QED BY <1>2, <1>6, CurationMoved

LEMMA CurReplaceEntry ==
  ASSUME LibrariesInv, CurationInv, NEW k \in Processes, ReplaceEntry(k)
  PROVE  CurationInv'
<1>1. PICK b, f, win : b = call[k] /\ f = Head(b.out) /\ win = b.lib["winners"]
  OBVIOUS
<1>2. Replaces(k, b, f)
  BY <1>1, ReplaceParts
<1>3. CASE wiped'
  BY <1>3 DEF CurationInv
<1>4. ASSUME ~ wiped', f # "winners" PROVE CurationInv'
  <2>1. FileCurated /\ \A j \in Processes : CallCurated(call[j])
    BY <1>2, <1>4 DEF CurationInv, Replaces
  <2>2. demoted' = demoted /\ file'["winners"] = file["winners"]
    BY <1>2, <1>4 DEF Replaces, LibrariesInv, FilesSound, Files
  <2>3. FileCurated'
    BY <2>1, <2>2, FileCuratedKept
  <2>4. ASSUME NEW j \in Processes PROVE CallCurated(call[j])'
    <3>1. PICK d : d = call'[j]
      OBVIOUS
    <3>2. CallCurated(d)
      <4>1. CASE j = k
        BY <1>2, <3>1, <4>1 DEF Replaces, CallCurated, Bears
      <4>2. CASE j # k
        <5>1. SameWork(call[j], d) /\ (call[j].old => d.old)
          BY <1>2, <3>1, <4>2 DEF Replaces
        <5> QED BY <2>1, <5>1, SameWorkCurated
      <4> QED BY <4>1, <4>2
    <3>3. CallCurated(d)'
      BY <2>2, <3>2, CuratedLess
    <3> QED BY <3>1, <3>3
  <2> QED BY <2>3, <2>4 DEF CurationInv
<1>5. ASSUME ~ wiped', f = "winners" PROVE CurationInv'
  <2>1. \A j \in Processes : CallCurated(call[j])
    BY <1>2, <1>5 DEF CurationInv, Replaces
  <2>2. FileCurated'
    <3>1. PICK new : new = [whole |-> TRUE, items |-> win]
      OBVIOUS
    <3>2. file' = [file EXCEPT !["winners"] = new] /\ new.items = win
      BY <1>1, <1>2, <1>5, <3>1 DEF Replaces
    <3>3. file'["winners"] = new
      BY <3>2 DEF LibrariesInv, FilesSound, Files
    <3>4. CallCurated(b) /\ Bears(b)
      BY <1>1, <1>2, <1>5, <2>1 DEF Replaces, Bears
    <3>5. Seeded(win)
      BY <1>1, <3>4 DEF CallCurated
    <3>6. Obeys(win)'
      <4>1. demoted' = Marked(win, FALSE)
        BY <1>1, <1>2, <1>5 DEF Replaces
      <4>2. Unique(win)
        <5>1. ProcessSound(b) /\ "winners" \in Files
          BY <1>2 DEF Replaces, Files
        <5> QED BY <1>1, <5>1, ProcessFields DEF Sound, Good
      <4>3. \A d \in demoted' :
              /\ Has(win, d[1], d[2])
              /\ \A i \in DOMAIN win :
                   win[i].source = d[1] /\ win[i].of = d[2] => ~ win[i].active
        BY <4>1, <4>2, MarkedObeyed
      <4> QED BY <4>3 DEF Obeys, Has
    <3> QED BY <3>2, <3>3, <3>5, <3>6 DEF FileCurated, Seeded, Has
  <2>3. ASSUME NEW j \in Processes PROVE CallCurated(call[j])'
    <3>1. PICK d, items : d = call'[j] /\ items = call'[j].lib["winners"]
      OBVIOUS
    <3>2. CASE j = k
      <4>1. ~ Bears(d)
        BY <1>2, <3>1, <3>2 DEF Replaces, Bears
      <4>2. ~ Bears(d)'
        BY <4>1 DEF Bears
      <4>3. CallCurated(d)'
        BY <4>2 DEF CallCurated
      <4> QED BY <3>1, <4>3
    <3>3. CASE j # k
      <4>1. SameWork(call[j], d) /\ d.old = (call[j].old \/ Holding(call[j]))
        BY <1>2, <1>5, <3>1, <3>3 DEF Replaces
      <4>2. ASSUME Bears(d) PROVE d.old /\ Seeded(items)
        <5>1. Bears(call[j]) /\ Holding(call[j])
          BY <4>1, <4>2 DEF SameWork, Bears, Holding
        <5>2. Seeded(call[j].lib["winners"])
          BY <2>1, <5>1 DEF CallCurated
        <5> QED BY <3>1, <4>1, <5>1, <5>2 DEF SameWork
      <4>3. CallCurated(d)'
        BY <3>1, <4>2 DEF CallCurated, Bears, Seeded, Has
      <4> QED BY <3>1, <4>3
    <3> QED BY <3>2, <3>3
  <2> QED BY <2>2, <2>3 DEF CurationInv
<1> QED BY <1>3, <1>4, <1>5

LEMMA CurInit == LibraryInit => CurationInv
<1> SUFFICES ASSUME LibraryInit PROVE CurationInv
  OBVIOUS
<1>1. FileCurated
  <2>1. \A s \in Seeds : Has(file["winners"].items, "seed", s)
    BY FirstWinners
  <2>2. demoted = {}
    BY DEF LibraryInit
  <2> QED BY <2>1, <2>2 DEF FileCurated, Seeded, Obeys
<1>2. \A k \in Processes : CallCurated(call[k])
  BY AtRestCurated DEF LibraryInit
<1> QED BY <1>1, <1>2 DEF CurationInv

LEMMA CurationStep ==
  LibrariesInv /\ CurationInv /\ [LibraryNext]_libraryVars => CurationInv'
<1> SUFFICES ASSUME LibrariesInv, CurationInv, [LibraryNext]_libraryVars PROVE CurationInv'
  OBVIOUS
<1>1. CASE UNCHANGED libraryVars
  BY <1>1, CurationKeptStill DEF libraryVars
<1>2. ASSUME NEW k \in Processes, Script(k) PROVE CurationInv'
  <2>1. ASSUME NEW c \in Delivered, SyncLead(k, c) PROVE CurationInv'
    BY <2>1, CurationKeptStill DEF SyncLead
  <2>2. CASE (\E s \in Jobs : StartScript(k, s)) \/ SyncEnd(k)
    BY <2>2, CurEmptyHanded
  <2> QED BY <1>2, <2>1, <2>2, CurLoadWinners, CurLoadNegatives, CurProcessRatings,
             CurPromoteWinners, CurCleanupWinners, CurOpen, CurWrite DEF Script
<1>3. ASSUME NEW k \in Processes, Page(k) PROVE CurationInv'
  BY <1>3, CurReadEntry, CurReplaceEntry DEF Page
<1>4. ASSUME NEW k \in Processes, Startup(k) PROVE CurationInv'
  BY <1>4, CurEmptyHanded DEF Startup
<1>5. ASSUME NEW k \in Processes, ProcessDies(k) PROVE CurationInv'
  BY <1>5, CurEmptyHanded
<1>6. ASSUME NEW given \in Given, RecordRating(given[1], given[2]) PROVE CurationInv'
  BY <1>6, CurationKeptStill DEF RecordRating
<1> QED BY <1>1, <1>2, <1>3, <1>4, <1>5, <1>6 DEF LibraryNext

LEMMA SticksFromFile ==
  ASSUME LibrariesInv, CurationInv PROVE DemotionSticks
<1> SUFFICES ASSUME shelf = <<>>, ~ wiped, NEW i \in DOMAIN Examples
             PROVE  \/ Examples[i].source = "reply" /\ Examples[i].of \in OldReplies
                    \/ <<Examples[i].source, Examples[i].of>> \notin demoted
  BY DEF DemotionSticks
<1>1. PICK library, at, some, ranked, out, e :
        /\ library = Loaded("winners") /\ at = {n \in DOMAIN library : Quotable(library[n])}
        /\ some = Picked(library, at) /\ ranked = Ranked(some)
        /\ out = Examples /\ e = Examples[i]
  OBVIOUS
<1>2. library \in Seq(Entry)
  BY <1>1, LoadedSound DEF LibrariesInv, Files
<1>3. some \in Seq(Entry) /\ \E pos : Places(pos, some, library, at \cap DOMAIN library)
  BY <1>1, <1>2, PickedFacts
<1>4. ranked \in Seq(Entry) /\ Within(ranked, some)
  BY <1>1, <1>3, RankedFacts
<1>5. out = First(Quota, ranked)
  BY <1>1 DEF Examples
<1>6. Quota \in Nat
  BY LearningAssumption
<1>7. out \in Seq(Entry) /\ Within(out, ranked)
  BY <1>4, <1>5, <1>6, FirstFacts
<1>8. Within(out, some)
  BY <1>3, <1>4, <1>7, WithinTrans
<1>9. PICK n \in at : e = library[n]
  <2>1. PICK p : Places(p, out, some, DOMAIN some)
    BY <1>8 DEF Within
  <2>2. PICK q : Places(q, some, library, at \cap DOMAIN library)
    BY <1>3
  <2>3. DOMAIN out = 1 .. Len(out) /\ DOMAIN some = 1 .. Len(some) /\ i \in DOMAIN out
    BY <1>1, <1>3, <1>7, LenProperties
  <2>4. p[i] \in 1 .. Len(some) /\ out[i] = some[p[i]]
    BY <2>1, <2>3 DEF Places
  <2>5. q[p[i]] \in at /\ some[p[i]] = library[q[p[i]]]
    BY <2>2, <2>4 DEF Places
  <2> QED BY <1>1, <2>4, <2>5
<1>10. n \in DOMAIN library /\ library[n].active
  BY <1>1, <1>9 DEF Quotable
<1>11. file["winners"].whole /\ library = file["winners"].items
  <2>1. CASE ~ file["winners"].whole
    <3>1. library = <<>>
      BY <1>1, <2>1 DEF Loaded
    <3> QED BY <1>10, <3>1
  <2> QED BY <1>1, <2>1 DEF Loaded
<1>12. Obeys(library)
  BY <1>11 DEF CurationInv, FileCurated
<1>13. ASSUME <<e.source, e.of>> \in demoted PROVE e.source = "reply" /\ e.of \in OldReplies
  <2>1. PICK d \in demoted : d[1] = e.source /\ d[2] = e.of
    BY <1>13
  <2> QED BY <1>9, <1>10, <1>12, <2>1 DEF Obeys
<1> QED BY <1>1, <1>13

\* The operator's seeds stay in a library that no script has taken for empty, and a
\* winner turned off on the page is not quoted again from it.
THEOREM CurationKeptCorrect == LibrarySpec => []CurationKept
<1>1. LibrariesInv /\ CurationInv => CurationKept
  BY SticksFromFile DEF CurationKept, SeedsSurvive, CurationInv, FileCurated, Seeded
<1>2. LibrarySpec => []CurationInv
  BY CurInit, CurationStep, LibrariesInvariant, PTL DEF LibrarySpec
<1> QED BY <1>1, <1>2, LibrariesInvariant, PTL

=============================================================================
