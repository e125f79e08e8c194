--------------------------- MODULE Content_proofs ---------------------------
(* Proofs about Content: its types, the version chains, what a bulk run     *)
(* reports, what is sent, and that readers see what CurrentCopy promises.   *)
EXTENDS Content, TLAPS, WellFoundedInduction, FiniteSetTheorems

-----------------------------------------------------------------------------
(* The newest of a set of rows                                              *)

\* A bounded non-empty set of naturals has a greatest element.
LEMMA Greatest ==
  ASSUME NEW N \in Nat, NEW S \in SUBSET (0 .. N), S # {}
  PROVE  \E m \in S : \A s \in S : s <= m
<1> DEFINE T == {n \in 0 .. N : N - n \in S}
           R == OpToRel(<, Nat)
<1>1. PICK s \in S : TRUE
  OBVIOUS
<1>2. N - s \in T
  OBVIOUS
<1>3. T \subseteq Nat /\ T # {}
  BY <1>2
<1>4. IsWellFoundedOn(R, Nat)
  BY NatLessThanWellFounded
<1>5. \E x \in T : \A y \in T : ~ (<<y, x>> \in R)
  <2> HIDE DEF T, R
  <2> QED BY <1>3, <1>4, WFMin
<1>6. PICK x \in T : \A y \in T : ~ (<<y, x>> \in R)
  BY <1>5
<1>7. \A y \in T : x <= y
  <2>1. \A y \in T : ~ (y < x)
    BY <1>6, <1>3 DEF OpToRel
  <2> QED BY <2>1
<1>8. ASSUME NEW t \in S PROVE t <= N - x
  <2>1. t \in Nat /\ x \in Nat /\ N - t \in T
    OBVIOUS
  <2>2. x <= N - t
    BY <2>1, <1>7
  <2> HIDE DEF T
  <2> QED BY <2>1, <2>2
<1>9. N - x \in S
  OBVIOUS
<1> QED BY <1>8, <1>9

\* Newest is the greatest id, or 0 without one.
LEMMA NewestIs ==
  ASSUME NEW N \in Nat, NEW ids \in SUBSET (1 .. N)
  PROVE  /\ (Newest(ids) = 0) <=> (ids = {})
         /\ Newest(ids) \in 0 .. N
         /\ ids # {} => Newest(ids) \in ids
         /\ \A r \in ids : r <= Newest(ids)
<1>1. CASE ids = {}
  BY <1>1 DEF Newest
<1>2. CASE ids # {}
  <2>0. ids \in SUBSET (0 .. N)
    OBVIOUS
  <2>1. \E m \in ids : \A r \in ids : r <= m
    BY <1>2, <2>0, Greatest
  <2>2. Newest(ids) = CHOOSE m \in ids : \A r \in ids : r <= m
    BY <1>2 DEF Newest
  <2>3. Newest(ids) \in ids /\ \A r \in ids : r <= Newest(ids)
    BY <2>1, <2>2
  <2>4. Newest(ids) \in 1 .. N
    BY <2>3
  <2> QED BY <1>2, <2>3, <2>4
<1> QED BY <1>1, <1>2

-----------------------------------------------------------------------------
(* Types *)

\* A job works on a lead in every phase, and a written row belongs to one.
OnLead ==
  /\ \A w \in Workers : job[w].pc \notin {"idle", "next"} => job[w].lead \in Leads
  /\ \A r \in 1 .. nrows : rows[r].lead \in Leads

Typed == TypeOK /\ OnLead

LEMMA NoJobTyped == NoJob \in Job /\ NoJob.pc = "idle"
BY ContentAssumption DEF NoJob, NoGen, Job, Pcs, Gens

\* The states a job goes on to are jobs.
LEMMA NextStatesTyped ==
  ASSUME Typed, NEW w \in Workers
  PROVE  /\ job[w] \in Job
         /\ ToNext(w) \in Job /\ ToNext(w).pc = "next"
         /\ GiveUp(w) \in Job /\ GiveUp(w).pc \in {"idle", "next"}
         /\ job[w].lead \in Leads =>
              /\ Done(w) \in Job /\ Done(w).pc = "next"
              /\ ToDeliver(w) \in Job /\ ToDeliver(w).lead \in Leads
              /\ \A ok \in BOOLEAN :
                   Settle(w, ok) \in Job /\ Settle(w, ok).pc \in {"idle", "next"}
<1>1. job[w] \in Job
  BY DEF Typed, TypeOK
<1>2. NoLocals(w) \in Job /\ NoLocals(w).lead = job[w].lead
  <2>1. NoGen \in [Kinds -> Gens]
    BY DEF NoGen, Gens
  <2>2. 0 \in 0 .. MaxRows
    BY ContentAssumption
  <2> QED BY <1>1, <2>1, <2>2 DEF NoLocals, Job
<1>3. ToNext(w) \in Job /\ ToNext(w).pc = "next"
  BY <1>2 DEF ToNext, Job, Pcs
<1>4. GiveUp(w) \in Job /\ GiveUp(w).pc \in {"idle", "next"}
  BY <1>3, NoJobTyped DEF GiveUp
<1>5. ASSUME job[w].lead \in Leads
      PROVE  /\ Done(w) \in Job /\ Done(w).pc = "next"
             /\ ToDeliver(w) \in Job /\ ToDeliver(w).lead \in Leads
  <2>1. Done(w) \in Job /\ Done(w).pc = "next"
    BY <1>3, <1>5 DEF Done, Job
  <2>2. ToDeliver(w) \in Job /\ ToDeliver(w).lead \in Leads
    BY <1>2, <1>5 DEF ToDeliver, Job, Pcs
  <2> QED BY <2>1, <2>2
<1>6. ASSUME job[w].lead \in Leads, NEW ok \in BOOLEAN
      PROVE  Settle(w, ok) \in Job /\ Settle(w, ok).pc \in {"idle", "next"}
  <2>1. Settle(w, ok) \in {NoJob, Done(w), ToNext(w)}
    BY DEF Settle
  <2> QED BY <1>3, <1>5, <1>6, <2>1, NoJobTyped
<1> QED BY <1>1, <1>3, <1>4, <1>5, <1>6

\* One worker's new state keeps the other jobs as they are.
LEMMA SetTyped ==
  ASSUME Typed, NEW w \in Workers, NEW new \in Job, Set(w, new),
         new.pc \notin {"idle", "next"} => new.lead \in Leads
  PROVE  /\ job' \in [Workers -> Job]
         /\ job'[w] = new
         /\ \A v \in Workers : v # w => job'[v] = job[v]
         /\ \A v \in Workers : job'[v].pc \notin {"idle", "next"} => job'[v].lead \in Leads
BY DEF Typed, TypeOK, OnLead, Set

\* The newest active row of a key, and the next one beside a source.
LEMMA HeadIs ==
  ASSUME Typed, NEW l, NEW k
  PROVE  /\ (Head(l, k) = 0) <=> (ActiveRows(l, k) = {})
         /\ Head(l, k) \in 0 .. nrows /\ Head(l, k) \in 0 .. MaxRows
         /\ Head(l, k) # 0 => Head(l, k) \in ActiveRows(l, k)
         /\ \A r \in ActiveRows(l, k) : r <= Head(l, k)
<1>1. PICK N \in Nat : N = nrows /\ N <= MaxRows
  BY ContentAssumption DEF Typed, TypeOK
<1>2. PICK ids \in SUBSET (1 .. N) : ids = ActiveRows(l, k)
  BY <1>1 DEF ActiveRows
<1>3. Newest(ids) = Head(l, k)
  BY <1>2 DEF Head
<1>4. /\ (Newest(ids) = 0) <=> (ids = {})
      /\ Newest(ids) \in 0 .. N
      /\ ids # {} => Newest(ids) \in ids
      /\ \A r \in ids : r <= Newest(ids)
  BY NewestIs
<1>5. Newest(ids) \in 0 .. MaxRows
  BY <1>1, <1>4, ContentAssumption
<1> QED BY <1>1, <1>2, <1>3, <1>4, <1>5

LEMMA ReplacementIs ==
  ASSUME Typed, NEW l, NEW k, NEW r
  PROVE  /\ (Replacement(l, k, r) = 0) <=> (ActiveRows(l, k) \ {r} = {})
         /\ Replacement(l, k, r) \in 0 .. nrows /\ Replacement(l, k, r) \in 0 .. MaxRows
         /\ Replacement(l, k, r) # 0 => Replacement(l, k, r) \in ActiveRows(l, k) \ {r}
         /\ \A s \in ActiveRows(l, k) \ {r} : s <= Replacement(l, k, r)
<1>1. PICK N \in Nat : N = nrows /\ N <= MaxRows
  BY ContentAssumption DEF Typed, TypeOK
<1>2. PICK ids \in SUBSET (1 .. N) : ids = ActiveRows(l, k) \ {r}
  BY <1>1 DEF ActiveRows
<1>3. Newest(ids) = Replacement(l, k, r)
  BY <1>2 DEF Replacement
<1>4. /\ (Newest(ids) = 0) <=> (ids = {})
      /\ Newest(ids) \in 0 .. N
      /\ ids # {} => Newest(ids) \in ids
      /\ \A s \in ids : s <= Newest(ids)
  BY NewestIs
<1>5. Newest(ids) \in 0 .. MaxRows
  BY <1>1, <1>4, ContentAssumption
<1> QED BY <1>1, <1>2, <1>3, <1>4, <1>5

\* An inserted row is a row of the job's lead.
LEMMA InsertTyped ==
  ASSUME Typed, NEW row \in Row, row.lead \in Leads, Insert(row)
  PROVE  /\ rows' \in [RowIds -> Row] /\ nrows' \in 0 .. MaxRows
         /\ nrows + 1 \in RowIds /\ rows'[nrows + 1] = row
         /\ \A r \in 1 .. nrows : r \in RowIds /\ rows'[r] = rows[r]
         /\ \A r \in 1 .. nrows' : rows'[r].lead \in Leads
<1>1. /\ rows \in [RowIds -> Row] /\ nrows \in Nat /\ MaxRows \in Nat /\ nrows < MaxRows
      /\ nrows' = nrows + 1 /\ rows' = [rows EXCEPT ![nrows + 1] = row]
  BY ContentAssumption DEF Typed, TypeOK, Insert
<1>2. nrows + 1 \in RowIds /\ nrows' \in 0 .. MaxRows
  BY <1>1 DEF RowIds
<1>3. rows' \in [RowIds -> Row] /\ rows'[nrows + 1] = row
  BY <1>1, <1>2
<1>4. \A r \in 1 .. nrows : r \in RowIds /\ rows'[r] = rows[r]
  BY <1>1 DEF RowIds
<1>5. ASSUME NEW r \in 1 .. nrows' PROVE rows'[r].lead \in Leads
  <2>1. r \in 1 .. nrows \/ r = nrows + 1
    BY <1>1
  <2> QED BY <1>3, <1>4, <2>1 DEF Typed, OnLead
<1> QED BY <1>2, <1>3, <1>4, <1>5

\* Rows that keep their lead and get a typed pointer and flags stay rows.
LEMMA RowsTyped ==
  ASSUME Typed, nrows' = nrows, rows' \in [RowIds -> Row],
         \A r \in RowIds : rows'[r].lead = rows[r].lead
  PROVE  \A r \in 1 .. nrows' : rows'[r].lead \in Leads
<1>1. nrows \in 0 .. MaxRows /\ MaxRows \in Nat
  BY ContentAssumption DEF Typed, TypeOK
<1>2. \A r \in 1 .. nrows : r \in RowIds
  BY <1>1 DEF RowIds
<1> QED BY <1>2 DEF Typed, OnLead

LEMMA SupersedeTyped ==
  ASSUME Typed, NEW r \in RowIds, NEW new \in 0 .. MaxRows, Supersede(r, new)
  PROVE  /\ rows' \in [RowIds -> Row]
         /\ rows'[r] = [rows[r] EXCEPT !.sup = new]
         /\ \A s \in RowIds : s # r => rows'[s] = rows[s]
         /\ \A s \in RowIds : rows'[s].lead = rows[s].lead
<1>1. rows \in [RowIds -> Row] /\ rows[r] \in Row
  BY DEF Typed, TypeOK
<1>2. [rows[r] EXCEPT !.sup = new] \in Row
  BY <1>1 DEF Row
<1>3. rows' = [rows EXCEPT ![r] = [rows[r] EXCEPT !.sup = new]]
  BY <1>1 DEF Supersede
<1>4. [rows[r] EXCEPT !.sup = new].lead = rows[r].lead
  BY <1>1 DEF Row
<1> QED BY <1>1, <1>2, <1>3, <1>4

\* A job is in a phase of its lead while it generates.
LEMMA GeneratingLead ==
  ASSUME Typed, NEW w \in Workers, job[w].pc \notin {"idle", "next"}
  PROVE  job[w].lead \in Leads
BY DEF Typed, OnLead

LEMMA GenTyped ==
  ASSUME Typed, NEW w \in Workers, NEW k \in Kinds, Generating(w),
         NEW outcome \in Gens
  PROVE  Gen(w, k, outcome) \in Job /\ Gen(w, k, outcome).lead \in Leads
<1>1. job[w] \in Job /\ job[w].lead \in Leads
  BY GeneratingLead DEF Typed, TypeOK, Generating
<1>2. [job[w].gen EXCEPT ![k] = outcome] \in [Kinds -> Gens]
  BY <1>1 DEF Job
<1>3. Gen(w, k, outcome) = [job[w] EXCEPT !.gen = [job[w].gen EXCEPT ![k] = outcome]]
  BY <1>1 DEF Gen, Job
<1> QED BY <1>1, <1>2, <1>3 DEF Job

LEMMA NewRowTyped ==
  ASSUME Typed, NEW l \in Leads, NEW k \in Kinds, NEW text \in Texts \cup {NoText},
         NEW marker \in BOOLEAN
  PROVE  NewRow(l, k, prompt, text, marker) \in Row /\ NewRow(l, k, prompt, text, marker).lead = l
BY ContentAssumption DEF NewRow, Row, Ratings, Typed, TypeOK

-----------------------------------------------------------------------------
(* Every action keeps the types *)

LEMMA GenerateTyped ==
  ASSUME Typed, NEW w \in Workers, Generate(w)
  PROVE  Typed'
<1>1. PICK k \in Kinds : Ask(w, k) \/ WriteRow(w, k) \/ GenerateFailed(w, k)
  BY DEF Generate
<1>2. /\ Generating(w) /\ job[w] \in Job /\ job[w].lead \in Leads
  BY <1>1, GeneratingLead DEF Ask, WriteRow, GenerateFailed, Generating, Typed, TypeOK
<1>3. job[w].text \in Texts \cup {NoText} /\ prompt \in Texts \cup {NoText}
  BY <1>2 DEF Job, Typed, TypeOK
<1>4. CASE Ask(w, k) /\ GateClosed(w, k)
  <2>1. Gen(w, k, "none") \in Job /\ Gen(w, k, "none").lead \in Leads
    BY <1>2, GenTyped DEF Gens
  <2> QED BY <1>4, <2>1, SetTyped DEF GateClosed, DB, Typed, TypeOK, OnLead
<1>5. CASE Ask(w, k) /\ WriteMarker(w, k)
  <2>1. Gen(w, k, "made") \in Job /\ Gen(w, k, "made").lead \in Leads
    BY <1>2, GenTyped DEF Gens
  <2>2. job' \in [Workers -> Job] /\ \A v \in Workers : job'[v].pc \notin {"idle", "next"} => job'[v].lead \in Leads
    BY <1>5, <2>1, SetTyped DEF WriteMarker
  <2>3. PICK row \in Row : row = NewRow(job[w].lead, k, prompt, prompt, TRUE) /\ row.lead \in Leads
    <3>1. PICK l \in Leads, text \in Texts \cup {NoText} : l = job[w].lead /\ text = prompt
      BY <1>2, <1>3
    <3>2. /\ NewRow(l, k, prompt, text, TRUE) \in Row
          /\ NewRow(l, k, prompt, text, TRUE).lead = l
      BY NewRowTyped
    <3> QED BY <3>1, <3>2
  <2>4. Insert(row)
    BY <1>5, <2>3 DEF WriteMarker
  <2>5. rows' \in [RowIds -> Row] /\ nrows' \in 0 .. MaxRows /\ \A r \in 1 .. nrows' : rows'[r].lead \in Leads
    BY <2>3, <2>4, InsertTyped
  <2> QED BY <1>5, <2>2, <2>5 DEF WriteMarker, Typed, TypeOK, OnLead
<1>6. CASE Ask(w, k) /\ AskModel(w, k)
  <2>1. Gen(w, k, "asked") \in Job /\ Gen(w, k, "asked").lead \in Leads
    BY <1>2, GenTyped DEF Gens
  <2> DEFINE new == [Gen(w, k, "asked") EXCEPT !.text = IF k = "email" THEN prompt ELSE @]
  <2>2. new \in Job /\ new.lead \in Leads
    BY <2>1, <1>3 DEF Job
  <2>3. Set(w, new)
    BY <1>6 DEF AskModel
  <2> HIDE DEF new
  <2> QED BY <1>6, <2>2, <2>3, SetTyped DEF AskModel, DB, Typed, TypeOK, OnLead
<1>7. CASE WriteRow(w, k)
  <2>1. Gen(w, k, "made") \in Job /\ Gen(w, k, "made").lead \in Leads
    BY <1>2, GenTyped DEF Gens
  <2>2. job' \in [Workers -> Job] /\ \A v \in Workers : job'[v].pc \notin {"idle", "next"} => job'[v].lead \in Leads
    BY <1>7, <2>1, SetTyped DEF WriteRow
  <2>3. PICK row \in Row : row = NewRow(job[w].lead, k, prompt, job[w].text, FALSE) /\ row.lead \in Leads
    <3>1. PICK l \in Leads, text \in Texts \cup {NoText} : l = job[w].lead /\ text = job[w].text
      BY <1>2, <1>3
    <3>2. /\ NewRow(l, k, prompt, text, FALSE) \in Row
          /\ NewRow(l, k, prompt, text, FALSE).lead = l
      BY NewRowTyped
    <3> QED BY <3>1, <3>2
  <2>4. Insert(row)
    BY <1>7, <2>3 DEF WriteRow
  <2>5. rows' \in [RowIds -> Row] /\ nrows' \in 0 .. MaxRows /\ \A r \in 1 .. nrows' : rows'[r].lead \in Leads
    BY <2>3, <2>4, InsertTyped
  <2> QED BY <1>7, <2>2, <2>5 DEF WriteRow, Typed, TypeOK, OnLead
<1>8. CASE GenerateFailed(w, k)
  <2>1. Gen(w, k, "failed") \in Job /\ Gen(w, k, "failed").lead \in Leads
    BY <1>2, GenTyped DEF Gens
  <2> QED BY <1>8, <2>1, SetTyped DEF GenerateFailed, DB, Typed, TypeOK, OnLead
<1> QED BY <1>1, <1>4, <1>5, <1>6, <1>7, <1>8 DEF Ask

\* The pointers of a forced phased run are typed, and only they change.
LEMMA PreviousIs ==
  ASSUME Typed, NEW l, NEW k
  PROVE  \/ Previous(l, k) = <<0, 0>>
         \/ /\ Previous(l, k)[1] \in ActiveRows(l, k)
            /\ Previous(l, k)[2] = Head(l, k)
            /\ Head(l, k) \in ActiveRows(l, k)
            /\ Previous(l, k)[1] < Head(l, k)
            /\ \A r \in ActiveRows(l, k) \ {Head(l, k)} : r <= Previous(l, k)[1]
<1> DEFINE new == Head(l, k)
           old == Replacement(l, k, new)
<1>1. Previous(l, k) = IF old = 0 THEN <<0, 0>> ELSE <<old, new>>
  BY DEF Previous
<1>2. /\ (new = 0) <=> (ActiveRows(l, k) = {})
      /\ new \in 0 .. nrows
      /\ new # 0 => new \in ActiveRows(l, k)
      /\ \A r \in ActiveRows(l, k) : r <= new
  BY HeadIs
<1>3. PICK n \in 0 .. nrows : n = new
  BY <1>2
<1>4. /\ Replacement(l, k, n) # 0 => Replacement(l, k, n) \in ActiveRows(l, k) \ {n}
      /\ Replacement(l, k, n) \in 0 .. nrows
      /\ \A s \in ActiveRows(l, k) \ {n} : s <= Replacement(l, k, n)
  BY ReplacementIs
<1>5. old # 0 => old \in ActiveRows(l, k) \ {new} /\ \A s \in ActiveRows(l, k) \ {new} : s <= old
  BY <1>3, <1>4
<1>6. nrows \in Nat
  BY ContentAssumption DEF Typed, TypeOK
<1>7. CASE old = 0
  BY <1>1, <1>7
<1>8. CASE old # 0
  <2>1. old \in ActiveRows(l, k) /\ old # new /\ old <= new /\ new \in ActiveRows(l, k)
    BY <1>2, <1>5, <1>8
  <2>2. old < new
    BY <2>1, <1>2, <1>6 DEF ActiveRows
  <2> HIDE DEF old, new
  <2>3. Previous(l, k)[1] = old /\ Previous(l, k)[2] = new
    BY <1>1, <1>8
  <2> QED BY <2>1, <2>2, <2>3, <1>5, <1>8 DEF new
<1> QED BY <1>7, <1>8

LEMMA SupersedingTyped ==
  ASSUME Typed, NEW w \in Workers, Superseding(w)
  PROVE  Typed'
<1>1. /\ Generating(w) /\ job[w] \in Job /\ job[w].lead \in Leads
      /\ job[w].source \in 0 .. MaxRows /\ MaxRows \in Nat
      /\ rows \in [RowIds -> Row] /\ nrows \in 0 .. MaxRows
  <2>1. Generating(w)
    BY DEF Superseding, SupersedeSource, SupersedeHead, SupersedePrevious, AfterGather, Finished
  <2>2. job[w] \in Job
    BY DEF Typed, TypeOK
  <2> QED BY <2>1, <2>2, GeneratingLead, ContentAssumption DEF Generating, Typed, TypeOK, Job
<1>2. /\ \A ok \in BOOLEAN : Settle(w, ok) \in Job /\ Settle(w, ok).pc \in {"idle", "next"}
      /\ ToDeliver(w) \in Job /\ ToDeliver(w).lead \in Leads
      /\ ToNext(w) \in Job /\ ToNext(w).pc = "next"
  BY <1>1, NextStatesTyped
<1>3. CASE SupersedeSource(w)
  <2> DEFINE src == job[w].source
             new == Replacement(job[w].lead, Kind(w), src)
  <2>1. \E ok \in BOOLEAN : Set(w, Settle(w, ok))
    BY <1>3 DEF SupersedeSource
  <2>2. job' \in [Workers -> Job] /\ \A v \in Workers : job'[v].pc \notin {"idle", "next"} => job'[v].lead \in Leads
    BY <1>2, <2>1, SetTyped
  <2>3. new \in 0 .. MaxRows
    BY ReplacementIs
  <2>4. rows' \in [RowIds -> Row] /\ \A r \in RowIds : rows'[r].lead = rows[r].lead
    <3>1. CASE UNCHANGED rows
      BY <1>1, <3>1
    <3>2. CASE src # 0 /\ Supersede(src, new)
      <4>1. PICK r \in RowIds, n \in 0 .. MaxRows : r = src /\ n = new
        BY <1>1, <2>3, <3>2 DEF RowIds
      <4>2. Supersede(r, n)
        BY <3>2, <4>1
      <4> QED BY <4>2, SupersedeTyped
    <3>3. UNCHANGED rows \/ (src # 0 /\ Supersede(src, new))
      BY <1>3 DEF SupersedeSource
    <3> QED BY <3>1, <3>2, <3>3
  <2>5. \A r \in 1 .. nrows' : rows'[r].lead \in Leads
    BY <1>3, <2>4, RowsTyped DEF SupersedeSource
  <2> QED BY <1>3, <2>2, <2>4, <2>5 DEF SupersedeSource, Typed, TypeOK, OnLead
<1>4. CASE SupersedeHead(w)
  <2> DEFINE src == job[w].source
             new == Head(job[w].lead, "email")
  <2>1. Set(w, NoJob)
    BY <1>4 DEF SupersedeHead
  <2>2. job' \in [Workers -> Job] /\ \A v \in Workers : job'[v].pc \notin {"idle", "next"} => job'[v].lead \in Leads
    BY NoJobTyped, <2>1, SetTyped
  <2>3. new \in 0 .. MaxRows
    BY HeadIs
  <2>4. rows' \in [RowIds -> Row] /\ \A r \in RowIds : rows'[r].lead = rows[r].lead
    <3>1. CASE UNCHANGED rows
      BY <1>1, <3>1
    <3>2. CASE src # 0 /\ Supersede(src, new)
      <4>1. PICK r \in RowIds, n \in 0 .. MaxRows : r = src /\ n = new
        BY <1>1, <2>3, <3>2 DEF RowIds
      <4>2. Supersede(r, n)
        BY <3>2, <4>1
      <4> QED BY <4>2, SupersedeTyped
    <3>3. UNCHANGED rows \/ (src # 0 /\ Supersede(src, new))
      BY <1>4 DEF SupersedeHead
    <3> QED BY <3>1, <3>2, <3>3
  <2>5. \A r \in 1 .. nrows' : rows'[r].lead \in Leads
    BY <1>4, <2>4, RowsTyped DEF SupersedeHead
  <2> QED BY <1>4, <2>2, <2>4, <2>5 DEF SupersedeHead, Typed, TypeOK, OnLead
<1>5. CASE SupersedePrevious(w)
  <2>2. job' \in [Workers -> Job] /\ \A v \in Workers : job'[v].pc \notin {"idle", "next"} => job'[v].lead \in Leads
    BY <1>2, <1>5, SetTyped DEF SupersedePrevious
  <2> DEFINE l == job[w].lead
             p(r) == Previous(l, rows[r].kind)[2]
  <2>3. \A r \in RowIds : p(r) \in 0 .. MaxRows
    <3> TAKE r \in RowIds
    <3>1. Previous(l, rows[r].kind) = <<0, 0>> \/ Previous(l, rows[r].kind)[2] = Head(l, rows[r].kind)
      BY PreviousIs
    <3>2. Head(l, rows[r].kind) \in 0 .. MaxRows
      BY HeadIs
    <3> QED BY <1>1, <3>1, <3>2
  <2>4. \A r \in RowIds : [rows[r] EXCEPT !.sup = p(r)] \in Row /\ [rows[r] EXCEPT !.sup = p(r)].lead = rows[r].lead
    <3> HIDE DEF p
    <3> QED BY <1>1, <2>3 DEF Row
  <2>5. \A r \in RowIds : rows'[r] \in {rows[r], [rows[r] EXCEPT !.sup = p(r)]}
    BY <1>5 DEF SupersedePrevious
  <2>6. rows' = [r \in RowIds |-> rows'[r]]
    BY <1>5 DEF SupersedePrevious
  <2> HIDE DEF p
  <2>7. rows' \in [RowIds -> Row] /\ \A r \in RowIds : rows'[r].lead = rows[r].lead
    BY <1>1, <2>4, <2>5, <2>6
  <2>8. \A r \in 1 .. nrows' : rows'[r].lead \in Leads
    BY <1>5, <2>7, RowsTyped DEF SupersedePrevious
  <2> QED BY <1>5, <2>2, <2>7, <2>8 DEF SupersedePrevious, Typed, TypeOK, OnLead
<1>6. CASE AfterGather(w)
  <2>1. Set(w, ToNext(w)) \/ Set(w, ToDeliver(w))
    BY <1>6 DEF AfterGather
  <2>2. job' \in [Workers -> Job] /\ \A v \in Workers : job'[v].pc \notin {"idle", "next"} => job'[v].lead \in Leads
    BY <1>2, <2>1, SetTyped
  <2> QED BY <1>6, <2>2 DEF AfterGather, DB, Typed, TypeOK, OnLead
<1> QED BY <1>3, <1>4, <1>5, <1>6 DEF Superseding

\* Sending marks a row, and nothing else of it.
LEMMA DeliverTyped ==
  ASSUME Typed, NEW l, DeliverTo(l), nrows' = nrows
  PROVE  /\ rows' \in [RowIds -> Row]
         /\ \A r \in RowIds : \E sent \in BOOLEAN : rows'[r] = [rows[r] EXCEPT !.sent = sent]
         /\ \A r \in 1 .. nrows' : rows'[r].lead \in Leads
<1>1. rows \in [RowIds -> Row]
  BY DEF Typed, TypeOK
<1>2. \A r \in RowIds : rows[r] = [rows[r] EXCEPT !.sent = rows[r].sent] /\ rows[r].sent \in BOOLEAN
  BY <1>1 DEF Row
<1>3. \A r \in RowIds : [rows[r] EXCEPT !.sent = TRUE] \in Row
  BY <1>1 DEF Row
<1>4. \/ rows' = rows
      \/ rows' = [rows EXCEPT ![LatestEmail(l)] = [rows[LatestEmail(l)] EXCEPT !.sent = TRUE]]
  BY DEF DeliverTo
<1>5. rows' \in [RowIds -> Row] /\ \A r \in RowIds : \E sent \in BOOLEAN : rows'[r] = [rows[r] EXCEPT !.sent = sent]
  <2> DEFINE n == LatestEmail(l)
  <2> HIDE DEF n
  <2>1. CASE rows' = rows
    BY <1>1, <1>2, <2>1
  <2>2. CASE rows' = [rows EXCEPT ![n] = [rows[n] EXCEPT !.sent = TRUE]]
    BY <1>1, <1>2, <1>3, <2>2
  <2> QED BY <1>4, <2>1, <2>2 DEF n
<1>6. \A r \in RowIds : rows'[r].lead = rows[r].lead
  BY <1>1, <1>5 DEF Row
<1> QED BY <1>5, <1>6, RowsTyped

LEMMA PhaseTyped ==
  ASSUME Typed, NEW w \in Workers, Phase(w)
  PROVE  Typed'
<1>1. /\ job[w] \in Job /\ job[w].lead \in Leads
      /\ ToNext(w) \in Job /\ ToNext(w).pc = "next"
      /\ GiveUp(w) \in Job /\ GiveUp(w).pc \in {"idle", "next"}
      /\ ToDeliver(w) \in Job /\ ToDeliver(w).lead \in Leads
  <2>1. job[w].pc \notin {"idle", "next"}
    BY DEF Phase, PhaseEnrich, PhaseScore, PhaseContent, CliContent, RefreshContent, PhaseDeliver
  <2> QED BY <2>1, GeneratingLead, NextStatesTyped
<1>2. \A pc \in Pcs : [job[w] EXCEPT !.pc = pc] \in Job /\ [job[w] EXCEPT !.pc = pc].lead \in Leads
  BY <1>1 DEF Job
<1>3. \A kinds : Due(kinds) \in [Kinds -> Gens]
  BY DEF Due, Gens
<1>4. \A kinds : /\ [job[w] EXCEPT !.pc = "generate", !.gen = Due(kinds)] \in Job
                 /\ [job[w] EXCEPT !.pc = "generate", !.gen = Due(kinds)].lead \in Leads
  BY <1>1, <1>3 DEF Job, Pcs
<1> DEFINE JobTyped == /\ job' \in [Workers -> Job]
                       /\ \A v \in Workers : job'[v].pc \notin {"idle", "next"} => job'[v].lead \in Leads
<1>5. CASE PhaseEnrich(w)
  <2>1. JobTyped
    <3>1. Set(w, [job[w] EXCEPT !.pc = "score"]) \/ Set(w, GiveUp(w))
      BY <1>5 DEF PhaseEnrich
    <3>2. "score" \in Pcs
      BY DEF Pcs
    <3> QED BY <1>1, <1>2, <3>1, <3>2, SetTyped
  <2>2. research' \subseteq Leads
    BY <1>1, <1>5 DEF PhaseEnrich, Typed, TypeOK
  <2> QED BY <1>5, <2>1, <2>2 DEF PhaseEnrich, Typed, TypeOK, OnLead
<1>6. CASE PhaseScore(w)
  <2>1. JobTyped
    <3>1. Set(w, [job[w] EXCEPT !.pc = "content"]) \/ Set(w, GiveUp(w))
      BY <1>6 DEF PhaseScore
    <3>2. "content" \in Pcs
      BY DEF Pcs
    <3> QED BY <1>1, <1>2, <3>1, <3>2, SetTyped
  <2>2. tier' \in [Leads -> Tiers \cup {"none"}]
    BY <1>1, <1>6 DEF PhaseScore, Typed, TypeOK
  <2> QED BY <1>6, <2>1, <2>2 DEF PhaseScore, Typed, TypeOK, OnLead
<1>7. CASE PhaseContent(w)
  <2>1. JobTyped
    <3>1. \/ Set(w, GiveUp(w)) \/ Set(w, ToDeliver(w))
          \/ \E kinds : Set(w, [job[w] EXCEPT !.pc = "generate", !.gen = Due(kinds)])
      BY <1>7 DEF PhaseContent
    <3> QED BY <1>1, <1>4, <3>1, SetTyped
  <2>2. lapsed' \subseteq Keys
    BY <1>1, <1>7 DEF PhaseContent, Lapses, KindsToRun, Keys, Typed, TypeOK
  <2> QED BY <1>7, <2>1, <2>2 DEF PhaseContent, DB, Typed, TypeOK, OnLead
<1>8. CASE CliContent(w)
  <2>1. JobTyped
    <3>1. \/ Set(w, GiveUp(w))
          \/ \E kinds : Set(w, [job[w] EXCEPT !.pc = "generate", !.gen = Due(kinds)])
      BY <1>8 DEF CliContent
    <3> QED BY <1>1, <1>4, <3>1, SetTyped
  <2>2. lapsed' \subseteq Keys
    BY <1>1, <1>8, ContentAssumption DEF CliContent, Lapses, Keys, Typed, TypeOK
  <2> QED BY <1>8, <2>1, <2>2 DEF CliContent, DB, Typed, TypeOK, OnLead
<1>9. CASE RefreshContent(w)
  <2>1. JobTyped
    <3>1. Head(job[w].lead, "email") \in 0 .. MaxRows
      BY HeadIs
    <3>2. "refresh" \in AllOps \cup {"none"}
      BY <1>1, <1>9 DEF RefreshContent, Job
    <3>3. Only("email") \in [Kinds -> Gens]
      BY DEF Only, NoGen, Gens
    <3>4. /\ NewJob("refresh", job[w].lead, "email", Head(job[w].lead, "email")) \in Job
          /\ NewJob("refresh", job[w].lead, "email", Head(job[w].lead, "email")).lead \in Leads
      BY <1>1, <3>1, <3>2, <3>3, NoJobTyped DEF NewJob, Job, Pcs
    <3> QED BY <1>9, <3>4, SetTyped DEF RefreshContent
  <2>2. lapsed' \subseteq Keys
    BY <1>1, <1>9, ContentAssumption DEF RefreshContent, Lapses, Keys, Typed, TypeOK
  <2> QED BY <1>9, <2>1, <2>2 DEF RefreshContent, DB, Typed, TypeOK, OnLead
<1>10. CASE PhaseDeliver(w)
  <2>1. JobTyped
    BY <1>1, <1>10, SetTyped DEF PhaseDeliver
  <2>2. DeliverTo(job[w].lead) /\ nrows' = nrows
    BY <1>10 DEF PhaseDeliver, DeliverTo
  <2>3. rows' \in [RowIds -> Row] /\ \A r \in 1 .. nrows' : rows'[r].lead \in Leads
    BY <2>2, DeliverTyped
  <2> QED BY <1>10, <2>1, <2>3 DEF PhaseDeliver, Typed, TypeOK, OnLead
<1> QED BY <1>5, <1>6, <1>7, <1>8, <1>9, <1>10 DEF Phase

LEMMA LoopTyped ==
  ASSUME Typed, NEW w \in Workers, Loop(w)
  PROVE  Typed'
<1>1. /\ job[w] \in Job /\ job[w].todo \in SUBSET Leads /\ job[w].done \in SUBSET Leads
      /\ job[w].pc = "next"
  <2>1. job[w] \in Job
    BY DEF Typed, TypeOK
  <2> QED BY <2>1 DEF Loop, BulkSkip, BulkGenerate, NextLead, PushNext, EndList, Job
<1> DEFINE JobTyped == /\ job' \in [Workers -> Job]
                       /\ \A v \in Workers : job'[v].pc \notin {"idle", "next"} => job'[v].lead \in Leads
<1>2. CASE BulkSkip(w)
  <2>1. PICK l \in job[w].todo : Set(w, [job[w] EXCEPT !.todo = @ \ {l}, !.done = @ \cup {l}])
    BY <1>2 DEF BulkSkip
  <2> DEFINE new == [job[w] EXCEPT !.todo = job[w].todo \ {l}, !.done = job[w].done \cup {l}]
  <2>2. new \in Job /\ new.pc = "next"
    BY <1>1 DEF Job
  <2>3. Set(w, new)
    BY <2>1
  <2>4. JobTyped
    <3> HIDE DEF new
    <3> QED BY <2>2, <2>3, SetTyped
  <2> QED BY <1>2, <2>4 DEF BulkSkip, DB, Typed, TypeOK, OnLead
<1>3. CASE BulkGenerate(w)
  <2>1. PICK l \in job[w].todo :
          /\ Set(w, [job[w] EXCEPT !.pc = "generate", !.todo = @ \ {l}, !.lead = l,
                       !.gen = Only("email"), !.source = Head(l, "email")])
          /\ Lapses(w, l, {"email"}, FALSE)
    BY <1>3 DEF BulkGenerate
  <2> DEFINE new == [job[w] EXCEPT !.pc = "generate", !.todo = job[w].todo \ {l}, !.lead = l,
                       !.gen = Only("email"), !.source = Head(l, "email")]
  <2>2. new \in Job /\ new.lead \in Leads
    <3>1. Head(l, "email") \in 0 .. MaxRows
      BY HeadIs
    <3>2. Only("email") \in [Kinds -> Gens]
      BY DEF Only, NoGen, Gens
    <3> QED BY <1>1, <3>1, <3>2 DEF Job, Pcs
  <2>3. Set(w, new)
    BY <2>1
  <2>4. JobTyped
    <3> HIDE DEF new
    <3> QED BY <2>2, <2>3, SetTyped
  <2>5. lapsed' \subseteq Keys
    BY <1>1, <2>1, ContentAssumption DEF Lapses, Keys, Typed, TypeOK
  <2> QED BY <1>3, <2>4, <2>5 DEF BulkGenerate, DB, Typed, TypeOK, OnLead
<1>4. CASE NextLead(w)
  <2>1. PICK l \in job[w].todo : Set(w, [job[w] EXCEPT !.pc = "enrich", !.lead = l, !.todo = @ \ {l}])
    BY <1>4 DEF NextLead
  <2> DEFINE new == [job[w] EXCEPT !.pc = "enrich", !.lead = l, !.todo = job[w].todo \ {l}]
  <2>2. new \in Job /\ new.lead \in Leads
    BY <1>1 DEF Job, Pcs
  <2>3. Set(w, new)
    BY <2>1
  <2>4. JobTyped
    <3> HIDE DEF new
    <3> QED BY <2>2, <2>3, SetTyped
  <2> QED BY <1>4, <2>4 DEF NextLead, DB, Typed, TypeOK, OnLead
<1>5. CASE PushNext(w)
  <2>1. PICK l \in job[w].todo : DeliverTo(l) /\ Set(w, [job[w] EXCEPT !.todo = @ \ {l}])
    BY <1>5 DEF PushNext
  <2> DEFINE new == [job[w] EXCEPT !.todo = job[w].todo \ {l}]
  <2>2. new \in Job /\ new.pc = "next"
    BY <1>1 DEF Job
  <2>3. Set(w, new)
    BY <2>1
  <2>4. JobTyped
    <3> HIDE DEF new
    <3> QED BY <2>2, <2>3, SetTyped
  <2>5. rows' \in [RowIds -> Row] /\ \A r \in 1 .. nrows' : rows'[r].lead \in Leads
    BY <1>5, <2>1, DeliverTyped DEF PushNext
  <2> QED BY <1>5, <2>4, <2>5 DEF PushNext, Typed, TypeOK, OnLead
<1>6. CASE EndList(w)
  <2>1. JobTyped
    BY <1>6, NoJobTyped, SetTyped DEF EndList
  <2> QED BY <1>6, <2>1 DEF EndList, DB, Typed, TypeOK, OnLead
<1> QED BY <1>2, <1>3, <1>4, <1>5, <1>6 DEF Loop

\* A worker is started only with its own jobs.
LEMMA StartedWith ==
  ASSUME NEW w \in Workers, NEW op \in Ops[w]
  PROVE  op \in AllOps
BY DEF AllOps

\* A new job on one kind of content is a job.
LEMMA NewJobTyped ==
  ASSUME Typed, NEW op \in AllOps, NEW l \in Leads, NEW k \in Kinds, NEW source \in 0 .. MaxRows
  PROVE  /\ NewJob(op, l, k, source) \in Job
         /\ NewJob(op, l, k, source).lead \in Leads
<1>1. Only(k) \in [Kinds -> Gens]
  BY DEF Only, NoGen, Gens
<1> QED BY <1>1, NoJobTyped DEF NewJob, Job, Pcs

LEMMA StartListTyped ==
  ASSUME Typed, NEW w \in Workers, NEW op \in Ops[w], NEW ls \in SUBSET Leads,
         NEW force \in BOOLEAN, StartList(w, op, ls, force)
  PROVE  Typed'
<1> DEFINE print == IF op = "bulk" THEN prompt ELSE NoText
           since == IF op = "bulk" THEN edits ELSE 0
           new == [NoJob EXCEPT !.pc = "next", !.op = op, !.todo = ls, !.force = force,
                                !.print = print, !.edits = since]
<1>1. Set(w, new)
  BY DEF StartList
<1>2. print \in Texts \cup {NoText} /\ since \in 0 .. MaxEdits
  BY ContentAssumption DEF Typed, TypeOK
<1>3. new \in Job /\ new.pc = "next"
  <2> HIDE DEF print, since
  <2> QED BY <1>2, NoJobTyped, StartedWith DEF Job, Pcs
<1> HIDE DEF new
<1>4. /\ job' \in [Workers -> Job]
      /\ \A v \in Workers : job'[v].pc \notin {"idle", "next"} => job'[v].lead \in Leads
  BY <1>1, <1>3, SetTyped
<1> QED BY <1>4 DEF StartList, DB, Typed, TypeOK, OnLead

LEMMA StartTyped ==
  ASSUME Typed, NEW w \in Workers, StartJob(w)
  PROVE  Typed'
<1> DEFINE JobTyped == /\ job' \in [Workers -> Job]
                       /\ \A v \in Workers : job'[v].pc \notin {"idle", "next"} => job'[v].lead \in Leads
<1>1. ASSUME NEW op \in Ops[w], NEW r \in 1 .. nrows, Regenerate(w, op, r)
      PROVE  Typed'
  <2>1. r \in 0 .. MaxRows /\ r \in RowIds
    BY ContentAssumption DEF Typed, TypeOK, RowIds
  <2>2. rows[r].lead \in Leads /\ rows[r].kind \in Kinds
    <3>1. rows[r] \in Row
      BY <2>1 DEF Typed, TypeOK
    <3> QED BY <3>1 DEF Typed, OnLead, Row
  <2>3. PICK l \in Leads, k \in Kinds : l = rows[r].lead /\ k = rows[r].kind
    BY <2>2
  <2>4. NewJob(op, l, k, r) \in Job /\ NewJob(op, l, k, r).lead \in Leads
    BY <2>1, StartedWith, NewJobTyped
  <2>5. Set(w, NewJob(op, l, k, r)) /\ Lapses(w, l, {k}, FALSE)
    BY <1>1, <2>3 DEF Regenerate
  <2>6. JobTyped
    BY <2>4, <2>5, SetTyped
  <2>7. lapsed' \subseteq Keys
    BY <2>5 DEF Lapses, Keys, Typed, TypeOK
  <2> QED BY <1>1, <2>6, <2>7 DEF Regenerate, DB, Typed, TypeOK, OnLead
<1>2. ASSUME NEW l \in Leads, RedoEmail(w, l)
      PROVE  Typed'
  <2>1. PICK n \in 0 .. MaxRows : n = Head(l, "email")
    BY HeadIs
  <2>2. "redo" \in AllOps
    BY <1>2, StartedWith DEF RedoEmail, Start
  <2>3. NewJob("redo", l, "email", n) \in Job /\ NewJob("redo", l, "email", n).lead \in Leads
    BY <2>2, NewJobTyped, ContentAssumption
  <2>4. JobTyped
    BY <1>2, <2>1, <2>3, SetTyped DEF RedoEmail
  <2>5. lapsed' \subseteq Keys
    BY <1>2, ContentAssumption DEF RedoEmail, Lapses, Keys, Typed, TypeOK
  <2> QED BY <1>2, <2>4, <2>5 DEF RedoEmail, DB, Typed, TypeOK, OnLead
<1>3. ASSUME NEW l \in Leads, StartRefresh(w, l)
      PROVE  Typed'
  <2> DEFINE new == [NoJob EXCEPT !.pc = "enrich", !.op = "refresh", !.lead = l]
  <2>1. "refresh" \in AllOps
    BY <1>3, StartedWith DEF StartRefresh, Start
  <2>2. new \in Job /\ new.lead \in Leads
    BY <2>1, NoJobTyped DEF Job, Pcs
  <2>3. Set(w, new)
    BY <1>3 DEF StartRefresh
  <2> HIDE DEF new
  <2>4. JobTyped
    BY <2>2, <2>3, SetTyped
  <2> QED BY <1>3, <2>4 DEF StartRefresh, DB, Typed, TypeOK, OnLead
<1>4. ASSUME NEW ls \in SUBSET Leads, StartPush(w, ls)
      PROVE  Typed'
  <2>1. PICK to \in SUBSET Leads : to = {l \in ls : Eligible(l)}
    OBVIOUS
  <2>2. StartList(w, "push", to, FALSE)
    BY <1>4, <2>1 DEF StartPush
  <2>3. "push" \in Ops[w]
    BY <2>2 DEF StartList, Start
  <2> QED BY <2>2, <2>3, StartListTyped
<1>5. ASSUME NEW ls \in SUBSET Leads, NEW force \in BOOLEAN, StartBulk(w, ls, force)
      PROVE  Typed'
  <2>1. "bulk" \in Ops[w]
    BY <1>5 DEF StartBulk, StartList, Start
  <2> QED BY <1>5, <2>1, StartListTyped DEF StartBulk
<1>6. ASSUME NEW ls \in SUBSET Leads, NEW force \in BOOLEAN, NEW op \in Ops[w],
             StartPipeline(w, op, ls, force)
      PROVE  Typed'
  BY <1>6, StartListTyped DEF StartPipeline
<1> QED BY <1>1, <1>2, <1>3, <1>4, <1>5, <1>6 DEF StartJob

\* A job that ends under way, and what people do.
LEMMA OthersTyped ==
  ASSUME Typed,
         \/ \E w \in Workers : SupersedeFailed(w) \/ Crash(w)
         \/ \E r \in 1 .. nrows, rating \in Given : RecordRating(r, rating)
         \/ \E text \in Texts \ {prompt} : EditPrompt(text)
         \/ \E k \in Kinds : ToggleKind(k)
  PROVE  Typed'
<1>0. MaxFaults \in Nat /\ MaxEdits \in Nat /\ faults \in 0 .. MaxFaults /\ edits \in 0 .. MaxEdits
  BY ContentAssumption DEF Typed, TypeOK
<1>1. ASSUME NEW w \in Workers, SupersedeFailed(w) PROVE Typed'
  <2>1. job[w].lead \in Leads
    BY <1>1, GeneratingLead DEF SupersedeFailed, Generating
  <2>2. Set(w, ToDeliver(w)) \/ Set(w, NoJob)
    BY <1>1 DEF SupersedeFailed
  <2>3. /\ job' \in [Workers -> Job]
        /\ \A v \in Workers : job'[v].pc \notin {"idle", "next"} => job'[v].lead \in Leads
    BY <2>1, <2>2, NoJobTyped, NextStatesTyped, SetTyped
  <2>4. faults' \in 0 .. MaxFaults
    BY <1>0, <1>1 DEF SupersedeFailed, Fault
  <2>5. lapsed' \subseteq Keys
    BY <1>1, <2>1 DEF SupersedeFailed, Ran, Keys, Typed, TypeOK
  <2> QED BY <1>1, <2>3, <2>4, <2>5 DEF SupersedeFailed, Typed, TypeOK, OnLead
<1>2. ASSUME NEW w \in Workers, Crash(w) PROVE Typed'
  <2>1. /\ job' \in [Workers -> Job]
        /\ \A v \in Workers : job'[v].pc \notin {"idle", "next"} => job'[v].lead \in Leads
    BY <1>2, NoJobTyped, SetTyped DEF Crash
  <2>2. faults' \in 0 .. MaxFaults
    BY <1>0, <1>2 DEF Crash, Fault
  <2>3. lapsed' \subseteq Keys
    <3>1. Generating(w) => job[w].lead \in Leads
      BY GeneratingLead DEF Generating
    <3> QED BY <1>2, <3>1 DEF Crash, Ran, Keys, Typed, TypeOK
  <2> QED BY <1>2, <2>1, <2>2, <2>3 DEF Crash, Typed, TypeOK, OnLead
<1>3. ASSUME NEW r \in 1 .. nrows, NEW rating \in Given, RecordRating(r, rating) PROVE Typed'
  <2>1. r \in RowIds /\ rows \in [RowIds -> Row] /\ rows[r] \in Row
    BY ContentAssumption DEF Typed, TypeOK, RowIds
  <2> DEFINE new == [rows[r] EXCEPT !.rating = rating]
  <2>2. new \in Row /\ new.lead = rows[r].lead
    BY <2>1, ContentAssumption DEF Row, Ratings
  <2>3. rows' = [rows EXCEPT ![r] = new]
    BY <1>3 DEF RecordRating
  <2> HIDE DEF new
  <2>4. rows' \in [RowIds -> Row] /\ \A s \in RowIds : rows'[s].lead = rows[s].lead
    BY <2>1, <2>2, <2>3
  <2>5. \A s \in 1 .. nrows' : rows'[s].lead \in Leads
    BY <1>3, <2>4, RowsTyped DEF RecordRating
  <2> QED BY <1>3, <2>4, <2>5 DEF RecordRating, Typed, TypeOK, OnLead
<1>4. ASSUME NEW text \in Texts, EditPrompt(text) PROVE Typed'
  BY <1>0, <1>4 DEF EditPrompt, Typed, TypeOK, OnLead
<1>5. ASSUME NEW k \in Kinds, ToggleKind(k) PROVE Typed'
  BY <1>0, <1>5 DEF ToggleKind, Typed, TypeOK, OnLead
<1> QED BY <1>1, <1>2, <1>3, <1>4, <1>5

LEMMA TypedInit == ASSUME Init PROVE Typed
<1>1. NoJob \in Job /\ NoJob.pc = "idle"
  BY NoJobTyped
<1>2. job = [w \in Workers |-> NoJob] /\ rows \in [RowIds -> Row]
  BY ContentAssumption DEF Init, Row, Ratings
<1>3. 0 \in 0 .. MaxRows /\ 0 \in 0 .. MaxFaults /\ 0 \in 0 .. MaxEdits
  BY ContentAssumption
<1>4. 1 .. 0 = {}
  OBVIOUS
<1> HIDE DEF NoJob
<1> QED BY <1>1, <1>2, <1>3, <1>4 DEF Init, Typed, TypeOK, OnLead

LEMMA TypedStep ==
  ASSUME Typed, [Next]_vars
  PROVE  Typed'
<1>1. CASE UNCHANGED vars
  BY <1>1 DEF vars, Typed, TypeOK, OnLead
<1>2. ASSUME NEW w \in Workers, StartJob(w) \/ JobStep(w) PROVE Typed'
  BY <1>2, StartTyped, GenerateTyped, SupersedingTyped, PhaseTyped, LoopTyped DEF JobStep
<1> QED BY <1>1, <1>2, OthersTyped DEF Next

\* The variables keep their types: a job that generates, delivers or reports
\* works on a lead, and a row of generated_contents belongs to one.
THEOREM TypeCorrect == Spec => []TypeOK
<1>1. Init => Typed
  BY TypedInit
<1>2. Typed /\ [Next]_vars => Typed'
  BY TypedStep
<1>3. Typed => TypeOK
  BY DEF Typed
<1> QED BY <1>1, <1>2, <1>3, PTL DEF Spec

-----------------------------------------------------------------------------
(* What a step does to the rows: it adds one, or it moves pointers *)

\* A row of the key, written under the prompt in force, is added.
Inserts(l, k) ==
  /\ nrows' = nrows + 1
  /\ \A r \in 1 .. nrows : rows'[r] = rows[r]
  /\ rows'[nrows + 1].lead = l
  /\ rows'[nrows + 1].kind = k
  /\ rows'[nrows + 1].sup = 0
  /\ rows'[nrows + 1].print = prompt

\* Pointers of the lead's rows of these kinds are set, each on an active row
\* that stays active; only for the kind back, once it was off, on an older one.
Points(l, kinds, back) ==
  /\ nrows' = nrows
  /\ \A r \in 1 .. nrows :
       /\ rows'[r].lead = rows[r].lead
       /\ rows'[r].kind = rows[r].kind
       /\ rows'[r].print = rows[r].print
       /\ \/ rows'[r].sup = rows[r].sup
          \/ /\ rows[r].lead = l /\ rows[r].kind \in kinds
             /\ rows'[r].sup \in ActiveRows(l, rows[r].kind)
             /\ rows'[rows'[r].sup].sup = 0
             /\ rows'[r].sup > r \/ (rows[r].kind = back /\ back \in off)

\* No row changes what the version chains are made of.
RowsKept ==
  /\ nrows' = nrows
  /\ \A r \in 1 .. nrows :
       /\ rows'[r].lead = rows[r].lead
       /\ rows'[r].kind = rows[r].kind
       /\ rows'[r].print = rows[r].print
       /\ rows'[r].sup = rows[r].sup

LEMMA KeptPoints == ASSUME RowsKept PROVE \A l, kinds, back : Points(l, kinds, back)
BY DEF RowsKept, Points

LEMMA RowTyped ==
  ASSUME Typed, NEW r \in 1 .. nrows
  PROVE  r \in RowIds /\ r \in Nat /\ rows[r] \in Row /\ rows[r].kind \in Kinds /\ rows[r].sup \in Nat
<1>1. r \in RowIds /\ rows[r] \in Row /\ r \in Nat
  BY ContentAssumption DEF Typed, TypeOK, RowIds
<1> QED BY <1>1, ContentAssumption DEF Row

\* The active and the written rows of every key after an insert.
LEMMA InsertedRows ==
  ASSUME Typed, NEW l, NEW k, Inserts(l, k), NEW l2, NEW k2
  PROVE  /\ Written(l2, k2)' = IF l2 = l /\ k2 = k THEN Written(l, k) \cup {nrows + 1}
                               ELSE Written(l2, k2)
         /\ ActiveRows(l2, k2)' = IF l2 = l /\ k2 = k THEN ActiveRows(l, k) \cup {nrows + 1}
                               ELSE ActiveRows(l2, k2)
<1>1. nrows \in Nat
  BY ContentAssumption DEF Typed, TypeOK
<1>2. \A r : (r \in 1 .. nrows') <=> (r \in 1 .. nrows \/ r = nrows + 1)
  BY <1>1 DEF Inserts
<1>3. \A r \in 1 .. nrows : r # nrows + 1
  BY <1>1
<1> QED BY <1>2, <1>3 DEF Inserts, Written, ActiveRows

\* The active and the written rows of every key after pointers have moved.
LEMMA PointedRows ==
  ASSUME Typed, NEW l, NEW kinds, NEW back, Points(l, kinds, back), NEW l2, NEW k2
  PROVE  /\ Written(l2, k2)' = Written(l2, k2)
         /\ ActiveRows(l2, k2)' \subseteq ActiveRows(l2, k2)
         /\ \A r \in ActiveRows(l2, k2) \ ActiveRows(l2, k2)' :
              /\ l2 = l /\ k2 \in kinds
              /\ \E n \in ActiveRows(l2, k2)' : n > r \/ (k2 = back /\ back \in off)
<1>1. nrows \in Nat /\ nrows' = nrows
  BY ContentAssumption DEF Typed, TypeOK, Points
<1>2. Written(l2, k2)' = Written(l2, k2)
  BY <1>1 DEF Points, Written
<1>3. ASSUME NEW r \in 1 .. nrows, rows'[r].sup = 0 PROVE rows[r].sup = 0
  <2>1. ASSUME NEW n \in ActiveRows(l, rows[r].kind) PROVE n # 0
    BY <1>1 DEF ActiveRows
  <2> QED BY <1>3, <2>1 DEF Points
<1>4. ActiveRows(l2, k2)' \subseteq ActiveRows(l2, k2)
  BY <1>1, <1>3 DEF Points, ActiveRows
<1>5. ASSUME NEW r \in ActiveRows(l2, k2), r \notin ActiveRows(l2, k2)'
      PROVE  /\ l2 = l /\ k2 \in kinds
             /\ \E n \in ActiveRows(l2, k2)' : n > r \/ (k2 = back /\ back \in off)
  <2>1. r \in 1 .. nrows /\ rows[r].lead = l2 /\ rows[r].kind = k2 /\ rows[r].sup = 0
    BY DEF ActiveRows
  <2>2. rows'[r].sup # rows[r].sup
    BY <1>1, <1>5, <2>1 DEF Points, ActiveRows
  <2>3. /\ l2 = l /\ k2 \in kinds /\ rows'[r].sup \in ActiveRows(l, k2)
        /\ rows'[rows'[r].sup].sup = 0
        /\ rows'[r].sup > r \/ (k2 = back /\ back \in off)
    BY <2>1, <2>2 DEF Points
  <2>4. PICK n \in ActiveRows(l, k2) : n = rows'[r].sup
    BY <2>3
  <2>5. n \in ActiveRows(l2, k2)'
    BY <1>1, <2>3, <2>4 DEF Points, ActiveRows
  <2> QED BY <2>3, <2>4, <2>5
<1> QED BY <1>2, <1>4, <1>5

\* The greatest element of the new active rows is the new head.
LEMMA HeadNext ==
  ASSUME Typed', NEW l, NEW k
  PROVE  /\ (Head(l, k)' = 0) <=> (ActiveRows(l, k)' = {})
         /\ Head(l, k)' \in Nat
         /\ Head(l, k)' # 0 => Head(l, k)' \in ActiveRows(l, k)'
         /\ \A r \in ActiveRows(l, k)' : r <= Head(l, k)'
<1>1. PICK N \in Nat : N = nrows'
  BY ContentAssumption DEF Typed, TypeOK
<1>2. PICK ids \in SUBSET (1 .. N) : ids = ActiveRows(l, k)'
  BY <1>1 DEF ActiveRows
<1>3. Newest(ids) = Head(l, k)'
  BY <1>2 DEF Head
<1>4. /\ (Newest(ids) = 0) <=> (ids = {})
      /\ Newest(ids) \in 0 .. N
      /\ ids # {} => Newest(ids) \in ids
      /\ \A r \in ids : r <= Newest(ids)
  BY NewestIs
<1> QED BY <1>1, <1>2, <1>3, <1>4

\* A new row is the head of its key; no other head moves.
LEMMA InsertedHead ==
  ASSUME Typed, Typed', NEW l, NEW k, Inserts(l, k), NEW l2, NEW k2
  PROVE  Head(l2, k2)' = IF l2 = l /\ k2 = k THEN nrows + 1 ELSE Head(l2, k2)
<1>1. CASE l2 = l /\ k2 = k
  <2>1. ActiveRows(l, k)' = ActiveRows(l, k) \cup {nrows + 1}
    BY InsertedRows
  <2>2. \A r \in ActiveRows(l, k) : r \in Nat /\ r <= nrows
    BY DEF ActiveRows
  <2>3. Head(l, k)' \in ActiveRows(l, k)' /\ nrows + 1 <= Head(l, k)' /\ Head(l, k)' \in Nat
    BY <2>1, HeadNext
  <2>4. nrows \in Nat
    BY ContentAssumption DEF Typed, TypeOK
  <2> QED BY <1>1, <2>1, <2>2, <2>3, <2>4
<1>2. CASE ~ (l2 = l /\ k2 = k)
  <2>1. ActiveRows(l2, k2)' = ActiveRows(l2, k2)
    BY <1>2, InsertedRows
  <2> QED BY <1>2, <2>1 DEF Head
<1> QED BY <1>1, <1>2

\* Pointers leave every key its head, but that of a kind once off may fall back.
LEMMA PointedHead ==
  ASSUME Typed, Typed', NEW l, NEW kinds, NEW back, Points(l, kinds, back), NEW l2, NEW k2
  PROVE  \/ Head(l2, k2)' = Head(l2, k2)
         \/ /\ l2 = l /\ k2 = back /\ back \in off
            /\ Head(l2, k2)' \in ActiveRows(l2, k2) /\ Head(l2, k2)' < Head(l2, k2)
<1> DEFINE A == ActiveRows(l2, k2)
           h == Head(l2, k2)
<1>1. /\ (h = 0) <=> (A = {})
      /\ h \in 0 .. nrows
      /\ h # 0 => h \in A
      /\ \A r \in A : r <= h
  BY HeadIs
<1>2. /\ ActiveRows(l2, k2)' \subseteq A
      /\ \A r \in A \ ActiveRows(l2, k2)' :
           /\ l2 = l
           /\ \E n \in ActiveRows(l2, k2)' : n > r \/ (k2 = back /\ back \in off)
  BY PointedRows
<1>3. /\ (Head(l2, k2)' = 0) <=> (ActiveRows(l2, k2)' = {})
      /\ Head(l2, k2)' \in Nat
      /\ Head(l2, k2)' # 0 => Head(l2, k2)' \in ActiveRows(l2, k2)'
      /\ \A r \in ActiveRows(l2, k2)' : r <= Head(l2, k2)'
  BY HeadNext
<1>4. nrows \in Nat /\ \A r \in A : r \in Nat
  BY ContentAssumption DEF Typed, TypeOK, ActiveRows
<1> HIDE DEF A, h
<1>5. CASE A = {}
  BY <1>1, <1>2, <1>3, <1>5 DEF h
<1>6. CASE A # {} /\ h \in ActiveRows(l2, k2)'
  <2>1. Head(l2, k2)' \in A /\ h <= Head(l2, k2)' /\ Head(l2, k2)' <= h
    BY <1>1, <1>2, <1>3, <1>6
  <2>2. Head(l2, k2)' = h
    BY <1>1, <1>3, <1>4, <2>1
  <2> QED BY <2>2 DEF h
<1>7. CASE A # {} /\ h \notin ActiveRows(l2, k2)'
  <2>1. h \in A
    BY <1>1, <1>7
  <2>2. PICK n \in ActiveRows(l2, k2)' : n > h \/ (k2 = back /\ back \in off)
    BY <1>2, <1>7, <2>1
  <2>3. l2 = l /\ n \in A /\ n <= h
    BY <1>1, <1>2, <1>7, <2>1
  <2>4. k2 = back /\ back \in off
    BY <1>4, <2>1, <2>2, <2>3
  <2>5. Head(l2, k2)' \in ActiveRows(l2, k2)'
    BY <1>3
  <2>6. Head(l2, k2)' \in A /\ Head(l2, k2)' <= h /\ Head(l2, k2)' # h
    BY <1>1, <1>2, <1>7, <2>5
  <2>7. Head(l2, k2)' < h
    BY <1>4, <2>1, <2>6
  <2> QED BY <2>3, <2>4, <2>6, <2>7 DEF A, h
<1> QED BY <1>5, <1>6, <1>7

-----------------------------------------------------------------------------
(* Version chains: the inductive invariant of HeadKept and ForwardChains    *)

\* Jobs that replace one row, their source, by a row of one kind.
Singles == {"direct", "rated", "redo", "refresh", "bulk"}

\* A generator returns None only for a kind that was off, and the row made for
\* a source is active, or one that came after it is, while the kind was not off.
Linked(j) ==
  j.pc = "generate" =>
    /\ \A k \in Kinds : j.gen[k] = "none" => k \in off
    /\ j.op \in Singles =>
         \E k \in Kinds :
           /\ \A i \in Kinds : (j.gen[i] # "off") <=> (i = k)
           /\ j.op \in {"bulk", "redo", "refresh"} => k = "email"
           /\ j.source # 0 =>
                /\ j.source \in 1 .. nrows
                /\ rows[j.source].lead = j.lead
                /\ rows[j.source].kind = k
                /\ j.gen[k] = "made" /\ k \notin off =>
                     \E r \in ActiveRows(j.lead, k) : r > j.source

Chained ==
  /\ HeadKept
  /\ ForwardChains
  /\ \A r \in 1 .. nrows : rows[r].sup \in 0 .. nrows
  /\ \A k \in Kinds : k \in enabled \/ k \in off
  /\ \A w \in Workers : Linked(job[w])

\* Rows stay rows of their keys, and what was active is followed by an active
\* row that is no older, while the kind was not off.
Follows ==
  /\ \A r \in 1 .. nrows :
       r \in 1 .. nrows' /\ rows'[r].lead = rows[r].lead /\ rows'[r].kind = rows[r].kind
  /\ \A l, k : \A r \in ActiveRows(l, k) :
       \E n \in ActiveRows(l, k)' : n >= r \/ k \in off

\* HeadKept and ForwardChains, with pointers that lead to rows.
Chain ==
  /\ HeadKept
  /\ ForwardChains
  /\ \A r \in 1 .. nrows : rows[r].sup \in 0 .. nrows

LEMMA InsertsChain ==
  ASSUME Typed, Typed', Chain, NEW l, NEW k, Inserts(l, k), off \subseteq off'
  PROVE  Chain' /\ Follows
<1>1. nrows \in Nat /\ nrows' = nrows + 1
  BY ContentAssumption DEF Typed, TypeOK, Inserts
<1>2. \A r \in 1 .. nrows : r \in 1 .. nrows' /\ rows'[r] = rows[r]
  BY <1>1 DEF Inserts
<1>3. \A l2, k2 : ActiveRows(l2, k2) \subseteq ActiveRows(l2, k2)'
  <2> TAKE l2, k2
  <2> QED BY InsertedRows
<1>4. Follows
  <2>1. \A l2, k2 : \A r \in ActiveRows(l2, k2) : r \in ActiveRows(l2, k2)' /\ r >= r
    BY <1>1, <1>3 DEF ActiveRows
  <2> QED BY <1>2, <2>1 DEF Follows
<1>5. HeadKept'
  <2> SUFFICES ASSUME NEW l2 \in Leads, NEW k2 \in Kinds, Written(l2, k2)' # {}
               PROVE  ActiveRows(l2, k2)' # {}
    BY DEF HeadKept
  <2>1. CASE l2 = l /\ k2 = k
    <3>1. ActiveRows(l, k)' = ActiveRows(l, k) \cup {nrows + 1}
      BY InsertedRows
    <3> QED BY <2>1, <3>1
  <2>2. CASE ~ (l2 = l /\ k2 = k)
    <3>1. Written(l2, k2)' = Written(l2, k2) /\ ActiveRows(l2, k2)' = ActiveRows(l2, k2)
      BY <2>2, InsertedRows
    <3> QED BY <3>1 DEF Chain, HeadKept
  <2> QED BY <2>1, <2>2
<1>6. ASSUME NEW r \in 1 .. nrows'
      PROVE  /\ rows'[r].sup \in 0 .. nrows'
             /\ rows'[r].sup # 0 =>
                  /\ rows'[rows'[r].sup].lead = rows'[r].lead
                  /\ rows'[rows'[r].sup].kind = rows'[r].kind
                  /\ rows'[r].kind \notin off' => rows'[r].sup > r
  <2>1. CASE r \in 1 .. nrows
    <3>1. rows'[r] = rows[r] /\ rows[r].sup \in 0 .. nrows
      BY <1>2, <2>1 DEF Chain
    <3>2. rows[r].sup \in 0 .. nrows'
      BY <1>1, <3>1
    <3>3. ASSUME rows[r].sup # 0
          PROVE  /\ rows'[rows[r].sup] = rows[rows[r].sup]
                 /\ rows[rows[r].sup].lead = rows[r].lead
                 /\ rows[rows[r].sup].kind = rows[r].kind
                 /\ rows[r].kind \notin off' => rows[r].sup > r
      <4>1. rows[r].sup \in 1 .. nrows
        BY <1>1, <3>1, <3>3
      <4> QED BY <1>2, <2>1, <3>3, <4>1 DEF Chain, ForwardChains
    <3> QED BY <3>1, <3>2, <3>3
  <2>2. CASE r = nrows + 1
    BY <1>1, <2>2 DEF Inserts
  <2>3. r \in 1 .. nrows \/ r = nrows + 1
    BY <1>1
  <2> QED BY <2>1, <2>2, <2>3
<1>7. ForwardChains' /\ \A r \in 1 .. nrows' : rows'[r].sup \in 0 .. nrows'
  BY <1>6 DEF ForwardChains
<1> QED BY <1>4, <1>5, <1>7 DEF Chain

LEMMA PointsChain ==
  ASSUME Typed, Typed', Chain, NEW l, NEW kinds, NEW back, Points(l, kinds, back), off \subseteq off'
  PROVE  Chain' /\ Follows
<1>1. nrows \in Nat /\ nrows' = nrows
  BY ContentAssumption DEF Typed, TypeOK, Points
<1>2. \A r \in 1 .. nrows : rows'[r].lead = rows[r].lead /\ rows'[r].kind = rows[r].kind
  BY DEF Points
<1>3. ASSUME NEW l2, NEW k2, NEW r \in ActiveRows(l2, k2)
      PROVE  \E n \in ActiveRows(l2, k2)' : n >= r \/ k2 \in off
  <2>1. r \in Nat
    BY <1>1 DEF ActiveRows
  <2>2. CASE r \in ActiveRows(l2, k2)'
    BY <2>1, <2>2
  <2>3. CASE r \notin ActiveRows(l2, k2)'
    <3>1. PICK n \in ActiveRows(l2, k2)' : n > r \/ (k2 = back /\ back \in off)
      BY <2>3, PointedRows
    <3>2. n \in ActiveRows(l2, k2)
      BY PointedRows
    <3>3. n \in Nat
      BY <1>1, <3>2 DEF ActiveRows
    <3>4. n >= r \/ k2 \in off
      BY <2>1, <3>1, <3>3
    <3> QED BY <3>4
  <2> QED BY <2>2, <2>3
<1>4. Follows
  BY <1>1, <1>2, <1>3 DEF Follows
<1>5. HeadKept'
  <2> SUFFICES ASSUME NEW l2 \in Leads, NEW k2 \in Kinds, Written(l2, k2)' # {}
               PROVE  ActiveRows(l2, k2)' # {}
    BY DEF HeadKept
  <2>1. Written(l2, k2)' = Written(l2, k2)
    BY PointedRows
  <2>2. PICK r \in ActiveRows(l2, k2) : TRUE
    BY <2>1 DEF Chain, HeadKept
  <2> QED BY <1>3, <2>2
<1>6. ASSUME NEW r \in 1 .. nrows
      PROVE  /\ rows'[r].sup \in 0 .. nrows
             /\ rows'[r].sup # 0 =>
                  /\ rows'[rows'[r].sup].lead = rows'[r].lead
                  /\ rows'[rows'[r].sup].kind = rows'[r].kind
                  /\ rows'[r].kind \notin off' => rows'[r].sup > r
  <2>1. CASE rows'[r].sup = rows[r].sup
    <3>1. rows[r].sup \in 0 .. nrows
      BY DEF Chain
    <3>2. ASSUME rows[r].sup # 0
          PROVE  /\ rows'[rows[r].sup].lead = rows[r].lead
                 /\ rows'[rows[r].sup].kind = rows[r].kind
                 /\ rows[r].kind \notin off' => rows[r].sup > r
      <4>1. rows[r].sup \in 1 .. nrows
        BY <1>1, <3>1, <3>2
      <4> QED BY <1>2, <3>2, <4>1 DEF Chain, ForwardChains
    <3> QED BY <1>2, <2>1, <3>1, <3>2
  <2>2. CASE rows'[r].sup # rows[r].sup
    <3>1. /\ rows[r].lead = l /\ rows'[r].sup \in ActiveRows(l, rows[r].kind)
          /\ rows'[r].sup > r \/ (rows[r].kind = back /\ back \in off)
      BY <2>2 DEF Points
    <3>2. PICK n \in ActiveRows(l, rows[r].kind) : n = rows'[r].sup
      BY <3>1
    <3>3. n \in 1 .. nrows /\ rows[n].lead = l /\ rows[n].kind = rows[r].kind
      BY DEF ActiveRows
    <3>4. rows'[n].lead = rows[n].lead /\ rows'[n].kind = rows[n].kind
      BY <1>2, <3>3
    <3>5. n \in 0 .. nrows
      BY <1>1, <3>3
    <3> QED BY <1>2, <3>1, <3>2, <3>3, <3>4, <3>5
  <2> QED BY <2>1, <2>2
<1>7. ForwardChains' /\ \A r \in 1 .. nrows' : rows'[r].sup \in 0 .. nrows'
  BY <1>1, <1>6 DEF ForwardChains
<1> QED BY <1>4, <1>5, <1>7 DEF Chain

\* What a step does to the rows leaves a job linked.
LEMMA LinkedKept ==
  ASSUME Typed, Typed', NEW j \in Job, Linked(j), Follows, off \subseteq off'
  PROVE  Linked(j)'
<1> SUFFICES ASSUME j.pc = "generate"
             PROVE  /\ \A k \in Kinds : j.gen[k] = "none" => k \in off'
                    /\ j.op \in Singles =>
                         \E k \in Kinds :
                           /\ \A i \in Kinds : (j.gen[i] # "off") <=> (i = k)
                           /\ j.op \in {"bulk", "redo", "refresh"} => k = "email"
                           /\ j.source # 0 =>
                                /\ j.source \in 1 .. nrows'
                                /\ rows'[j.source].lead = j.lead
                                /\ rows'[j.source].kind = k
                                /\ j.gen[k] = "made" /\ k \notin off' =>
                                     \E r \in ActiveRows(j.lead, k)' : r > j.source
  BY DEF Linked
<1>1. \A k \in Kinds : j.gen[k] = "none" => k \in off'
  BY DEF Linked
<1>2. ASSUME j.op \in Singles
      PROVE  \E k \in Kinds :
               /\ \A i \in Kinds : (j.gen[i] # "off") <=> (i = k)
               /\ j.op \in {"bulk", "redo", "refresh"} => k = "email"
               /\ j.source # 0 =>
                    /\ j.source \in 1 .. nrows'
                    /\ rows'[j.source].lead = j.lead
                    /\ rows'[j.source].kind = k
                    /\ j.gen[k] = "made" /\ k \notin off' =>
                         \E r \in ActiveRows(j.lead, k)' : r > j.source
  <2>1. PICK k \in Kinds :
               /\ \A i \in Kinds : (j.gen[i] # "off") <=> (i = k)
               /\ j.op \in {"bulk", "redo", "refresh"} => k = "email"
               /\ j.source # 0 =>
                    /\ j.source \in 1 .. nrows
                    /\ rows[j.source].lead = j.lead
                    /\ rows[j.source].kind = k
                    /\ j.gen[k] = "made" /\ k \notin off =>
                         \E r \in ActiveRows(j.lead, k) : r > j.source
    BY <1>2 DEF Linked
  <2>2. ASSUME j.source # 0
        PROVE  j.source \in 1 .. nrows' /\ rows'[j.source].lead = j.lead /\ rows'[j.source].kind = k
    BY <2>1, <2>2 DEF Follows
  <2>3. ASSUME j.source # 0, j.gen[k] = "made", k \notin off'
        PROVE  \E r \in ActiveRows(j.lead, k)' : r > j.source
    <3>1. PICK r \in ActiveRows(j.lead, k) : r > j.source
      BY <2>1, <2>3
    <3>2. PICK n \in ActiveRows(j.lead, k)' : n >= r \/ k \in off
      BY <3>1 DEF Follows
    <3>3. n \in Nat /\ r \in Nat /\ j.source \in Nat
      <4>1. nrows \in Nat /\ nrows' \in Nat
        BY ContentAssumption DEF Typed, TypeOK
      <4> QED BY <2>1, <2>3, <4>1 DEF ActiveRows
    <3>4. n > j.source
      BY <2>3, <3>1, <3>2, <3>3
    <3> QED BY <3>4
  <2> QED BY <2>1, <2>2, <2>3
<1> QED BY <1>1, <1>2

-----------------------------------------------------------------------------
(* What a step does to a job *)

\* One worker's new state, without its type.
LEMMA SetIs ==
  ASSUME Typed, NEW w \in Workers, NEW new, Set(w, new)
  PROVE  job'[w] = new /\ \A v \in Workers : v # w => job'[v] = job[v]
BY DEF Typed, TypeOK, Set

\* Locals of a job that a generator leaves alone.
SameLocals(w) ==
  /\ job'[w].pc = job[w].pc
  /\ job'[w].op = job[w].op
  /\ job'[w].lead = job[w].lead
  /\ job'[w].source = job[w].source
  /\ job'[w].force = job[w].force
  /\ job'[w].print = job[w].print
  /\ job'[w].done = job[w].done
  /\ job'[w].edits = job[w].edits

\* A generator goes on: it asks the model, writes its row, returns None or fails.
Generated(w, k) ==
  /\ Generating(w)
  /\ job[w].gen[k] \in {"due", "asked"}
  /\ SameLocals(w)
  /\ \A i \in Kinds : i # k => job'[w].gen[i] = job[w].gen[i]
  /\ \/ /\ job'[w].gen[k] = "made"
        /\ Inserts(job[w].lead, k)
     \/ /\ job'[w].gen[k] \in {"asked", "failed", "none"}
        /\ job'[w].gen[k] = "none" => k \notin enabled
        /\ UNCHANGED <<rows, nrows>>

LEMMA GenIs ==
  ASSUME Typed, NEW w \in Workers, NEW k \in Kinds, NEW o
  PROVE  /\ Gen(w, k, o).pc = job[w].pc
         /\ Gen(w, k, o).op = job[w].op
         /\ Gen(w, k, o).lead = job[w].lead
         /\ Gen(w, k, o).source = job[w].source
         /\ Gen(w, k, o).force = job[w].force
         /\ Gen(w, k, o).print = job[w].print
         /\ Gen(w, k, o).done = job[w].done
         /\ Gen(w, k, o).edits = job[w].edits
         /\ Gen(w, k, o).gen[k] = o
         /\ \A i \in Kinds : i # k => Gen(w, k, o).gen[i] = job[w].gen[i]
<1>1. job[w] \in Job
  BY DEF Typed, TypeOK
<1>2. Gen(w, k, o) = [job[w] EXCEPT !.gen = [job[w].gen EXCEPT ![k] = o]]
  BY <1>1 DEF Gen, Job
<1>3. job[w].gen \in [Kinds -> Gens]
  BY <1>1 DEF Job
<1> QED BY <1>1, <1>2, <1>3 DEF Job

LEMMA GenerateDoes ==
  ASSUME Typed, NEW w \in Workers, Generate(w)
  PROVE  /\ \E k \in Kinds : Generated(w, k)
         /\ \A v \in Workers : v # w => job'[v] = job[v]
         /\ UNCHANGED <<prompt, enabled, off, lapsed, edits>>
<1>1. PICK k \in Kinds : Ask(w, k) \/ WriteRow(w, k) \/ GenerateFailed(w, k)
  BY DEF Generate
<1>2. /\ Generating(w) /\ job[w].gen[k] \in {"due", "asked"}
      /\ UNCHANGED <<prompt, enabled, off, lapsed, edits>>
  BY <1>1 DEF Ask, GateClosed, WriteMarker, AskModel, WriteRow, GenerateFailed, DB
<1>3. ASSUME NEW o, Set(w, Gen(w, k, o))
      PROVE  /\ SameLocals(w) /\ job'[w].gen[k] = o
             /\ \A i \in Kinds : i # k => job'[w].gen[i] = job[w].gen[i]
             /\ \A v \in Workers : v # w => job'[v] = job[v]
  <2>1. job'[w] = Gen(w, k, o) /\ \A v \in Workers : v # w => job'[v] = job[v]
    BY <1>3, SetIs
  <2> QED BY <2>1, GenIs DEF SameLocals
<1>4. ASSUME NEW row, Insert(row), row.lead = job[w].lead, row.kind = k, row.sup = 0, row.print = prompt
      PROVE  Inserts(job[w].lead, k)
  <2>1. rows \in [RowIds -> Row] /\ nrows \in Nat /\ MaxRows \in Nat /\ nrows < MaxRows
    BY <1>4, ContentAssumption DEF Typed, TypeOK, Insert
  <2>2. nrows + 1 \in RowIds /\ \A r \in 1 .. nrows : r \in RowIds /\ r # nrows + 1
    BY <2>1 DEF RowIds
  <2>3. nrows' = nrows + 1 /\ rows'[nrows + 1] = row /\ \A r \in 1 .. nrows : rows'[r] = rows[r]
    BY <1>4, <2>1, <2>2 DEF Insert
  <2> QED BY <1>4, <2>3 DEF Inserts
<1>5. ASSUME NEW text, NEW marker
      PROVE  /\ NewRow(job[w].lead, k, prompt, text, marker).lead = job[w].lead
             /\ NewRow(job[w].lead, k, prompt, text, marker).kind = k
             /\ NewRow(job[w].lead, k, prompt, text, marker).sup = 0
             /\ NewRow(job[w].lead, k, prompt, text, marker).print = prompt
  BY DEF NewRow
<1>6. CASE Ask(w, k) /\ GateClosed(w, k)
  <2>1. Set(w, Gen(w, k, "none")) /\ k \notin enabled /\ UNCHANGED <<rows, nrows>>
    BY <1>6 DEF GateClosed, KindEnabled, DB
  <2> QED BY <1>2, <1>3, <2>1 DEF Generated
<1>7. CASE Ask(w, k) /\ WriteMarker(w, k)
  <2>1. Set(w, Gen(w, k, "made"))
    BY <1>7 DEF WriteMarker
  <2>2. PICK row : row = NewRow(job[w].lead, k, prompt, prompt, TRUE)
    OBVIOUS
  <2>3. Insert(row)
    BY <1>7, <2>2 DEF WriteMarker
  <2>4. Inserts(job[w].lead, k)
    BY <1>4, <1>5, <2>2, <2>3
  <2> QED BY <1>2, <1>3, <2>1, <2>4 DEF Generated
<1>8. CASE Ask(w, k) /\ AskModel(w, k)
  <2>1. Set(w, [Gen(w, k, "asked") EXCEPT !.text = IF k = "email" THEN prompt ELSE @])
        /\ UNCHANGED <<rows, nrows>>
    BY <1>8 DEF AskModel, DB
  <2> DEFINE text == IF k = "email" THEN prompt ELSE Gen(w, k, "asked").text
             new == [Gen(w, k, "asked") EXCEPT !.text = text]
  <2>2. Set(w, new)
    BY <2>1
  <2> HIDE DEF text
  <2>3. job'[w] = new /\ \A v \in Workers : v # w => job'[v] = job[v]
    <3> HIDE DEF new
    <3> QED BY <2>2, SetIs
  <2>4. Gen(w, k, "asked") \in Job
    BY <1>2, GenTyped DEF Gens
  <2>5. SameLocals(w) /\ job'[w].gen = Gen(w, k, "asked").gen
    BY <2>3, <2>4, GenIs DEF SameLocals, Job
  <2> QED BY <1>2, <2>1, <2>3, <2>5, GenIs DEF Generated
<1>9. CASE WriteRow(w, k)
  <2>1. Set(w, Gen(w, k, "made"))
    BY <1>9 DEF WriteRow
  <2>2. PICK row : row = NewRow(job[w].lead, k, prompt, job[w].text, FALSE)
    OBVIOUS
  <2>3. Insert(row)
    BY <1>9, <2>2 DEF WriteRow
  <2>4. PICK text : text = job[w].text
    OBVIOUS
  <2>5. row = NewRow(job[w].lead, k, prompt, text, FALSE)
    BY <2>2, <2>4
  <2>6. Inserts(job[w].lead, k)
    BY <1>4, <1>5, <2>3, <2>5
  <2> QED BY <1>2, <1>3, <2>1, <2>6 DEF Generated
<1>10. CASE GenerateFailed(w, k)
  <2>1. Set(w, Gen(w, k, "failed")) /\ UNCHANGED <<rows, nrows>>
    BY <1>10 DEF GenerateFailed, DB
  <2> QED BY <1>2, <1>3, <2>1 DEF Generated
<1> QED BY <1>1, <1>6, <1>7, <1>8, <1>9, <1>10 DEF Ask

\* One pointer set on an active row of the same key.
LEMMA SupersedePoints ==
  ASSUME Typed, NEW l, NEW k, NEW kinds, k \in kinds,
         NEW r \in 1 .. nrows, rows[r].lead = l, rows[r].kind = k,
         NEW new \in ActiveRows(l, k), new # r, new > r \/ k \in off,
         Supersede(r, new), nrows' = nrows
  PROVE  Points(l, kinds, k)
<1>1. r \in RowIds /\ new \in 1 .. nrows /\ new \in RowIds /\ new \in 0 .. MaxRows /\ rows[new].sup = 0
  BY ContentAssumption DEF ActiveRows, Typed, TypeOK, RowIds
<1>2. /\ rows'[r] = [rows[r] EXCEPT !.sup = new]
      /\ \A s \in RowIds : s # r => rows'[s] = rows[s]
  BY <1>1, SupersedeTyped
<1>3. \A s \in 1 .. nrows : s \in RowIds
  BY RowTyped
<1>4. /\ rows'[r].lead = rows[r].lead /\ rows'[r].kind = rows[r].kind
      /\ rows'[r].print = rows[r].print /\ rows'[r].sup = new
  <2>1. rows[r] \in Row
    BY <1>1 DEF Typed, TypeOK
  <2> QED BY <1>2, <2>1 DEF Row
<1>5. rows'[new].sup = 0
  BY <1>1, <1>2
<1> QED BY <1>2, <1>3, <1>4, <1>5 DEF Points

\* The job has set its pointers.
Superseded(w) ==
  /\ Generating(w)
  /\ Pending(w) = {}
  /\ job'[w].pc \in {"idle", "next", "deliver"}
  /\ \E back \in Kinds : Points(job[w].lead, Ran(w), back)

LEMMA SupersedingDoes ==
  ASSUME Typed, Chained, NEW w \in Workers, Superseding(w)
  PROVE  /\ Superseded(w)
         /\ \A v \in Workers : v # w => job'[v] = job[v]
         /\ UNCHANGED <<nrows, prompt, enabled, off, lapsed, edits>>
<1>1. /\ Generating(w) /\ Pending(w) = {}
      /\ UNCHANGED <<nrows, prompt, enabled, off, lapsed, edits>>
  BY DEF Superseding, SupersedeSource, SupersedeHead, SupersedePrevious, AfterGather, Finished, DB
<1>2. Linked(job[w])
  BY DEF Chained
<1>3. /\ job[w] \in Job /\ job[w].lead \in Leads /\ job[w].gen \in [Kinds -> Gens]
      /\ job[w].source \in Nat /\ nrows \in Nat
  <2>1. job[w] \in Job
    BY DEF Typed, TypeOK
  <2> QED BY <1>1, <2>1, GeneratingLead, ContentAssumption DEF Generating, Job, Typed, TypeOK
<1>4. /\ \A ok \in BOOLEAN : Settle(w, ok).pc \in {"idle", "next"}
      /\ ToNext(w).pc = "next" /\ NoJob.pc = "idle" /\ ToDeliver(w).pc = "deliver"
  <2>1. NoLocals(w) \in Job
    <3>1. NoGen \in [Kinds -> Gens] /\ 0 \in 0 .. MaxRows
      BY ContentAssumption DEF NoGen, Gens
    <3> QED BY <1>3, <3>1 DEF NoLocals, Job
  <2>2. ToDeliver(w).pc = "deliver"
    BY <2>1 DEF ToDeliver, Job
  <2> QED BY <1>3, <2>2, NextStatesTyped, NoJobTyped
<1>5. ASSUME UNCHANGED rows PROVE \A back : Points(job[w].lead, Ran(w), back)
  BY <1>1, <1>5 DEF Points
<1>6. CASE SupersedeSource(w)
  <2> DEFINE src == job[w].source
             new == Replacement(job[w].lead, Kind(w), src)
  <2>1. \E ok \in BOOLEAN : Set(w, Settle(w, ok))
    BY <1>6 DEF SupersedeSource
  <2>2. job'[w].pc \in {"idle", "next"} /\ \A v \in Workers : v # w => job'[v] = job[v]
    BY <1>4, <2>1, SetIs
  <2>3. CASE UNCHANGED rows
    BY <1>1, <1>5, <2>2, <2>3, ContentAssumption DEF Superseded
  <2>4. CASE ~ Failed(w) /\ src # 0 /\ new # 0 /\ Supersede(src, new)
    <3>1. PICK k \in Kinds :
            /\ \A i \in Kinds : (job[w].gen[i] # "off") <=> (i = k)
            /\ src \in 1 .. nrows /\ rows[src].lead = job[w].lead /\ rows[src].kind = k
            /\ job[w].gen[k] = "made" /\ k \notin off =>
                 \E r \in ActiveRows(job[w].lead, k) : r > src
      BY <1>1, <1>2, <1>6, <2>4 DEF SupersedeSource, Finished, Linked, Singles, Generating
    <3>2. Ran(w) = {k} /\ Kind(w) = k
      <4>1. Ran(w) = {k}
        BY <3>1 DEF Ran
      <4> QED BY <4>1 DEF Kind
    <3>3. k \in off \/ job[w].gen[k] = "made"
      <4>1. job[w].gen[k] \in Gens /\ job[w].gen[k] \notin {"off", "failed", "due", "asked"}
        BY <1>1, <1>3, <2>4, <3>1 DEF Failed, Pending
      <4> QED BY <1>1, <1>2, <4>1 DEF Linked, Generating, Gens
    <3>4. PICK l \in Leads, s \in 1 .. nrows : l = job[w].lead /\ s = src
      BY <1>3, <3>1
    <3>5. /\ Replacement(l, k, s) # 0 => Replacement(l, k, s) \in ActiveRows(l, k) \ {s}
          /\ \A r \in ActiveRows(l, k) \ {s} : r <= Replacement(l, k, s)
          /\ Replacement(l, k, s) \in 0 .. nrows
      BY ReplacementIs
    <3>6. new = Replacement(l, k, s)
      BY <3>2, <3>4
    <3>7. PICK n \in ActiveRows(l, k) : n = new /\ n # s /\ n \in Nat
      BY <2>4, <3>5, <3>6, <1>3 DEF ActiveRows
    <3>8. n > s \/ k \in off
      <4>1. ASSUME NEW r \in ActiveRows(l, k), r > s PROVE n > s
        <5>1. r <= n /\ r \in Nat /\ s \in Nat
          BY <1>3, <3>5, <3>6, <3>7, <4>1 DEF ActiveRows
        <5> QED BY <3>7, <4>1, <5>1
      <4> QED BY <3>1, <3>3, <3>4, <4>1
    <3>9. Supersede(s, n)
      BY <2>4, <3>4, <3>7
    <3>10. Points(l, {k}, k)
      BY <1>1, <3>1, <3>4, <3>7, <3>8, <3>9, SupersedePoints
    <3> QED BY <1>1, <2>2, <3>2, <3>4, <3>10 DEF Superseded
  <2>5. UNCHANGED rows \/ (~ Failed(w) /\ src # 0 /\ new # 0 /\ Supersede(src, new))
    BY <1>6 DEF SupersedeSource
  <2> QED BY <1>1, <2>2, <2>3, <2>4, <2>5
<1>7. CASE SupersedeHead(w)
  <2> DEFINE src == job[w].source
             new == Head(job[w].lead, "email")
  <2>1. Set(w, NoJob)
    BY <1>7 DEF SupersedeHead
  <2>2. job'[w].pc = "idle" /\ \A v \in Workers : v # w => job'[v] = job[v]
    <3> HIDE DEF NoJob
    <3> QED BY <1>4, <2>1, SetIs
  <2>3. CASE UNCHANGED rows
    BY <1>1, <1>5, <2>2, <2>3, ContentAssumption DEF Superseded
  <2>4. CASE src \notin {0, new} /\ new # 0 /\ rows[src].sup = 0 /\ Supersede(src, new)
    <3>1. PICK k \in Kinds :
            /\ \A i \in Kinds : (job[w].gen[i] # "off") <=> (i = k)
            /\ k = "email"
            /\ src \in 1 .. nrows /\ rows[src].lead = job[w].lead /\ rows[src].kind = k
      BY <1>1, <1>2, <1>7, <2>4 DEF SupersedeHead, Finished, Linked, Singles, Generating
    <3>2. Ran(w) = {k}
      BY <3>1 DEF Ran
    <3>3. PICK l \in Leads, s \in 1 .. nrows : l = job[w].lead /\ s = src
      BY <1>3, <3>1
    <3>4. /\ Head(l, k) # 0 => Head(l, k) \in ActiveRows(l, k)
          /\ \A r \in ActiveRows(l, k) : r <= Head(l, k)
      BY HeadIs
    <3>5. new = Head(l, k)
      BY <3>1, <3>3
    <3>6. PICK n \in ActiveRows(l, k) : n = new /\ n # s /\ n \in Nat
      BY <2>4, <3>3, <3>4, <3>5, <1>3 DEF ActiveRows
    <3>7. s \in ActiveRows(l, k) /\ s \in Nat
      BY <1>3, <2>4, <3>1, <3>3 DEF ActiveRows
    <3>8. n > s
      <4>1. s <= n
        BY <3>4, <3>5, <3>6, <3>7
      <4> QED BY <3>6, <3>7, <4>1
    <3>9. Supersede(s, n)
      BY <2>4, <3>3, <3>6
    <3>10. Points(l, {k}, k)
      BY <1>1, <3>1, <3>3, <3>6, <3>8, <3>9, SupersedePoints
    <3> QED BY <1>1, <2>2, <3>2, <3>3, <3>10 DEF Superseded
  <2>5. UNCHANGED rows \/ (src \notin {0, new} /\ new # 0 /\ rows[src].sup = 0 /\ Supersede(src, new))
    BY <1>7 DEF SupersedeHead
  <2> QED BY <1>1, <2>2, <2>3, <2>4, <2>5
<1>8. CASE SupersedePrevious(w)
  <2>1. Set(w, ToDeliver(w))
    BY <1>8 DEF SupersedePrevious
  <2>2. job'[w].pc = "deliver" /\ \A v \in Workers : v # w => job'[v] = job[v]
    BY <1>4, <2>1, SetIs
  <2>3. PICK l \in Leads : l = job[w].lead
    BY <1>3
  <2> DEFINE kinds == IF job[w].force THEN {k \in Ran(w) : job[w].gen[k] # "failed"} ELSE {}
  <2>4. rows' = [r \in RowIds |->
          IF \E k \in kinds : Previous(l, k)[1] = r
          THEN [rows[r] EXCEPT !.sup = Previous(l, rows[r].kind)[2]] ELSE rows[r]]
    BY <1>8, <2>3 DEF SupersedePrevious
  <2>5. kinds \subseteq Ran(w)
    OBVIOUS
  <2> HIDE DEF kinds
  <2>6. ASSUME NEW r \in 1 .. nrows, NEW k \in kinds, Previous(l, k)[1] = r
        PROVE  /\ rows[r].lead = l /\ rows[r].kind = k
               /\ Previous(l, k)[2] = Head(l, k) /\ Head(l, k) \in ActiveRows(l, k)
               /\ r < Head(l, k)
    <3>1. \/ Previous(l, k) = <<0, 0>>
          \/ /\ Previous(l, k)[1] \in ActiveRows(l, k)
             /\ Previous(l, k)[2] = Head(l, k)
             /\ Head(l, k) \in ActiveRows(l, k)
             /\ Previous(l, k)[1] < Head(l, k)
      BY PreviousIs
    <3>2. r # 0
      BY <1>3
    <3> QED BY <2>6, <3>1, <3>2 DEF ActiveRows
  <2>7. ASSUME NEW r \in 1 .. nrows
        PROVE  /\ rows'[r].lead = rows[r].lead
               /\ rows'[r].kind = rows[r].kind
               /\ rows'[r].print = rows[r].print
               /\ \/ rows'[r].sup = rows[r].sup
                  \/ /\ rows[r].lead = l /\ rows[r].kind \in Ran(w)
                     /\ rows'[r].sup \in ActiveRows(l, rows[r].kind)
                     /\ rows'[rows'[r].sup].sup = 0
                     /\ rows'[r].sup > r
    <3>1. r \in RowIds /\ rows[r] \in Row
      BY RowTyped
    <3>2. CASE ~ \E k \in kinds : Previous(l, k)[1] = r
      <4>1. rows'[r] = rows[r]
        BY <2>4, <3>1, <3>2
      <4> QED BY <4>1
    <3>3. ASSUME NEW k \in kinds, Previous(l, k)[1] = r
          PROVE  /\ rows'[r].lead = rows[r].lead
                 /\ rows'[r].kind = rows[r].kind
                 /\ rows'[r].print = rows[r].print
                 /\ rows[r].lead = l /\ rows[r].kind \in Ran(w)
                 /\ rows'[r].sup \in ActiveRows(l, rows[r].kind)
                 /\ rows'[rows'[r].sup].sup = 0
                 /\ rows'[r].sup > r
      <4>1. /\ rows[r].lead = l /\ rows[r].kind = k
            /\ Previous(l, k)[2] = Head(l, k) /\ Head(l, k) \in ActiveRows(l, k)
            /\ r < Head(l, k)
        BY <2>6, <3>3
      <4>2. PICK n \in ActiveRows(l, k) : n = Head(l, k)
        BY <4>1
      <4>3. rows'[r] = [rows[r] EXCEPT !.sup = n]
        BY <2>4, <3>1, <3>3, <4>1, <4>2
      <4>4. /\ rows'[r].lead = rows[r].lead /\ rows'[r].kind = rows[r].kind
            /\ rows'[r].print = rows[r].print /\ rows'[r].sup = n
        BY <3>1, <4>3 DEF Row
      <4>5. n \in 1 .. nrows /\ n \in RowIds /\ rows[n].sup = 0 /\ rows[n].kind = k
        BY RowTyped DEF ActiveRows
      <4>6. ASSUME NEW i \in kinds, Previous(l, i)[1] = n PROVE FALSE
        <5>1. i = k /\ n < Head(l, i)
          BY <2>6, <4>5, <4>6
        <5> QED BY <1>3, <4>2, <4>5, <5>1
      <4>7. rows'[n] = rows[n]
        BY <2>4, <4>5, <4>6
      <4>8. n > r
        BY <1>3, <4>1, <4>2, <4>5
      <4> QED BY <2>5, <4>1, <4>4, <4>5, <4>7, <4>8
    <3> QED BY <3>2, <3>3
  <2>8. Points(l, Ran(w), "email")
    BY <1>1, <2>7 DEF Points
  <2> QED BY <1>1, <2>2, <2>3, <2>8, ContentAssumption DEF Superseded
<1>9. CASE AfterGather(w)
  <2>1. (Set(w, ToNext(w)) \/ Set(w, ToDeliver(w))) /\ UNCHANGED rows
    BY <1>9 DEF AfterGather, DB
  <2>2. job'[w].pc \in {"next", "deliver"} /\ \A v \in Workers : v # w => job'[v] = job[v]
    BY <1>4, <2>1, SetIs
  <2> QED BY <1>1, <1>5, <2>1, <2>2, ContentAssumption DEF Superseded
<1> QED BY <1>6, <1>7, <1>8, <1>9 DEF Superseding

\* Jobs that add a row to whatever is there.
Plain(j) == j.op = "cli" \/ (j.op = "pipeline" /\ ~ j.force)

\* The job starts its generators: a single one replaces an active row of its key,
\* or the head; keys with other work on them, or on which it is plain, lapse.
Started(w) ==
  /\ ~ Generating(w)
  /\ job'[w].pc = "generate"
  /\ \A i \in Kinds : job'[w].gen[i] \in {"off", "due"}
  /\ \E l \in Leads :
       /\ job'[w].lead = l
       /\ job'[w].op \in Singles =>
            \E k \in Kinds :
              /\ \A i \in Kinds : (job'[w].gen[i] # "off") <=> (i = k)
              /\ job'[w].op \in {"bulk", "redo", "refresh"} => k = "email"
              /\ job'[w].source \in ActiveRows(l, k) \/ job'[w].source = Head(l, k)
       /\ \A k \in Kinds :
            /\ job'[w].gen[k] # "off"
            /\ Overlaps(w, l, k) \/ (Plain(job'[w]) /\ Head(l, k) # 0)
            => <<l, k>> \in lapsed'

\* Starting one generator on a source.
LEMMA StartedOn ==
  ASSUME Typed, NEW w \in Workers, NEW l \in Leads, NEW k \in Kinds, NEW op, NEW source,
         NEW new, ~ Generating(w), Set(w, new), new.pc = "generate", new.op = op, new.lead = l,
         new.gen = Only(k), new.source = source,
         op \in Singles, op \in {"bulk", "redo", "refresh"} => k = "email",
         source \in ActiveRows(l, k) \/ source = Head(l, k),
         Lapses(w, l, {k}, FALSE)
  PROVE  Started(w) /\ \A v \in Workers : v # w => job'[v] = job[v]
<1>1. job'[w] = new /\ \A v \in Workers : v # w => job'[v] = job[v]
  BY SetIs
<1>2. \A i \in Kinds : Only(k)[i] = IF i = k THEN "due" ELSE "off"
  BY DEF Only, NoGen
<1>3. /\ \A i \in Kinds : job'[w].gen[i] \in {"off", "due"}
      /\ \A i \in Kinds : (job'[w].gen[i] # "off") <=> (i = k)
  <2>1. job'[w].gen = Only(k)
    BY <1>1
  <2> QED BY <1>2, <2>1
<1>4. /\ job'[w].pc = "generate" /\ job'[w].op = op /\ job'[w].lead = l /\ job'[w].source = source
      /\ ~ Plain(job'[w])
  <2>1. job'[w].pc = "generate" /\ job'[w].op = op /\ job'[w].lead = l /\ job'[w].source = source
    BY <1>1
  <2> QED BY <2>1 DEF Plain, Singles
<1>5. Overlaps(w, l, k) => <<l, k>> \in lapsed'
  BY DEF Lapses
<1> QED BY <1>1, <1>3, <1>4, <1>5 DEF Started

\* Starting the generators of several kinds.
LEMMA StartedKinds ==
  ASSUME Typed, NEW w \in Workers, NEW kinds \in SUBSET Kinds,
         job[w].pc = "content", job[w].op \notin Singles, NEW l \in Leads, l = job[w].lead, NEW plain \in BOOLEAN,
         plain = Plain(job[w]),
         Set(w, [job[w] EXCEPT !.pc = "generate", !.gen = Due(kinds)]),
         Lapses(w, l, kinds, plain)
  PROVE  Started(w) /\ \A v \in Workers : v # w => job'[v] = job[v]
<1> DEFINE new == [job[w] EXCEPT !.pc = "generate", !.gen = Due(kinds)]
<1>1. job[w] \in Job
  BY DEF Typed, TypeOK
<1>2. /\ new.pc = "generate" /\ new.op = job[w].op /\ new.lead = job[w].lead
      /\ new.gen = Due(kinds) /\ new.force = job[w].force
  BY <1>1 DEF Job
<1>3. job'[w] = new /\ \A v \in Workers : v # w => job'[v] = job[v]
  <2> HIDE DEF new
  <2>1. Set(w, new)
    BY DEF new
  <2> QED BY <2>1, SetIs
<1> HIDE DEF new
<1>5. Plain(new) = plain
  BY <1>2 DEF Plain
<1>6. \A k \in kinds : Overlaps(w, l, k) \/ (plain /\ Head(l, k) # 0) => <<l, k>> \in lapsed'
  BY DEF Lapses
<1>7. ~ Generating(w)
  BY DEF Generating
<1>8. /\ \A i \in Kinds : job'[w].gen[i] \in {"off", "due"}
      /\ \A i \in Kinds : job'[w].gen[i] # "off" => i \in kinds
  <2>1. job'[w].gen = Due(kinds)
    BY <1>2, <1>3
  <2> QED BY <2>1 DEF Due
<1>9. Plain(job'[w]) = plain
  BY <1>3, <1>5
<1>10. job'[w].pc = "generate" /\ job'[w].op \notin Singles /\ job'[w].lead = l
  BY <1>2, <1>3
<1> QED BY <1>3, <1>6, <1>7, <1>8, <1>9, <1>10 DEF Started

\* Sending and rating leave the chains alone.
LEMMA DeliverKeeps ==
  ASSUME Typed, NEW l, DeliverTo(l), nrows' = nrows
  PROVE  RowsKept
<1>1. \A r \in 1 .. nrows : r \in RowIds /\ rows[r] \in Row
  BY RowTyped
<1>2. \A r \in RowIds : \E sent \in BOOLEAN : rows'[r] = [rows[r] EXCEPT !.sent = sent]
  BY DeliverTyped
<1>3. ASSUME NEW r \in 1 .. nrows
      PROVE  /\ rows'[r].lead = rows[r].lead
             /\ rows'[r].kind = rows[r].kind
             /\ rows'[r].print = rows[r].print
             /\ rows'[r].sup = rows[r].sup
  <2>1. PICK sent \in BOOLEAN : rows'[r] = [rows[r] EXCEPT !.sent = sent]
    BY <1>1, <1>2
  <2> QED BY <1>1, <2>1 DEF Row
<1> QED BY <1>3 DEF RowsKept

\* What the other steps of a job do: no row changes, and the job generates
\* afterwards only if it has just started to.
Moved(w) ==
  /\ RowsKept
  /\ job'[w].pc # "generate" \/ Started(w)
  /\ lapsed \subseteq lapsed'
  /\ Generating(w) => \A k \in Ran(w) : <<job[w].lead, k>> \in lapsed'

LEMMA PhaseMoves ==
  ASSUME Typed, NEW w \in Workers, Phase(w)
  PROVE  /\ Moved(w)
         /\ \A v \in Workers : v # w => job'[v] = job[v]
         /\ UNCHANGED <<prompt, enabled, off, edits>>
<1>1. UNCHANGED <<nrows, prompt, enabled, off, edits>>
  BY DEF Phase, PhaseEnrich, PhaseScore, PhaseContent, CliContent, RefreshContent, PhaseDeliver, DB
<1>2. /\ job[w] \in Job /\ job[w].lead \in Leads /\ ~ Generating(w)
      /\ job[w].pc # "next"
      /\ ToNext(w).pc = "next" /\ GiveUp(w).pc \in {"idle", "next"} /\ ToDeliver(w).pc = "deliver"
  <2>1. job[w].pc \notin {"idle", "next", "generate"}
    BY DEF Phase, PhaseEnrich, PhaseScore, PhaseContent, CliContent, RefreshContent, PhaseDeliver
  <2>2. job[w] \in Job /\ job[w].lead \in Leads
    BY <2>1, GeneratingLead, NextStatesTyped
  <2>3. ToDeliver(w).pc = "deliver"
    <3>1. NoLocals(w) \in Job
      <4>1. NoGen \in [Kinds -> Gens] /\ 0 \in 0 .. MaxRows
        BY ContentAssumption DEF NoGen, Gens
      <4> QED BY <2>2, <4>1 DEF NoLocals, Job
    <3> QED BY <3>1 DEF ToDeliver, Job
  <2> QED BY <2>1, <2>2, <2>3, NextStatesTyped DEF Generating
<1>3. ASSUME NEW new, Set(w, new), new.pc # "generate", RowsKept, lapsed' = lapsed
      PROVE  Moved(w) /\ \A v \in Workers : v # w => job'[v] = job[v]
  <2>1. job'[w] = new /\ \A v \in Workers : v # w => job'[v] = job[v]
    BY <1>3, SetIs
  <2> QED BY <1>2, <1>3, <2>1 DEF Moved
<1>4. ASSUME Started(w), RowsKept, lapsed \subseteq lapsed' PROVE Moved(w)
  BY <1>2, <1>4 DEF Moved
<1>5. UNCHANGED rows => RowsKept
  BY <1>1 DEF RowsKept
<1>6. \A pc \in Pcs : [job[w] EXCEPT !.pc = pc].pc = pc
  BY <1>2 DEF Job
<1>7. CASE PhaseEnrich(w)
  <2>1. Set(w, [job[w] EXCEPT !.pc = "score"]) \/ Set(w, GiveUp(w))
    BY <1>7 DEF PhaseEnrich
  <2>2. UNCHANGED <<rows, lapsed>> /\ "score" \in Pcs
    BY <1>7 DEF PhaseEnrich, Pcs
  <2> QED BY <1>1, <1>2, <1>3, <1>5, <1>6, <2>1, <2>2
<1>8. CASE PhaseScore(w)
  <2>1. Set(w, [job[w] EXCEPT !.pc = "content"]) \/ Set(w, GiveUp(w))
    BY <1>8 DEF PhaseScore
  <2>2. UNCHANGED <<rows, lapsed>> /\ "content" \in Pcs
    BY <1>8 DEF PhaseScore, Pcs
  <2> QED BY <1>1, <1>2, <1>3, <1>5, <1>6, <2>1, <2>2
<1>9. CASE PhaseContent(w)
  <2>1. UNCHANGED rows
    BY <1>9 DEF PhaseContent, DB
  <2>2. CASE (Set(w, GiveUp(w)) \/ Set(w, ToDeliver(w))) /\ UNCHANGED lapsed
    BY <1>1, <1>2, <1>3, <1>5, <2>1, <2>2
  <2>3. CASE /\ Set(w, [job[w] EXCEPT !.pc = "generate", !.gen = Due(KindsToRun(w, job[w].lead))])
             /\ Lapses(w, job[w].lead, KindsToRun(w, job[w].lead), ~ job[w].force)
    <3>1. PICK kinds \in SUBSET Kinds : kinds = KindsToRun(w, job[w].lead)
      BY DEF KindsToRun, Typed, TypeOK
    <3>2. PICK plain \in BOOLEAN : plain = (~ job[w].force)
      OBVIOUS
    <3>3. /\ Set(w, [job[w] EXCEPT !.pc = "generate", !.gen = Due(kinds)])
          /\ Lapses(w, job[w].lead, kinds, plain)
      BY <2>3, <3>1, <3>2
    <3>4. job[w].pc = "content" /\ job[w].op = "pipeline"
      BY <1>9 DEF PhaseContent
    <3>5. plain = Plain(job[w]) /\ job[w].op \notin Singles
      BY <3>2, <3>4 DEF Plain, Singles
    <3>6. Started(w) /\ \A v \in Workers : v # w => job'[v] = job[v]
      <4>1. PICK l \in Leads : l = job[w].lead
        BY <1>2
      <4>2. Lapses(w, l, kinds, plain)
        BY <3>3, <4>1
      <4> QED BY <3>3, <3>4, <3>5, <4>1, <4>2, StartedKinds
    <3>7. lapsed \subseteq lapsed'
      BY <3>3 DEF Lapses
    <3> QED BY <1>1, <1>4, <1>5, <2>1, <3>6, <3>7
  <2> QED BY <1>9, <2>2, <2>3 DEF PhaseContent
<1>10. CASE CliContent(w)
  <2>1. UNCHANGED rows
    BY <1>10 DEF CliContent, DB
  <2>2. CASE Set(w, GiveUp(w)) /\ UNCHANGED lapsed
    BY <1>1, <1>2, <1>3, <1>5, <2>1, <2>2
  <2>3. CASE /\ Set(w, [job[w] EXCEPT !.pc = "generate", !.gen = Due(enabled \cup {"email"})])
             /\ Lapses(w, job[w].lead, enabled \cup {"email"}, TRUE)
    <3>1. PICK kinds \in SUBSET Kinds : kinds = enabled \cup {"email"}
      BY ContentAssumption DEF Typed, TypeOK
    <3>2. PICK plain \in BOOLEAN : plain = TRUE
      OBVIOUS
    <3>3. /\ Set(w, [job[w] EXCEPT !.pc = "generate", !.gen = Due(kinds)])
          /\ Lapses(w, job[w].lead, kinds, plain)
      BY <2>3, <3>1, <3>2
    <3>4. job[w].pc = "content" /\ job[w].op = "cli"
      BY <1>10 DEF CliContent
    <3>5. plain = Plain(job[w]) /\ job[w].op \notin Singles
      BY <3>2, <3>4 DEF Plain, Singles
    <3>6. Started(w) /\ \A v \in Workers : v # w => job'[v] = job[v]
      <4>1. PICK l \in Leads : l = job[w].lead
        BY <1>2
      <4>2. Lapses(w, l, kinds, plain)
        BY <3>3, <4>1
      <4> QED BY <3>3, <3>4, <3>5, <4>1, <4>2, StartedKinds
    <3>7. lapsed \subseteq lapsed'
      BY <3>3 DEF Lapses
    <3> QED BY <1>1, <1>4, <1>5, <2>1, <3>6, <3>7
  <2> QED BY <1>10, <2>2, <2>3 DEF CliContent
<1>11. CASE RefreshContent(w)
  <2>1. PICK l \in Leads : l = job[w].lead
    BY <1>2
  <2>2. PICK n : n = Head(l, "email")
    OBVIOUS
  <2>3. Set(w, NewJob("refresh", l, "email", n)) /\ Lapses(w, l, {"email"}, FALSE) /\ UNCHANGED rows
    BY <1>11, <2>1, <2>2 DEF RefreshContent, DB
  <2>4. PICK new : new = NewJob("refresh", l, "email", n)
    OBVIOUS
  <2>5. /\ new.pc = "generate" /\ new.op = "refresh" /\ new.lead = l
        /\ new.gen = Only("email") /\ new.source = n
    BY <2>4 DEF NewJob, NoJob
  <2>6. Started(w) /\ \A v \in Workers : v # w => job'[v] = job[v]
    BY <1>2, <2>2, <2>3, <2>4, <2>5, StartedOn, ContentAssumption DEF Singles
  <2>7. lapsed \subseteq lapsed'
    BY <2>3 DEF Lapses
  <2> QED BY <1>1, <1>4, <1>5, <2>3, <2>6, <2>7
<1>12. CASE PhaseDeliver(w)
  <2>1. DeliverTo(job[w].lead) /\ nrows' = nrows /\ Set(w, GiveUp(w)) /\ UNCHANGED lapsed
    BY <1>12 DEF PhaseDeliver, DeliverTo
  <2>2. RowsKept
    BY <2>1, DeliverKeeps
  <2> QED BY <1>1, <1>2, <1>3, <2>1, <2>2
<1> QED BY <1>7, <1>8, <1>9, <1>10, <1>11, <1>12 DEF Phase

LEMMA LoopMoves ==
  ASSUME Typed, NEW w \in Workers, Loop(w)
  PROVE  /\ Moved(w)
         /\ \A v \in Workers : v # w => job'[v] = job[v]
         /\ UNCHANGED <<prompt, enabled, off, edits>>
<1>1. UNCHANGED <<nrows, prompt, enabled, off, edits>>
  BY DEF Loop, BulkSkip, BulkGenerate, NextLead, PushNext, EndList, DB
<1>2. job[w].pc = "next" /\ ~ Generating(w) /\ job[w] \in Job
  BY DEF Loop, BulkSkip, BulkGenerate, NextLead, PushNext, EndList, Generating, Typed, TypeOK
<1>3. ASSUME NEW new, Set(w, new), new.pc # "generate", RowsKept, lapsed' = lapsed
      PROVE  Moved(w) /\ \A v \in Workers : v # w => job'[v] = job[v]
  <2>1. job'[w] = new /\ \A v \in Workers : v # w => job'[v] = job[v]
    BY <1>3, SetIs
  <2> QED BY <1>2, <1>3, <2>1 DEF Moved
<1>4. UNCHANGED rows => RowsKept
  BY <1>1 DEF RowsKept
<1>5. CASE BulkSkip(w)
  <2>1. PICK l : Set(w, [job[w] EXCEPT !.todo = @ \ {l}, !.done = @ \cup {l}])
    BY <1>5 DEF BulkSkip
  <2> DEFINE new == [job[w] EXCEPT !.todo = job[w].todo \ {l}, !.done = job[w].done \cup {l}]
  <2>2. Set(w, new) /\ new.pc = "next"
    BY <1>2, <2>1 DEF Job
  <2>3. UNCHANGED <<rows, lapsed>>
    BY <1>5 DEF BulkSkip, DB
  <2> HIDE DEF new
  <2> QED BY <1>1, <1>3, <1>4, <2>2, <2>3
<1>6. CASE BulkGenerate(w)
  <2>1. PICK l \in Leads :
          /\ Set(w, [job[w] EXCEPT !.pc = "generate", !.todo = @ \ {l}, !.lead = l,
                       !.gen = Only("email"), !.source = Head(l, "email")])
          /\ Lapses(w, l, {"email"}, FALSE)
    BY <1>2, <1>6 DEF BulkGenerate, Job
  <2>2. PICK n : n = Head(l, "email")
    OBVIOUS
  <2> DEFINE new == [job[w] EXCEPT !.pc = "generate", !.todo = job[w].todo \ {l}, !.lead = l,
                       !.gen = Only("email"), !.source = n]
  <2>3. Set(w, new)
    BY <2>1, <2>2
  <2>4. /\ new.pc = "generate" /\ new.op = "bulk" /\ new.lead = l
        /\ new.gen = Only("email") /\ new.source = n
    BY <1>2, <1>6 DEF BulkGenerate, Job
  <2>5. UNCHANGED rows /\ lapsed \subseteq lapsed'
    BY <1>6, <2>1 DEF BulkGenerate, DB, Lapses
  <2> HIDE DEF new
  <2>6. Started(w) /\ \A v \in Workers : v # w => job'[v] = job[v]
    BY <1>2, <2>1, <2>2, <2>3, <2>4, StartedOn, ContentAssumption DEF Singles
  <2> QED BY <1>1, <1>2, <1>4, <2>5, <2>6 DEF Moved
<1>7. CASE NextLead(w)
  <2>1. PICK l : Set(w, [job[w] EXCEPT !.pc = "enrich", !.lead = l, !.todo = @ \ {l}])
    BY <1>7 DEF NextLead
  <2> DEFINE new == [job[w] EXCEPT !.pc = "enrich", !.lead = l, !.todo = job[w].todo \ {l}]
  <2>2. Set(w, new) /\ new.pc = "enrich"
    BY <1>2, <2>1 DEF Job
  <2>3. UNCHANGED <<rows, lapsed>>
    BY <1>7 DEF NextLead, DB
  <2> HIDE DEF new
  <2> QED BY <1>1, <1>3, <1>4, <2>2, <2>3
<1>8. CASE PushNext(w)
  <2>1. PICK l : DeliverTo(l) /\ Set(w, [job[w] EXCEPT !.todo = @ \ {l}])
    BY <1>8 DEF PushNext
  <2> DEFINE new == [job[w] EXCEPT !.todo = job[w].todo \ {l}]
  <2>2. Set(w, new) /\ new.pc = "next"
    BY <1>2, <2>1 DEF Job
  <2>3. RowsKept
    BY <1>1, <2>1, DeliverKeeps
  <2>4. UNCHANGED lapsed
    BY <1>8 DEF PushNext
  <2> HIDE DEF new
  <2> QED BY <1>1, <1>3, <2>2, <2>3, <2>4
<1>9. CASE EndList(w)
  <2>1. Set(w, NoJob) /\ UNCHANGED <<rows, lapsed>>
    BY <1>9 DEF EndList, DB
  <2> HIDE DEF NoJob
  <2> QED BY <1>1, <1>3, <1>4, <2>1, NoJobTyped
<1> QED BY <1>5, <1>6, <1>7, <1>8, <1>9 DEF Loop

LEMMA StartMoves ==
  ASSUME Typed, NEW w \in Workers, StartJob(w)
  PROVE  /\ Moved(w)
         /\ \A v \in Workers : v # w => job'[v] = job[v]
         /\ UNCHANGED <<prompt, enabled, off, edits>>
<1>1. /\ UNCHANGED <<rows, nrows, prompt, enabled, off, edits>>
      /\ job[w].pc = "idle" /\ ~ Generating(w) /\ lapsed \subseteq lapsed'
  BY DEF StartJob, Regenerate, RedoEmail, StartRefresh, StartPush, StartBulk, StartPipeline,
         StartList, Start, Lapses, DB, Generating
<1>2. RowsKept
  BY <1>1 DEF RowsKept
<1>3. ASSUME NEW new, Set(w, new), new.pc # "generate"
      PROVE  Moved(w) /\ \A v \in Workers : v # w => job'[v] = job[v]
  <2>1. job'[w] = new /\ \A v \in Workers : v # w => job'[v] = job[v]
    BY <1>3, SetIs
  <2> QED BY <1>1, <1>2, <1>3, <2>1 DEF Moved
<1>4. ASSUME Started(w) PROVE Moved(w)
  BY <1>1, <1>2, <1>4 DEF Moved
<1>5. ASSUME NEW op, NEW ls, NEW force, StartList(w, op, ls, force)
      PROVE  Moved(w) /\ \A v \in Workers : v # w => job'[v] = job[v]
  <2> DEFINE new == [NoJob EXCEPT !.pc = "next", !.op = op, !.todo = ls, !.force = force,
               !.print = IF op = "bulk" THEN prompt ELSE NoText, !.edits = IF op = "bulk" THEN edits ELSE 0]
  <2>1. Set(w, new)
    BY <1>5 DEF StartList
  <2>2. new.pc = "next"
    BY DEF NoJob
  <2> HIDE DEF new
  <2> QED BY <1>3, <2>1, <2>2
<1>6. ASSUME NEW op \in Ops[w], NEW r \in 1 .. nrows, Regenerate(w, op, r)
      PROVE  Moved(w) /\ \A v \in Workers : v # w => job'[v] = job[v]
  <2>1. rows[r].lead \in Leads /\ rows[r].kind \in Kinds
    BY RowTyped DEF Typed, OnLead
  <2>2. PICK l \in Leads, k \in Kinds : l = rows[r].lead /\ k = rows[r].kind
    BY <2>1
  <2>3. Set(w, NewJob(op, l, k, r)) /\ Lapses(w, l, {k}, FALSE) /\ op \in {"direct", "rated"}
    BY <1>6, <2>2 DEF Regenerate
  <2>4. PICK new : new = NewJob(op, l, k, r)
    OBVIOUS
  <2>5. new.pc = "generate" /\ new.op = op /\ new.lead = l /\ new.gen = Only(k) /\ new.source = r
    BY <2>4 DEF NewJob, NoJob
  <2>6. r \in ActiveRows(l, k)
    BY <1>6, <2>2 DEF Regenerate, NotSuperseded, ActiveRows
  <2>7. Started(w) /\ \A v \in Workers : v # w => job'[v] = job[v]
    BY <1>1, <2>3, <2>4, <2>5, <2>6, StartedOn DEF Singles
  <2> QED BY <1>4, <2>7
<1>7. ASSUME NEW l \in Leads, RedoEmail(w, l)
      PROVE  Moved(w) /\ \A v \in Workers : v # w => job'[v] = job[v]
  <2>1. PICK n : n = Head(l, "email")
    OBVIOUS
  <2>2. Set(w, NewJob("redo", l, "email", n)) /\ Lapses(w, l, {"email"}, FALSE)
    BY <1>7, <2>1 DEF RedoEmail
  <2>3. PICK new : new = NewJob("redo", l, "email", n)
    OBVIOUS
  <2>4. /\ new.pc = "generate" /\ new.op = "redo" /\ new.lead = l
        /\ new.gen = Only("email") /\ new.source = n
    BY <2>3 DEF NewJob, NoJob
  <2>5. Started(w) /\ \A v \in Workers : v # w => job'[v] = job[v]
    BY <1>1, <2>1, <2>2, <2>3, <2>4, StartedOn, ContentAssumption DEF Singles
  <2> QED BY <1>4, <2>5
<1>8. ASSUME NEW l \in Leads, StartRefresh(w, l)
      PROVE  Moved(w) /\ \A v \in Workers : v # w => job'[v] = job[v]
  <2> DEFINE new == [NoJob EXCEPT !.pc = "enrich", !.op = "refresh", !.lead = l]
  <2>1. Set(w, new)
    BY <1>8 DEF StartRefresh
  <2>2. new.pc = "enrich"
    BY DEF NoJob
  <2> HIDE DEF new
  <2> QED BY <1>3, <2>1, <2>2
<1> QED BY <1>1, <1>5, <1>6, <1>7, <1>8 DEF StartJob, StartPush, StartBulk, StartPipeline

\* A job that stops under way leaves its keys lapsed.
LEMMA StopMoves ==
  ASSUME Typed, NEW w \in Workers, SupersedeFailed(w) \/ Crash(w)
  PROVE  /\ Moved(w)
         /\ \A v \in Workers : v # w => job'[v] = job[v]
         /\ UNCHANGED <<prompt, enabled, off, edits>>
<1>1. /\ UNCHANGED <<rows, nrows, prompt, enabled, off, edits>>
      /\ Set(w, ToDeliver(w)) \/ Set(w, NoJob)
      /\ lapsed \subseteq lapsed'
      /\ Generating(w) => \A k \in Ran(w) : <<job[w].lead, k>> \in lapsed'
  BY DEF SupersedeFailed, Crash
<1>2. ToDeliver(w).pc = "deliver" /\ NoJob.pc = "idle"
  <2>1. job[w] \in Job
    BY DEF Typed, TypeOK
  <2>2. NoLocals(w) \in Job
    <3>1. NoGen \in [Kinds -> Gens] /\ 0 \in 0 .. MaxRows
      BY ContentAssumption DEF NoGen, Gens
    <3> QED BY <2>1, <3>1 DEF NoLocals, Job
  <2> QED BY <2>2, NoJobTyped DEF ToDeliver, Job
<1>3. job'[w].pc \in {"deliver", "idle"} /\ \A v \in Workers : v # w => job'[v] = job[v]
  <2> HIDE DEF NoJob
  <2> QED BY <1>1, <1>2, SetIs
<1> QED BY <1>1, <1>3 DEF Moved, RowsKept

\* The steps that are not a job's.
Asides ==
  /\ RowsKept
  /\ UNCHANGED <<job, lapsed>>
  /\ off' = off \/ \E k \in Kinds : off' = off \cup {k}
  /\ edits' = edits => prompt' = prompt
  /\ edits' # edits => edits' = edits + 1
  /\ \A k \in Kinds : k \notin off' => ((k \in enabled') <=> (k \in enabled))

LEMMA AsideSteps ==
  ASSUME Typed,
         \/ UNCHANGED vars
         \/ \E r \in 1 .. nrows, rating \in Given : RecordRating(r, rating)
         \/ \E text \in Texts \ {prompt} : EditPrompt(text)
         \/ \E k \in Kinds : ToggleKind(k)
  PROVE  Asides
<1>1. CASE UNCHANGED vars
  BY <1>1 DEF vars, Asides, RowsKept
<1>2. ASSUME NEW r \in 1 .. nrows, NEW rating \in Given, RecordRating(r, rating) PROVE Asides
  <2>1. /\ rows' = [rows EXCEPT ![r] = [rows[r] EXCEPT !.rating = rating]]
        /\ UNCHANGED <<nrows, prompt, enabled, job, off, lapsed, edits>>
    BY <1>2 DEF RecordRating
  <2>2. rows \in [RowIds -> Row] /\ \A s \in 1 .. nrows : s \in RowIds /\ rows[s] \in Row
    BY RowTyped DEF Typed, TypeOK
  <2>3. ASSUME NEW s \in 1 .. nrows
        PROVE  /\ rows'[s].lead = rows[s].lead
               /\ rows'[s].kind = rows[s].kind
               /\ rows'[s].print = rows[s].print
               /\ rows'[s].sup = rows[s].sup
    <3>1. rows'[s] = rows[s] \/ rows'[s] = [rows[s] EXCEPT !.rating = rating]
      BY <2>1, <2>2
    <3> QED BY <2>2, <3>1 DEF Row
  <2> QED BY <2>1, <2>3 DEF Asides, RowsKept
<1>3. ASSUME NEW text \in Texts, EditPrompt(text) PROVE Asides
  BY <1>3, ContentAssumption DEF EditPrompt, Asides, RowsKept, Typed, TypeOK
<1>4. ASSUME NEW k \in Kinds, ToggleKind(k) PROVE Asides
  BY <1>4, ContentAssumption DEF ToggleKind, Asides, RowsKept, Typed, TypeOK
<1> QED BY <1>1, <1>2, <1>3, <1>4

\* The locals of a list that a job takes along.
LEMMA NextStatesKeep ==
  ASSUME Typed, NEW w \in Workers
  PROVE  /\ /\ ToNext(w).op = job[w].op /\ ToNext(w).print = job[w].print
            /\ ToNext(w).edits = job[w].edits /\ ToNext(w).done = job[w].done
            /\ ToNext(w).pc = "next"
         /\ /\ Done(w).op = job[w].op /\ Done(w).print = job[w].print
            /\ Done(w).edits = job[w].edits /\ Done(w).done = job[w].done \cup {job[w].lead}
            /\ Done(w).pc = "next"
         /\ /\ ToDeliver(w).op = job[w].op /\ ToDeliver(w).print = job[w].print
            /\ ToDeliver(w).edits = job[w].edits /\ ToDeliver(w).done = job[w].done
            /\ ToDeliver(w).pc = "deliver"
         /\ NoJob.op = "none" /\ NoJob.edits = 0
<1>1. job[w] \in Job
  BY DEF Typed, TypeOK
<1>2. NoLocals(w) \in Job
  <2>1. NoGen \in [Kinds -> Gens] /\ 0 \in 0 .. MaxRows
    BY ContentAssumption DEF NoGen, Gens
  <2> QED BY <1>1, <2>1 DEF NoLocals, Job
<1>3. /\ NoLocals(w).op = job[w].op /\ NoLocals(w).print = job[w].print
      /\ NoLocals(w).edits = job[w].edits /\ NoLocals(w).done = job[w].done
  BY <1>1 DEF NoLocals, Job
<1>4. /\ ToNext(w).op = job[w].op /\ ToNext(w).print = job[w].print
      /\ ToNext(w).edits = job[w].edits /\ ToNext(w).done = job[w].done
      /\ ToNext(w).pc = "next" /\ ToNext(w) \in Job
  <2>1. ToNext(w) \in Job
    BY NextStatesTyped
  <2> QED BY <1>2, <1>3, <2>1 DEF ToNext, Job
<1>5. /\ Done(w).op = job[w].op /\ Done(w).print = job[w].print
      /\ Done(w).edits = job[w].edits /\ Done(w).done = job[w].done \cup {job[w].lead}
      /\ Done(w).pc = "next"
  BY <1>4 DEF Done, Job
<1>6. /\ ToDeliver(w).op = job[w].op /\ ToDeliver(w).print = job[w].print
      /\ ToDeliver(w).edits = job[w].edits /\ ToDeliver(w).done = job[w].done
      /\ ToDeliver(w).pc = "deliver"
  BY <1>2, <1>3 DEF ToDeliver, Job
<1>7. NoJob.op = "none" /\ NoJob.edits = 0
  BY DEF NoJob
<1> QED BY <1>4, <1>5, <1>6, <1>7

\* The list a job reports from goes on as it was.
ListKept(w) ==
  /\ job[w].op = "bulk"
  /\ job'[w].edits = job[w].edits
  /\ job'[w].print = job[w].print

\* What the steps of a job do to what a bulk job reports.
Listed(w) ==
  /\ job'[w].edits \in {0, edits, job[w].edits}
  /\ job'[w].op = "bulk" =>
       \/ job'[w].done = {} /\ job'[w].print = prompt
       \/ ListKept(w) /\ job'[w].done = job[w].done
       \/ /\ ListKept(w)
          /\ \E l : HeadCurrent(l, job[w].print) /\ job'[w].done = job[w].done \cup {l}
       \/ /\ ListKept(w)
          /\ (Generating(w) /\ job[w].gen["email"] = "made") \/ "email" \in off
          /\ \E l : l = job[w].lead /\ job'[w].done = job[w].done \cup {l}

LEMMA StepListed ==
  ASSUME Typed, Chained, NEW w \in Workers,
         StartJob(w) \/ Superseding(w) \/ Phase(w) \/ Loop(w) \/ SupersedeFailed(w) \/ Crash(w)
  PROVE  Listed(w)
<1>1. job[w] \in Job
  BY DEF Typed, TypeOK
<1>2. ASSUME NEW new, Set(w, new)
      PROVE  job'[w] = new
  BY <1>2, SetIs
<1>3. ASSUME job'[w] \in {NoJob, ToNext(w), ToDeliver(w)}
      PROVE  Listed(w)
  <2> HIDE DEF NoJob
  <2> QED BY <1>3, NextStatesKeep DEF Listed, ListKept
<1>4. ASSUME job'[w].op = job[w].op, job'[w].print = job[w].print, job'[w].edits = job[w].edits,
             job'[w].done = job[w].done
      PROVE  Listed(w)
  BY <1>4 DEF Listed, ListKept
<1>5. ASSUME job'[w].op # "bulk", job'[w].edits = 0
      PROVE  Listed(w)
  BY <1>5 DEF Listed
<1>6. CASE StartJob(w)
  <2>1. ASSUME NEW op, NEW ls, NEW force, StartList(w, op, ls, force)
        PROVE  Listed(w)
    <3> DEFINE new == [NoJob EXCEPT !.pc = "next", !.op = op, !.todo = ls, !.force = force,
               !.print = IF op = "bulk" THEN prompt ELSE NoText, !.edits = IF op = "bulk" THEN edits ELSE 0]
    <3>1. Set(w, new)
      BY <2>1 DEF StartList
    <3>2. /\ new.op = op /\ new.done = {}
          /\ new.print = IF op = "bulk" THEN prompt ELSE NoText
          /\ new.edits = IF op = "bulk" THEN edits ELSE 0
      BY DEF NoJob
    <3> HIDE DEF new
    <3>3. job'[w] = new
      BY <3>1, <1>2
    <3> QED BY <3>2, <3>3 DEF Listed
  <2>2. ASSUME NEW op, op # "bulk", NEW l, NEW k, NEW source, Set(w, NewJob(op, l, k, source))
        PROVE  Listed(w)
    <3>1. PICK new : new = NewJob(op, l, k, source)
      OBVIOUS
    <3>2. new.op = op /\ new.edits = 0
      BY <3>1 DEF NewJob, NoJob
    <3>3. job'[w] = new
      BY <1>2, <2>2, <3>1
    <3> QED BY <1>5, <2>2, <3>2, <3>3
  <2>3. ASSUME NEW op, NEW r, Regenerate(w, op, r) PROVE Listed(w)
    <3>1. PICK l, k : l = rows[r].lead /\ k = rows[r].kind
      OBVIOUS
    <3>2. Set(w, NewJob(op, l, k, r)) /\ op # "bulk"
      BY <2>3, <3>1 DEF Regenerate
    <3> QED BY <2>2, <3>2
  <2>4. ASSUME NEW l, RedoEmail(w, l) PROVE Listed(w)
    <3>1. PICK n : n = Head(l, "email")
      OBVIOUS
    <3>2. Set(w, NewJob("redo", l, "email", n))
      BY <2>4, <3>1 DEF RedoEmail
    <3> QED BY <2>2, <3>2
  <2>5. ASSUME NEW l, StartRefresh(w, l) PROVE Listed(w)
    <3> DEFINE new == [NoJob EXCEPT !.pc = "enrich", !.op = "refresh", !.lead = l]
    <3>1. Set(w, new)
      BY <2>5 DEF StartRefresh
    <3>2. new.op = "refresh" /\ new.edits = 0
      BY DEF NoJob
    <3> HIDE DEF new
    <3> QED BY <1>2, <1>5, <3>1, <3>2
  <2> QED BY <1>6, <2>1, <2>3, <2>4, <2>5 DEF StartJob, StartPush, StartBulk, StartPipeline
<1>7. CASE Superseding(w)
  <2>1. CASE SupersedeSource(w)
    <3>1. Set(w, NoJob) \/ Set(w, ToNext(w)) \/ (Set(w, Done(w)) /\ job[w].op = "bulk" /\ ~ Failed(w))
      BY <2>1 DEF SupersedeSource, Settle
    <3>2. CASE Set(w, Done(w)) /\ job[w].op = "bulk" /\ ~ Failed(w)
      <4>1. job'[w] = Done(w)
        BY <1>2, <3>2
      <4>2. Generating(w) /\ Pending(w) = {}
        BY <2>1 DEF SupersedeSource, Finished
      <4>3. job[w].gen["email"] \in {"made", "none"} /\ "email" \in Kinds
        <5>1. PICK k \in Kinds : (\A i \in Kinds : (job[w].gen[i] # "off") <=> (i = k)) /\ k = "email"
          BY <3>2, <4>2 DEF Chained, Linked, Generating, Singles
        <5>2. job[w].gen["email"] \in Gens /\ job[w].gen["email"] # "off"
          BY <1>1, <5>1 DEF Job
        <5> QED BY <3>2, <4>2, <5>1, <5>2 DEF Gens, Pending, Failed
      <4>4. job[w].gen["email"] = "none" => "email" \in off
        BY <4>2, <4>3 DEF Chained, Linked, Generating
      <4> QED BY <3>2, <4>1, <4>2, <4>3, <4>4, NextStatesKeep DEF Listed, ListKept
    <3>3. CASE Set(w, NoJob) \/ Set(w, ToNext(w))
      <4> HIDE DEF NoJob
      <4> QED BY <1>2, <1>3, <3>3
    <3> QED BY <3>1, <3>2, <3>3
  <2>2. CASE SupersedeHead(w) \/ SupersedePrevious(w) \/ AfterGather(w)
    <3>1. Set(w, NoJob) \/ Set(w, ToNext(w)) \/ Set(w, ToDeliver(w))
      BY <2>2 DEF SupersedeHead, SupersedePrevious, AfterGather
    <3> HIDE DEF NoJob
    <3> QED BY <1>2, <1>3, <3>1
  <2> QED BY <1>7, <2>1, <2>2 DEF Superseding
<1>8. CASE Phase(w)
  <2>1. ASSUME NEW pc, Set(w, [job[w] EXCEPT !.pc = pc]) PROVE Listed(w)
    <3> DEFINE new == [job[w] EXCEPT !.pc = pc]
    <3>1. /\ new.op = job[w].op /\ new.print = job[w].print /\ new.edits = job[w].edits
          /\ new.done = job[w].done
      BY <1>1 DEF Job
    <3>2. Set(w, new)
      BY <2>1
    <3> HIDE DEF new
    <3> QED BY <1>2, <1>4, <3>1, <3>2
  <2>2. ASSUME NEW kinds, Set(w, [job[w] EXCEPT !.pc = "generate", !.gen = Due(kinds)]) PROVE Listed(w)
    <3> DEFINE new == [job[w] EXCEPT !.pc = "generate", !.gen = Due(kinds)]
    <3>1. /\ new.op = job[w].op /\ new.print = job[w].print /\ new.edits = job[w].edits
          /\ new.done = job[w].done
      BY <1>1 DEF Job
    <3>2. Set(w, new)
      BY <2>2
    <3> HIDE DEF new
    <3> QED BY <1>2, <1>4, <3>1, <3>2
  <2>3. ASSUME Set(w, GiveUp(w)) \/ Set(w, ToDeliver(w)) PROVE Listed(w)
    <3>1. Set(w, NoJob) \/ Set(w, ToNext(w)) \/ Set(w, ToDeliver(w))
      BY <2>3 DEF GiveUp
    <3> HIDE DEF NoJob
    <3> QED BY <1>2, <1>3, <3>1
  <2>4. CASE PhaseEnrich(w)
    BY <2>1, <2>3, <2>4 DEF PhaseEnrich
  <2>5. CASE PhaseScore(w)
    BY <2>1, <2>3, <2>5 DEF PhaseScore
  <2>6. CASE PhaseContent(w)
    BY <2>2, <2>3, <2>6 DEF PhaseContent
  <2>7. CASE CliContent(w)
    BY <2>2, <2>3, <2>7 DEF CliContent
  <2>8. CASE RefreshContent(w)
    <3>1. PICK l, n : l = job[w].lead /\ n = Head(l, "email")
      OBVIOUS
    <3>2. Set(w, NewJob("refresh", l, "email", n))
      BY <2>8, <3>1 DEF RefreshContent
    <3>3. PICK new : new = NewJob("refresh", l, "email", n)
      OBVIOUS
    <3>4. new.op = "refresh" /\ new.edits = 0
      BY <3>3 DEF NewJob, NoJob
    <3> QED BY <1>2, <1>5, <3>2, <3>3, <3>4
  <2>9. CASE PhaseDeliver(w)
    BY <2>3, <2>9 DEF PhaseDeliver
  <2> QED BY <1>8, <2>4, <2>5, <2>6, <2>7, <2>8, <2>9 DEF Phase
<1>9. CASE Loop(w)
  <2>1. CASE BulkSkip(w)
    <3>1. PICK l : /\ HeadCurrent(l, job[w].print)
                   /\ Set(w, [job[w] EXCEPT !.todo = @ \ {l}, !.done = @ \cup {l}])
      BY <2>1 DEF BulkSkip
    <3> DEFINE new == [job[w] EXCEPT !.todo = job[w].todo \ {l}, !.done = job[w].done \cup {l}]
    <3>2. /\ new.op = job[w].op /\ new.print = job[w].print /\ new.edits = job[w].edits
          /\ new.done = job[w].done \cup {l}
      BY <1>1 DEF Job
    <3>3. Set(w, new)
      BY <3>1
    <3> HIDE DEF new
    <3>4. job'[w] = new
      BY <1>2, <3>3
    <3> QED BY <2>1, <3>1, <3>2, <3>4 DEF Listed, ListKept
  <2>2. CASE BulkGenerate(w)
    <3>1. PICK l : Set(w, [job[w] EXCEPT !.pc = "generate", !.todo = @ \ {l}, !.lead = l,
                             !.gen = Only("email"), !.source = Head(l, "email")])
      BY <2>2 DEF BulkGenerate
    <3> DEFINE new == [job[w] EXCEPT !.pc = "generate", !.todo = job[w].todo \ {l}, !.lead = l,
                             !.gen = Only("email"), !.source = Head(l, "email")]
    <3>2. /\ new.op = job[w].op /\ new.print = job[w].print /\ new.edits = job[w].edits
          /\ new.done = job[w].done
      BY <1>1 DEF Job
    <3>3. Set(w, new)
      BY <3>1
    <3> HIDE DEF new
    <3> QED BY <1>2, <1>4, <3>2, <3>3
  <2>3. CASE NextLead(w)
    <3>1. PICK l : Set(w, [job[w] EXCEPT !.pc = "enrich", !.lead = l, !.todo = @ \ {l}])
      BY <2>3 DEF NextLead
    <3> DEFINE new == [job[w] EXCEPT !.pc = "enrich", !.lead = l, !.todo = job[w].todo \ {l}]
    <3>2. /\ new.op = job[w].op /\ new.print = job[w].print /\ new.edits = job[w].edits
          /\ new.done = job[w].done
      BY <1>1 DEF Job
    <3>3. Set(w, new)
      BY <3>1
    <3> HIDE DEF new
    <3> QED BY <1>2, <1>4, <3>2, <3>3
  <2>4. CASE PushNext(w)
    <3>1. PICK l : Set(w, [job[w] EXCEPT !.todo = @ \ {l}])
      BY <2>4 DEF PushNext
    <3> DEFINE new == [job[w] EXCEPT !.todo = job[w].todo \ {l}]
    <3>2. /\ new.op = job[w].op /\ new.print = job[w].print /\ new.edits = job[w].edits
          /\ new.done = job[w].done
      BY <1>1 DEF Job
    <3>3. Set(w, new)
      BY <3>1
    <3> HIDE DEF new
    <3> QED BY <1>2, <1>4, <3>2, <3>3
  <2>5. CASE EndList(w)
    <3>1. Set(w, NoJob)
      BY <2>5 DEF EndList
    <3> HIDE DEF NoJob
    <3> QED BY <1>2, <1>3, <3>1
  <2> QED BY <1>9, <2>1, <2>2, <2>3, <2>4, <2>5 DEF Loop
<1>10. CASE SupersedeFailed(w) \/ Crash(w)
  <2>1. Set(w, NoJob) \/ Set(w, ToDeliver(w))
    BY <1>10 DEF SupersedeFailed, Crash
  <2> HIDE DEF NoJob
  <2> QED BY <1>2, <1>3, <2>1
<1> QED BY <1>6, <1>7, <1>8, <1>9, <1>10

\* What any step does.
LEMMA StepDoes ==
  ASSUME Typed, Chained, [Next]_vars
  PROVE  \/ Asides
         \/ \E w \in Workers :
              /\ \/ \E k \in Kinds : Generated(w, k) /\ lapsed' = lapsed
                 \/ Superseding(w) /\ Superseded(w) /\ Listed(w) /\ lapsed' = lapsed
                 \/ Moved(w) /\ Listed(w)
              /\ \A v \in Workers : v # w => job'[v] = job[v]
              /\ UNCHANGED <<prompt, enabled, off, edits>>
<1>1. CASE \/ UNCHANGED vars
           \/ \E r \in 1 .. nrows, rating \in Given : RecordRating(r, rating)
           \/ \E text \in Texts \ {prompt} : EditPrompt(text)
           \/ \E k \in Kinds : ToggleKind(k)
  BY <1>1, AsideSteps
<1>2. ASSUME NEW w \in Workers, StartJob(w) \/ JobStep(w) \/ SupersedeFailed(w) \/ Crash(w)
      PROVE  /\ \/ \E k \in Kinds : Generated(w, k) /\ lapsed' = lapsed
                \/ Superseding(w) /\ Superseded(w) /\ Listed(w) /\ lapsed' = lapsed
                \/ Moved(w) /\ Listed(w)
             /\ \A v \in Workers : v # w => job'[v] = job[v]
             /\ UNCHANGED <<prompt, enabled, off, edits>>
  <2>1. CASE StartJob(w)
    BY <2>1, StartMoves, StepListed
  <2>2. CASE Generate(w)
    BY <2>2, GenerateDoes
  <2>3. CASE Superseding(w)
    BY <2>3, SupersedingDoes, StepListed
  <2>4. CASE Phase(w)
    BY <2>4, PhaseMoves, StepListed
  <2>5. CASE Loop(w)
    BY <2>5, LoopMoves, StepListed
  <2>6. CASE SupersedeFailed(w) \/ Crash(w)
    BY <2>6, StopMoves, StepListed
  <2> QED BY <1>2, <2>1, <2>2, <2>3, <2>4, <2>5, <2>6 DEF JobStep
<1> QED BY <1>1, <1>2 DEF Next

-----------------------------------------------------------------------------
(* HeadKept and ForwardChains hold throughout *)

\* A job that is what it was, or what a lemma speaks about.
LEMMA LinkedIs ==
  ASSUME NEW v \in Workers, NEW j, job'[v] = j, Linked(j)'
  PROVE  Linked(job[v])'
BY DEF Linked, ActiveRows

LEMMA StartedLinked ==
  ASSUME Typed, Typed', NEW w \in Workers, Started(w), RowsKept
  PROVE  Linked(job[w])'
<1>1. PICK l \in Leads :
        /\ job'[w].lead = l
        /\ job'[w].op \in Singles =>
             \E k \in Kinds :
               /\ \A i \in Kinds : (job'[w].gen[i] # "off") <=> (i = k)
               /\ job'[w].op \in {"bulk", "redo", "refresh"} => k = "email"
               /\ job'[w].source \in ActiveRows(l, k) \/ job'[w].source = Head(l, k)
  BY DEF Started
<1>2. \A i \in Kinds : job'[w].gen[i] \in {"off", "due"}
  BY DEF Started
<1>3. ASSUME NEW k \in Kinds, job'[w].source # 0,
             job'[w].source \in ActiveRows(l, k) \/ job'[w].source = Head(l, k)
      PROVE  /\ job'[w].source \in 1 .. nrows'
             /\ rows'[job'[w].source].lead = l
             /\ rows'[job'[w].source].kind = k
  <2>1. job'[w].source \in ActiveRows(l, k)
    BY <1>3, HeadIs
  <2> QED BY <2>1 DEF ActiveRows, RowsKept
<1>4. job'[w].op \in Singles =>
        \E k \in Kinds :
          /\ \A i \in Kinds : (job'[w].gen[i] # "off") <=> (i = k)
          /\ job'[w].op \in {"bulk", "redo", "refresh"} => k = "email"
          /\ job'[w].source # 0 =>
               /\ job'[w].source \in 1 .. nrows'
               /\ rows'[job'[w].source].lead = l
               /\ rows'[job'[w].source].kind = k
               /\ job'[w].gen[k] # "made"
  BY <1>1, <1>2, <1>3
<1>5. \A k \in Kinds : job'[w].gen[k] # "none"
  BY <1>2
<1> QED BY <1>1, <1>4, <1>5 DEF Linked

LEMMA GeneratedLinked ==
  ASSUME Typed, Typed', Chained, NEW w \in Workers, NEW k \in Kinds, Generated(w, k),
         off \subseteq off', enabled' = enabled
  PROVE  Linked(job[w])'
<1>1. PICK l \in Leads : l = job[w].lead
  BY GeneratingLead DEF Generated, Generating
<1>2. /\ Generating(w) /\ job[w].gen[k] \in {"due", "asked"} /\ SameLocals(w)
      /\ \A i \in Kinds : i # k => job'[w].gen[i] = job[w].gen[i]
      /\ job'[w].gen[k] \in {"made", "asked", "failed", "none"}
      /\ job'[w].gen[k] = "none" => k \notin enabled
  BY DEF Generated
<1>3. job'[w].pc = "generate" /\ job'[w].lead = l /\ job'[w].op = job[w].op /\ job'[w].source = job[w].source
  BY <1>1, <1>2 DEF Generating, SameLocals
<1>4. /\ \A i \in Kinds : job[w].gen[i] = "none" => i \in off
      /\ job[w].op \in Singles =>
           \E i \in Kinds :
             /\ \A h \in Kinds : (job[w].gen[h] # "off") <=> (h = i)
             /\ job[w].op \in {"bulk", "redo", "refresh"} => i = "email"
             /\ job[w].source # 0 =>
                  /\ job[w].source \in 1 .. nrows
                  /\ rows[job[w].source].lead = job[w].lead
                  /\ rows[job[w].source].kind = i
  BY <1>2 DEF Chained, Linked, Generating
<1>5. \A i \in Kinds : job'[w].gen[i] = "none" => i \in off'
  BY <1>2, <1>4 DEF Chained
<1>6. ASSUME job[w].op \in Singles
      PROVE  \E i \in Kinds :
               /\ \A h \in Kinds : (job'[w].gen[h] # "off") <=> (h = i)
               /\ job'[w].op \in {"bulk", "redo", "refresh"} => i = "email"
               /\ job'[w].source # 0 =>
                    /\ job'[w].source \in 1 .. nrows'
                    /\ rows'[job'[w].source].lead = l
                    /\ rows'[job'[w].source].kind = i
                    /\ job'[w].gen[i] = "made" => \E r \in ActiveRows(l, i)' : r > job'[w].source
  <2>1. PICK i \in Kinds :
             /\ \A h \in Kinds : (job[w].gen[h] # "off") <=> (h = i)
             /\ job[w].op \in {"bulk", "redo", "refresh"} => i = "email"
             /\ job[w].source # 0 =>
                  /\ job[w].source \in 1 .. nrows
                  /\ rows[job[w].source].lead = job[w].lead
                  /\ rows[job[w].source].kind = i
    BY <1>4, <1>6
  <2>2. i = k
    BY <1>2, <2>1
  <2>3. \A h \in Kinds : (job'[w].gen[h] # "off") <=> (h = i)
    BY <1>2, <2>1, <2>2
  <2>4. nrows \in Nat /\ nrows' \in {nrows, nrows + 1} /\ \A r \in 1 .. nrows : rows'[r] = rows[r]
    BY ContentAssumption DEF Generated, Inserts, Typed, TypeOK
  <2>5. job[w].source # 0 =>
                    /\ job[w].source \in 1 .. nrows'
                    /\ rows'[job[w].source].lead = l
                    /\ rows'[job[w].source].kind = i
    BY <1>1, <2>1, <2>4
  <2>6. ASSUME job[w].source # 0, job'[w].gen[i] = "made"
        PROVE  \E r \in ActiveRows(l, i)' : r > job[w].source
    <3>1. Inserts(l, i)
      BY <1>1, <2>2, <2>6 DEF Generated
    <3>2. nrows + 1 \in ActiveRows(l, i)'
      BY <3>1, InsertedRows
    <3>3. nrows + 1 > job[w].source
      BY <2>1, <2>4, <2>6
    <3> QED BY <3>2, <3>3
  <2> QED BY <1>3, <2>1, <2>3, <2>5, <2>6
<1> QED BY <1>3, <1>5, <1>6 DEF Linked, ActiveRows

LEMMA ChainedStep ==
  ASSUME Typed, Typed', Chained, [Next]_vars
  PROVE  Chained'
<1>0. Chain
  BY DEF Chained, Chain
<1>1. CASE Asides
  <2>1. PICK back \in Kinds : Points("none", {}, back)
    BY <1>1, KeptPoints, ContentAssumption DEF Asides
  <2>2. off \subseteq off'
    BY <1>1 DEF Asides
  <2>3. Chain' /\ Follows
    BY <1>0, <2>1, <2>2, PointsChain
  <2>4. ASSUME NEW v \in Workers PROVE Linked(job[v])'
    <3>1. PICK j \in Job : j = job[v]
      BY DEF Typed, TypeOK
    <3>2. Linked(j)
      BY <3>1 DEF Chained
    <3>3. Linked(j)'
      BY <2>2, <2>3, <3>2, LinkedKept
    <3>4. job'[v] = j
      BY <1>1, <3>1 DEF Asides
    <3> QED BY <3>3, <3>4, LinkedIs
  <2>5. \A k \in Kinds : (k \in enabled') \/ (k \in off')
    BY <1>1 DEF Asides, Chained
  <2> QED BY <2>3, <2>4, <2>5 DEF Chain, Chained
<1>2. ASSUME NEW w \in Workers,
             \/ \E k \in Kinds : Generated(w, k)
             \/ Superseding(w) /\ Superseded(w)
             \/ Moved(w),
             \A v \in Workers : v # w => job'[v] = job[v],
             UNCHANGED <<prompt, enabled, off, edits>>
      PROVE  Chained'
  <2>1. off \subseteq off' /\ enabled' = enabled /\ off' = off
    BY <1>2
  <2>2. Chain' /\ Follows
    <3>1. CASE \E k \in Kinds : Generated(w, k)
      <4>1. PICK k \in Kinds : Generated(w, k)
        BY <3>1
      <4>2. PICK l : l = job[w].lead
        OBVIOUS
      <4>3. CASE Inserts(l, k)
        BY <1>0, <2>1, <4>3, InsertsChain
      <4>4. CASE UNCHANGED <<rows, nrows>>
        <5>1. RowsKept
          BY <4>4 DEF RowsKept
        <5>2. Points(l, {}, k)
          BY <5>1, KeptPoints
        <5> QED BY <1>0, <2>1, <5>2, PointsChain
      <4> QED BY <4>1, <4>2, <4>3, <4>4 DEF Generated
    <3>2. CASE Superseded(w)
      <4>1. PICK l, kinds, back : Points(l, kinds, back)
        BY <3>2 DEF Superseded
      <4> QED BY <1>0, <2>1, <4>1, PointsChain
    <3>3. CASE Moved(w)
      <4>1. PICK l, kinds, back : Points(l, kinds, back)
        BY <3>3, KeptPoints DEF Moved
      <4> QED BY <1>0, <2>1, <4>1, PointsChain
    <3> QED BY <1>2, <3>1, <3>2, <3>3
  <2>3. ASSUME NEW v \in Workers, v # w PROVE Linked(job[v])'
    <3>1. PICK j \in Job : j = job[v]
      BY DEF Typed, TypeOK
    <3>2. Linked(j)
      BY <3>1 DEF Chained
    <3>3. Linked(j)'
      BY <2>1, <2>2, <3>2, LinkedKept
    <3>4. job'[v] = j
      BY <1>2, <2>3, <3>1
    <3> QED BY <3>3, <3>4, LinkedIs
  <2>4. Linked(job[w])'
    <3>1. CASE \E k \in Kinds : Generated(w, k)
      BY <2>1, <3>1, GeneratedLinked
    <3>2. CASE job'[w].pc # "generate"
      BY <3>2 DEF Linked
    <3>3. CASE Started(w) /\ RowsKept
      BY <3>3, StartedLinked
    <3>4. Superseded(w) => job'[w].pc # "generate"
      BY DEF Superseded
    <3> QED BY <1>2, <3>1, <3>2, <3>3, <3>4 DEF Moved
  <2>5. \A k \in Kinds : (k \in enabled') \/ (k \in off')
    BY <2>1 DEF Chained
  <2> QED BY <2>2, <2>3, <2>4, <2>5 DEF Chain, Chained
<1> QED BY <1>1, <1>2, StepDoes

-----------------------------------------------------------------------------
(* OneHead: its inductive invariant *)

\* The worker has a generator of the key under way, or its pointer to set.
Working(w, l, k) == Generating(w) /\ job[w].lead = l /\ k \in Ran(w)

One(S) == \A r, s \in S : r = s

\* What the job found of a key: nothing if it is plain, its source if it is single.
Found(j, S) ==
  /\ One(S)
  /\ Plain(j) => S = {}
  /\ j.op \in Singles => S \subseteq {j.source}

\* The job's own row, once made, is the newest active one beside what it found.
Beside(j, k, S) ==
  IF j.gen[k] = "made" THEN \E m \in S : (\A r \in S : r <= m) /\ Found(j, S \ {m})
  ELSE Found(j, S)

HeadAlone ==
  \A l \in Leads, k \in Kinds : <<l, k>> \notin lapsed =>
    /\ \A v, w \in Workers : Working(v, l, k) /\ Working(w, l, k) => v = w
    /\ (\A w \in Workers : ~ Working(w, l, k)) => One(ActiveRows(l, k))
    /\ \A w \in Workers : Working(w, l, k) => Beside(job[w], k, ActiveRows(l, k))

\* Fewer rows are as alone as the rows were.
LEMMA FewerAlone ==
  ASSUME NEW S, NEW T, One(S), T \subseteq S
  PROVE  One(T)
BY DEF One

\* A job that has started its own row found an active row set by itself.
LEMMA StartedFound ==
  ASSUME Typed, Typed', NEW w \in Workers, Started(w), RowsKept,
         NEW l \in Leads, NEW k \in Kinds, <<l, k>> \notin lapsed',
         job'[w].lead = l, job'[w].gen[k] # "off", One(ActiveRows(l, k))
  PROVE  ~ Overlaps(w, l, k) /\ Beside(job'[w], k, ActiveRows(l, k))
<1>1. /\ job'[w].gen[k] \in {"off", "due"}
      /\ job'[w].op \in Singles =>
           \E i \in Kinds :
             /\ \A h \in Kinds : (job'[w].gen[h] # "off") <=> (h = i)
             /\ job'[w].source \in ActiveRows(l, i) \/ job'[w].source = Head(l, i)
      /\ ~ (Overlaps(w, l, k) \/ (Plain(job'[w]) /\ Head(l, k) # 0))
  BY DEF Started
<1>2. Plain(job'[w]) => ActiveRows(l, k) = {}
  BY <1>1, HeadIs
<1>3. ASSUME job'[w].op \in Singles PROVE ActiveRows(l, k) \subseteq {job'[w].source}
  <2>1. job'[w].source \in ActiveRows(l, k) \/ job'[w].source = Head(l, k)
    BY <1>1, <1>3
  <2>2. ActiveRows(l, k) # {} => job'[w].source \in ActiveRows(l, k)
    BY <2>1, HeadIs
  <2> QED BY <2>2 DEF One
<1> QED BY <1>1, <1>2, <1>3 DEF Beside, Found

\* The job's pointers leave one active row of each kind it worked on.
LEMMA SupersededAlone ==
  ASSUME Typed, Typed', Chained, NEW w \in Workers, Superseding(w), Superseded(w),
         NEW l \in Leads, NEW k \in Kinds, Working(w, l, k), Beside(job[w], k, ActiveRows(l, k))
  PROVE  One(ActiveRows(l, k)')
<1>1. Generating(w) /\ job[w].lead = l /\ job[w].gen[k] # "off" /\ k \in Ran(w)
  BY DEF Working, Ran
<1>2. ActiveRows(l, k)' \subseteq ActiveRows(l, k)
  <2>1. PICK kinds, back : Points(l, kinds, back)
    BY <1>1 DEF Superseded
  <2> QED BY <2>1, PointedRows
<1>3. nrows \in Nat /\ nrows' = nrows /\ \A r \in ActiveRows(l, k) : r \in RowIds /\ r \in Nat /\ r # 0
  <2>1. nrows' = nrows
    BY DEF Superseded, Points
  <2> QED BY <2>1, RowTyped, ContentAssumption DEF ActiveRows, Typed, TypeOK
<1>4. CASE job[w].gen[k] # "made"
  <2>1. One(ActiveRows(l, k))
    BY <1>4 DEF Beside, Found
  <2> QED BY <1>2, <2>1, FewerAlone
<1>5. ASSUME job[w].gen[k] = "made", NEW m \in ActiveRows(l, k), \A r \in ActiveRows(l, k) : r <= m,
             Found(job[w], ActiveRows(l, k) \ {m}),
             NEW r \in ActiveRows(l, k)', NEW s \in ActiveRows(l, k)', r # s
      PROVE  FALSE
  <2>1. PICK o \in {r, s} : o \in ActiveRows(l, k) \ {m} /\ o \in ActiveRows(l, k)'
    BY <1>2, <1>5
  <2>2. /\ ~ Plain(job[w])
        /\ ActiveRows(l, k) = {o, m}
        /\ o \in ActiveRows(l, k) /\ o # m
        /\ job[w].op \in Singles => job[w].source = o
    BY <1>5, <2>1 DEF Found, One
  <2>3. rows'[o].sup = 0
    BY <2>1 DEF ActiveRows
  <2>4. Head(l, k) = m
    <3>1. Head(l, k) \in ActiveRows(l, k) /\ m <= Head(l, k)
      BY <1>5, HeadIs
    <3> QED BY <1>3, <1>5, <3>1
  <2>5. o \in RowIds /\ m \in RowIds /\ o # 0 /\ m # 0 /\ rows[o].sup = 0 /\ rows[o].kind = k
    BY <1>3, <1>5, <2>1 DEF ActiveRows
  <2>6. ASSUME NEW new, new # 0, rows' = [rows EXCEPT ![o] = [rows[o] EXCEPT !.sup = new]]
        PROVE  FALSE
    <3>1. rows \in [RowIds -> Row] /\ rows[o] \in Row
      BY <2>5 DEF Typed, TypeOK
    <3>2. rows'[o] = [rows[o] EXCEPT !.sup = new]
      BY <2>5, <2>6, <3>1
    <3>3. rows'[o].sup = new
      BY <3>1, <3>2 DEF Row
    <3> QED BY <2>3, <2>6, <3>3
  <2>7. ASSUME job[w].op \in Singles
        PROVE  ~ Failed(w) /\ Kind(w) = k
    <3>1. PICK i \in Kinds : \A h \in Kinds : (job[w].gen[h] # "off") <=> (h = i)
      BY <1>1, <2>7 DEF Chained, Linked, Generating
    <3>2. i = k /\ Ran(w) = {k}
      BY <1>1, <3>1 DEF Ran
    <3>3. Kind(w) = k
      BY <3>2 DEF Kind
    <3>4. ~ Failed(w)
      BY <1>5, <3>1, <3>2 DEF Failed
    <3> QED BY <3>3, <3>4
  <2>8. CASE SupersedeSource(w)
    <3>1. job[w].op \in Singles
      BY <2>8 DEF SupersedeSource, Finished, Singles
    <3>2. job[w].source = o /\ ~ Failed(w) /\ Kind(w) = k
      BY <2>2, <2>7, <3>1
    <3>3. Replacement(l, k, o) # 0
      <4>1. m \in ActiveRows(l, k) \ {o}
        BY <1>5, <2>2
      <4> QED BY <4>1, ReplacementIs
    <3>4. Supersede(o, Replacement(l, k, o))
      BY <1>1, <2>5, <2>8, <3>2, <3>3 DEF SupersedeSource
    <3>5. PICK new : new = Replacement(l, k, o)
      OBVIOUS
    <3>6. rows' = [rows EXCEPT ![o] = [rows[o] EXCEPT !.sup = new]]
      BY <3>4, <3>5 DEF Supersede
    <3> QED BY <2>6, <3>3, <3>5, <3>6
  <2>9. CASE SupersedeHead(w)
    <3>1. job[w].op \in {"redo", "refresh"} /\ job[w].op \in Singles
      BY <2>9 DEF SupersedeHead, Finished, Singles
    <3>2. job[w].source = o /\ ~ Failed(w)
      BY <2>2, <2>7, <3>1
    <3>3. k = "email"
      BY <1>1, <3>1 DEF Chained, Linked, Generating
    <3>4. Supersede(o, m)
      BY <1>1, <2>2, <2>4, <2>5, <2>9, <3>2, <3>3 DEF SupersedeHead
    <3>5. rows' = [rows EXCEPT ![o] = [rows[o] EXCEPT !.sup = m]]
      BY <3>4 DEF Supersede
    <3> QED BY <2>5, <2>6, <3>5
  <2>10. CASE SupersedePrevious(w)
    <3>1. job[w].op = "pipeline" /\ job[w].force
      BY <2>2, <2>10 DEF SupersedePrevious, Finished, Plain
    <3>2. /\ Previous(l, k) = <<0, 0>> => FALSE
          /\ Previous(l, k)[1] = o /\ Previous(l, k)[2] = m
      <4>1. Replacement(l, k, m) # 0 /\ Replacement(l, k, m) \in ActiveRows(l, k) \ {m}
        BY <2>1, ReplacementIs
      <4>2. Replacement(l, k, m) = o
        BY <2>2, <4>1
      <4>3. Replacement(l, k, Head(l, k)) = o
        BY <2>4, <4>2
      <4> QED BY <2>4, <2>5, <4>3 DEF Previous
    <3>3. rows'[o] = [rows[o] EXCEPT !.sup = Previous(l, k)[2]]
      BY <1>1, <1>5, <2>5, <2>10, <3>1, <3>2 DEF SupersedePrevious
    <3>4. rows'[o] = [rows[o] EXCEPT !.sup = m] /\ rows[o] \in Row
      BY <2>5, <3>2, <3>3 DEF Typed, TypeOK
    <3>5. rows'[o].sup = m
      BY <3>4 DEF Row
    <3> QED BY <2>3, <2>5, <3>5
  <2>11. CASE AfterGather(w)
    BY <2>2, <2>11 DEF AfterGather, Finished, Plain
  <2> QED BY <2>8, <2>9, <2>10, <2>11 DEF Superseding
<1>6. CASE job[w].gen[k] = "made"
  <2>1. PICK m \in ActiveRows(l, k) :
          (\A r \in ActiveRows(l, k) : r <= m) /\ Found(job[w], ActiveRows(l, k) \ {m})
    BY <1>6 DEF Beside
  <2>2. ASSUME NEW r \in ActiveRows(l, k)', NEW s \in ActiveRows(l, k)', r # s PROVE FALSE
    BY <1>5, <1>6, <2>1, <2>2
  <2> QED BY <2>2 DEF One
<1> QED BY <1>4, <1>6

\* A worker whose job is untouched works on the keys it worked on.
LEMMA WorkingSame ==
  ASSUME NEW v \in Workers, job'[v] = job[v], NEW l, NEW k
  PROVE  (Working(v, l, k)') <=> Working(v, l, k)
BY DEF Working, Generating, Ran

\* HeadAlone, one key at a time.
KeyAlone(l, k) ==
  /\ \A v, w \in Workers : Working(v, l, k) /\ Working(w, l, k) => v = w
  /\ (\A w \in Workers : ~ Working(w, l, k)) => One(ActiveRows(l, k))
  /\ \A w \in Workers : Working(w, l, k) => Beside(job[w], k, ActiveRows(l, k))

\* Nothing of the key has changed: not its rows, not who works on it.
LEMMA KeyUntouched ==
  ASSUME NEW l, NEW k, KeyAlone(l, k), ActiveRows(l, k)' = ActiveRows(l, k),
         \A v \in Workers : Working(v, l, k)' => Working(v, l, k) /\ job'[v] = job[v],
         \A v \in Workers : Working(v, l, k) => Working(v, l, k)'
  PROVE  KeyAlone(l, k)'
<1>1. \A v, w \in Workers : Working(v, l, k)' /\ Working(w, l, k)' => v = w
  BY DEF KeyAlone
<1>2. (\A w \in Workers : ~ Working(w, l, k)') => One(ActiveRows(l, k))
  BY DEF KeyAlone
<1>3. \A w \in Workers : Working(w, l, k)' => Beside(job'[w], k, ActiveRows(l, k))
  BY DEF KeyAlone
<1> QED BY <1>1, <1>2, <1>3 DEF KeyAlone

LEMMA GeneratedAlone ==
  ASSUME Typed, Typed', NEW w \in Workers, NEW i \in Kinds, Generated(w, i),
         \A v \in Workers : v # w => job'[v] = job[v],
         NEW l \in Leads, NEW k \in Kinds, KeyAlone(l, k)
  PROVE  KeyAlone(l, k)'
<1>1. /\ Generating(w) /\ job[w].gen[i] \in {"due", "asked"} /\ SameLocals(w)
      /\ \A h \in Kinds : h # i => job'[w].gen[h] = job[w].gen[h]
      /\ job'[w].gen[i] \in {"made", "asked", "failed", "none"}
  BY DEF Generated
<1>2. (Working(w, l, k)') <=> Working(w, l, k)
  BY <1>1 DEF Working, Generating, Ran, SameLocals
<1>3. \A v \in Workers : (Working(v, l, k)') <=> Working(v, l, k)
  BY <1>2, WorkingSame
<1>4. CASE ~ Working(w, l, k) \/ i # k
  <2>1. job[w].lead # l \/ i # k
    BY <1>1, <1>4 DEF Working, Ran
  <2>2. ActiveRows(l, k)' = ActiveRows(l, k)
    <3>1. CASE UNCHANGED <<rows, nrows>>
      BY <3>1 DEF ActiveRows
    <3>2. CASE Inserts(job[w].lead, i)
      <4>1. PICK a : a = job[w].lead
        OBVIOUS
      <4>2. Inserts(a, i)
        BY <3>2, <4>1 DEF Inserts
      <4> QED BY <2>1, <4>1, <4>2, InsertedRows
    <3> QED BY <3>1, <3>2 DEF Generated
  <2>3. CASE ~ Working(w, l, k)
    BY <1>3, <2>2, <2>3, KeyUntouched
  <2>4. CASE i # k
    <3>1. job'[w].gen[k] = job[w].gen[k] /\ job'[w].op = job[w].op
          /\ job'[w].force = job[w].force /\ job'[w].source = job[w].source
      BY <1>1, <2>4 DEF SameLocals
    <3>2. ASSUME NEW v \in Workers, Working(v, l, k)'
          PROVE  Beside(job'[v], k, ActiveRows(l, k))
      <4>1. Beside(job[v], k, ActiveRows(l, k))
        BY <1>3, <3>2 DEF KeyAlone
      <4>2. CASE v = w
        BY <3>1, <4>1, <4>2 DEF Beside, Found, Plain
      <4> QED BY <4>1, <4>2
    <3>3. \A u, v \in Workers : Working(u, l, k)' /\ Working(v, l, k)' => u = v
      BY <1>3 DEF KeyAlone
    <3>4. (\A v \in Workers : ~ Working(v, l, k)') => One(ActiveRows(l, k))
      BY <1>3 DEF KeyAlone
    <3> QED BY <2>2, <3>2, <3>3, <3>4 DEF KeyAlone
  <2> QED BY <1>4, <2>3, <2>4
<1>5. CASE Working(w, l, k) /\ i = k
  <2>1. job[w].lead = l
    BY <1>5 DEF Working
  <2>2. Found(job[w], ActiveRows(l, k))
    <3>1. Beside(job[w], k, ActiveRows(l, k)) /\ job[w].gen[k] # "made"
      BY <1>1, <1>5 DEF KeyAlone
    <3> QED BY <3>1 DEF Beside
  <2>3. Found(job'[w], ActiveRows(l, k))
    BY <1>1, <2>2 DEF Found, Plain, SameLocals
  <2>4. Beside(job'[w], k, ActiveRows(l, k)')
    <3>1. CASE job'[w].gen[k] = "made"
      <4>1. Inserts(l, k)
        BY <1>5, <2>1, <3>1 DEF Generated, Inserts
      <4>2. ActiveRows(l, k)' = ActiveRows(l, k) \cup {nrows + 1}
        BY <4>1, InsertedRows
      <4>3. nrows \in Nat /\ \A r \in ActiveRows(l, k) : r <= nrows + 1 /\ r # nrows + 1
        BY ContentAssumption DEF ActiveRows, Typed, TypeOK
      <4>4. PICK m \in ActiveRows(l, k)' : m = nrows + 1
        BY <4>2
      <4>5. \A r \in ActiveRows(l, k)' : r <= m
        BY <4>2, <4>3, <4>4
      <4>6. ActiveRows(l, k)' \ {m} = ActiveRows(l, k)
        BY <4>2, <4>3, <4>4
      <4> QED BY <2>3, <3>1, <4>4, <4>5, <4>6 DEF Beside
    <3>2. CASE job'[w].gen[k] # "made"
      <4>1. UNCHANGED <<rows, nrows>>
        BY <1>5, <3>2 DEF Generated
      <4>2. ActiveRows(l, k)' = ActiveRows(l, k)
        BY <4>1 DEF ActiveRows
      <4> QED BY <2>3, <3>2, <4>2 DEF Beside
    <3> QED BY <3>1, <3>2
  <2>5. \A v \in Workers : Working(v, l, k)' => v = w
    BY <1>3, <1>5 DEF KeyAlone
  <2>6. \A u, v \in Workers : Working(u, l, k)' /\ Working(v, l, k)' => u = v
    BY <2>5
  <2>7. \E v \in Workers : Working(v, l, k)'
    BY <1>2, <1>5
  <2>8. \A v \in Workers : Working(v, l, k)' => Beside(job'[v], k, ActiveRows(l, k)')
    BY <2>4, <2>5
  <2> QED BY <2>6, <2>7, <2>8 DEF KeyAlone
<1> QED BY <1>4, <1>5

LEMMA HeadAloneStep ==
  ASSUME Typed, Typed', Chained, HeadAlone, [Next]_vars
  PROVE  HeadAlone'
<1> SUFFICES ASSUME NEW l \in Leads, NEW k \in Kinds, <<l, k>> \notin lapsed'
             PROVE  KeyAlone(l, k)'
  BY DEF HeadAlone, KeyAlone
<1>1. <<l, k>> \notin lapsed => KeyAlone(l, k)
  BY DEF HeadAlone, KeyAlone
<1>2. ASSUME RowsKept PROVE ActiveRows(l, k)' = ActiveRows(l, k)
  BY <1>2 DEF RowsKept, ActiveRows
<1>3. CASE Asides
  <2>1. RowsKept /\ job' = job /\ lapsed' = lapsed
    BY <1>3 DEF Asides
  <2>2. \A v \in Workers : (Working(v, l, k)') <=> Working(v, l, k)
    BY <2>1, WorkingSame
  <2> QED BY <1>1, <1>2, <2>1, <2>2, KeyUntouched
<1>4. ASSUME NEW w \in Workers,
             \/ \E i \in Kinds : Generated(w, i) /\ lapsed' = lapsed
             \/ Superseding(w) /\ Superseded(w) /\ lapsed' = lapsed
             \/ Moved(w),
             \A v \in Workers : v # w => job'[v] = job[v]
      PROVE  KeyAlone(l, k)'
  <2>1. KeyAlone(l, k)
    BY <1>1, <1>4 DEF Moved
  <2>2. \A v \in Workers : v # w => (Working(v, l, k)' <=> Working(v, l, k))
    BY <1>4, WorkingSame
  <2>3. CASE \E i \in Kinds : Generated(w, i)
    BY <1>4, <2>1, <2>3, GeneratedAlone
  <2>4. CASE Superseding(w) /\ Superseded(w)
    <3>1. ~ Working(w, l, k)'
      BY <2>4 DEF Superseded, Working, Generating
    <3>2. CASE Working(w, l, k)
      <4>1. \A v \in Workers : ~ Working(v, l, k)'
        BY <2>1, <2>2, <3>1, <3>2 DEF KeyAlone
      <4>2. One(ActiveRows(l, k)')
        BY <2>1, <2>4, <3>2, SupersededAlone DEF KeyAlone
      <4> QED BY <4>1, <4>2 DEF KeyAlone
    <3>3. CASE ~ Working(w, l, k)
      <4>1. ActiveRows(l, k)' = ActiveRows(l, k)
        <5>1. PICK a, kinds, back : Points(a, kinds, back) /\ a = job[w].lead /\ kinds = Ran(w)
          BY <2>4 DEF Superseded
        <5>2. ~ (l = a /\ k \in kinds)
          BY <2>4, <3>3, <5>1 DEF Working, Superseded
        <5>3. /\ ActiveRows(l, k)' \subseteq ActiveRows(l, k)
              /\ \A r \in ActiveRows(l, k) \ ActiveRows(l, k)' : l = a /\ k \in kinds
          BY <5>1, PointedRows
        <5> QED BY <5>2, <5>3
      <4> QED BY <1>4, <2>1, <2>2, <3>1, <3>3, <4>1, KeyUntouched
    <3> QED BY <3>2, <3>3
  <2>5. CASE Moved(w)
    <3>1. ActiveRows(l, k)' = ActiveRows(l, k)
      BY <1>2, <2>5 DEF Moved
    <3>2. ~ Working(w, l, k)
      BY <2>5 DEF Moved, Working
    <3>3. CASE ~ Working(w, l, k)'
      BY <1>4, <2>1, <2>2, <3>1, <3>2, <3>3, KeyUntouched
    <3>4. CASE Working(w, l, k)'
      <4>1. Started(w) /\ RowsKept /\ job'[w].lead = l /\ job'[w].gen[k] # "off"
        BY <2>5, <3>4 DEF Moved, Working, Generating, Ran
      <4>2. ASSUME NEW v \in Workers, v # w, Working(v, l, k) PROVE FALSE
        <5>1. Overlaps(w, l, k)
          BY <4>2 DEF Overlaps, Working
        <5>2. PICK a \in Leads :
                /\ job'[w].lead = a
                /\ \A i \in Kinds : job'[w].gen[i] # "off" /\ Overlaps(w, a, i) => <<a, i>> \in lapsed'
          BY <4>1 DEF Started
        <5> QED BY <4>1, <5>1, <5>2
      <4>3. \A v \in Workers : ~ Working(v, l, k)
        BY <3>2, <4>2
      <4>4. One(ActiveRows(l, k))
        BY <2>1, <4>3 DEF KeyAlone
      <4>5. Beside(job'[w], k, ActiveRows(l, k))
        BY <4>1, <4>4, StartedFound
      <4>6. \A v \in Workers : Working(v, l, k)' => v = w
        BY <2>2, <4>3
      <4>7. \A u, v \in Workers : Working(u, l, k)' /\ Working(v, l, k)' => u = v
        BY <4>6
      <4>8. \A v \in Workers : Working(v, l, k)' => Beside(job'[v], k, ActiveRows(l, k)')
        BY <3>1, <4>5, <4>6
      <4> QED BY <3>4, <4>7, <4>8 DEF KeyAlone
    <3> QED BY <3>3, <3>4
  <2> QED BY <1>4, <2>3, <2>4, <2>5
<1> QED BY <1>3, <1>4, StepDoes

-----------------------------------------------------------------------------
(* What a bulk regenerate reports *)

\* While nobody edits the prompt, it is the one the job began with; and while
\* email was never off, each lead the job reports shows a row of that prompt,
\* and so does the lead whose row it has just made.
Reported(j) ==
  /\ j.edits <= edits
  /\ j.op = "bulk" /\ j.edits = edits =>
       /\ prompt = j.print
       /\ "email" \notin off =>
            /\ \A l \in j.done : HeadCurrent(l, prompt)
            /\ j.pc = "generate" /\ j.gen["email"] = "made" => HeadCurrent(j.lead, prompt)

Reports == \A w \in Workers : Reported(job[w])

\* A lead that shows a row of the prompt goes on to show one, while email was
\* never off: a new head is stamped with the prompt, and pointers move no head.
LEMMA InsertsCurrent ==
  ASSUME Typed, Typed', NEW l, NEW k, Inserts(l, k), prompt' = prompt,
         NEW a, HeadCurrent(a, prompt) \/ (a = l /\ k = "email")
  PROVE  HeadCurrent(a, prompt)'
<1>1. nrows \in Nat
  BY ContentAssumption DEF Typed, TypeOK
<1>2. CASE a = l /\ k = "email"
  <2>1. Head(a, "email")' = nrows + 1
    BY <1>2, InsertedHead
  <2> QED BY <1>1, <1>2, <2>1 DEF HeadCurrent, Inserts
<1>3. CASE ~ (a = l /\ k = "email")
  <2>1. Head(a, "email")' = Head(a, "email")
    BY <1>3, InsertedHead
  <2>2. Head(a, "email") # 0 /\ rows[Head(a, "email")].print = prompt
    BY <1>3 DEF HeadCurrent
  <2>3. Head(a, "email") \in 1 .. nrows
    BY <2>2, HeadIs DEF ActiveRows
  <2>4. rows'[Head(a, "email")] = rows[Head(a, "email")]
    BY <2>3 DEF Inserts
  <2> QED BY <2>1, <2>2, <2>4 DEF HeadCurrent
<1> QED BY <1>2, <1>3

LEMMA PointsCurrent ==
  ASSUME Typed, Typed', NEW l, NEW kinds, NEW back, Points(l, kinds, back), prompt' = prompt,
         "email" \notin off, NEW a, HeadCurrent(a, prompt)
  PROVE  HeadCurrent(a, prompt)'
<1>1. Head(a, "email")' = Head(a, "email")
  BY PointedHead
<1>2. Head(a, "email") # 0 /\ rows[Head(a, "email")].print = prompt
  BY DEF HeadCurrent
<1>3. Head(a, "email") \in 1 .. nrows
  BY <1>2, HeadIs DEF ActiveRows
<1>4. rows'[Head(a, "email")].print = rows[Head(a, "email")].print
  BY <1>3 DEF Points
<1> QED BY <1>1, <1>2, <1>4 DEF HeadCurrent

\* No step takes its row of the prompt from a lead.
CurrentKept ==
  \A a : HeadCurrent(a, prompt) /\ "email" \notin off /\ prompt' = prompt => HeadCurrent(a, prompt)'

LEMMA ReportedKept ==
  ASSUME Typed, Typed', NEW j \in Job, Reported(j), CurrentKept, off \subseteq off',
         edits' = edits \/ edits' = edits + 1, edits' = edits => prompt' = prompt
  PROVE  Reported(j)'
<1>1. edits \in Nat /\ j.edits \in Nat
  BY ContentAssumption DEF Typed, TypeOK, Job
<1>2. j.edits <= edits'
  BY <1>1 DEF Reported
<1>3. ASSUME j.op = "bulk", j.edits = edits'
      PROVE  /\ prompt' = j.print
             /\ "email" \notin off' =>
                  /\ \A l \in j.done : HeadCurrent(l, prompt)'
                  /\ j.pc = "generate" /\ j.gen["email"] = "made" => HeadCurrent(j.lead, prompt)'
  <2>1. edits' = edits /\ j.edits = edits /\ prompt' = prompt
    BY <1>1, <1>3 DEF Reported
  <2>2. prompt = j.print /\ ("email" \notin off =>
                  /\ \A l \in j.done : HeadCurrent(l, prompt)
                  /\ j.pc = "generate" /\ j.gen["email"] = "made" => HeadCurrent(j.lead, prompt))
    BY <1>3, <2>1 DEF Reported
  <2> QED BY <2>1, <2>2 DEF CurrentKept
<1> QED BY <1>2, <1>3 DEF Reported

\* The same for the job that took the step: its list, and its own row.
LEMMA ReportedIs ==
  ASSUME Typed, Typed', NEW w \in Workers, Reported(job[w]), CurrentKept,
         off' = off, edits' = edits, prompt' = prompt,
         NEW j \in Job, j = job'[w], Listed(w), j.pc = "generate" => j.gen["email"] # "made"
  PROVE  Reported(j)'
<1>1. edits \in Nat
  BY ContentAssumption DEF Typed, TypeOK
<1>2. j.edits <= edits
  BY <1>1 DEF Listed, Reported
<1>3. ASSUME j.op = "bulk", j.edits = edits
      PROVE  prompt = j.print /\ ("email" \notin off => \A l \in j.done : HeadCurrent(l, prompt))
  <2>1. CASE j.done = {} /\ j.print = prompt
    BY <2>1
  <2>2. ASSUME ListKept(w)
        PROVE  /\ prompt = j.print /\ prompt = job[w].print
               /\ "email" \notin off => \A l \in job[w].done : HeadCurrent(l, prompt)
               /\ "email" \notin off /\ Generating(w) /\ job[w].gen["email"] = "made"
                    => HeadCurrent(job[w].lead, prompt)
    BY <1>3, <2>2 DEF ListKept, Reported, Generating
  <2>3. CASE ListKept(w) /\ j.done = job[w].done
    BY <2>2, <2>3
  <2>4. CASE ListKept(w) /\ \E l : HeadCurrent(l, job[w].print) /\ j.done = job[w].done \cup {l}
    BY <2>2, <2>4
  <2>5. CASE /\ ListKept(w)
             /\ (Generating(w) /\ job[w].gen["email"] = "made") \/ "email" \in off
             /\ \E l : l = job[w].lead /\ j.done = job[w].done \cup {l}
    BY <2>2, <2>5
  <2> QED BY <1>3, <2>1, <2>3, <2>4, <2>5 DEF Listed
<1>4. ASSUME j.op = "bulk", j.edits = edits', "email" \notin off'
      PROVE  \A l \in j.done : HeadCurrent(l, prompt)'
  BY <1>3, <1>4 DEF CurrentKept
<1> QED BY <1>2, <1>3, <1>4 DEF Reported

LEMMA ReportedNow ==
  ASSUME NEW v \in Workers, NEW j, job'[v] = j, Reported(j)'
  PROVE  Reported(job[v])'
BY DEF Reported, HeadCurrent, Head, ActiveRows

LEMMA ReportsStep ==
  ASSUME Typed, Typed', Chained, Reports, [Next]_vars
  PROVE  Reports'
<1>1. ASSUME NEW l, NEW kinds, NEW back, Points(l, kinds, back) PROVE CurrentKept
  BY <1>1, PointsCurrent DEF CurrentKept
<1>2. RowsKept => CurrentKept
  BY <1>1, KeptPoints
<1>3. ASSUME NEW v \in Workers, job'[v] = job[v], CurrentKept, off \subseteq off',
             edits' = edits \/ edits' = edits + 1, edits' = edits => prompt' = prompt
      PROVE  Reported(job[v])'
  <2>1. PICK j \in Job : j = job[v]
    BY DEF Typed, TypeOK
  <2>2. Reported(j)
    BY <2>1 DEF Reports
  <2>3. Reported(j)'
    BY <1>3, <2>2, ReportedKept
  <2> QED BY <1>3, <2>1, <2>3, ReportedNow
<1>4. CASE Asides
  <2>1. /\ RowsKept /\ off \subseteq off' /\ job' = job
        /\ edits' = edits \/ edits' = edits + 1
        /\ edits' = edits => prompt' = prompt
    BY <1>4 DEF Asides
  <2> QED BY <1>2, <1>3, <2>1 DEF Reports
<1>5. ASSUME NEW w \in Workers,
             \/ \E k \in Kinds : Generated(w, k)
             \/ Superseded(w) /\ Listed(w)
             \/ Moved(w) /\ Listed(w),
             \A v \in Workers : v # w => job'[v] = job[v],
             UNCHANGED <<prompt, off, edits>>
      PROVE  Reports'
  <2>1. CurrentKept
    <3>1. CASE \E k \in Kinds : Generated(w, k)
      <4>1. PICK k \in Kinds : Generated(w, k)
        BY <3>1
      <4>2. PICK l : l = job[w].lead
        OBVIOUS
      <4>3. CASE Inserts(l, k)
        BY <1>5, <4>3, InsertsCurrent DEF CurrentKept
      <4>4. CASE UNCHANGED <<rows, nrows>>
        BY <1>2, <4>4 DEF RowsKept
      <4> QED BY <4>1, <4>2, <4>3, <4>4 DEF Generated
    <3>2. CASE Superseded(w)
      BY <1>1, <3>2 DEF Superseded
    <3>3. CASE Moved(w)
      BY <1>2, <3>3 DEF Moved
    <3> QED BY <1>5, <3>1, <3>2, <3>3
  <2>2. \A v \in Workers : v # w => Reported(job[v])'
    BY <1>3, <1>5, <2>1
  <2>3. PICK j \in Job : j = job'[w]
    BY DEF Typed, TypeOK
  <2>4. Reported(job[w])
    BY DEF Reports
  <2>5. Reported(j)'
    <3>1. CASE \E k \in Kinds : Generated(w, k)
      <4>1. PICK k \in Kinds : Generated(w, k)
        BY <3>1
      <4>2. PICK i \in Job, l \in Leads : i = job[w] /\ l = job[w].lead
        BY <4>1, GeneratingLead DEF Generated, Generating, Typed, TypeOK
      <4>3. Reported(i)' /\ Reported(i)
        BY <1>5, <2>1, <2>4, <4>2, ReportedKept
      <4>4. /\ j.pc = i.pc /\ j.op = i.op /\ j.lead = l /\ i.lead = l /\ j.print = i.print
            /\ j.done = i.done /\ j.edits = i.edits /\ i.pc = "generate"
            /\ \A h \in Kinds : h # k => j.gen[h] = i.gen[h]
            /\ j.gen[k] = "made" => Inserts(l, k)
        BY <2>3, <4>1, <4>2 DEF Generated, SameLocals, Generating, Inserts
      <4>5. ASSUME j.op = "bulk", j.edits = edits', "email" \notin off', j.gen["email"] = "made"
            PROVE  HeadCurrent(l, prompt)'
        <5>1. CASE k = "email"
          BY <1>5, <4>4, <4>5, <5>1, InsertsCurrent
        <5>2. CASE k # "email"
          BY <4>3, <4>4, <4>5, <5>2, ContentAssumption DEF Reported
        <5> QED BY <5>1, <5>2
      <4> QED BY <4>3, <4>4, <4>5 DEF Reported
    <3>2. CASE Superseded(w) /\ Listed(w)
      BY <1>5, <2>1, <2>3, <2>4, <3>2, ReportedIs DEF Superseded
    <3>3. CASE Moved(w) /\ Listed(w)
      <4>1. j.pc = "generate" => j.gen["email"] # "made"
        BY <2>3, <3>3, ContentAssumption DEF Moved, Started
      <4> QED BY <1>5, <2>1, <2>3, <2>4, <3>3, <4>1, ReportedIs
    <3> QED BY <1>5, <3>1, <3>2, <3>3
  <2>6. Reported(job[w])'
    BY <2>3, <2>5, ReportedNow
  <2> QED BY <2>2, <2>6 DEF Reports
<1> QED BY <1>4, <1>5, StepDoes

-----------------------------------------------------------------------------
(* What is sent *)

\* No row of an earlier state becomes sent.
SentKept == \A r \in 1 .. nrows : rows'[r].sent = rows[r].sent

\* The step property of ShownAndSentOnce.
SendsRight ==
  \A r \in 1 .. nrows :
    rows'[r].sent /\ ~ rows[r].sent =>
      /\ \A s \in Written(rows[r].lead, "email") : ~ rows[s].sent
      /\ "email" \notin off => r = Head(rows[r].lead, "email")

\* What goes out is the newest row of a lead with none sent, and it is the head:
\* a pointer would lead to a row that is newer still.
LEMMA DeliverSends ==
  ASSUME Typed, Chained, NEW l, DeliverTo(l)
  PROVE  SendsRight
<1>1. rows \in [RowIds -> Row] /\ nrows \in Nat /\ \A r \in 1 .. nrows : r \in RowIds
  BY RowTyped, ContentAssumption DEF Typed, TypeOK
<1>2. ASSUME NEW r \in 1 .. nrows, rows'[r].sent, ~ rows[r].sent
      PROVE  /\ \A s \in Written(rows[r].lead, "email") : ~ rows[s].sent
             /\ "email" \notin off => r = Head(rows[r].lead, "email")
  <2>1. Deliverable(l) /\ rows' = [rows EXCEPT ![LatestEmail(l)] = [rows[LatestEmail(l)] EXCEPT !.sent = TRUE]]
    BY <1>2 DEF DeliverTo
  <2>2. r = LatestEmail(l)
    <3>1. r # LatestEmail(l) => rows'[r] = rows[r]
      BY <1>1, <2>1
    <3> QED BY <1>2, <3>1
  <2>3. r \in Written(l, "email") /\ \A s \in Written(l, "email") : s <= r
    <3>1. PICK N \in Nat : N = nrows
      BY <1>1
    <3>2. PICK ids \in SUBSET (1 .. N) : ids = Written(l, "email")
      BY <3>1 DEF Written
    <3>3. /\ (Newest(ids) = 0) <=> (ids = {})
          /\ ids # {} => Newest(ids) \in ids
          /\ \A s \in ids : s <= Newest(ids)
      BY NewestIs
    <3>4. r = Newest(ids) /\ r # 0
      BY <1>1, <2>2, <3>2 DEF LatestEmail
    <3> QED BY <3>2, <3>3, <3>4
  <2>4. rows[r].lead = l /\ rows[r].kind = "email"
    BY <2>3 DEF Written
  <2>5. \A s \in Written(l, "email") : ~ rows[s].sent
    BY <2>1 DEF Deliverable, AlreadyDelivered
  <2>6. ASSUME "email" \notin off PROVE r = Head(l, "email")
    <3>1. rows[r].sup = 0
      <4>1. ASSUME rows[r].sup # 0 PROVE FALSE
        <5>1. /\ rows[rows[r].sup].lead = l /\ rows[rows[r].sup].kind = "email"
              /\ rows[r].sup > r /\ rows[r].sup \in 0 .. nrows
          BY <2>4, <2>6, <4>1 DEF Chained, ForwardChains
        <5>2. rows[r].sup \in Written(l, "email")
          BY <1>1, <4>1, <5>1 DEF Written
        <5>3. rows[r].sup <= r
          BY <2>3, <5>2
        <5> QED BY <1>1, <5>1, <5>3
      <4> QED BY <4>1
    <3>2. r \in ActiveRows(l, "email") /\ ActiveRows(l, "email") \subseteq Written(l, "email")
      BY <2>4, <3>1 DEF ActiveRows, Written
    <3>3. Head(l, "email") \in ActiveRows(l, "email") /\ r <= Head(l, "email") /\ Head(l, "email") \in Nat
      BY <1>1, <3>2, HeadIs
    <3>4. Head(l, "email") <= r
      BY <2>3, <3>2, <3>3
    <3> QED BY <1>1, <3>3, <3>4
  <2> QED BY <2>4, <2>5, <2>6
<1> QED BY <1>2 DEF SendsRight

\* Pointers, ratings and new rows mark nothing as sent.
LEMMA SupersedeSent ==
  ASSUME Typed, NEW r \in RowIds, NEW new \in 0 .. MaxRows, Supersede(r, new)
  PROVE  SentKept
<1>1. /\ rows'[r] = [rows[r] EXCEPT !.sup = new]
      /\ \A s \in RowIds : s # r => rows'[s] = rows[s]
  BY SupersedeTyped
<1>2. rows[r] \in Row /\ \A s \in 1 .. nrows : s \in RowIds
  BY RowTyped DEF Typed, TypeOK
<1>3. rows'[r].sent = rows[r].sent
  BY <1>1, <1>2 DEF Row
<1> QED BY <1>1, <1>2, <1>3 DEF SentKept

LEMMA SupersedingSent ==
  ASSUME Typed, Chained, NEW w \in Workers, Superseding(w)
  PROVE  SentKept
<1>1. UNCHANGED rows => SentKept
  BY DEF SentKept
<1>2. job[w].source \in 0 .. MaxRows /\ MaxRows \in Nat
  <2>1. job[w] \in Job
    BY DEF Typed, TypeOK
  <2> QED BY <2>1, ContentAssumption DEF Job
<1>3. ASSUME NEW new \in 0 .. MaxRows, job[w].source # 0, Supersede(job[w].source, new)
      PROVE  SentKept
  <2>1. PICK r \in RowIds : r = job[w].source
    BY <1>2, <1>3 DEF RowIds
  <2>2. Supersede(r, new)
    BY <1>3, <2>1 DEF Supersede
  <2> QED BY <2>2, SupersedeSent
<1>4. CASE SupersedeSource(w)
  <2>1. PICK new \in 0 .. MaxRows : new = Replacement(job[w].lead, Kind(w), job[w].source)
    BY ReplacementIs
  <2>2. UNCHANGED rows \/ (job[w].source # 0 /\ Supersede(job[w].source, new))
    BY <1>4, <2>1 DEF SupersedeSource
  <2> QED BY <1>1, <1>3, <2>2
<1>5. CASE SupersedeHead(w)
  <2>1. PICK new \in 0 .. MaxRows : new = Head(job[w].lead, "email")
    BY HeadIs
  <2>2. UNCHANGED rows \/ (job[w].source # 0 /\ Supersede(job[w].source, new))
    BY <1>5, <2>1 DEF SupersedeHead
  <2> QED BY <1>1, <1>3, <2>2
<1>6. CASE SupersedePrevious(w)
  <2>1. \A r \in RowIds : \E new : rows'[r] = rows[r] \/ rows'[r] = [rows[r] EXCEPT !.sup = new]
    BY <1>6 DEF SupersedePrevious
  <2>2. ASSUME NEW r \in 1 .. nrows PROVE rows'[r].sent = rows[r].sent
    <3>1. r \in RowIds /\ rows[r] \in Row
      BY RowTyped
    <3>2. PICK new : rows'[r] = rows[r] \/ rows'[r] = [rows[r] EXCEPT !.sup = new]
      BY <2>1, <3>1
    <3> QED BY <3>1, <3>2 DEF Row
  <2> QED BY <2>2 DEF SentKept
<1>7. CASE AfterGather(w)
  BY <1>1, <1>7 DEF AfterGather, DB
<1> QED BY <1>4, <1>5, <1>6, <1>7 DEF Superseding

LEMMA SendsStep ==
  ASSUME Typed, Chained, [Next]_vars
  PROVE  SendsRight
<1>1. SentKept => SendsRight
  BY DEF SentKept, SendsRight
<1>2. UNCHANGED rows => SendsRight
  BY DEF SendsRight
<1>3. ASSUME NEW w \in Workers, StartJob(w) \/ JobStep(w) \/ SupersedeFailed(w) \/ Crash(w)
      PROVE  SendsRight
  <2>1. CASE StartJob(w)
    <3>1. UNCHANGED rows
      BY <2>1 DEF StartJob, Regenerate, RedoEmail, StartRefresh, StartPush, StartBulk, StartPipeline,
         StartList, DB
    <3> QED BY <1>2, <3>1
  <2>2. CASE Generate(w)
    <3>1. PICK k \in Kinds : Generated(w, k)
      BY <2>2, GenerateDoes
    <3>2. SentKept
      BY <3>1 DEF Generated, Inserts, SentKept
    <3> QED BY <1>1, <3>2
  <2>3. CASE Superseding(w)
    BY <1>1, <2>3, SupersedingSent
  <2>4. CASE Phase(w)
    <3>1. CASE PhaseDeliver(w)
      <4>1. PICK l : l = job[w].lead
        OBVIOUS
      <4>2. DeliverTo(l)
        BY <3>1, <4>1 DEF PhaseDeliver, DeliverTo
      <4> QED BY <4>2, DeliverSends
    <3>2. CASE ~ PhaseDeliver(w)
      <4>1. UNCHANGED rows
        BY <2>4, <3>2 DEF Phase, PhaseEnrich, PhaseScore, PhaseContent, CliContent, RefreshContent, DB
      <4> QED BY <1>2, <4>1
    <3> QED BY <3>1, <3>2
  <2>5. CASE Loop(w)
    <3>1. CASE PushNext(w)
      <4>1. PICK l : DeliverTo(l)
        BY <3>1 DEF PushNext
      <4> QED BY <4>1, DeliverSends
    <3>2. CASE ~ PushNext(w)
      <4>1. UNCHANGED rows
        BY <2>5, <3>2 DEF Loop, BulkSkip, BulkGenerate, NextLead, EndList, DB
      <4> QED BY <1>2, <4>1
    <3> QED BY <3>1, <3>2
  <2>6. CASE SupersedeFailed(w) \/ Crash(w)
    <3>1. UNCHANGED rows
      BY <2>6 DEF SupersedeFailed, Crash
    <3> QED BY <1>2, <3>1
  <2> QED BY <1>3, <2>1, <2>2, <2>3, <2>4, <2>5, <2>6 DEF JobStep
<1>4. ASSUME NEW r \in 1 .. nrows, NEW rating \in Given, RecordRating(r, rating)
      PROVE  SendsRight
  <2>1. rows' = [rows EXCEPT ![r] = [rows[r] EXCEPT !.rating = rating]]
    BY <1>4 DEF RecordRating
  <2>2. rows \in [RowIds -> Row] /\ \A s \in 1 .. nrows : s \in RowIds /\ rows[s] \in Row
    BY RowTyped DEF Typed, TypeOK
  <2>3. ASSUME NEW s \in 1 .. nrows PROVE rows'[s].sent = rows[s].sent
    <3>1. rows'[s] = rows[s] \/ rows'[s] = [rows[s] EXCEPT !.rating = rating]
      BY <2>1, <2>2
    <3> QED BY <2>2, <3>1 DEF Row
  <2> QED BY <1>1, <2>3 DEF SentKept
<1>5. ASSUME NEW text, EditPrompt(text) PROVE SendsRight
  BY <1>2, <1>5 DEF EditPrompt
<1>6. ASSUME NEW k \in Kinds, ToggleKind(k) PROVE SendsRight
  BY <1>2, <1>6 DEF ToggleKind
<1>7. CASE UNCHANGED vars
  BY <1>2, <1>7 DEF vars
<1> QED BY <1>3, <1>4, <1>5, <1>6, <1>7 DEF Next

-----------------------------------------------------------------------------
(* Content implements CurrentCopy *)

Shown == [key \in Leads \X Kinds |-> Head(key[1], key[2])]

LEMMA SameShown ==
  ASSUME \A l \in Leads, k \in Kinds : Head(l, k)' = Head(l, k)
  PROVE  Shown' = Shown
<1>1. ASSUME NEW key \in Leads \X Kinds PROVE Head(key[1], key[2])' = Head(key[1], key[2])
  <2>1. PICK l \in Leads, k \in Kinds : key = <<l, k>>
    OBVIOUS
  <2>2. Head(l, k)' = Head(l, k)
    OBVIOUS
  <2> QED BY <2>1, <2>2
<1> QED BY <1>1 DEF Shown

LEMMA OneShown ==
  ASSUME NEW l \in Leads, NEW k \in Kinds, NEW n, Head(l, k)' = n,
         \A l2 \in Leads, k2 \in Kinds : ~ (l2 = l /\ k2 = k) => Head(l2, k2)' = Head(l2, k2)
  PROVE  Shown' = [Shown EXCEPT ![<<l, k>>] = n]
<1>1. ASSUME NEW key \in Leads \X Kinds
      PROVE  Head(key[1], key[2])' = IF key = <<l, k>> THEN n ELSE Head(key[1], key[2])
  <2>1. PICK l2 \in Leads, k2 \in Kinds : key = <<l2, k2>>
    OBVIOUS
  <2>2. Head(l2, k2)' = IF l2 = l /\ k2 = k THEN n ELSE Head(l2, k2)
    OBVIOUS
  <2> QED BY <2>1, <2>2
<1> QED BY <1>1 DEF Shown

LEMMA ShownInit == ASSUME Init PROVE Copies!Init
<1>1. nrows = 0 /\ off = {}
  BY DEF Init
<1>2. \A l, k : Head(l, k) = 0
  BY <1>1 DEF Head, Newest, ActiveRows
<1> QED BY <1>1, <1>2 DEF Copies!Init, Copies!Keys

LEMMA ShownStep ==
  ASSUME Typed, Typed', Chained, [Next]_vars
  PROVE  [Copies!Next]_Copies!vars
<1>1. ASSUME Shown' = Shown, nrows' = nrows, off' = off PROVE UNCHANGED Copies!vars
  BY <1>1 DEF Copies!vars, Shown
<1>2. RowsKept => Shown' = Shown
  <2>1. ASSUME RowsKept, NEW l, NEW k PROVE Head(l, k)' = Head(l, k)
    BY <2>1 DEF RowsKept, Head, ActiveRows
  <2> QED BY <2>1, SameShown
<1>3. CASE Asides
  <2>1. Shown' = Shown /\ nrows' = nrows
    BY <1>2, <1>3 DEF Asides, RowsKept
  <2>2. CASE off' = off
    BY <1>1, <2>1, <2>2
  <2>3. ASSUME NEW k \in Kinds, off' = off \cup {k} PROVE Copies!TurnOff(k)
    BY <2>1, <2>3 DEF Copies!TurnOff, Shown
  <2> QED BY <1>3, <2>2, <2>3 DEF Asides, Copies!Next
<1>4. ASSUME NEW w \in Workers, NEW i \in Kinds, Generated(w, i), off' = off
      PROVE  [Copies!Next]_Copies!vars
  <2>1. PICK l \in Leads : l = job[w].lead
    BY <1>4, GeneratingLead DEF Generated, Generating
  <2>2. CASE UNCHANGED <<rows, nrows>>
    BY <1>1, <1>2, <1>4, <2>2 DEF RowsKept
  <2>3. CASE Inserts(l, i)
    <3>1. PICK n : n = nrows + 1
      OBVIOUS
    <3>2. Shown' = [Shown EXCEPT ![<<l, i>>] = n]
      <4>1. \A l2 \in Leads, k2 \in Kinds :
              Head(l2, k2)' = IF l2 = l /\ k2 = i THEN n ELSE Head(l2, k2)
        BY <2>3, <3>1, InsertedHead
      <4> QED BY <4>1, OneShown
    <3>3. Copies!Publish(<<l, i>>)
      BY <1>4, <2>3, <3>1, <3>2 DEF Copies!Publish, Inserts, Shown
    <3>4. <<l, i>> \in Copies!Keys
      BY DEF Copies!Keys
    <3> QED BY <3>3, <3>4 DEF Copies!Next
  <2> QED BY <1>4, <2>1, <2>2, <2>3 DEF Generated
<1>5. ASSUME NEW w \in Workers, Superseded(w), off' = off
      PROVE  [Copies!Next]_Copies!vars
  <2>1. PICK l \in Leads, kinds \in SUBSET Kinds, back \in Kinds : Points(l, kinds, back)
    BY <1>5, GeneratingLead DEF Superseded, Generating, Ran
  <2>2. nrows' = nrows
    BY <2>1 DEF Points
  <2>3. \A l2 \in Leads, k2 \in Kinds : ~ (l2 = l /\ k2 = back) => Head(l2, k2)' = Head(l2, k2)
    BY <2>1, PointedHead
  <2>4. CASE Head(l, back)' = Head(l, back)
    <3>1. Shown' = Shown
      BY <2>3, <2>4, SameShown
    <3> QED BY <1>1, <1>5, <2>2, <3>1
  <2>5. CASE Head(l, back)' # Head(l, back)
    <3>1. back \in off /\ Head(l, back)' \in ActiveRows(l, back) /\ Head(l, back)' < Head(l, back)
      BY <2>1, <2>5, PointedHead
    <3>2. PICK c \in 1 .. nrows : c = Head(l, back)'
      BY <3>1 DEF ActiveRows
    <3>3. Shown' = [Shown EXCEPT ![<<l, back>>] = c]
      BY <2>3, <3>2, OneShown
    <3>4. c < Shown[<<l, back>>]
      BY <3>1, <3>2 DEF Shown
    <3>5. Copies!FallBack(<<l, back>>)
      BY <1>5, <2>2, <3>1, <3>3, <3>4 DEF Copies!FallBack, Shown
    <3>6. <<l, back>> \in Copies!Keys
      BY DEF Copies!Keys
    <3> QED BY <3>5, <3>6 DEF Copies!Next
  <2> QED BY <2>4, <2>5
<1>6. ASSUME NEW w \in Workers, Moved(w), off' = off
      PROVE  UNCHANGED Copies!vars
  BY <1>1, <1>2, <1>6 DEF Moved, RowsKept
<1> QED BY <1>3, <1>4, <1>5, <1>6, StepDoes

-----------------------------------------------------------------------------
(* The theorems *)

LEMMA NothingWritten ==
  ASSUME Init
  PROVE  /\ \A l, k : ActiveRows(l, k) = {} /\ Written(l, k) = {}
         /\ 1 .. nrows = {}
         /\ \A w \in Workers : job[w] = NoJob
<1>1. nrows = 0 /\ \A w \in Workers : job[w] = NoJob
  BY DEF Init
<1>2. 1 .. nrows = {}
  BY <1>1
<1> QED BY <1>1, <1>2 DEF ActiveRows, Written

LEMMA ChainedInit == ASSUME Init PROVE Chained
<1>1. HeadKept /\ ForwardChains /\ \A r \in 1 .. nrows : rows[r].sup \in 0 .. nrows
  BY NothingWritten DEF HeadKept, ForwardChains
<1>2. \A k \in Kinds : k \in enabled \/ k \in off
  BY DEF Init
<1>3. Linked(NoJob)
  BY NoJobTyped DEF Linked
<1>4. \A w \in Workers : Linked(job[w])
  <2>1. ASSUME NEW w \in Workers PROVE Linked(job[w])
    <3>1. job[w] = NoJob
      BY NothingWritten
    <3> QED BY <3>1, NoJobTyped DEF Linked
  <2> QED BY <2>1
<1> QED BY <1>1, <1>2, <1>4 DEF Chained

LEMMA HeadAloneInit == ASSUME Init PROVE HeadAlone
<1>1. \A w \in Workers : ~ Generating(w)
  BY NothingWritten, NoJobTyped DEF Generating
<1>2. \A l, k : \A w \in Workers : ~ Working(w, l, k)
  BY <1>1 DEF Working
<1>3. \A l, k : One(ActiveRows(l, k))
  BY NothingWritten DEF One
<1> QED BY <1>2, <1>3 DEF HeadAlone

LEMMA ReportsInit == ASSUME Init PROVE Reports
<1>1. edits = 0
  BY DEF Init
<1>2. NoJob.edits = 0 /\ NoJob.op # "bulk"
  BY DEF NoJob
<1>3. ASSUME NEW w \in Workers PROVE Reported(job[w])
  <2>1. job[w] = NoJob
    BY NothingWritten
  <2> QED BY <1>1, <1>2, <2>1 DEF Reported
<1> QED BY <1>3 DEF Reports

LEMMA AloneIsOneHead == ASSUME HeadAlone PROVE OneHead
<1> SUFFICES ASSUME NEW l \in Leads, NEW k \in Kinds, <<l, k>> \notin lapsed,
                    \A w \in Workers : ~ Generating(w) \/ job[w].lead # l
             PROVE  Cardinality(ActiveRows(l, k)) <= 1
  BY DEF OneHead
<1>1. \A w \in Workers : ~ Working(w, l, k)
  BY DEF Working
<1>2. One(ActiveRows(l, k))
  BY <1>1 DEF HeadAlone
<1>3. CASE ActiveRows(l, k) = {}
  BY <1>3, FS_EmptySet
<1>4. CASE ActiveRows(l, k) # {}
  <2>1. PICK r : ActiveRows(l, k) = {r}
    BY <1>2, <1>4 DEF One
  <2> QED BY <2>1, FS_Singleton
<1> QED BY <1>3, <1>4

LEMMA ReportsCover == ASSUME Reports PROVE BulkCovers
<1> SUFFICES ASSUME NEW w \in Workers, job[w].op = "bulk", job[w].edits = edits,
                    "email" \notin off
             PROVE  job[w].done \cap Unfinished = {}
  BY DEF BulkCovers
<1>1. \A l \in job[w].done : HeadCurrent(l, prompt)
  BY DEF Reports, Reported
<1> QED BY <1>1 DEF Unfinished

\* Superseding never leaves a lead without a row to show, pointers lead forward
\* along the rows of one key, and a key that nobody works on shows one row,
\* whatever jobs overlap, fail or find their kind turned off.
THEOREM ChainsCorrect == Spec => []Chains
<1>1. Init => Typed /\ Chained /\ HeadAlone
  BY TypedInit, ChainedInit, HeadAloneInit
<1>2. Typed /\ Chained /\ HeadAlone /\ [Next]_vars => (Typed /\ Chained /\ HeadAlone)'
  BY TypedStep, ChainedStep, HeadAloneStep
<1>3. Chained /\ HeadAlone => Chains
  BY AloneIsOneHead DEF Chained, Chains
<1> QED BY <1>1, <1>2, <1>3, PTL DEF Spec

\* The leads that a bulk regenerate reports as done show an email of the prompt
\* in force, so that the resume page does not count them, whatever other jobs
\* write, until somebody edits the prompt or a toggle or if email was ever off.
THEOREM BulkCoversCorrect == Spec => []BulkCovers
<1>1. Init => Typed /\ Chained /\ Reports
  BY TypedInit, ChainedInit, ReportsInit
<1>2. Typed /\ Chained /\ Reports /\ [Next]_vars => (Typed /\ Chained /\ Reports)'
  BY TypedStep, ChainedStep, ReportsStep
<1>3. Reports => BulkCovers
  BY ReportsCover
<1> QED BY <1>1, <1>2, <1>3, PTL DEF Spec

\* An email row goes out only while no row of its lead has, and while email was
\* never off it is the row the pages show.
THEOREM ShownAndSentOnceCorrect == Spec => ShownAndSentOnce
<1>1. Init => Typed /\ Chained
  BY TypedInit, ChainedInit
<1>2. Typed /\ Chained /\ [Next]_vars => (Typed /\ Chained)'
  BY TypedStep, ChainedStep
<1>3. Typed /\ Chained /\ [Next]_vars => SendsRight
  BY SendsStep
<1>4. SendsRight => [SendsRight]_vars
  OBVIOUS
<1> QED BY <1>1, <1>2, <1>3, <1>4, PTL DEF Spec, ShownAndSentOnce, SendsRight

\* What readers of the version chains see is what CurrentCopy promises: a shown
\* copy changes when a newer one is written, falls back to an older one only for
\* a kind that was turned off, and never goes away.
THEOREM CopiesShownCorrect == Spec => CopiesShown
<1>1. Init => Typed /\ Chained /\ Copies!Init
  BY TypedInit, ChainedInit, ShownInit
<1>2. Typed /\ Chained /\ [Next]_vars => (Typed /\ Chained)'
  BY TypedStep, ChainedStep
<1>3. Typed /\ Typed' /\ Chained /\ [Next]_vars => [Copies!Next]_Copies!vars
  BY ShownStep
<1> QED BY <1>1, <1>2, <1>3, PTL DEF Spec, CopiesShown, Copies!Spec
=============================================================================
