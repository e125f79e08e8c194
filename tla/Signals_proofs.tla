--------------------------- MODULE Signals_proofs ---------------------------
(* Proofs about Signals: its types, and that uplifts never compound.        *)
EXTENDS Signals, TLAPS

-----------------------------------------------------------------------------
(* The inductive invariant.                                                 *)

\* Call k has written and still has to apply.
Applies(k) == calls[k].pc \in {"lifting", "applying"}

Bases == bases \cup {NoScore}

\* A base that a call hands on was written by score_lead, and so was one that a
\* row remembers, but for overlaps.
BasesKnown ==
  /\ NoScore \notin bases
  /\ \A k \in Calls : calls[k].base \in Bases
  /\ "overlap" \notin pending => \A t \in Types : sig[t].base \in Bases

\* A signal that was never stored remembers nothing, none goes away, and a call
\* that writes an uplift has read a signal and a score.
RowsRead ==
  /\ \A t \in Types : ~sig[t].present => sig[t].base = NoScore
  /\ \A k \in Calls : \A t \in Types : ~calls[k].seen[t].present => calls[k].seen[t].base = NoScore
  /\ \A k \in Calls : \A t \in Types : calls[k].seen[t].present => sig[t].present
  /\ \A k \in Calls : calls[k].pc = "applying" => Stored(calls[k].seen) # {} /\ score # NoScore

\* Without an overlap one call applies at a time, and alone means what it says.
OneApplies ==
  /\ "overlap" \notin pending => \A k, c \in Calls : Applies(k) /\ Applies(c) => k = c
  /\ \A k \in Calls : calls[k].alone => Applies(k) /\ Applying(k) = {}

\* Nobody has remembered another base since a call that is alone read them.
ReadsLast ==
  \A k \in Calls :
    calls[k].pc = "applying" /\ (calls[k].alone \/ "overlap" \notin pending) =>
      \A t \in Types : calls[k].seen[t].base = sig[t].base

\* A base that nobody remembers is still the score.
BareScore ==
  /\ \A k \in Calls : calls[k].alone /\ Applies(k) /\ calls[k].base # NoScore => score = calls[k].base
  /\ "overlap" \notin pending /\ (\A t \in Types : sig[t].base = NoScore) => score \in Bases


-----------------------------------------------------------------------------
(* What an uplift gives.                                                    *)

Strengths == {"none", "medium", "high"}

LEMMA TypesAre == Types = {"hiring", "source_import"} /\ "hiring" \in Types /\ "source_import" \in Types
  BY DEF Types

\* An uplift yields a score, which is no less than its base.
LEMMA LiftSound ==
  ASSUME NEW base \in Scores, NEW strength \in Strengths, NEW count \in Nat
  PROVE  /\ Lift(base, strength, count) \in Scores
         /\ base # NoScore => Lift(base, strength, count) # NoScore
  <1> DEFINE tier == Target(base, strength, count)
  <1>1. tier \in {"A", "B", base.tier}
    BY DEF Target
  <1>2. base.points \in 0..100 /\ base.tier \in {"A", "B", "C", "D", "none"}
    BY DEF Scores
  <1>3. CASE tier = base.tier
    BY <1>3 DEF Lift
  <1>4. CASE tier # base.tier
    <2>1. tier \in {"A", "B"}
      BY <1>1, <1>4
    <2>2. \E p \in 0..100 : Lift(base, strength, count) = [tier |-> tier, points |-> p]
      BY <1>2, <1>4 DEF Lift, TierAMin, TierBMin
    <2> QED BY <2>1, <2>2 DEF Scores, NoScore
  <1> QED BY <1>3, <1>4

\* What backs a signal counts up to two, and a weak signal lifts nothing.
LEMMA LiftBounded ==
  ASSUME NEW base \in Scores, NEW strength \in Strengths, NEW count \in Nat
  PROVE  \/ Lift(base, strength, count) = base
         \/ \E s \in {"medium", "high"}, n \in 0..2 : Lift(base, strength, count) = Lift(base, s, n)
  <1>1. CASE strength = "none"
    BY <1>1 DEF Lift, Target
  <1>2. CASE strength # "none"
    <2>1. strength \in {"medium", "high"}
      BY <1>2 DEF Strengths
    <2>2. CASE count \in 0..2
      BY <2>1, <2>2
    <2>3. CASE count \notin 0..2
      <3>1. (count >= MultiRoleThreshold) = (2 >= MultiRoleThreshold)
        BY <2>3 DEF MultiRoleThreshold
      <3>2. Target(base, strength, count) = Target(base, strength, 2)
        BY <3>1 DEF Target
      <3>3. Lift(base, strength, count) = Lift(base, strength, 2)
        BY <3>2 DEF Lift
      <3> QED BY <2>1, <3>3
    <2> QED BY <2>2, <2>3
  <1> QED BY <1>1, <1>2

\* What a row lifts a base to.
RowLift(base, rows, t) == Lift(base, rows[t].finding.strength, Relevant(t, rows[t].finding))

LEMMA RowTyped ==
  ASSUME NEW rows \in [Types -> Rows], NEW t \in Types
  PROVE  rows[t].finding.strength \in Strengths /\ Relevant(t, rows[t].finding) \in Nat
  <1>1. rows[t].finding \in Findings
    BY DEF Rows
  <1> QED BY <1>1 DEF Findings, Strengths, Relevant

LEMMA RankRange == \A s : Rank(s) \in 0..3
  BY DEF Rank

\* The best of the candidates is one of them, and none ranks above it.
LEMMA BestIsBest ==
  ASSUME NEW base, NEW rows
  PROVE  LET lifted == {base} \cup {RowLift(base, rows, t) : t \in Stored(rows)}
         IN  Best(base, rows) \in lifted /\ \A o \in lifted : Rank(o) <= Rank(Best(base, rows))
  <1> DEFINE lifted == {base} \cup {RowLift(base, rows, t) : t \in Stored(rows)}
             Top(s) == \A o \in lifted : Rank(o) <= Rank(s)
  <1>1. \E s \in lifted : Top(s)
    <2> DEFINE h == RowLift(base, rows, "hiring")
               i == RowLift(base, rows, "source_import")
    <2>1. lifted \subseteq {base, h, i}
      BY TypesAre DEF Stored
    <2> HIDE DEF h, i, lifted
    <2>2. base \in lifted
      BY DEF lifted
    <2>3. Rank(base) \in 0..3 /\ Rank(h) \in 0..3 /\ Rank(i) \in 0..3
      BY RankRange
    <2>4. CASE h \in lifted /\ i \in lifted
      BY <2>1, <2>2, <2>3, <2>4
    <2>5. CASE h \in lifted /\ i \notin lifted
      BY <2>1, <2>2, <2>3, <2>5
    <2>6. CASE h \notin lifted /\ i \in lifted
      BY <2>1, <2>2, <2>3, <2>6
    <2>7. CASE h \notin lifted /\ i \notin lifted
      BY <2>1, <2>2, <2>3, <2>7
    <2> QED BY <2>4, <2>5, <2>6, <2>7
  <1>2. Best(base, rows) = CHOOSE s \in lifted : Top(s)
    BY DEF Best, RowLift
  <1> HIDE DEF Top, lifted
  <1>3. Best(base, rows) \in lifted /\ Top(Best(base, rows))
    BY <1>1, <1>2
  <1> QED BY <1>3 DEF Top, lifted

\* The best uplift of a base is the base, or one uplift of it.
Uplifts(base) == {base} \cup {Lift(base, s, n) : s \in {"medium", "high"}, n \in 0..2}

LEMMA BestSound ==
  ASSUME NEW base \in Scores, NEW rows \in [Types -> Rows]
  PROVE  /\ Best(base, rows) \in Scores \cap Uplifts(base)
         /\ base # NoScore => Best(base, rows) # NoScore
  <1>1. CASE Best(base, rows) = base
    BY <1>1 DEF Uplifts
  <1>2. CASE Best(base, rows) # base
    <2>1. PICK t \in Types : Best(base, rows) = RowLift(base, rows, t)
      BY <1>2, BestIsBest DEF Stored
    <2>2. rows[t].finding.strength \in Strengths /\ Relevant(t, rows[t].finding) \in Nat
      BY RowTyped
    <2> QED BY <2>1, <2>2, LiftSound, LiftBounded DEF RowLift, Uplifts
  <1> QED BY <1>1, <1>2

-----------------------------------------------------------------------------
(* Types                                                                    *)

LEMMA ConstantsTyped ==
  /\ NoScore \in Scores /\ Skipped \in Scores /\ Skipped # NoScore
  /\ Nothing \in Findings /\ NoRow \in Rows /\ NoRows \in [Types -> Rows] /\ Idle \in Call
  BY DEF NoScore, Skipped, Scores, Nothing, Findings, NoRow, Rows, NoRows, Idle, Call

LEMMA ScoreTyped == \A points \in Points : Score(points) \in Scores /\ Score(points) # NoScore
  BY SignalsAssumption DEF Score, Scores, NoScore, TierFor

\* A write of k leaves every call typed, if what k goes on with is.
LEMMA WroteTyped ==
  ASSUME TypeOK, NEW k \in Calls, NEW next \in Call, Wrote(k, next)
  PROVE  calls' \in [Calls -> Call]
  <1>1. \A c \in Calls : [calls[c] EXCEPT !.alone = FALSE] \in Call
    BY DEF TypeOK, Call
  <1> QED BY <1>1 DEF Wrote, TypeOK

LEMMA ThenApplyTyped ==
  ASSUME NEW k, NEW base \in Scores
  PROVE  ThenApply(k, base) \in Call
  BY ConstantsTyped DEF ThenApply, Idle, Call

LEMMA FoundTyped ==
  ASSUME TypeOK, NEW t \in Types, NEW finding \in Findings
  PROVE  Found(t, finding) \in [Types -> Rows]
  BY DEF Found, TypeOK, Rows

LEMMA TypeStep == TypeOK /\ [Next]_vars => TypeOK'
  <1> SUFFICES ASSUME TypeOK, [Next]_vars PROVE TypeOK'
    OBVIOUS
  <1> USE SignalsAssumption, ConstantsTyped
  <1>1. CASE UNCHANGED vars
    BY <1>1 DEF TypeOK, vars
  <1>2. CASE Research
    BY <1>2 DEF TypeOK, Research
  <1>3. CASE SourceImport
    <2>1. PICK finding \in Findings : sig' = Found("source_import", finding)
      BY <1>3, FindingsAssumption DEF SourceImport
    <2>2. sig' \in [Types -> Rows]
      BY <2>1, FoundTyped, TypesAre
    <2>3. imports' \in 0..MaxImports
      BY <1>3 DEF SourceImport, TypeOK
    <2> QED BY <1>3, <2>2, <2>3 DEF SourceImport, TypeOK, Causes
  <1>4. ASSUME NEW k \in Calls, ScoreStart(k) PROVE TypeOK'
    <2>1. [Idle EXCEPT !.pc = IF b2c THEN "skipping" ELSE "asking"] \in Call
      BY DEF Call, Idle
    <2> QED BY <1>4, <2>1 DEF ScoreStart, Begin, TypeOK
  <1>5. ASSUME NEW k \in Calls, PersistSkip(k) PROVE TypeOK'
    <2>1. calls' \in [Calls -> Call]
      BY <1>5, WroteTyped DEF PersistSkip
    <2> QED BY <1>5, <2>1 DEF PersistSkip, TypeOK, Overlap, Causes
  <1>6. ASSUME NEW k \in Calls, ScoreAnswer(k) PROVE TypeOK'
    <2>1. PICK points \in Points :
            /\ score' = Score(points) /\ bases' = bases \cup {score'} /\ fresh' = score'
            /\ Wrote(k, ThenApply(k, score'))
      BY <1>6 DEF ScoreAnswer
    <2>2. score' \in Scores
      BY <2>1, ScoreTyped
    <2>3. ThenApply(k, score') \in Call
      BY <2>2, ThenApplyTyped
    <2>4. calls' \in [Calls -> Call]
      BY <2>1, <2>3, WroteTyped
    <2> QED BY <1>6, <2>1, <2>2, <2>4 DEF ScoreAnswer, TypeOK, Overlap, Causes
  <1>7. ASSUME NEW k \in Calls, RescueList(k) PROVE TypeOK'
    <2>1. \A force \in BOOLEAN : [Idle EXCEPT !.pc = "listed", !.force = force] \in Call
      BY DEF Call, Idle
    <2> QED BY <1>7, <2>1 DEF RescueList, Begin, TypeOK
  <1>8. ASSUME NEW k \in Calls, HiringStart(k) \/ RescueNext(k) PROVE TypeOK'
    <2>1. [Idle EXCEPT !.pc = "researching"] \in Call
      BY DEF Call, Idle
    <2> QED BY <1>8, <2>1 DEF HiringStart, RescueNext, Begin, TypeOK
  <1>9. ASSUME NEW k \in Calls, HiringResult(k) PROVE TypeOK'
    <2>1. PICK finding \in Findings : sig' = Found("hiring", finding)
      BY <1>9, FindingsAssumption DEF HiringResult, Researched, UpsertHiring
    <2>2. sig' \in [Types -> Rows]
      BY <2>1, FoundTyped, TypesAre
    <2>3. calls' \in [Calls -> Call]
      BY <1>9, WroteTyped, ThenApplyTyped DEF HiringResult
    <2> QED BY <1>9, <2>2, <2>3 DEF HiringResult, TypeOK, Overlap, Causes
  <1>10. ASSUME NEW k \in Calls, HiringFailure(k) PROVE TypeOK'
    <2>1. sig' \in [Types -> Rows]
      BY <1>10, TypesAre DEF HiringFailure, TypeOK, Rows
    <2> QED BY <1>10, <2>1 DEF HiringFailure, TypeOK, End, Fault
  <1>11. ASSUME NEW k \in Calls, ApplyRead(k) PROVE TypeOK'
    <2>1. [calls[k] EXCEPT !.pc = "applying", !.seen = sig] \in Call
      BY DEF TypeOK, Call
    <2>2. calls' \in [Calls -> Call]
      BY <1>11, <2>1 DEF ApplyRead, TypeOK
    <2> QED BY <1>11, <2>2 DEF ApplyRead, TypeOK
  <1>12. ASSUME NEW k \in Calls, ApplyWrite(k) PROVE TypeOK'
    <2>1. PICK base \in BaseOf(calls[k]) :
            /\ sig' = [t \in Types |->
                         IF Stored(calls[k].seen) # {} /\ calls[k].seen[t].present
                              /\ calls[k].seen[t].base # base
                         THEN [sig[t] EXCEPT !.base = base] ELSE sig[t]]
            /\ score' = Best(base, calls[k].seen)
      BY <1>12 DEF ApplyWrite
    <2>2. calls[k].seen \in [Types -> Rows] /\ calls[k].base \in Scores
      BY DEF TypeOK, Call
    <2>3. base \in Scores
      BY <2>2 DEF BaseOf, Rows, TypeOK
    <2>4. score' \in Scores
      BY <2>1, <2>2, <2>3, BestSound
    <2>5. sig' \in [Types -> Rows]
      BY <2>1, <2>3 DEF TypeOK, Rows
    <2> QED BY <1>12, <2>4, <2>5 DEF ApplyWrite, End, TypeOK
  <1>13. ASSUME NEW k \in Calls, Die(k) PROVE TypeOK'
    BY <1>13 DEF Die, End, Fault, TypeOK, Causes
  <1> QED BY <1>1, <1>2, <1>3, <1>4, <1>5, <1>6, <1>7, <1>8, <1>9, <1>10, <1>11, <1>12, <1>13
          DEF Next

LEMMA TypeInit == Init => TypeOK
  BY ConstantsTyped, SignalsAssumption DEF Init, TypeOK

\* The lead's rows, the calls and the history are well typed in every reachable state.
THEOREM TypeCorrect == Spec => []TypeOK
  BY TypeInit, TypeStep, PTL DEF Spec

-----------------------------------------------------------------------------
(* Uplifts never compound                                                   *)

CoreInv == BasesKnown /\ RowsRead /\ OneApplies /\ ReadsLast /\ BareScore /\ OneLift

\* Most steps only begin or end a call, and store what keeps the bases.
Quiet(call) == call.pc \notin {"lifting", "applying"} /\ ~call.alone /\ call.base = NoScore /\ call.seen = NoRows

QuietStep ==
  /\ score' = score /\ bases' = bases
  /\ pending \subseteq pending'
  /\ \A t \in Types : sig'[t].base = sig[t].base /\ (sig[t].present => sig'[t].present)
  /\ \A c \in Calls : calls'[c] = calls[c] \/ Quiet(calls'[c])

LEMMA IdleQuiet ==
  /\ Quiet(Idle)
  /\ \A b \in BOOLEAN : Quiet([Idle EXCEPT !.pc = IF b THEN "skipping" ELSE "asking"])
  /\ \A b \in BOOLEAN : Quiet([Idle EXCEPT !.pc = "listed", !.force = b])
  /\ Quiet([Idle EXCEPT !.pc = "researching"])
  BY DEF Quiet, Idle

LEMMA QuietSteps ==
  ASSUME TypeOK,
         \/ UNCHANGED vars
         \/ Research \/ SourceImport
         \/ \E k \in Calls : \/ ScoreStart(k) \/ RescueList(k) \/ RescueNext(k)
                             \/ HiringStart(k) \/ HiringFailure(k) \/ Die(k)
  PROVE  QuietStep
  <1>1. CASE UNCHANGED vars
    BY <1>1 DEF vars, QuietStep
  <1>2. CASE Research
    BY <1>2 DEF Research, QuietStep
  <1>3. CASE SourceImport
    <2>1. PICK finding \in Sent : sig' = Found("source_import", finding)
      BY <1>3 DEF SourceImport
    <2>2. \A t \in Types : sig'[t].base = sig[t].base /\ (sig[t].present => sig'[t].present)
      BY <2>1, TypesAre DEF Found, TypeOK, Rows
    <2> QED BY <1>3, <2>2 DEF SourceImport, QuietStep
  <1>4. ASSUME NEW k \in Calls, ScoreStart(k) \/ RescueList(k) \/ RescueNext(k) \/ HiringStart(k)
        PROVE  QuietStep
    <2>1. \A c \in Calls : calls'[c] = calls[c] \/ Quiet(calls'[c])
      BY <1>4, IdleQuiet DEF ScoreStart, RescueList, RescueNext, HiringStart, Begin, TypeOK
    <2>2. score' = score /\ bases' = bases /\ pending' = pending /\ sig' = sig
      BY <1>4 DEF ScoreStart, RescueList, RescueNext, HiringStart
    <2> QED BY <2>1, <2>2 DEF QuietStep
  <1>5. ASSUME NEW k \in Calls, HiringFailure(k) PROVE QuietStep
    <2>1. \A t \in Types : sig'[t].base = sig[t].base /\ (sig[t].present => sig'[t].present)
      BY <1>5, TypesAre DEF HiringFailure, TypeOK, Rows
    <2>2. \A c \in Calls : calls'[c] = calls[c] \/ Quiet(calls'[c])
      BY <1>5, IdleQuiet DEF HiringFailure, End, TypeOK
    <2> QED BY <1>5, <2>1, <2>2 DEF HiringFailure, QuietStep
  <1>6. ASSUME NEW k \in Calls, Die(k) PROVE QuietStep
    <2>1. \A c \in Calls : calls'[c] = calls[c] \/ Quiet(calls'[c])
      BY <1>6, IdleQuiet DEF Die, End, TypeOK
    <2> QED BY <1>6, <2>1 DEF Die, QuietStep
  <1> QED BY <1>1, <1>2, <1>3, <1>4, <1>5, <1>6

LEMMA NoRowsBare == \A t \in Types : NoRows[t].base = NoScore /\ ~NoRows[t].present
  BY DEF NoRows, NoRow

LEMMA QuietKeeps ==
  ASSUME TypeOK, TypeOK', CoreInv, QuietStep
  PROVE  CoreInv'
  <1> USE DEF QuietStep, CoreInv
  <1>1. \A c \in Calls : calls'[c] = calls[c] \/ Quiet(calls'[c])
    OBVIOUS
  <1>2. \A c \in Calls : Applies(c)' => Applies(c) /\ calls'[c] = calls[c]
    BY <1>1 DEF Applies, Quiet
  <1>3. BasesKnown'
    BY <1>1 DEF BasesKnown, Quiet, Bases
  <1>4. RowsRead'
    <2>1. \A c \in Calls : \A t \in Types : ~calls'[c].seen[t].present => calls'[c].seen[t].base = NoScore
      BY <1>1, NoRowsBare DEF RowsRead, Quiet
    <2>2. \A c \in Calls : calls'[c].pc = "applying" => Stored(calls'[c].seen) # {} /\ score' # NoScore
      BY <1>1 DEF RowsRead, Quiet
    <2>3. \A t \in Types : ~sig'[t].present => sig'[t].base = NoScore
      <3> SUFFICES ASSUME NEW t \in Types, ~sig'[t].present PROVE sig'[t].base = NoScore
        OBVIOUS
      <3>1. sig'[t].base = sig[t].base /\ ~sig[t].present
        OBVIOUS
      <3> QED BY <3>1 DEF RowsRead
    <2>4. \A c \in Calls : \A t \in Types : calls'[c].seen[t].present => sig'[t].present
      BY <1>1, NoRowsBare DEF RowsRead, Quiet
    <2> QED BY <2>1, <2>2, <2>3, <2>4 DEF RowsRead, Stored
  <1>5. OneApplies'
    <2>1. \A k \in Calls : Applying(k)' \subseteq Applying(k)
      BY <1>2 DEF Applying, Applies
    <2>2. \A k \in Calls : calls'[k].alone => Applies(k)' /\ Applying(k)' = {}
      BY <1>1, <2>1 DEF OneApplies, Quiet, Applies
    <2> QED BY <1>2, <2>2 DEF OneApplies
  <1>6. ReadsLast'
    BY <1>1 DEF ReadsLast, Quiet
  <1>7. BareScore'
    BY <1>1, <1>2 DEF BareScore, Quiet, Applies, Bases
  <1>8. OneLift'
    BY DEF OneLift
  <1> QED BY <1>3, <1>4, <1>5, <1>6, <1>7, <1>8

-----------------------------------------------------------------------------
(* Writes of a score or of a finding                                        *)

\* Call k writes score or finding and goes on with next.
WriteStep(k, next) ==
  /\ Wrote(k, next)
  /\ pending \cup Overlap(k) \subseteq pending'
  /\ \A t \in Types : sig'[t].base = sig[t].base /\ (sig[t].present => sig'[t].present)
  /\ \/ score' = score /\ bases' = bases
     \/ score' \in Scores \ {NoScore} /\ bases' = bases \cup {score'}
  /\ ~Applies(k)

LEMMA SkipWrites ==
  ASSUME TypeOK, NEW k \in Calls, PersistSkip(k)
  PROVE  WriteStep(k, Idle)
  BY ConstantsTyped DEF PersistSkip, WriteStep, Applies

LEMMA AnswerWrites ==
  ASSUME TypeOK, NEW k \in Calls, ScoreAnswer(k)
  PROVE  WriteStep(k, ThenApply(k, score')) /\ score' \in bases'
  BY ScoreTyped DEF ScoreAnswer, WriteStep, Applies

LEMMA ResultWrites ==
  ASSUME TypeOK, NEW k \in Calls, HiringResult(k)
  PROVE  WriteStep(k, ThenApply(k, NoScore))
  <1>1. PICK finding \in Researched : sig' = Found("hiring", finding)
    BY DEF HiringResult, UpsertHiring
  <1>2. \A t \in Types : sig'[t].base = sig[t].base /\ (sig[t].present => sig'[t].present)
    BY <1>1, TypesAre DEF Found, TypeOK, Rows
  <1> QED BY <1>2 DEF HiringResult, WriteStep, Applies

LEMMA WroteEffects ==
  ASSUME TypeOK, CoreInv, NEW k \in Calls, NEW next, WriteStep(k, next)
  PROVE  /\ calls'[k] = next
         /\ \A c \in Calls \ {k} : /\ calls'[c].pc = calls[c].pc /\ calls'[c].base = calls[c].base
                                   /\ calls'[c].seen = calls[c].seen /\ ~calls'[c].alone
         /\ \A c \in Calls \ {k} : Applies(c)' <=> Applies(c)
         /\ "overlap" \notin pending' => Applying(k) = {} /\ "overlap" \notin pending
  <1>1. calls'[k] = next
    BY DEF WriteStep, Wrote, Applying
  <1>2. \A c \in Calls \ {k} :
          /\ c \in Applying(k) => calls'[c] = [calls[c] EXCEPT !.alone = FALSE]
          /\ c \notin Applying(k) => calls'[c] = calls[c]
    BY DEF WriteStep, Wrote
  <1>3. \A c \in Calls \ {k} : /\ calls'[c].pc = calls[c].pc /\ calls'[c].base = calls[c].base
                               /\ calls'[c].seen = calls[c].seen /\ ~calls'[c].alone
    <2> SUFFICES ASSUME NEW c \in Calls \ {k}
                 PROVE  /\ calls'[c].pc = calls[c].pc /\ calls'[c].base = calls[c].base
                        /\ calls'[c].seen = calls[c].seen /\ ~calls'[c].alone
      OBVIOUS
    <2>1. calls[c] \in Call
      BY DEF TypeOK
    <2>2. calls[c].alone => c \in Applying(k)
      BY DEF CoreInv, OneApplies, Applying, Applies
    <2> QED BY <1>2, <2>1, <2>2 DEF Call
  <1>4. \A c \in Calls \ {k} : Applies(c)' <=> Applies(c)
    BY <1>3 DEF Applies
  <1>5. "overlap" \notin pending' => Applying(k) = {} /\ "overlap" \notin pending
    BY DEF WriteStep, Overlap
  <1> QED BY <1>1, <1>3, <1>4, <1>5

LEMMA WriteKeeps ==
  ASSUME TypeOK, TypeOK', CoreInv, NEW k \in Calls, NEW next, WriteStep(k, next),
         \/ next = Idle
         \/ next.pc = "lifting" /\ next.seen = NoRows /\ next.base \in {NoScore, score'}
              /\ (next.base # NoScore => score' \in bases')
              /\ (next.alone <=> Applying(k) = {})
  PROVE  CoreInv'
  <1>1. calls'[k] = next
    BY WroteEffects
  <1>3. \A c \in Calls \ {k} : /\ calls'[c].pc = calls[c].pc /\ calls'[c].base = calls[c].base
                               /\ calls'[c].seen = calls[c].seen /\ ~calls'[c].alone
    BY WroteEffects
  <1>4. \A c \in Calls \ {k} : Applies(c)' <=> Applies(c)
    BY WroteEffects
  <1>5. ~Applies(k) /\ bases \subseteq bases' /\ pending \subseteq pending'
    BY DEF WriteStep
  <1>6. /\ Idle.pc = "idle" /\ Idle.base = NoScore /\ Idle.seen = NoRows /\ ~Idle.alone
    BY DEF Idle
  <1>7. \A t \in Types : sig'[t].base = sig[t].base /\ (sig[t].present => sig'[t].present)
    BY DEF WriteStep
  <1>8. "overlap" \notin pending' => Applying(k) = {} /\ "overlap" \notin pending
    BY WroteEffects
  <1>9. BasesKnown'
    <2>1. NoScore \notin bases'
      BY DEF WriteStep, CoreInv, BasesKnown
    <2>2. \A c \in Calls : calls'[c].base \in Bases'
      <3>1. calls'[k].base \in Bases'
        BY <1>1, <1>6 DEF Bases
      <3> QED BY <3>1, <1>3, <1>5 DEF CoreInv, BasesKnown, Bases
    <2> QED BY <2>1, <2>2, <1>5, <1>7 DEF CoreInv, BasesKnown, Bases
  <1>10. RowsRead'
    <2>1. \A t \in Types : ~sig'[t].present => sig'[t].base = NoScore
      BY <1>7 DEF CoreInv, RowsRead
    <2>2. \A c \in Calls : \A t \in Types : ~calls'[c].seen[t].present => calls'[c].seen[t].base = NoScore
      BY <1>1, <1>3, <1>6, NoRowsBare DEF CoreInv, RowsRead
    <2>3. score # NoScore => score' # NoScore
      BY DEF WriteStep
    <2>4. \A c \in Calls : calls'[c].pc = "applying" => Stored(calls'[c].seen) # {} /\ score' # NoScore
      BY <1>1, <1>3, <1>6, <2>3 DEF CoreInv, RowsRead, Stored
    <2>5. \A c \in Calls : \A t \in Types : calls'[c].seen[t].present => sig'[t].present
      BY <1>1, <1>3, <1>6, <1>7, NoRowsBare DEF CoreInv, RowsRead
    <2> QED BY <2>1, <2>2, <2>4, <2>5 DEF RowsRead, Stored
  <1>11. OneApplies'
    <2>1. ASSUME "overlap" \notin pending', NEW a \in Calls, NEW c \in Calls, Applies(a)', Applies(c)'
          PROVE  a = c
      <3>1. Applying(k) = {}
        BY <1>8, <2>1
      <3> QED BY <3>1, <1>4, <2>1 DEF Applying, Applies
    <2>2. Applying(k)' = Applying(k)
      BY <1>4 DEF Applying, Applies
    <2>3. ASSUME NEW c \in Calls, calls'[c].alone PROVE Applies(c)' /\ Applying(c)' = {}
      <3>1. c = k
        BY <1>3, <2>3 DEF CoreInv, OneApplies
      <3>2. next.pc = "lifting" /\ Applying(k) = {}
        BY <1>1, <1>6, <2>3, <3>1
      <3> QED BY <1>1, <2>2, <3>1, <3>2 DEF Applies
    <2> QED BY <2>1, <2>3 DEF OneApplies
  <1>12. ReadsLast'
    <2> SUFFICES ASSUME NEW c \in Calls, calls'[c].pc = "applying",
                        calls'[c].alone \/ "overlap" \notin pending', NEW t \in Types
                 PROVE  calls'[c].seen[t].base = sig'[t].base
      BY DEF ReadsLast
    <2>1. c # k
      BY <1>1, <1>6
    <2>2. calls[c].pc = "applying" /\ calls'[c].seen = calls[c].seen
      BY <1>3, <2>1
    <2>3. calls[c].alone \/ "overlap" \notin pending
      BY <1>3, <1>5, <2>1
    <2>4. calls[c].seen[t].base = sig[t].base
      BY <2>2, <2>3 DEF CoreInv, ReadsLast
    <2> QED BY <2>2, <2>4, <1>7
  <1>13. BareScore'
    <2>1. ASSUME NEW c \in Calls, calls'[c].alone, calls'[c].base # NoScore PROVE score' = calls'[c].base
      <3>1. c = k
        BY <1>3, <2>1 DEF CoreInv, OneApplies
      <3> QED BY <1>1, <1>6, <2>1, <3>1
    <2>2. ASSUME "overlap" \notin pending', \A t \in Types : sig'[t].base = NoScore
          PROVE  score' \in Bases'
      <3>1. \A t \in Types : sig[t].base = NoScore
        BY <1>7, <2>2
      <3>2. score \in Bases
        BY <1>8, <2>2, <3>1 DEF CoreInv, BareScore
      <3> QED BY <3>2 DEF WriteStep, Bases
    <2> QED BY <2>1, <2>2 DEF BareScore
  <1>14. OneLift'
    <2> SUFFICES ASSUME "overlap" \notin pending'
                 PROVE  score' \in {NoScore} \cup bases'
                          \cup {Lift(b, s, n) : b \in bases', s \in {"medium", "high"}, n \in 0..2}
      BY DEF OneLift
    <2>1. score \in {NoScore} \cup bases
            \cup {Lift(b, s, n) : b \in bases, s \in {"medium", "high"}, n \in 0..2}
      BY <1>8 DEF CoreInv, OneLift
    <2> QED BY <2>1 DEF WriteStep
  <1> QED BY <1>9, <1>10, <1>11, <1>12, <1>13, <1>14 DEF CoreInv

-----------------------------------------------------------------------------
(* The two steps of apply_signal_uplifts                                    *)

LEMMA ReadKeeps ==
  ASSUME TypeOK, TypeOK', CoreInv, NEW k \in Calls, ApplyRead(k)
  PROVE  CoreInv'
  <1>1. calls[k].pc = "lifting" /\ calls[k] \in Call
    BY DEF ApplyRead, TypeOK
  <1>2. score' = score /\ sig' = sig /\ bases' = bases
    BY DEF ApplyRead
  <1>3. \A c \in Calls \ {k} : calls'[c] = calls[c]
    BY DEF ApplyRead, TypeOK
  <1>4. CASE Stored(sig) = {} \/ score = NoScore
    <2>1. calls'[k] = Idle
      BY <1>4 DEF ApplyRead, TypeOK
    <2>2. \A c \in Calls : calls'[c] = calls[c] \/ Quiet(calls'[c])
      BY <2>1, <1>3, IdleQuiet
    <2>3. CASE ~(Stored(sig) = {} /\ calls[k].alone /\ calls[k].base # NoScore)
      <3>1. QuietStep
        BY <1>2, <2>2, <2>3 DEF ApplyRead, QuietStep
      <3> QED BY <3>1, QuietKeeps
    <2>4. CASE Stored(sig) = {} /\ calls[k].alone /\ calls[k].base # NoScore
      <3>1. \A t \in Types : sig[t].base = NoScore
        BY <2>4 DEF CoreInv, RowsRead, Stored
      <3>2. score \in bases
        BY <2>4 DEF CoreInv, OneApplies, BareScore, BasesKnown, Bases
      <3>3. \A c \in Calls : ~Applies(c)' /\ ~calls'[c].alone
        <4>1. \A c \in Calls \ {k} : ~Applies(c)
          BY <2>4 DEF CoreInv, OneApplies, Applying, Applies
        <4> QED BY <4>1, <1>3, <2>1, IdleQuiet DEF Applies, Quiet, CoreInv, OneApplies
      <3>4. BasesKnown'
        BY <1>2, <2>2, <3>1 DEF CoreInv, BasesKnown, Bases, Quiet
      <3>5. RowsRead'
        <4>1. \A c \in Calls : \A t \in Types : ~calls'[c].seen[t].present => calls'[c].seen[t].base = NoScore
          BY <2>2, NoRowsBare DEF CoreInv, RowsRead, Quiet
        <4>2. \A c \in Calls : \A t \in Types : calls'[c].seen[t].present => sig'[t].present
          BY <1>2, <2>2, NoRowsBare DEF CoreInv, RowsRead, Quiet
        <4> QED BY <1>2, <3>3, <4>1, <4>2 DEF CoreInv, RowsRead, Applies, Stored
      <3>6. OneApplies' /\ ReadsLast'
        BY <3>3 DEF OneApplies, ReadsLast, Applies
      <3>7. BareScore' /\ OneLift'
        BY <1>2, <3>2, <3>3 DEF BareScore, OneLift, Bases
      <3> QED BY <3>4, <3>5, <3>6, <3>7 DEF CoreInv
    <2> QED BY <2>3, <2>4
  <1>5. CASE Stored(sig) # {} /\ score # NoScore
    <2>1. calls'[k] = [calls[k] EXCEPT !.pc = "applying", !.seen = sig]
      BY <1>5 DEF ApplyRead, TypeOK
    <2>2. /\ calls'[k].pc = "applying" /\ calls'[k].seen = sig
          /\ calls'[k].base = calls[k].base /\ calls'[k].alone = calls[k].alone
      BY <1>1, <2>1 DEF Call
    <2>3. pending' = pending
      BY <1>5 DEF ApplyRead
    <2>4. \A c \in Calls : Applies(c)' <=> Applies(c)
      BY <1>1, <1>3, <2>2 DEF Applies
    <2>5. \A c \in Calls : Applying(c)' = Applying(c)
      BY <2>4 DEF Applying, Applies
    <2>6. \A c \in Calls : calls'[c].base = calls[c].base /\ calls'[c].alone = calls[c].alone
      BY <1>3, <2>2
    <2>7. BasesKnown'
      BY <1>2, <2>3, <2>6 DEF CoreInv, BasesKnown, Bases
    <2>8. RowsRead'
      <3>1. \A c \in Calls : \A t \in Types : ~calls'[c].seen[t].present => calls'[c].seen[t].base = NoScore
        BY <1>3, <2>2 DEF CoreInv, RowsRead
      <3>2. \A c \in Calls : calls'[c].pc = "applying" => Stored(calls'[c].seen) # {} /\ score' # NoScore
        BY <1>2, <1>3, <1>5, <2>2 DEF CoreInv, RowsRead
      <3>3. \A c \in Calls : \A t \in Types : calls'[c].seen[t].present => sig'[t].present
        BY <1>2, <1>3, <2>2 DEF CoreInv, RowsRead
      <3> QED BY <1>2, <3>1, <3>2, <3>3 DEF CoreInv, RowsRead, Stored
    <2>9. OneApplies'
      BY <2>3, <2>4, <2>5, <2>6 DEF CoreInv, OneApplies
    <2>10. ReadsLast'
      BY <1>2, <1>3, <2>2, <2>3 DEF CoreInv, ReadsLast
    <2>11. BareScore' /\ OneLift'
      BY <1>2, <2>3, <2>4, <2>6 DEF CoreInv, BareScore, OneLift, Bases
    <2> QED BY <2>7, <2>8, <2>9, <2>10, <2>11 DEF CoreInv
  <1> QED BY <1>4, <1>5

\* Call k has applied the best uplift of base.  Without an overlap no other call
\* applies, and what rows remember afterwards is that base.
Applied(k, call, base) ==
  /\ call = calls[k] /\ call.pc = "applying" /\ base \in BaseOf(call)
  /\ \A c \in Calls : calls'[c] = IF c = k THEN Idle ELSE calls[c]
  /\ bases' = bases /\ pending' = pending \ Settled(call)
  /\ Stored(call.seen) # {} /\ base \in Scores \ {NoScore}
  /\ score' = Best(base, call.seen)
  /\ \A t \in Types : /\ call.seen[t].present => sig[t].present
                      /\ sig'[t].present = sig[t].present /\ sig'[t].finding = sig[t].finding
                      /\ sig'[t].base = IF call.seen[t].present /\ call.seen[t].base # base
                                        THEN base ELSE sig[t].base
  /\ (call.alone \/ "overlap" \notin pending) =>
       /\ Applying(k) = {}
       /\ \A t \in Types : call.seen[t].base = sig[t].base
  /\ "overlap" \notin pending' =>
       /\ Applying(k) = {} /\ base \in bases
       /\ \A t \in Types : sig'[t].base = IF call.seen[t].present THEN base ELSE NoScore

LEMMA ApplyWriteEffects ==
  ASSUME TypeOK, CoreInv, NEW k \in Calls, ApplyWrite(k)
  PROVE  \E call \in Call, base \in Scores : Applied(k, call, base)
  <1>1. PICK call \in Call : call = calls[k]
    BY DEF TypeOK
  <1>2. PICK base \in BaseOf(call) :
          /\ sig' = [t \in Types |->
                       IF Stored(call.seen) # {} /\ call.seen[t].present /\ call.seen[t].base # base
                       THEN [sig[t] EXCEPT !.base = base] ELSE sig[t]]
          /\ score' = Best(base, call.seen)
    BY <1>1 DEF ApplyWrite
  <1>3. /\ call.pc = "applying" /\ calls' = [calls EXCEPT ![k] = Idle] /\ bases' = bases
        /\ pending' = pending \ Settled(call)
    BY <1>1 DEF ApplyWrite, End
  <1>4. \A c \in Calls : calls'[c] = IF c = k THEN Idle ELSE calls[c]
    BY <1>3 DEF TypeOK
  <1>5. Idle.pc = "idle" /\ Idle.base = NoScore /\ Idle.seen = NoRows /\ ~Idle.alone
    BY DEF Idle
  <1>6. Applies(k) /\ Stored(call.seen) # {} /\ score # NoScore
    BY <1>1, <1>3 DEF CoreInv, RowsRead, Applies
  <1>7. base \in Scores \ {NoScore}
    <2>1. \A t \in Types : call.seen[t].base \in Scores
      BY DEF Call, Rows
    <2>2. call.base \in Scores /\ score \in Scores
      BY DEF Call, TypeOK
    <2>3. \/ base = call.base /\ base # NoScore
          \/ base = score
          \/ base \in {call.seen[t].base : t \in Types} \ {NoScore}
      BY <1>2 DEF BaseOf
    <2> QED BY <1>6, <2>1, <2>2, <2>3
  <1>9. \A t \in Types : call.seen[t].present => sig[t].present
    BY <1>1 DEF CoreInv, RowsRead
  <1>10. \A t \in Types : /\ sig'[t].present = sig[t].present /\ sig'[t].finding = sig[t].finding
                          /\ sig'[t].base = IF call.seen[t].present /\ call.seen[t].base # base
                                            THEN base ELSE sig[t].base
    <2> SUFFICES ASSUME NEW t \in Types
                 PROVE  /\ sig'[t].present = sig[t].present /\ sig'[t].finding = sig[t].finding
                        /\ sig'[t].base = IF call.seen[t].present /\ call.seen[t].base # base
                                          THEN base ELSE sig[t].base
      OBVIOUS
    <2> DEFINE row == [sig[t] EXCEPT !.base = base]
    <2>1. sig[t] \in Rows
      BY DEF TypeOK
    <2>2. sig'[t] = IF call.seen[t].present /\ call.seen[t].base # base THEN row ELSE sig[t]
      BY <1>2, <1>6
    <2>3. row.present = sig[t].present /\ row.finding = sig[t].finding /\ row.base = base
      BY <2>1 DEF Rows
    <2> QED BY <2>2, <2>3
  <1>11. ASSUME call.alone \/ "overlap" \notin pending
         PROVE  Applying(k) = {} /\ \A t \in Types : call.seen[t].base = sig[t].base
    <2>1. Applying(k) = {}
      <3>1. CASE call.alone
        BY <1>1, <3>1 DEF CoreInv, OneApplies
      <3>2. CASE "overlap" \notin pending
        BY <1>6, <3>2 DEF CoreInv, OneApplies, Applying, Applies
      <3> QED BY <1>11, <3>1, <3>2
    <2>2. \A t \in Types : call.seen[t].base = sig[t].base
      BY <1>1, <1>3, <1>11 DEF CoreInv, ReadsLast
    <2> QED BY <2>1, <2>2
  <1>12. ASSUME "overlap" \notin pending'
         PROVE  /\ Applying(k) = {} /\ base \in bases
                /\ \A t \in Types : sig'[t].base = IF call.seen[t].present THEN base ELSE NoScore
    <2>1. (call.alone /\ call.base # NoScore) \/ "overlap" \notin pending
      BY <1>3, <1>12 DEF Settled
    <2>2. Applying(k) = {} /\ \A t \in Types : call.seen[t].base = sig[t].base
      BY <1>11, <2>1
    <2>3. base \in bases
      <3>1. CASE call.base # NoScore
        BY <1>1, <1>2, <3>1 DEF CoreInv, BasesKnown, Bases, BaseOf
      <3>2. CASE call.base = NoScore /\ \E t \in Types : call.seen[t].base # NoScore
        <4>1. PICK t \in Types : base = call.seen[t].base
          BY <1>2, <3>2 DEF BaseOf
        <4> QED BY <1>7, <2>1, <2>2, <3>2, <4>1 DEF CoreInv, BasesKnown, Bases
      <3>3. CASE call.base = NoScore /\ \A t \in Types : call.seen[t].base = NoScore
        <4>1. base = score
          BY <1>2, <3>3 DEF BaseOf
        <4> QED BY <1>6, <2>1, <2>2, <3>3, <4>1 DEF CoreInv, BareScore, Bases
      <3> QED BY <3>1, <3>2, <3>3
    <2>4. \A t \in Types : ~call.seen[t].present => call.seen[t].base = NoScore
      BY <1>1 DEF CoreInv, RowsRead
    <2> QED BY <1>10, <2>2, <2>3, <2>4
  <1> QED BY <1>1, <1>2, <1>3, <1>4, <1>6, <1>7, <1>9, <1>10, <1>11, <1>12 DEF Applied

LEMMA ApplyWriteKeeps ==
  ASSUME TypeOK, TypeOK', CoreInv, NEW k \in Calls, ApplyWrite(k)
  PROVE  CoreInv'
  <1>1. PICK call \in Call, base \in Scores : Applied(k, call, base)
    BY ApplyWriteEffects
  <1>3. call = calls[k] /\ call.pc = "applying" /\ bases' = bases
    BY <1>1 DEF Applied
  <1>4. \A c \in Calls : calls'[c] = IF c = k THEN Idle ELSE calls[c]
    BY <1>1 DEF Applied
  <1>5. Idle.pc = "idle" /\ Idle.base = NoScore /\ Idle.seen = NoRows /\ ~Idle.alone
    BY DEF Idle
  <1>6. Applies(k) /\ Stored(call.seen) # {} /\ score # NoScore
    BY <1>3 DEF CoreInv, RowsRead, Applies
  <1>7. base # NoScore
    BY <1>1 DEF Applied
  <1>8. score' \in Scores \cap Uplifts(base) /\ score' # NoScore
    BY <1>1, <1>7, BestSound DEF Call, Applied
  <1>9. \A t \in Types : call.seen[t].present => sig[t].present
    BY <1>1 DEF Applied
  <1>10. \A t \in Types : /\ sig'[t].present = sig[t].present
                          /\ sig'[t].base = IF call.seen[t].present /\ call.seen[t].base # base
                                            THEN base ELSE sig[t].base
    BY <1>1 DEF Applied
  <1>11. "overlap" \notin pending' =>
           /\ Applying(k) = {} /\ base \in bases
           /\ \A t \in Types : sig'[t].base = IF call.seen[t].present THEN base ELSE NoScore
    BY <1>1 DEF Applied
  <1>12. \A c \in Calls \ {k} : calls[c].alone => FALSE
    BY <1>6 DEF CoreInv, OneApplies, Applying, Applies
  <1>13. \A c \in Calls : ~calls'[c].alone
    BY <1>4, <1>5, <1>12 DEF CoreInv, OneApplies
  <1>14. "overlap" \notin pending' => \A c \in Calls : ~Applies(c)'
    BY <1>4, <1>5, <1>11 DEF Applying, Applies
  <1>15. BasesKnown'
    <2>1. \A c \in Calls : calls'[c].base \in Bases'
      BY <1>3, <1>4, <1>5 DEF CoreInv, BasesKnown, Bases
    <2> QED BY <1>3, <1>11, <2>1 DEF CoreInv, BasesKnown, Bases
  <1>16. RowsRead'
    <2>1. \A t \in Types : ~sig'[t].present => sig'[t].base = NoScore
      BY <1>9, <1>10 DEF CoreInv, RowsRead
    <2>2. \A c \in Calls : \A t \in Types : ~calls'[c].seen[t].present => calls'[c].seen[t].base = NoScore
      BY <1>4, <1>5, NoRowsBare DEF CoreInv, RowsRead
    <2>3. \A c \in Calls : \A t \in Types : calls'[c].seen[t].present => sig'[t].present
      BY <1>4, <1>5, <1>10, NoRowsBare DEF CoreInv, RowsRead
    <2>4. \A c \in Calls : calls'[c].pc = "applying" => Stored(calls'[c].seen) # {} /\ score' # NoScore
      BY <1>4, <1>5, <1>8 DEF CoreInv, RowsRead
    <2> QED BY <2>1, <2>2, <2>3, <2>4 DEF RowsRead, Stored
  <1>17. OneApplies'
    BY <1>13, <1>14 DEF OneApplies
  <1>18. ReadsLast'
    BY <1>13, <1>14 DEF ReadsLast, Applies
  <1>19. BareScore'
    <2>1. PICK t \in Types : call.seen[t].present
      BY <1>6 DEF Stored
    <2>2. "overlap" \notin pending' => sig'[t].base # NoScore
      BY <1>7, <1>11, <2>1
    <2> QED BY <1>13, <2>2 DEF BareScore
  <1>20. OneLift'
    BY <1>3, <1>8, <1>11 DEF OneLift, Uplifts
  <1> QED BY <1>15, <1>16, <1>17, <1>18, <1>19, <1>20 DEF CoreInv

-----------------------------------------------------------------------------
(* The theorem                                                              *)

LEMMA CoreInit == Init => CoreInv
  BY DEF Init, CoreInv, BasesKnown, RowsRead, OneApplies, ReadsLast, BareScore, OneLift, Bases,
         NoRows, NoRow, Idle, Stored, Applies

LEMMA CoreStep == TypeOK /\ TypeOK' /\ CoreInv /\ [Next]_vars => CoreInv'
  <1> SUFFICES ASSUME TypeOK, TypeOK', CoreInv, [Next]_vars PROVE CoreInv'
    OBVIOUS
  <1>1. CASE \/ UNCHANGED vars
             \/ Research \/ SourceImport
             \/ \E k \in Calls : \/ ScoreStart(k) \/ RescueList(k) \/ RescueNext(k)
                                 \/ HiringStart(k) \/ HiringFailure(k) \/ Die(k)
    BY <1>1, QuietSteps, QuietKeeps
  <1>2. ASSUME NEW k \in Calls, PersistSkip(k) PROVE CoreInv'
    BY <1>2, SkipWrites, WriteKeeps
  <1>3. ASSUME NEW k \in Calls, ScoreAnswer(k) PROVE CoreInv'
    <2>1. PICK written \in Scores : written = score'
      BY DEF TypeOK
    <2>2. WriteStep(k, ThenApply(k, written)) /\ written \in bases'
      BY <1>3, <2>1, AnswerWrites
    <2>3. PICK next : next = ThenApply(k, written)
      OBVIOUS
    <2>4. /\ next.pc = "lifting" /\ next.seen = NoRows /\ next.base = written
          /\ (next.alone <=> Applying(k) = {})
      BY <2>3 DEF ThenApply, Idle
    <2> QED BY <2>1, <2>2, <2>3, <2>4, WriteKeeps
  <1>4. ASSUME NEW k \in Calls, HiringResult(k) PROVE CoreInv'
    <2>1. PICK next : next = ThenApply(k, NoScore)
      OBVIOUS
    <2>2. /\ next.pc = "lifting" /\ next.seen = NoRows /\ next.base = NoScore
          /\ (next.alone <=> Applying(k) = {})
      BY <2>1 DEF ThenApply, Idle
    <2> QED BY <1>4, <2>1, <2>2, ResultWrites, WriteKeeps
  <1>5. ASSUME NEW k \in Calls, ApplyRead(k) PROVE CoreInv'
    BY <1>5, ReadKeeps
  <1>6. ASSUME NEW k \in Calls, ApplyWrite(k) PROVE CoreInv'
    BY <1>6, ApplyWriteKeeps
  <1> QED BY <1>1, <1>2, <1>3, <1>4, <1>5, <1>6 DEF Next

\* Uplifts never compound: outside of overlaps the score is one uplift of a
\* score that score_lead wrote.
THEOREM OneLiftCorrect == Spec => []OneLift
  <1>1. CoreInv => OneLift
    BY DEF CoreInv
  <1> QED BY <1>1, TypeInit, TypeStep, CoreInit, CoreStep, PTL DEF Spec

-----------------------------------------------------------------------------
(* The score follows the signals                                            *)

\* A score is there once score_lead has written one.
ScoredOnce ==
  /\ (score = NoScore) <=> (fresh = NoScore)
  /\ \A k \in Calls : calls[k].base # NoScore => fresh # NoScore

\* Only a call that is alone applies without an overlap; what it was handed is
\* the last score.
LastHandedOn ==
  /\ "overlap" \notin pending => \A k \in Calls : Applies(k) => calls[k].alone
  /\ \A k \in Calls : calls[k].alone /\ calls[k].base # NoScore => calls[k].base = fresh

\* Once the last score has been applied, the rows remember it; if none does, it
\* is what is stored.
LastRemembered ==
  (/\ {"overlap", "crash", "skip"} \cap pending = {}
   /\ \A k \in Calls : Applies(k) => calls[k].base = NoScore) =>
     /\ \A t \in Types : sig[t].base \in {fresh, NoScore}
     /\ (\A t \in Types : sig[t].base = NoScore) => score = fresh

\* A signal that was never stored has no finding, and what a call has read is
\* what is stored, but for imports.
FindingsRead ==
  /\ \A t \in Types : ~sig[t].present => sig[t].finding = Nothing
  /\ \A k \in Calls : \A t \in Types : ~calls[k].seen[t].present => calls[k].seen[t].finding = Nothing
  /\ \A k \in Calls : calls[k].pc = "applying" =>
       /\ calls[k].alone => calls[k].seen["hiring"].finding = sig["hiring"].finding
       /\ "import" \notin pending =>
            calls[k].seen["source_import"].finding = sig["source_import"].finding

FollowInv == ScoredOnce /\ LastHandedOn /\ LastRemembered /\ FindingsRead /\ ScoreFollowsSignals

\* The best uplift depends on the findings only.
LEMMA NothingLifts ==
  ASSUME NEW base, NEW rows, NEW t, rows[t].finding = Nothing
  PROVE  RowLift(base, rows, t) = base
  BY DEF RowLift, Nothing, Lift, Target

LEMMA BestSame ==
  ASSUME NEW base, NEW one, NEW other,
         \A t \in Types : /\ one[t].finding = other[t].finding
                          /\ ~one[t].present => one[t].finding = Nothing
                          /\ ~other[t].present => other[t].finding = Nothing
  PROVE  Best(base, one) = Best(base, other)
  <1> DEFINE lifted(rows) == {base} \cup {RowLift(base, rows, t) : t \in Stored(rows)}
  <1>1. \A t \in Types : /\ RowLift(base, one, t) = RowLift(base, other, t)
                         /\ t \notin Stored(one) => RowLift(base, one, t) = base
                         /\ t \notin Stored(other) => RowLift(base, other, t) = base
    BY NothingLifts DEF RowLift, Stored
  <1>2. lifted(one) = lifted(other)
    BY <1>1 DEF Stored
  <1>3. \A rows : Best(base, rows) = CHOOSE s \in lifted(rows) : \A o \in lifted(rows) : Rank(o) <= Rank(s)
    BY DEF Best, RowLift
  <1> HIDE DEF lifted
  <1> QED BY <1>2, <1>3

\* What no row lifts is its own best.
LEMMA BestOfNone ==
  ASSUME NEW base \in Scores, NEW rows \in [Types -> Rows],
         Stored(rows) = {} \/ base.tier \notin {"B", "C"}
  PROVE  Best(base, rows) = base
  <1> SUFFICES ASSUME NEW t \in Stored(rows) PROVE RowLift(base, rows, t) = base
    BY BestIsBest
  <1> QED BY DEF RowLift, Lift, Target

\* Quiet steps keep what has been scored and found, but for imports and for
\* calls that die before they have applied.
FollowQuiet ==
  /\ QuietStep /\ fresh' = fresh
  /\ "crash" \notin pending' => \A c \in Calls : Applies(c) => calls'[c] = calls[c]
  /\ \A t \in Types : \/ sig'[t].finding = sig[t].finding
                      \/ t = "source_import" /\ "import" \in pending' /\ sig'[t].present

LEMMA FollowQuietSteps ==
  ASSUME TypeOK,
         \/ UNCHANGED vars
         \/ Research \/ SourceImport
         \/ \E k \in Calls : \/ ScoreStart(k) \/ RescueList(k) \/ RescueNext(k)
                             \/ HiringStart(k) \/ HiringFailure(k) \/ Die(k)
  PROVE  FollowQuiet
  <1>1. QuietStep
    BY QuietSteps
  <1>2. fresh' = fresh
    BY DEF vars, Research, SourceImport, ScoreStart, RescueList, RescueNext, HiringStart, HiringFailure, Die
  <1>3. CASE UNCHANGED vars \/ Research
    BY <1>1, <1>2, <1>3 DEF vars, Research, FollowQuiet
  <1>4. CASE SourceImport
    <2>1. PICK finding \in Sent : sig' = Found("source_import", finding)
      BY <1>4 DEF SourceImport
    <2>2. \A t \in Types : sig'[t].finding = sig[t].finding \/ (t = "source_import" /\ sig'[t].present)
      BY <2>1, TypesAre DEF Found, TypeOK, Rows
    <2> QED BY <1>1, <1>2, <1>4, <2>2 DEF SourceImport, FollowQuiet
  <1>5. ASSUME NEW k \in Calls, ScoreStart(k) \/ RescueList(k) \/ RescueNext(k) \/ HiringStart(k)
        PROVE  FollowQuiet
    <2>1. \A c \in Calls : Applies(c) => calls'[c] = calls[c]
      <3>1. ~Applies(k)
        <4>1. calls[k] = Idle \/ calls[k].pc = "listed"
          BY <1>5 DEF ScoreStart, RescueList, RescueNext, HiringStart, Begin
        <4>2. Idle.pc = "idle"
          BY DEF Idle
        <4> QED BY <4>1, <4>2 DEF Applies
      <3>2. \A c \in Calls \ {k} : calls'[c] = calls[c]
        BY <1>5 DEF ScoreStart, RescueList, RescueNext, HiringStart, Begin, TypeOK
      <3> QED BY <3>1, <3>2
    <2>2. sig' = sig
      BY <1>5 DEF ScoreStart, RescueList, RescueNext, HiringStart
    <2> QED BY <1>1, <1>2, <2>1, <2>2 DEF FollowQuiet
  <1>6. ASSUME NEW k \in Calls, HiringFailure(k) PROVE FollowQuiet
    <2>1. \A t \in Types : sig'[t].finding = sig[t].finding
      BY <1>6, TypesAre DEF HiringFailure, TypeOK, Rows
    <2>2. \A c \in Calls : Applies(c) => calls'[c] = calls[c]
      BY <1>6 DEF HiringFailure, End, Applies, TypeOK
    <2> QED BY <1>1, <1>2, <2>1, <2>2 DEF FollowQuiet
  <1>7. ASSUME NEW k \in Calls, Die(k) PROVE FollowQuiet
    <2>1. "crash" \notin pending' => \A c \in Calls : Applies(c) => calls'[c] = calls[c]
      BY <1>7 DEF Die, End, Applies, TypeOK
    <2>2. sig' = sig
      BY <1>7 DEF Die
    <2> QED BY <1>1, <1>2, <2>1, <2>2 DEF FollowQuiet
  <1> QED BY <1>3, <1>4, <1>5, <1>6, <1>7

LEMMA NoRowsNothing == \A t \in Types : NoRows[t].finding = Nothing
  BY DEF NoRows, NoRow

LEMMA FollowQuietKeeps ==
  ASSUME TypeOK, TypeOK', CoreInv, FollowInv, FollowQuiet
  PROVE  FollowInv'
  <1>1. /\ score' = score /\ bases' = bases /\ fresh' = fresh /\ pending \subseteq pending'
        /\ \A t \in Types : sig'[t].base = sig[t].base /\ (sig[t].present => sig'[t].present)
        /\ \A c \in Calls : calls'[c] = calls[c] \/ Quiet(calls'[c])
    BY DEF FollowQuiet, QuietStep
  <1>2. \A c \in Calls : Applies(c)' => Applies(c) /\ calls'[c] = calls[c]
    BY <1>1 DEF Applies, Quiet
  <1>3. "crash" \notin pending' => \A c \in Calls : Applies(c) => calls'[c] = calls[c]
    BY DEF FollowQuiet
  <1>4. \A t \in Types : \/ sig'[t].finding = sig[t].finding
                         \/ t = "source_import" /\ "import" \in pending' /\ sig'[t].present
    BY DEF FollowQuiet
  <1>5. ScoredOnce'
    BY <1>1 DEF FollowInv, ScoredOnce, Quiet
  <1>6. LastHandedOn'
    BY <1>1, <1>2 DEF FollowInv, LastHandedOn, Quiet
  <1>7. LastRemembered'
    <2> SUFFICES ASSUME {"overlap", "crash", "skip"} \cap pending' = {},
                        \A k \in Calls : Applies(k)' => calls'[k].base = NoScore
                 PROVE  /\ \A t \in Types : sig'[t].base \in {fresh', NoScore}
                        /\ (\A t \in Types : sig'[t].base = NoScore) => score' = fresh'
      BY DEF LastRemembered
    <2>1. \A k \in Calls : Applies(k) => calls[k].base = NoScore
      BY <1>3 DEF Applies
    <2>2. {"overlap", "crash", "skip"} \cap pending = {}
      BY <1>1
    <2> QED BY <1>1, <2>1, <2>2 DEF FollowInv, LastRemembered
  <1>8. FindingsRead'
    <2>1. \A t \in Types : ~sig'[t].present => sig'[t].finding = Nothing
      BY <1>1, <1>4 DEF FollowInv, FindingsRead
    <2>2. \A c \in Calls : \A t \in Types : ~calls'[c].seen[t].present => calls'[c].seen[t].finding = Nothing
      BY <1>1, NoRowsNothing DEF FollowInv, FindingsRead, Quiet
    <2>3. ASSUME NEW c \in Calls, calls'[c].pc = "applying"
          PROVE  /\ calls'[c].alone => calls'[c].seen["hiring"].finding = sig'["hiring"].finding
                 /\ "import" \notin pending' =>
                      calls'[c].seen["source_import"].finding = sig'["source_import"].finding
      <3>1. calls'[c] = calls[c]
        BY <1>1, <2>3 DEF Quiet
      <3>2. sig'["hiring"].finding = sig["hiring"].finding
        BY <1>4, TypesAre
      <3>3. "import" \notin pending' => sig'["source_import"].finding = sig["source_import"].finding
        BY <1>4, TypesAre
      <3>4. calls[c].pc = "applying" /\ ("import" \notin pending' => "import" \notin pending)
        BY <1>1, <2>3, <3>1
      <3>5. /\ calls[c].alone => calls[c].seen["hiring"].finding = sig["hiring"].finding
            /\ "import" \notin pending =>
                 calls[c].seen["source_import"].finding = sig["source_import"].finding
        BY <3>4 DEF FollowInv, FindingsRead
      <3> QED BY <3>1, <3>2, <3>3, <3>4, <3>5
    <2> QED BY <2>1, <2>2, <2>3 DEF FindingsRead
  <1>9. ScoreFollowsSignals'
    <2> SUFFICES ASSUME pending' = {}, \A k \in Calls : calls'[k].pc \notin {"lifting", "applying"}
                 PROVE  score' = Best(fresh', sig')
      BY DEF ScoreFollowsSignals
    <2>1. pending = {} /\ \A k \in Calls : calls[k].pc \notin {"lifting", "applying"}
      BY <1>1, <1>3 DEF Applies
    <2>2. score = Best(fresh, sig)
      BY <2>1 DEF FollowInv, ScoreFollowsSignals
    <2>3. PICK after \in [Types -> Rows] : after = sig'
      BY DEF TypeOK
    <2>4. \A t \in Types : /\ sig[t].finding = after[t].finding
                           /\ ~sig[t].present => sig[t].finding = Nothing
                           /\ ~after[t].present => after[t].finding = Nothing
      BY <1>4, <1>8, <2>3 DEF FollowInv, FindingsRead
    <2>5. PICK before \in [Types -> Rows], last \in Scores : before = sig /\ last = fresh
      BY DEF TypeOK
    <2>6. Best(last, before) = Best(last, after)
      BY <2>4, <2>5, BestSame
    <2> QED BY <1>1, <2>2, <2>3, <2>5, <2>6
  <1> QED BY <1>5, <1>6, <1>7, <1>8, <1>9 DEF FollowInv

LEMMA FollowSkip ==
  ASSUME TypeOK, CoreInv, FollowInv, NEW k \in Calls, PersistSkip(k)
  PROVE  FollowInv'
  <1>1. WriteStep(k, Idle)
    BY SkipWrites
  <1>2. /\ calls'[k] = Idle
        /\ \A c \in Calls \ {k} : /\ calls'[c].pc = calls[c].pc /\ calls'[c].base = calls[c].base
                                  /\ calls'[c].seen = calls[c].seen /\ ~calls'[c].alone
        /\ \A c \in Calls \ {k} : Applies(c)' <=> Applies(c)
        /\ "overlap" \notin pending' => Applying(k) = {} /\ "overlap" \notin pending
    BY <1>1, WroteEffects
  <1>3. /\ score' = Skipped /\ fresh' = Skipped /\ sig' = sig /\ pending \subseteq pending'
        /\ "skip" \notin pending' => \A t \in Types : sig[t].base = NoScore
    BY DEF PersistSkip
  <1>4. Idle.pc = "idle" /\ Idle.base = NoScore /\ Idle.seen = NoRows /\ ~Idle.alone
    BY DEF Idle
  <1>5. \A c \in Calls : ~calls'[c].alone
    BY <1>2, <1>4
  <1>6. "overlap" \notin pending' => \A c \in Calls : ~Applies(c)'
    BY <1>2, <1>4 DEF Applying, Applies
  <1>7. ScoredOnce'
    BY <1>3, ConstantsTyped DEF ScoredOnce
  <1>8. LastHandedOn'
    BY <1>5, <1>6 DEF LastHandedOn
  <1>9. LastRemembered'
    BY <1>3 DEF LastRemembered
  <1>10. FindingsRead'
    <2>1. \A c \in Calls : \A t \in Types : ~calls'[c].seen[t].present => calls'[c].seen[t].finding = Nothing
      BY <1>2, <1>4, NoRowsNothing DEF FollowInv, FindingsRead
    <2>2. \A c \in Calls : calls'[c].pc = "applying" /\ "import" \notin pending' =>
                             calls'[c].seen["source_import"].finding = sig["source_import"].finding
      BY <1>2, <1>3, <1>4 DEF FollowInv, FindingsRead
    <2> QED BY <1>3, <1>5, <2>1, <2>2 DEF FollowInv, FindingsRead
  <1>11. ScoreFollowsSignals'
    <2>1. Skipped.tier = "D"
      BY DEF Skipped
    <2>2. PICK rows \in [Types -> Rows] : rows = sig
      BY DEF TypeOK
    <2>3. Best(Skipped, rows) = Skipped
      BY <2>1, BestOfNone, ConstantsTyped
    <2> QED BY <1>3, <2>2, <2>3 DEF ScoreFollowsSignals
  <1> QED BY <1>7, <1>8, <1>9, <1>10, <1>11 DEF FollowInv

LEMMA FollowAnswer ==
  ASSUME TypeOK, TypeOK', CoreInv, FollowInv, NEW k \in Calls, ScoreAnswer(k)
  PROVE  FollowInv'
  <1>1. PICK written \in Scores : written = score'
    BY DEF TypeOK
  <1>2. PICK next : next = ThenApply(k, written)
    OBVIOUS
  <1>3. WriteStep(k, next)
    BY <1>1, <1>2, AnswerWrites
  <1>4. /\ calls'[k] = next
        /\ \A c \in Calls \ {k} : /\ calls'[c].pc = calls[c].pc /\ calls'[c].base = calls[c].base
                                  /\ calls'[c].seen = calls[c].seen /\ ~calls'[c].alone
        /\ \A c \in Calls \ {k} : Applies(c)' <=> Applies(c)
        /\ "overlap" \notin pending' => Applying(k) = {} /\ "overlap" \notin pending
    BY <1>3, WroteEffects
  <1>5. next.pc = "lifting" /\ next.seen = NoRows /\ next.base = written /\ (next.alone <=> Applying(k) = {})
    BY <1>2 DEF ThenApply, Idle
  <1>6. fresh' = written /\ written # NoScore /\ sig' = sig /\ pending \subseteq pending'
    BY <1>1, ScoreTyped DEF ScoreAnswer
  <1>7. ScoredOnce'
    BY <1>1, <1>6 DEF ScoredOnce
  <1>8. LastHandedOn'
    <2>1. "overlap" \notin pending' => \A c \in Calls \ {k} : ~Applies(c)'
      BY <1>4 DEF Applying, Applies
    <2> QED BY <1>4, <1>5, <1>6, <2>1 DEF LastHandedOn
  <1>9. Applies(k)' /\ calls'[k].base # NoScore
    BY <1>4, <1>5, <1>6 DEF Applies
  <1>10. LastRemembered'
    BY <1>9 DEF LastRemembered
  <1>11. FindingsRead'
    <2>1. \A c \in Calls : \A t \in Types : ~calls'[c].seen[t].present => calls'[c].seen[t].finding = Nothing
      BY <1>4, <1>5, NoRowsNothing DEF FollowInv, FindingsRead
    <2>2. \A c \in Calls : calls'[c].pc = "applying" =>
             /\ ~calls'[c].alone
             /\ "import" \notin pending' =>
                  calls'[c].seen["source_import"].finding = sig["source_import"].finding
      BY <1>4, <1>5, <1>6 DEF FollowInv, FindingsRead
    <2> QED BY <1>6, <2>1, <2>2 DEF FollowInv, FindingsRead
  <1>12. ScoreFollowsSignals'
    BY <1>9 DEF ScoreFollowsSignals, Applies
  <1> QED BY <1>7, <1>8, <1>10, <1>11, <1>12 DEF FollowInv

LEMMA FollowResult ==
  ASSUME TypeOK, TypeOK', CoreInv, FollowInv, NEW k \in Calls, HiringResult(k)
  PROVE  FollowInv'
  <1>1. PICK next : next = ThenApply(k, NoScore)
    OBVIOUS
  <1>2. WriteStep(k, next)
    BY <1>1, ResultWrites
  <1>3. /\ calls'[k] = next
        /\ \A c \in Calls \ {k} : /\ calls'[c].pc = calls[c].pc /\ calls'[c].base = calls[c].base
                                  /\ calls'[c].seen = calls[c].seen /\ ~calls'[c].alone
        /\ \A c \in Calls \ {k} : Applies(c)' <=> Applies(c)
        /\ "overlap" \notin pending' => Applying(k) = {} /\ "overlap" \notin pending
    BY <1>2, WroteEffects
  <1>4. next.pc = "lifting" /\ next.seen = NoRows /\ next.base = NoScore /\ (next.alone <=> Applying(k) = {})
    BY <1>1 DEF ThenApply, Idle
  <1>5. PICK finding \in Researched : sig' = Found("hiring", finding)
    BY DEF HiringResult, UpsertHiring
  <1>6. score' = score /\ fresh' = fresh /\ pending' = pending \cup Overlap(k)
    BY DEF HiringResult
  <1>7. /\ sig'["source_import"] = sig["source_import"] /\ sig'["hiring"].present
        /\ \A t \in Types : sig'[t].base = sig[t].base
    BY <1>5, TypesAre DEF Found, TypeOK, Rows
  <1>8. ScoredOnce'
    BY <1>3, <1>4, <1>6 DEF FollowInv, ScoredOnce
  <1>9. LastHandedOn'
    <2>1. "overlap" \notin pending' => \A c \in Calls \ {k} : ~Applies(c)'
      BY <1>3 DEF Applying, Applies
    <2> QED BY <1>3, <1>4, <2>1 DEF LastHandedOn
  <1>10. LastRemembered'
    <2> SUFFICES ASSUME {"overlap", "crash", "skip"} \cap pending' = {}
                 PROVE  /\ \A t \in Types : sig'[t].base \in {fresh', NoScore}
                        /\ (\A t \in Types : sig'[t].base = NoScore) => score' = fresh'
      BY DEF LastRemembered
    <2>1. Applying(k) = {} /\ {"overlap", "crash", "skip"} \cap pending = {}
      BY <1>3, <1>6
    <2>2. ~Applies(k)
      BY <1>2 DEF WriteStep
    <2>3. \A c \in Calls : ~Applies(c)
      BY <2>1, <2>2 DEF Applying, Applies
    <2> QED BY <1>6, <1>7, <2>1, <2>3 DEF FollowInv, LastRemembered
  <1>11. FindingsRead'
    <2>1. \A c \in Calls : \A t \in Types : ~calls'[c].seen[t].present => calls'[c].seen[t].finding = Nothing
      BY <1>3, <1>4, NoRowsNothing DEF FollowInv, FindingsRead
    <2>2. \A c \in Calls : calls'[c].pc = "applying" =>
             /\ ~calls'[c].alone
             /\ "import" \notin pending' =>
                  calls'[c].seen["source_import"].finding = sig["source_import"].finding
      BY <1>3, <1>4, <1>6 DEF FollowInv, FindingsRead
    <2>3. \A t \in Types : ~sig'[t].present => sig'[t].finding = Nothing
      BY <1>7, TypesAre DEF FollowInv, FindingsRead
    <2> QED BY <1>7, <2>1, <2>2, <2>3 DEF FindingsRead
  <1>12. ScoreFollowsSignals'
    BY <1>3, <1>4 DEF ScoreFollowsSignals
  <1> QED BY <1>8, <1>9, <1>10, <1>11, <1>12 DEF FollowInv

LEMMA FollowRead ==
  ASSUME TypeOK, TypeOK', CoreInv, FollowInv, NEW k \in Calls, ApplyRead(k)
  PROVE  FollowInv'
  <1>1. calls[k].pc = "lifting" /\ calls[k] \in Call /\ Applies(k)
    BY DEF ApplyRead, TypeOK, Applies
  <1>2. score' = score /\ sig' = sig /\ fresh' = fresh
    BY DEF ApplyRead
  <1>3. \A c \in Calls \ {k} : calls'[c] = calls[c]
    BY DEF ApplyRead, TypeOK
  <1>4. PICK rows \in [Types -> Rows], last \in Scores : rows = sig /\ last = fresh
    BY DEF TypeOK
  <1>5. CASE Stored(sig) = {} \/ score = NoScore
    <2>1. calls'[k] = Idle
      BY <1>5 DEF ApplyRead, TypeOK
    <2>2. \A c \in Calls : calls'[c] = calls[c] \/ Quiet(calls'[c])
      BY <2>1, <1>3, IdleQuiet
    <2>3. \A c \in Calls : Applies(c)' => c # k /\ Applies(c) /\ calls'[c] = calls[c]
      BY <2>1, <1>3, IdleQuiet DEF Applies, Quiet
    <2>4. ScoredOnce'
      BY <1>2, <2>2 DEF FollowInv, ScoredOnce, Quiet
    <2>5. \A c \in Calls : \A t \in Types : ~calls'[c].seen[t].present => calls'[c].seen[t].finding = Nothing
      BY <2>2, NoRowsNothing DEF FollowInv, FindingsRead, Quiet
    <2>6. CASE Stored(sig) = {} /\ calls[k].alone /\ calls[k].base # NoScore
      <3>1. score = fresh
        BY <1>1, <2>6 DEF CoreInv, BareScore, FollowInv, LastHandedOn
      <3>2. \A c \in Calls : ~Applies(c)' /\ ~calls'[c].alone
        <4>1. \A c \in Calls \ {k} : ~Applies(c)
          BY <2>6 DEF CoreInv, OneApplies, Applying, Applies
        <4> QED BY <4>1, <1>3, <2>1, IdleQuiet DEF Applies, Quiet, CoreInv, OneApplies
      <3>3. LastHandedOn'
        BY <3>2 DEF LastHandedOn
      <3>4. LastRemembered'
        <4>1. \A t \in Types : sig[t].base = NoScore
          BY <2>6 DEF CoreInv, RowsRead, Stored
        <4> QED BY <1>2, <3>1, <4>1 DEF LastRemembered
      <3>5. FindingsRead'
        BY <1>2, <2>5, <3>2 DEF FollowInv, FindingsRead, Applies
      <3>6. Best(last, rows) = last
        BY <1>4, <2>6, BestOfNone
      <3>7. ScoreFollowsSignals'
        BY <1>2, <1>4, <3>1, <3>6 DEF ScoreFollowsSignals
      <3> QED BY <2>4, <3>3, <3>4, <3>5, <3>7 DEF FollowInv
    <2>7. CASE ~(Stored(sig) = {} /\ calls[k].alone /\ calls[k].base # NoScore)
      <3>1. pending' = pending
        BY <2>7 DEF ApplyRead
      <3>2. LastHandedOn'
        BY <1>2, <2>2, <2>3, <3>1 DEF FollowInv, LastHandedOn, Quiet
      <3>3. {"overlap", "crash", "skip"} \cap pending = {} => calls[k].base = NoScore
        <4> SUFFICES ASSUME "overlap" \notin pending, calls[k].base # NoScore PROVE FALSE
          OBVIOUS
        <4>1. calls[k].alone /\ score # NoScore
          BY <1>1 DEF FollowInv, LastHandedOn, ScoredOnce
        <4> QED BY <1>5, <2>7, <4>1
      <3>4. LastRemembered'
        <4> SUFFICES ASSUME {"overlap", "crash", "skip"} \cap pending = {},
                            \A c \in Calls : Applies(c)' => calls'[c].base = NoScore
                     PROVE  /\ \A t \in Types : sig[t].base \in {fresh, NoScore}
                            /\ (\A t \in Types : sig[t].base = NoScore) => score = fresh
          BY <1>2, <3>1 DEF LastRemembered
        <4>1. \A c \in Calls : Applies(c) => calls[c].base = NoScore
          BY <1>3, <3>3 DEF Applies
        <4> QED BY <4>1 DEF FollowInv, LastRemembered
      <3>5. FindingsRead'
        <4>1. \A c \in Calls : calls'[c].pc = "applying" => calls'[c] = calls[c]
          BY <2>3 DEF Applies
        <4> QED BY <1>2, <2>5, <3>1, <4>1 DEF FollowInv, FindingsRead
      <3>6. ScoreFollowsSignals'
        <4> SUFFICES ASSUME pending = {}, \A c \in Calls : ~Applies(c)' PROVE score = Best(fresh, sig)
          BY <1>2, <3>1 DEF ScoreFollowsSignals, Applies
        <4>1. /\ \A t \in Types : sig[t].base \in {fresh, NoScore}
              /\ (\A t \in Types : sig[t].base = NoScore) => score = fresh
          BY <1>2, <3>1, <3>4 DEF LastRemembered
        <4>2. CASE Stored(sig) = {}
          <5>1. score = fresh
            BY <4>1, <4>2 DEF CoreInv, RowsRead, Stored
          <5> QED BY <1>4, <4>2, <5>1, BestOfNone
        <4>3. CASE score = NoScore
          <5>1. fresh = NoScore
            BY <4>3 DEF FollowInv, ScoredOnce
          <5>2. NoScore.tier = "none"
            BY DEF NoScore
          <5> QED BY <1>4, <4>3, <5>1, <5>2, BestOfNone
        <4> QED BY <1>5, <4>2, <4>3
      <3> QED BY <2>4, <3>2, <3>4, <3>5, <3>6 DEF FollowInv
    <2> QED BY <2>6, <2>7
  <1>6. CASE Stored(sig) # {} /\ score # NoScore
    <2>1. calls'[k] = [calls[k] EXCEPT !.pc = "applying", !.seen = sig]
      BY <1>6 DEF ApplyRead, TypeOK
    <2>2. /\ calls'[k].pc = "applying" /\ calls'[k].seen = sig
          /\ calls'[k].base = calls[k].base /\ calls'[k].alone = calls[k].alone
      BY <1>1, <2>1 DEF Call
    <2>3. pending' = pending
      BY <1>6 DEF ApplyRead
    <2>4. \A c \in Calls : Applies(c)' <=> Applies(c)
      BY <1>1, <1>3, <2>2 DEF Applies
    <2>5. \A c \in Calls : calls'[c].base = calls[c].base /\ calls'[c].alone = calls[c].alone
      BY <1>3, <2>2
    <2>6. ScoredOnce' /\ LastHandedOn' /\ LastRemembered'
      BY <1>2, <2>3, <2>4, <2>5 DEF FollowInv, ScoredOnce, LastHandedOn, LastRemembered
    <2>7. FindingsRead'
      <3>1. \A c \in Calls : \A t \in Types : ~calls'[c].seen[t].present => calls'[c].seen[t].finding = Nothing
        BY <1>3, <2>2 DEF FollowInv, FindingsRead
      <3>2. \A c \in Calls : calls'[c].pc = "applying" =>
              /\ calls'[c].alone => calls'[c].seen["hiring"].finding = sig["hiring"].finding
              /\ "import" \notin pending =>
                   calls'[c].seen["source_import"].finding = sig["source_import"].finding
        BY <1>3, <2>2 DEF FollowInv, FindingsRead
      <3> QED BY <1>2, <2>3, <3>1, <3>2 DEF FollowInv, FindingsRead
    <2>8. ScoreFollowsSignals'
      BY <2>2 DEF ScoreFollowsSignals
    <2> QED BY <2>6, <2>7, <2>8 DEF FollowInv
  <1> QED BY <1>5, <1>6

LEMMA FollowWrite ==
  ASSUME TypeOK, TypeOK', CoreInv, FollowInv, NEW k \in Calls, ApplyWrite(k)
  PROVE  FollowInv'
  <1>1. PICK call \in Call, base \in Scores : Applied(k, call, base)
    BY ApplyWriteEffects
  <1>2. /\ call = calls[k] /\ call.pc = "applying" /\ Applies(k)
        /\ base \in BaseOf(call) /\ base # NoScore /\ Stored(call.seen) # {}
        /\ pending' = pending \ Settled(call) /\ score' = Best(base, call.seen)
    BY <1>1 DEF Applied, Applies
  <1>3. \A c \in Calls : calls'[c] = IF c = k THEN Idle ELSE calls[c]
    BY <1>1 DEF Applied
  <1>4. fresh' = fresh
    BY DEF ApplyWrite
  <1>5. Idle.pc = "idle" /\ Idle.base = NoScore /\ Idle.seen = NoRows /\ ~Idle.alone
    BY DEF Idle
  <1>6. \A t \in Types : sig'[t].present = sig[t].present /\ sig'[t].finding = sig[t].finding
    BY <1>1 DEF Applied
  <1>7. "overlap" \notin pending' =>
          /\ Applying(k) = {}
          /\ \A t \in Types : sig'[t].base = IF call.seen[t].present THEN base ELSE NoScore
    BY <1>1 DEF Applied
  <1>8. \A c \in Calls : ~calls'[c].alone
    <2>1. \A c \in Calls \ {k} : ~calls[c].alone
      BY <1>2 DEF CoreInv, OneApplies, Applying, Applies
    <2> QED BY <1>3, <1>5, <2>1
  <1>9. Applying(k) = {} => \A c \in Calls : ~Applies(c)'
    BY <1>3, <1>5 DEF Applying, Applies
  <1>10. {"overlap", "crash", "skip"} \cap pending' = {} => call.alone /\ base = fresh
    <2> SUFFICES ASSUME {"overlap", "crash", "skip"} \cap pending' = {}
                 PROVE  call.alone /\ base = fresh
      OBVIOUS
    <2>1. CASE call.alone /\ call.base # NoScore
      BY <1>2, <2>1 DEF FollowInv, LastHandedOn, BaseOf
    <2>2. CASE ~call.alone \/ call.base = NoScore
      <3>1. {"overlap", "crash", "skip"} \cap pending = {}
        BY <1>2, <2>2 DEF Settled
      <3>2. call.alone /\ call.base = NoScore
        BY <1>2, <2>2, <3>1 DEF FollowInv, LastHandedOn
      <3>3. Applying(k) = {} /\ \A t \in Types : call.seen[t].base = sig[t].base
        BY <1>1, <3>2 DEF Applied
      <3>4. \A c \in Calls : Applies(c) => calls[c].base = NoScore
        BY <1>2, <3>2, <3>3 DEF Applying, Applies
      <3>5. /\ \A t \in Types : sig[t].base \in {fresh, NoScore}
            /\ (\A t \in Types : sig[t].base = NoScore) => score = fresh
        BY <3>1, <3>4 DEF FollowInv, LastRemembered
      <3>6. CASE \E t \in Types : call.seen[t].base # NoScore
        BY <1>2, <3>2, <3>3, <3>5, <3>6 DEF BaseOf
      <3>7. CASE \A t \in Types : call.seen[t].base = NoScore
        BY <1>2, <3>2, <3>3, <3>5, <3>7 DEF BaseOf
      <3> QED BY <3>2, <3>6, <3>7
    <2> QED BY <2>1, <2>2
  <1>11. ScoredOnce'
    <2>1. score # NoScore /\ score' # NoScore
      BY <1>2, BestSound DEF CoreInv, RowsRead, Call
    <2> QED BY <1>3, <1>4, <1>5, <2>1 DEF FollowInv, ScoredOnce
  <1>12. LastHandedOn'
    BY <1>7, <1>8, <1>9 DEF LastHandedOn
  <1>13. LastRemembered'
    <2> SUFFICES ASSUME {"overlap", "crash", "skip"} \cap pending' = {}
                 PROVE  /\ \A t \in Types : sig'[t].base \in {fresh', NoScore}
                        /\ (\A t \in Types : sig'[t].base = NoScore) => score' = fresh'
      BY DEF LastRemembered
    <2>1. PICK t \in Types : call.seen[t].present
      BY <1>2 DEF Stored
    <2>2. sig'[t].base # NoScore
      BY <1>2, <1>7, <2>1
    <2> QED BY <1>4, <1>7, <1>10, <2>2
  <1>14. FindingsRead'
    <2>1. \A c \in Calls : \A t \in Types : ~calls'[c].seen[t].present => calls'[c].seen[t].finding = Nothing
      BY <1>3, <1>5, NoRowsNothing DEF FollowInv, FindingsRead
    <2>2. ASSUME NEW c \in Calls, calls'[c].pc = "applying", "import" \notin pending'
          PROVE  calls'[c].seen["source_import"].finding = sig'["source_import"].finding
      <3>1. c # k /\ calls'[c] = calls[c]
        BY <1>3, <1>5, <2>2
      <3>2. ~call.alone
        BY <1>2, <2>2, <3>1 DEF CoreInv, OneApplies, Applying
      <3>3. "import" \notin pending
        BY <1>2, <2>2, <3>2 DEF Settled
      <3> QED BY <1>6, <2>2, <3>1, <3>3, TypesAre DEF FollowInv, FindingsRead
    <2>3. \A t \in Types : ~sig'[t].present => sig'[t].finding = Nothing
      BY <1>6 DEF FollowInv, FindingsRead
    <2> QED BY <1>8, <2>1, <2>2, <2>3 DEF FindingsRead
  <1>15. ScoreFollowsSignals'
    <2> SUFFICES ASSUME pending' = {} PROVE score' = Best(fresh', sig')
      BY DEF ScoreFollowsSignals
    <2>1. call.alone /\ base = fresh
      BY <1>10
    <2>2. call.seen["hiring"].finding = sig["hiring"].finding
      BY <1>2, <2>1 DEF FollowInv, FindingsRead
    <2>3. call.seen["source_import"].finding = sig["source_import"].finding
      <3>1. CASE "import" \notin pending
        BY <1>2, <3>1 DEF FollowInv, FindingsRead
      <3>2. CASE "import" \in pending
        BY <1>2, <2>1, <3>2 DEF Settled
      <3> QED BY <3>1, <3>2
    <2>4. PICK after \in [Types -> Rows], seen \in [Types -> Rows] : after = sig' /\ seen = call.seen
      BY DEF TypeOK, Call
    <2>5. \A t \in Types : /\ seen[t].finding = after[t].finding
                           /\ ~seen[t].present => seen[t].finding = Nothing
                           /\ ~after[t].present => after[t].finding = Nothing
      BY <1>2, <1>6, <1>14, <2>2, <2>3, <2>4, TypesAre DEF FollowInv, FindingsRead
    <2>6. Best(base, seen) = Best(base, after)
      BY <2>5, BestSame
    <2> QED BY <1>2, <1>4, <2>1, <2>4, <2>6
  <1> QED BY <1>11, <1>12, <1>13, <1>14, <1>15 DEF FollowInv

LEMMA FollowInit == Init => FollowInv
  <1> SUFFICES ASSUME Init PROVE FollowInv
    OBVIOUS
  <1>1. Stored(NoRows) = {}
    BY DEF Stored, NoRows, NoRow
  <1>2. Best(NoScore, NoRows) = NoScore
    BY <1>1, BestOfNone, ConstantsTyped
  <1>3. \A t \in Types : NoRows[t].finding = Nothing /\ NoRows[t].base = NoScore
    BY NoRowsNothing, NoRowsBare
  <1>4. Idle.pc = "idle" /\ Idle.base = NoScore /\ Idle.seen = NoRows /\ ~Idle.alone
    BY DEF Idle
  <1>5. score = NoScore /\ fresh = NoScore /\ sig = NoRows /\ \A k \in Calls : calls[k] = Idle
    BY DEF Init
  <1> QED BY <1>2, <1>3, <1>4, <1>5
          DEF FollowInv, ScoredOnce, LastHandedOn, LastRemembered, FindingsRead, ScoreFollowsSignals, Applies

LEMMA FollowStep == TypeOK /\ TypeOK' /\ CoreInv /\ FollowInv /\ [Next]_vars => FollowInv'
  <1> SUFFICES ASSUME TypeOK, TypeOK', CoreInv, FollowInv, [Next]_vars PROVE FollowInv'
    OBVIOUS
  <1>1. CASE \/ UNCHANGED vars
             \/ Research \/ SourceImport
             \/ \E k \in Calls : \/ ScoreStart(k) \/ RescueList(k) \/ RescueNext(k)
                                 \/ HiringStart(k) \/ HiringFailure(k) \/ Die(k)
    BY <1>1, FollowQuietSteps, FollowQuietKeeps
  <1>2. ASSUME NEW k \in Calls, PersistSkip(k) \/ ScoreAnswer(k) \/ HiringResult(k) PROVE FollowInv'
    BY <1>2, FollowSkip, FollowAnswer, FollowResult
  <1>3. ASSUME NEW k \in Calls, ApplyRead(k) \/ ApplyWrite(k) PROVE FollowInv'
    BY <1>3, FollowRead, FollowWrite
  <1> QED BY <1>1, <1>2, <1>3 DEF Next

\* Once nothing is pending, the score is the best uplift that the stored signals
\* give to the last scoring.
THEOREM ScoreFollowsSignalsCorrect == Spec => []ScoreFollowsSignals
  <1>1. FollowInv => ScoreFollowsSignals
    BY DEF FollowInv
  <1> QED BY <1>1, TypeInit, TypeStep, CoreInit, CoreStep, FollowInit, FollowStep, PTL DEF Spec
=============================================================================
