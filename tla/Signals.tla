------------------------------ MODULE Signals ------------------------------
(***************************************************************************)
(* The score of one lead: score_lead and its B2C gate (src/scoring.py),    *)
(* the hiring research (src/signals/hiring.py, hiring_rescue.py), imported *)
(* source signals (src/signals/store.py) and the uplift of a tier that     *)
(* both may cause (src/signals/uplift.py).  A call takes several           *)
(* transactions, and apply_signal_uplifts reads the signals and the score  *)
(* in two statements, between which another transaction may commit.        *)
(***************************************************************************)
EXTENDS Integers

CONSTANTS
  Calls,      \* pipelines, rescues and operators that work on the lead
  Points,     \* scores that the model may give
  Seen,       \* bound: what a research may find, beside nothing
  Sent,       \* bound: what an import may carry
  MaxMoves,   \* bound: times the research turns a lead to or from B2C
  MaxImports, \* bound: imports of source signals
  MaxFaults   \* bound: failed transactions and crashes

ASSUME SignalsAssumption ==
  /\ Points \subseteq 1..100
  /\ MaxMoves \in Nat /\ MaxImports \in Nat /\ MaxFaults \in Nat

VARIABLES
  b2c,        \* buyer_accounts say B2C and show no B2B motion
  score,      \* the Score row, or NoScore
  sig,        \* sig[t]: the LeadSignal row of type t, or NoRow
  calls,      \* what every call is doing
  moves,      \* changes of b2c so far
  imports,    \* imports so far
  faults,     \* faults so far
  bases,      \* history: every score that score_lead wrote
  fresh,      \* history: the last of them
  pending     \* history: why score may not follow from fresh and sig

vars == <<b2c, score, sig, calls, moves, imports, faults, bases, fresh, pending>>

----------------------------------------------------------------------------
(* Tiers and uplifts                                                       *)

TierAMin == 85
TierBMin == 70

TierFor(points) == IF points >= TierAMin THEN "A" ELSE IF points >= TierBMin THEN "B" ELSE "C"

Score(points) == [tier |-> TierFor(points), points |-> points]
Skipped == [tier |-> "D", points |-> 20]
NoScore == [tier |-> "none", points |-> 0]
Scores == [tier : {"A", "B", "C", "D", "none"}, points : 0..100]

Rank(s) == CASE s.tier = "A" -> 3 [] s.tier = "B" -> 2 [] s.tier = "C" -> 1 [] OTHER -> 0

\* Strengths low and none never lift: one stands for both.  high counts the
\* roles or names that match a high-weight role, other those that do not; two
\* stand for more.
Findings == [strength : {"none", "medium", "high"}, high : 0..2, other : 0..2]
Nothing == [strength |-> "none", high |-> 0, other |-> 0]

ASSUME FindingsAssumption == Seen \subseteq Findings /\ Sent \subseteq Findings

\* base is the score before any uplift, or NoScore.
Types == {"hiring", "source_import"}
Rows == [present : BOOLEAN, finding : Findings, base : Scores]
NoRow == [present |-> FALSE, finding |-> Nothing, base |-> NoScore]

\* What backs a row: for hiring the high-weight roles, else every strong name.
Relevant(t, finding) == IF t = "hiring" THEN finding.high ELSE finding.high + finding.other

MultiRoleThreshold == 2
DecentFitMinScore == 60
NotTerribleMinScore == 50

\* compute_tier_uplift: the tier that a signal lifts a base to.
Target(base, strength, count) ==
  LET decent == count >= MultiRoleThreshold /\ base.points >= DecentFitMinScore
  IN  CASE strength = "high" /\ base.tier = "C" -> IF decent THEN "A" ELSE "B"
        [] strength = "high" /\ base.tier = "B" /\ decent -> "A"
        [] strength = "medium" /\ base.tier = "C" /\ base.points >= NotTerribleMinScore -> "B"
        [] OTHER -> base.tier

\* Mutant: the floor is added to the points.
LiftByFloor(base, strength, count) ==
  LET tier == Target(base, strength, count)
      floor == IF tier = "A" THEN TierAMin ELSE TierBMin
  IN  IF tier = base.tier THEN base ELSE [tier |-> tier, points |-> base.points + floor]

\* resolve_uplift: the points rise to the floor of the new tier.
Lift(base, strength, count) ==
  LET tier == Target(base, strength, count)
      floor == IF tier = "A" THEN TierAMin ELSE TierBMin
  IN  IF tier = base.tier THEN base
      ELSE [tier |-> tier, points |-> IF base.points > floor THEN base.points ELSE floor]

Stored(rows) == {t \in Types : rows[t].present}

\* The strongest uplift that the signal rows give a base.
Best(base, rows) ==
  LET lifted == {base} \cup {Lift(base, rows[t].finding.strength, Relevant(t, rows[t].finding)) :
                              t \in Stored(rows)}
  IN  CHOOSE s \in lifted : \A other \in lifted : Rank(other) <= Rank(s)


----------------------------------------------------------------------------
Causes == {"overlap", "crash", "import", "skip"}

Call == [pc : {"idle", "skipping", "asking", "listed", "researching", "lifting", "applying"},
         force : BOOLEAN, base : Scores, seen : [Types -> Rows],
         alone : BOOLEAN]   \* alone is history

NoRows == [t \in Types |-> NoRow]
Idle == [pc |-> "idle", force |-> FALSE, base |-> NoScore, seen |-> NoRows, alone |-> FALSE]

Init ==
  /\ b2c \in BOOLEAN
  /\ score = NoScore /\ sig = NoRows
  /\ calls = [k \in Calls |-> Idle]
  /\ moves = 0 /\ imports = 0 /\ faults = 0
  /\ bases = {} /\ fresh = NoScore /\ pending = {}

Begin(k, job) == calls[k] = Idle /\ calls' = [calls EXCEPT ![k] = job]
End(k) == calls' = [calls EXCEPT ![k] = Idle]
Fault == faults < MaxFaults /\ faults' = faults + 1

\* The calls other than k that have written and still have to apply.
Applying(k) == {c \in Calls \ {k} : calls[c].pc \in {"lifting", "applying"}}

\* Call k has written a score or a finding and goes on with next; history: a
\* call that applies is alone when no other writes from its write to its apply.
Wrote(k, next) ==
  calls' = [c \in Calls |->
              CASE c = k -> next
                [] c \in Applying(k) -> [calls[c] EXCEPT !.alone = FALSE]
                [] OTHER -> calls[c]]

\* Mutant: the fresh base is not handed on.
ThenApplyStored(k, base) == [Idle EXCEPT !.pc = "lifting", !.alone = Applying(k) = {}]

ThenApply(k, base) == [Idle EXCEPT !.pc = "lifting", !.base = base, !.alone = Applying(k) = {}]

\* History: what this write means for the calls that apply.
Overlap(k) == IF Applying(k) = {} THEN {} ELSE {"overlap"}

----------------------------------------------------------------------------
\* A new research of the lead (src/enrichment) may change buyer_accounts.
Research ==
  /\ moves < MaxMoves /\ moves' = moves + 1
  /\ b2c' = ~b2c
  /\ UNCHANGED <<score, sig, calls, imports, faults, bases, fresh, pending>>

(* score_lead *)

ScoreStart(k) ==
  /\ Begin(k, [Idle EXCEPT !.pc = IF b2c THEN "skipping" ELSE "asking"])
  /\ UNCHANGED <<b2c, score, sig, moves, imports, faults, bases, fresh, pending>>

\* _persist_skip_score leaves the signal rows as they are, and applies nothing.
PersistSkip(k) ==
  /\ calls[k].pc = "skipping"
  /\ score' = Skipped /\ bases' = bases \cup {Skipped} /\ fresh' = Skipped
  /\ pending' = pending \cup Overlap(k)
                  \cup IF \E t \in Types : sig[t].base # NoScore THEN {"skip"} ELSE {}
  /\ Wrote(k, Idle)
  /\ UNCHANGED <<b2c, sig, moves, imports, faults>>

\* The tier follows the points, whatever tier the model answered.
ScoreAnswer(k) ==
  \E points \in Points :
    /\ calls[k].pc = "asking"
    /\ score' = Score(points) /\ bases' = bases \cup {score'} /\ fresh' = score'
    /\ pending' = pending \cup Overlap(k)
    /\ Wrote(k, ThenApply(k, score'))
    /\ UNCHANGED <<b2c, sig, moves, imports, faults>>

----------------------------------------------------------------------------
(* enrich_hiring_signal of a lead with a company, from a pipeline, an      *)
(* operator (force) or the rescue of a workspace                           *)

\* select_c_tier_lead_ids: the tier is read when the run starts.
RescueList(k) ==
  \E force \in BOOLEAN :
    /\ score.tier = "C" /\ (force \/ ~sig["hiring"].present)
    /\ Begin(k, [Idle EXCEPT !.pc = "listed", !.force = force])
    /\ UNCHANGED <<b2c, score, sig, moves, imports, faults, bases, fresh, pending>>

HasHiringSignal == sig["hiring"].present

\* Research costs credits: what is there is not asked for again.
Wanted(force) == force \/ ~HasHiringSignal

HiringStart(k) ==
  \E force \in BOOLEAN :
    /\ Wanted(force)
    /\ Begin(k, [Idle EXCEPT !.pc = "researching"])
    /\ UNCHANGED <<b2c, score, sig, moves, imports, faults, bases, fresh, pending>>

RescueNext(k) ==
  /\ calls[k].pc = "listed"
  /\ calls' = [calls EXCEPT ![k] = IF Wanted(calls[k].force)
                                   THEN [Idle EXCEPT !.pc = "researching"] ELSE Idle]
  /\ UNCHANGED <<b2c, score, sig, moves, imports, faults, bases, fresh, pending>>

\* Mutant: the row is replaced by a new one.
FoundAnew(t, finding) == [sig EXCEPT ![t] = [NoRow EXCEPT !.present = TRUE, !.finding = finding]]

Found(t, finding) == [sig EXCEPT ![t] = [@ EXCEPT !.present = TRUE, !.finding = finding]]

\* research_hiring_signal: a failed search or classification finds nothing.
Researched == Seen \cup {Nothing}

\* upsert_hiring_signal
UpsertHiring(finding) == sig' = Found("hiring", finding)

\* What is found is stored, then applied.
HiringResult(k) ==
  /\ calls[k].pc = "researching"
  /\ \E finding \in Researched : UpsertHiring(finding)
  /\ pending' = pending \cup Overlap(k)
  /\ Wrote(k, ThenApply(k, NoScore))
  /\ UNCHANGED <<b2c, score, moves, imports, faults, bases, fresh>>

\* record_hiring_failure
HiringFailure(k) ==
  /\ calls[k].pc = "researching" /\ Fault
  /\ sig' = [sig EXCEPT !["hiring"].present = TRUE]
  /\ End(k)
  /\ UNCHANGED <<b2c, score, moves, imports, bases, fresh, pending>>

\* upsert_source_signal, from an import of the lead's contact: nothing is
\* applied before the next score or hiring research.
SourceImport ==
  \E finding \in Sent :
    /\ imports < MaxImports /\ imports' = imports + 1
    /\ sig' = Found("source_import", finding)
    /\ pending' = pending \cup {"import"}
    /\ UNCHANGED <<b2c, score, calls, moves, faults, bases, fresh>>

----------------------------------------------------------------------------
(* apply_signal_uplifts: a SELECT of the signals, a SELECT of the score    *)
(* and the UPDATEs.                                                        *)

ApplyRead(k) ==
  /\ calls[k].pc = "lifting"
  /\ calls' = [calls EXCEPT ![k] = IF Stored(sig) = {} \/ score = NoScore THEN Idle
                                   ELSE [@ EXCEPT !.pc = "applying", !.seen = sig]]
  /\ pending' = IF Stored(sig) = {} /\ calls[k].alone /\ calls[k].base # NoScore THEN {} ELSE pending
  /\ UNCHANGED <<b2c, score, sig, moves, imports, faults, bases, fresh>>

\* The base is the caller's, else one that a row remembers, else the score.
BaseOf(call) ==
  LET remembered == {call.seen[t].base : t \in Types} \ {NoScore}
  IN  IF call.base # NoScore THEN {call.base}
      ELSE IF remembered # {} THEN remembered ELSE {score}

\* History: an apply that ran alone makes up for what its base and its
\* findings take in.
Settled(call) ==
  IF ~call.alone THEN {}
  ELSE (IF call.base # NoScore THEN {"overlap", "crash", "skip"} ELSE {})
       \cup (IF call.seen["source_import"] = sig["source_import"] THEN {"import"} ELSE {})

\* A column is written when it changes from what this call has read.
ApplyWrite(k) ==
  \E base \in BaseOf(calls[k]) :
    LET call == calls[k]
        rebased(t) == Stored(call.seen) # {} /\ call.seen[t].present /\ call.seen[t].base # base
    IN  /\ call.pc = "applying"
        /\ sig' = [t \in Types |-> IF rebased(t) THEN [sig[t] EXCEPT !.base = base] ELSE sig[t]]
        /\ score' = Best(base, call.seen)
        /\ pending' = pending \ Settled(call)
        /\ End(k)
        /\ UNCHANGED <<b2c, moves, imports, faults, bases, fresh>>

----------------------------------------------------------------------------
\* A model call or a transaction fails, or a process dies.
Die(k) ==
  /\ calls[k].pc # "idle" /\ Fault
  /\ pending' = IF calls[k].pc \in {"lifting", "applying"} THEN pending \cup {"crash"} ELSE pending
  /\ End(k)
  /\ UNCHANGED <<b2c, score, sig, moves, imports, bases, fresh>>

Next ==
  \/ Research \/ SourceImport
  \/ \E k \in Calls :
       \/ ScoreStart(k) \/ PersistSkip(k) \/ ScoreAnswer(k)
       \/ RescueList(k) \/ RescueNext(k) \/ HiringStart(k) \/ HiringResult(k) \/ HiringFailure(k)
       \/ ApplyRead(k) \/ ApplyWrite(k) \/ Die(k)

Spec == Init /\ [][Next]_vars

----------------------------------------------------------------------------
(* Properties                                                              *)

\* The lead's rows, the calls and the history are well typed.
TypeOK ==
  /\ b2c \in BOOLEAN /\ score \in Scores /\ sig \in [Types -> Rows]
  /\ calls \in [Calls -> Call]
  /\ moves \in 0..MaxMoves /\ imports \in 0..MaxImports /\ faults \in 0..MaxFaults
  /\ bases \subseteq Scores /\ fresh \in Scores /\ pending \subseteq Causes

\* Uplifts never compound (store.py:281-283): the stored score is one uplift
\* of a score that score_lead wrote, unless two applies ran at the same time.
OneLift ==
  "overlap" \notin pending =>
    score \in {NoScore} \cup bases
              \cup {Lift(b, s, n) : b \in bases, s \in {"medium", "high"}, n \in 0..2}

\* Outside of calls, the score is the best uplift that the stored signals give
\* to the last score_lead, unless an import, a crash, an overlap or a skipped
\* scoring came between, and the next scoring that runs alone makes up for it.
ScoreFollowsSignals ==
  (pending = {} /\ \A k \in Calls : calls[k].pc \notin {"lifting", "applying"}) =>
    score = Best(fresh, sig)
=============================================================================
