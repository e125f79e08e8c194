-------------------------- MODULE Delivery_proofs --------------------------
(* Proofs about Delivery: its types, the safety of what it sends, and that   *)
(* it implements OneRecord.                                                  *)
EXTENDS Delivery, TLAPS, SequenceTheorems, WellFoundedInduction

-----------------------------------------------------------------------------
(* The newest row of a lead *)

\* A bounded non-empty set of naturals has a greatest element.
LEMMA Greatest ==
  ASSUME NEW N \in Nat, NEW S \in SUBSET (0 .. N), S # {}
  PROVE  \E m \in S : \A s \in S : s <= m
<1> DEFINE T == {n \in 0 .. N : N - n \in S}
           R == OpToRel(<, Nat)
<1>1. PICK s \in S : TRUE
  OBVIOUS
<1>2. N - s \in T
  OBVIOUS
<1>3. T \subseteq Nat /\ T # {}
  BY <1>2
<1>4. IsWellFoundedOn(R, Nat)
  BY NatLessThanWellFounded
<1>5. \E x \in T : \A y \in T : ~ (<<y, x>> \in R)
  <2> HIDE DEF T, R
  <2> QED BY <1>3, <1>4, WFMin
<1>6. PICK x \in T : \A y \in T : ~ (<<y, x>> \in R)
  BY <1>5
<1>7. \A y \in T : x <= y
  <2>1. \A y \in T : ~ (y < x)
    BY <1>6, <1>3 DEF OpToRel
  <2> QED BY <2>1
<1>8. ASSUME NEW t \in S PROVE t <= N - x
  <2>1. t \in Nat /\ x \in Nat /\ N - t \in T
    OBVIOUS
  <2>2. x <= N - t
    BY <2>1, <1>7
  <2> HIDE DEF T
  <2> QED BY <2>1, <2>2
<1>9. N - x \in S
  OBVIOUS
<1> QED BY <1>8, <1>9

\* LatestRow is 0 without a row, and otherwise a row of the lead.
LEMMA LatestRowOfLead ==
  ASSUME nrows \in Nat, NEW l
  PROVE  /\ LatestRow(l) \in 0 .. nrows
         /\ LatestRow(l) # 0 => rows[LatestRow(l)].lead = l
<1>1. CASE RowsOf(l) = {}
  BY <1>1 DEF LatestRow
<1>2. CASE RowsOf(l) # {}
  <2>1. RowsOf(l) \in SUBSET (0 .. nrows)
    BY DEF RowsOf
  <2>2. \E m \in RowsOf(l) : \A s \in RowsOf(l) : s <= m
    BY <1>2, <2>1, Greatest
  <2>3. LatestRow(l) \in RowsOf(l)
    BY <1>2, <2>2 DEF LatestRow
  <2> QED BY <2>3 DEF RowsOf
<1> QED BY <1>1, <1>2

-----------------------------------------------------------------------------
(* Types.  TypeOK is not inductive: a call writes the row it has snapshotted, *)
(* so that row must be a written one, and retries must stay below the limit.  *)

Framed(c) ==
  /\ c.lead \in Leads
  /\ c.row \in 1 .. nrows
  /\ rows[c.row].lead = c.lead
  /\ c.pc # "record_error" => c.tries < MaxAttempts

\* Written rows belong to leads, and so do the calls and their rows.
Started ==
  /\ \A r \in 1 .. nrows : rows[r].lead \in Leads
  /\ \A k \in Calls : Live(k) => Framed(call[k])

TypeInv == TypeOK /\ Started

LEMMA InitType == Init => TypeInv
<1> SUFFICES ASSUME Init PROVE TypeInv
  OBVIOUS
<1>1. rows \in [RowIds -> Row]
  BY DEF Init, RowIds, Row, Statuses, SkipReasons
<1>2. call \in [Calls -> Call]
  BY DeliveryAssumption DEF Init, Call, Pcs, SkipReasons
<1>3. remote \in [Leads -> Seq(Copy)]
  BY DEF Init
<1>4. /\ nrows \in 0 .. MaxRows
      /\ tier \in [Leads -> Tiers \cup {"none"}]
      /\ verif \in [Leads -> VerifyAnswers \cup {"none"}]
      /\ config \in {"ok", "no_key", "no_campaign"}
      /\ accepted \subseteq RowIds /\ gated \subseteq Leads /\ exposed \subseteq Leads
  BY DeliveryAssumption DEF Init
<1>5. TypeOK
  BY <1>1, <1>2, <1>3, <1>4 DEF TypeOK
<1>6. Started
  BY DEF Init, Started, Live, Ended
<1> QED BY <1>5, <1>6 DEF TypeInv

\* Some written rows may have changed, but none its lead.
RowsKept ==
  /\ nrows' = nrows
  /\ rows' \in [RowIds -> Row]
  /\ \A r \in 1 .. nrows : rows'[r].lead = rows[r].lead

LEMMA WriteKeepsRows ==
  ASSUME TypeInv, NEW r \in 1 .. nrows, NEW new \in Row, nrows' = nrows,
         new.lead = rows[r].lead, Write(r, new)
  PROVE  RowsKept
<1>1. rows \in [RowIds -> Row] /\ r \in RowIds /\ nrows \in 0 .. MaxRows
  BY DeliveryAssumption DEF TypeInv, TypeOK, RowIds
<1> QED BY <1>1 DEF RowsKept, Write, RowIds

\* A step of one call: its new frame c decides.
LEMMA CallType ==
  ASSUME TypeInv, RowsKept, NEW k \in Calls, NEW c \in Call,
         call' = [call EXCEPT ![k] = c],
         c.pc \notin {"idle"} \cup Ended => Framed(c)
  PROVE  call' \in [Calls -> Call] /\ Started'
<1>1. call \in [Calls -> Call]
  BY DEF TypeInv, TypeOK
<1>2. call' \in [Calls -> Call]
  BY <1>1
<1>3. ASSUME NEW j \in Calls PROVE call'[j] = IF j = k THEN c ELSE call[j]
  BY <1>1
<1>4. ASSUME NEW j \in Calls, Live(j)' PROVE Framed(call[j])'
  <2>1. Framed(call'[j])
    BY <1>3, <1>4 DEF Live, TypeInv, Started
  <2> QED BY <2>1 DEF Framed, RowsKept
<1>5. Started'
  BY <1>4 DEF Started, RowsKept, TypeInv
<1> QED BY <1>2, <1>5

\* A started call moves on to pc.
LEMMA GotoType ==
  ASSUME TypeInv, RowsKept, NEW k \in Calls, Live(k), NEW pc \in Pcs \ {"idle"},
         call[k].pc = "record_error" => pc \in Ended, Goto(k, pc)
  PROVE  call' \in [Calls -> Call] /\ Started'
<1> DEFINE c == [call[k] EXCEPT !.pc = pc]
<1>1. call[k] \in Call /\ Framed(call[k])
  BY DEF TypeInv, TypeOK, Started
<1>2. c \in Call
  BY <1>1 DEF Call
<1>3. c.pc \notin {"idle"} \cup Ended => Framed(c)
  BY <1>1 DEF Call, Framed
<1>4. call' = [call EXCEPT ![k] = c]
  BY DEF Goto
<1> HIDE DEF c
<1> QED BY <1>2, <1>3, <1>4, CallType

LEMMA SkipType ==
  ASSUME TypeInv, RowsKept, NEW k \in Calls, Live(k), call[k].pc # "record_error",
         NEW reason \in SkipReasons, Skip(k, reason)
  PROVE  call' \in [Calls -> Call] /\ Started'
<1> DEFINE c == [call[k] EXCEPT !.pc = "skip", !.reason = reason]
<1>1. call[k] \in Call /\ Framed(call[k])
  BY DEF TypeInv, TypeOK, Started
<1>2. c \in Call
  BY <1>1 DEF Call, Pcs, DeliverPcs
<1>3. c.pc \notin {"idle"} \cup Ended => Framed(c)
  BY <1>1 DEF Call, Framed
<1>4. call' = [call EXCEPT ![k] = c]
  BY DEF Skip
<1> HIDE DEF c
<1> QED BY <1>2, <1>3, <1>4, CallType

LEMMA FailedAttemptType ==
  ASSUME TypeInv, RowsKept, NEW k \in Calls, NEW transient \in BOOLEAN,
         call[k].pc \in {"post", "create", "patch"}, FailedAttempt(k, transient)
  PROVE  call' \in [Calls -> Call] /\ Started'
<1> DEFINE pc == IF transient /\ call[k].tries + 1 < MaxAttempts
                 THEN call[k].pc ELSE AfterFailure(k)
           c == [call[k] EXCEPT !.tries = @ + 1, !.pc = pc]
<1>1. call[k] \in Call /\ Framed(call[k]) /\ call[k].tries < MaxAttempts
  BY DEF TypeInv, TypeOK, Started, Live, Ended, Framed
<1>2. pc \in Pcs /\ AfterFailure(k) \in {"record_error", "failed"}
  BY DEF AfterFailure, Pcs, DeliverPcs, OverwritePcs, Ended
<1>3. call[k].tries + 1 \in 0 .. MaxAttempts
  BY <1>1, DeliveryAssumption DEF Call
<1>4. c \in Call
  <2> HIDE DEF pc
  <2> QED BY <1>1, <1>2, <1>3 DEF Call
<1>5. c.pc \notin {"idle"} \cup Ended => Framed(c)
  BY <1>1, <1>2 DEF Call, Framed, Ended
<1>6. call' = [call EXCEPT ![k] = c]
  BY DEF FailedAttempt
<1> HIDE DEF c
<1> QED BY <1>4, <1>5, <1>6, CallType

\* A new call frame, of a row that is the lead's if there is one.
LEMMA NewCallType ==
  ASSUME TypeInv, RowsKept, NEW k \in Calls, NEW l \in Leads, NEW pc \in Pcs,
         NEW reason \in SkipReasons,
         LatestRow(l) = 0 => pc \in Ended,
         call' = [call EXCEPT ![k] = [pc |-> pc, lead |-> l, row |-> LatestRow(l),
                                      tries |-> 0, reason |-> reason]]
  PROVE  call' \in [Calls -> Call] /\ Started'
<1> DEFINE r == LatestRow(l)
           c == [pc |-> pc, lead |-> l, row |-> r, tries |-> 0, reason |-> reason]
<1>1. nrows \in 0 .. MaxRows /\ MaxRows \in Nat
  BY DeliveryAssumption DEF TypeInv, TypeOK
<1>2. r \in 0 .. nrows /\ (r # 0 => rows[r].lead = l)
  BY <1>1, LatestRowOfLead
<1>3. (r = 0 => pc \in Ended) /\ call' = [call EXCEPT ![k] = c]
  OBVIOUS
<1> HIDE DEF r
<1>4. c \in Call
  <2>1. r \in 0 .. MaxRows /\ 0 \in 0 .. MaxAttempts
    BY <1>1, <1>2, DeliveryAssumption
  <2> QED BY <2>1 DEF Call
<1>5. c.pc \notin {"idle"} \cup Ended => Framed(c)
  <2>1. SUFFICES ASSUME pc \notin Ended PROVE Framed(c)
    OBVIOUS
  <2> QED BY <2>1, <1>1, <1>2, <1>3, DeliveryAssumption DEF Framed
<1> HIDE DEF c
<1> QED BY <1>3, <1>4, <1>5, CallType

LEMMA UnchangedKeepsRows == TypeInv /\ UNCHANGED <<rows, nrows>> => RowsKept
  BY DEF RowsKept, TypeInv, TypeOK

\* The variables that a step leaves alone keep their types.
LEMMA SnapshotType ==
  ASSUME TypeInv, NEW k \in Calls, NEW l \in Leads,
         DeliverSnapshot(k, l) \/ OverwriteSnapshot(k, l)
  PROVE  TypeInv'
<1>1. RowsKept
  BY UnchangedKeepsRows DEF DeliverSnapshot, OverwriteSnapshot
<1>2. call' \in [Calls -> Call] /\ Started'
  <2>1. CASE DeliverSnapshot(k, l)
    <3> DEFINE pc == CASE LatestRow(l) = 0 -> "done"
                       [] LatestRow(l) # 0 /\ GuardOutcome(l) # "none" -> "skip"
                       [] LatestRow(l) # 0 /\ GuardOutcome(l) = "none" -> "verify"
    <3>1. GuardOutcome(l) \in SkipReasons
      BY DEF GuardOutcome, SkipReasons
    <3>2. pc \in Pcs /\ (LatestRow(l) = 0 => pc \in Ended)
      BY DEF Pcs, DeliverPcs, Ended
    <3>3. call' = [call EXCEPT ![k] = [pc |-> pc, lead |-> l, row |-> LatestRow(l),
                                       tries |-> 0, reason |-> GuardOutcome(l)]]
      BY <2>1 DEF DeliverSnapshot
    <3> HIDE DEF pc
    <3> QED BY <1>1, <3>1, <3>2, <3>3, NewCallType
  <2>2. CASE OverwriteSnapshot(k, l)
    <3> DEFINE pc == IF config = "ok" /\ OverwritableRow(LatestRow(l))
                     THEN "lookup" ELSE "done"
    <3>1. pc \in Pcs /\ (LatestRow(l) = 0 => pc \in Ended) /\ "none" \in SkipReasons
      BY DEF Pcs, OverwritePcs, Ended, OverwritableRow, SkipReasons
    <3>2. call' = [call EXCEPT ![k] = [pc |-> pc, lead |-> l, row |-> LatestRow(l),
                                       tries |-> 0, reason |-> "none"]]
      BY <2>2 DEF OverwriteSnapshot
    <3> HIDE DEF pc
    <3> QED BY <1>1, <3>1, <3>2, NewCallType
  <2> QED BY <2>1, <2>2
<1> QED BY <1>2 DEF TypeInv, TypeOK, DeliverSnapshot, OverwriteSnapshot, Exposing

\* The steps of deliver_email outside its POST.
LEMMA DeliverType ==
  ASSUME TypeInv, NEW k \in Calls, Deliver(k)
  PROVE  TypeInv'
<1>1. Deliver(k) => Live(k)
  BY DEF Deliver, RecordSkip, VerifyCached, VerifyRequest, VerifyAnswer, VerifyFailure,
         Configure, MarkInProgress, RecordSent, RecordError, Live, Ended
<1>2. /\ call[k].row \in 1 .. nrows /\ rows[call[k].row] \in Row
      /\ call[k].lead \in Leads /\ call[k].reason \in SkipReasons
  <2>1. Framed(call[k]) /\ call[k] \in Call /\ rows \in [RowIds -> Row]
        /\ nrows \in 0 .. MaxRows /\ MaxRows \in Nat
    BY <1>1, DeliveryAssumption DEF TypeInv, TypeOK, Started
  <2> QED BY <2>1 DEF Framed, Call, RowIds
<1>3. ASSUME NEW status PROVE AfterVerification(k, status) =>
         Goto(k, "configure") \/ Skip(k, "email_invalid")
  BY DEF AfterVerification
<1>4. /\ DeliverPcs \cup Ended \subseteq Pcs \ {"idle"}
      /\ {"done", "failed"} \subseteq Ended
      /\ {"verifying", "configure", "mark", "post"} \subseteq DeliverPcs
      /\ {"email_invalid", "missing_instantly_api_key", "workspace_not_configured"}
           \subseteq SkipReasons
  BY DEF Pcs, DeliverPcs, Ended, SkipReasons
<1>5. CASE RecordSkip(k)
  <2> DEFINE new == [rows[call[k].row] EXCEPT !.skip = call[k].reason]
  <2>1. new \in Row /\ new.lead = rows[call[k].row].lead
    BY <1>2 DEF Row
  <2>2. RowsKept
    BY <1>2, <1>5, <2>1, WriteKeepsRows DEF RecordSkip
  <2>3. call' \in [Calls -> Call] /\ Started'
    BY <1>1, <1>4, <1>5, <2>2, GotoType DEF RecordSkip
  <2> QED BY <1>5, <2>2, <2>3 DEF TypeInv, TypeOK, RecordSkip, RowsKept
<1>6. CASE VerifyCached(k) \/ VerifyRequest(k) \/ VerifyAnswer(k) \/ VerifyFailure(k)
           \/ Configure(k)
  <2>1. RowsKept
    BY <1>6, UnchangedKeepsRows DEF VerifyCached, VerifyRequest, VerifyAnswer, VerifyFailure,
       Configure
  <2>2. /\ call[k].pc # "record_error"
        /\ \/ \E pc \in {"verifying", "configure", "mark", "done", "failed"} : Goto(k, pc)
           \/ \E reason \in {"email_invalid", "missing_instantly_api_key",
                             "workspace_not_configured"} : Skip(k, reason)
    BY <1>3, <1>6 DEF VerifyCached, VerifyRequest, VerifyAnswer, VerifyFailure, Configure,
       TypeInv, TypeOK
  <2>3. call' \in [Calls -> Call] /\ Started'
    BY <1>1, <1>4, <2>1, <2>2, GotoType, SkipType DEF Deliver
  <2>4. verif' \in [Leads -> VerifyAnswers \cup {"none"}]
    BY <1>2, <1>6 DEF VerifyCached, VerifyRequest, VerifyAnswer, VerifyFailure, Configure,
       TypeInv, TypeOK
  <2> QED BY <1>6, <2>3, <2>4 DEF TypeInv, TypeOK, VerifyCached, VerifyRequest,
       VerifyAnswer, VerifyFailure, Configure
<1>7. CASE MarkInProgress(k)
  <2> DEFINE new == [rows[call[k].row] EXCEPT !.status = "in_progress"]
  <2>1. new \in Row /\ new.lead = rows[call[k].row].lead
    BY <1>2 DEF Row, Statuses
  <2>2. RowsKept
    BY <1>2, <1>7, <2>1, WriteKeepsRows DEF MarkInProgress
  <2>3. call' \in [Calls -> Call] /\ Started'
    BY <1>1, <1>4, <1>7, <2>2, GotoType DEF MarkInProgress
  <2> QED BY <1>7, <2>2, <2>3 DEF TypeInv, TypeOK, MarkInProgress, RowsKept
<1>8. CASE RecordSent(k)
  <2>1. PICK id \in BOOLEAN :
           Write(call[k].row, [rows[call[k].row] EXCEPT
                                 !.status = "sent", !.delivered = TRUE, !.hasId = id])
    BY <1>8 DEF RecordSent, RecordedRow
  <2> DEFINE new == [rows[call[k].row] EXCEPT
                       !.status = "sent", !.delivered = TRUE, !.hasId = id]
  <2>2. new \in Row /\ new.lead = rows[call[k].row].lead
    BY <1>2 DEF Row, Statuses
  <2>3. RowsKept
    BY <1>2, <1>8, <2>1, <2>2, WriteKeepsRows DEF RecordSent
  <2>4. call' \in [Calls -> Call] /\ Started'
    BY <1>1, <1>4, <1>8, <2>3, GotoType DEF RecordSent
  <2> QED BY <1>8, <2>3, <2>4 DEF TypeInv, TypeOK, RecordSent, RowsKept
<1>9. CASE RecordError(k)
  <2> DEFINE new == [rows[call[k].row] EXCEPT !.status = "error", !.delivered = FALSE]
  <2>1. new \in Row /\ new.lead = rows[call[k].row].lead
    BY <1>2 DEF Row, Statuses
  <2>2. RowsKept
    BY <1>2, <1>9, <2>1, WriteKeepsRows DEF RecordError
  <2>3. call' \in [Calls -> Call] /\ Started'
    BY <1>1, <1>4, <1>9, <2>2, GotoType DEF RecordError
  <2> QED BY <1>9, <2>2, <2>3 DEF TypeInv, TypeOK, RecordError, RowsKept
<1> QED BY <1>5, <1>6, <1>7, <1>8, <1>9 DEF Deliver

LEMMA PostType ==
  ASSUME TypeInv, NEW k \in Calls, Post(k)
  PROVE  TypeInv'
<1>1. Live(k) /\ call[k].pc \in PostPcs /\ RowsKept
  BY UnchangedKeepsRows DEF Post, PostAccepted, PostRefused, PostPcs, Live, Ended
<1>2. call[k].row \in RowIds /\ call[k].lead \in Leads
  <2>1. Framed(call[k]) /\ nrows \in 0 .. MaxRows /\ MaxRows \in Nat
    BY <1>1, DeliveryAssumption DEF TypeInv, TypeOK, Started
  <2> QED BY <2>1 DEF Framed, RowIds
<1>3. ASSUME NEW answered \in BOOLEAN, PostAccepted(k, answered) PROVE TypeInv'
  <2> DEFINE copy == [row |-> PostedRow(k),
                      via |-> IF call[k].pc = "post" THEN "deliver" ELSE "overwrite"]
  <2>1. copy \in Copy
    BY <1>2 DEF Copy, PostedRow
  <2>2. remote' \in [Leads -> Seq(Copy)]
    <3>1. remote' = [remote EXCEPT ![call[k].lead] = Append(@, copy)]
      BY <1>3 DEF PostAccepted
    <3>2. Append(remote[call[k].lead], copy) \in Seq(Copy)
      BY <1>2, <2>1, AppendProperties DEF TypeInv, TypeOK
    <3> HIDE DEF copy
    <3> QED BY <3>1, <3>2 DEF TypeInv, TypeOK
  <2>3. call' \in [Calls -> Call] /\ Started'
    <3>1. CASE answered
      <4>1. \E pc \in {"record_sent", "mark_local"} : Goto(k, pc)
        BY <1>3, <3>1 DEF PostAccepted
      <4>2. {"record_sent", "mark_local"} \subseteq Pcs \ {"idle"}
        BY DEF Pcs, DeliverPcs, OverwritePcs
      <4> QED BY <1>1, <4>1, <4>2, GotoType DEF PostPcs
    <3>2. CASE ~ answered
      BY <1>1, <1>3, <3>2, FailedAttemptType DEF PostAccepted, PostPcs
    <3> QED BY <3>1, <3>2
  <2> QED BY <1>2, <1>3, <2>1, <2>2, <2>3 DEF PostAccepted, Exposing, TypeInv, TypeOK, PostedRow
<1>4. CASE PostRefused(k)
  <2>1. call' \in [Calls -> Call] /\ Started'
    BY <1>1, <1>4, FailedAttemptType DEF PostRefused, PostPcs
  <2> QED BY <1>4, <2>1 DEF PostRefused, TypeInv, TypeOK
<1> QED BY <1>3, <1>4 DEF Post

LEMMA OverwriteType ==
  ASSUME TypeInv, NEW k \in Calls, Overwrite(k)
  PROVE  TypeInv'
<1>1. Live(k) /\ call[k].pc # "record_error"
  BY DEF Overwrite, OverwriteLookup, OverwritePatch, OverwriteReadBack, MarkLocalSent,
         Live, Ended
<1>2. /\ call[k].row \in 1 .. nrows /\ rows[call[k].row] \in Row
      /\ call[k].row \in RowIds /\ call[k].lead \in Leads
  <2>1. Framed(call[k]) /\ rows \in [RowIds -> Row] /\ nrows \in 0 .. MaxRows
        /\ MaxRows \in Nat
    BY <1>1, DeliveryAssumption DEF TypeInv, TypeOK, Started
  <2> QED BY <2>1 DEF Framed, RowIds
<1>3. {"patch", "create", "readback", "mark_local", "done"} \subseteq Pcs \ {"idle"}
  BY DEF Pcs, OverwritePcs, Ended
<1>4. CASE OverwriteLookup(k) \/ OverwriteReadBack(k)
  <2>1. RowsKept
    BY <1>4, UnchangedKeepsRows DEF OverwriteLookup, OverwriteReadBack
  <2>2. \E pc \in {"patch", "create", "mark_local", "done"} : Goto(k, pc)
    BY <1>4 DEF OverwriteLookup, OverwriteReadBack
  <2>3. call' \in [Calls -> Call] /\ Started'
    BY <1>1, <1>3, <2>1, <2>2, GotoType
  <2> QED BY <1>4, <2>3 DEF OverwriteLookup, OverwriteReadBack, TypeInv, TypeOK
<1>5. ASSUME NEW applied \in BOOLEAN, NEW answered \in BOOLEAN,
             OverwritePatch(k, applied, answered)
      PROVE  TypeInv'
  <2>1. RowsKept
    BY <1>5, UnchangedKeepsRows DEF OverwritePatch
  <2>2. call' \in [Calls -> Call] /\ Started'
    <3>1. CASE answered
      BY <1>1, <1>3, <1>5, <2>1, <3>1, GotoType DEF OverwritePatch
    <3>2. CASE ~ answered
      BY <1>5, <2>1, <3>2, FailedAttemptType DEF OverwritePatch
    <3> QED BY <3>1, <3>2
  <2>3. remote' \in [Leads -> Seq(Copy)]
    <3>1. CASE applied
      <4> DEFINE seq == remote[call[k].lead]
                 new == [seq EXCEPT ![1].row = call[k].row]
      <4>1. seq \in Seq(Copy)
        BY <1>2 DEF TypeInv, TypeOK
      <4>2. new \in Seq(Copy)
        <5>1. CASE 1 \in DOMAIN seq
          <6> DEFINE e == [seq[1] EXCEPT !.row = call[k].row]
          <6>1. 1 \in 1 .. Len(seq) /\ seq[1] \in Copy
            BY <4>1, <5>1
          <6>2. e \in Copy
            BY <1>2, <6>1 DEF Copy
          <6>3. [seq EXCEPT ![1] = e] \in Seq(Copy)
            <7> HIDE DEF e, seq
            <7> QED BY <4>1, <6>1, <6>2, ExceptSeq
          <6> QED BY <6>3
        <5>2. CASE 1 \notin DOMAIN seq
          <6>1. new = seq
            BY <4>1, <5>2
          <6> QED BY <4>1, <6>1
        <5> QED BY <5>1, <5>2
      <4>3. remote' = [remote EXCEPT ![call[k].lead] = new]
        BY <1>5, <3>1 DEF OverwritePatch
      <4> HIDE DEF new
      <4> QED BY <4>2, <4>3 DEF TypeInv, TypeOK
    <3>2. CASE ~ applied
      BY <1>5, <3>2 DEF OverwritePatch, TypeInv, TypeOK
    <3> QED BY <3>1, <3>2
  <2> QED BY <1>2, <1>5, <2>2, <2>3 DEF OverwritePatch, TypeInv, TypeOK
<1>6. CASE MarkLocalSent(k)
  <2>1. PICK id \in BOOLEAN :
           Write(call[k].row, [rows[call[k].row] EXCEPT
                                 !.status = "sent", !.delivered = TRUE, !.hasId = @ \/ id])
    BY <1>6 DEF MarkLocalSent
  <2> DEFINE new == [rows[call[k].row] EXCEPT
                       !.status = "sent", !.delivered = TRUE, !.hasId = @ \/ id]
  <2>2. new \in Row /\ new.lead = rows[call[k].row].lead
    BY <1>2 DEF Row, Statuses
  <2>3. RowsKept
    BY <1>2, <1>6, <2>1, <2>2, WriteKeepsRows DEF MarkLocalSent
  <2>4. call' \in [Calls -> Call] /\ Started'
    BY <1>1, <1>3, <1>6, <2>3, GotoType DEF MarkLocalSent
  <2> QED BY <1>6, <2>3, <2>4 DEF TypeInv, TypeOK, MarkLocalSent, RowsKept
<1> QED BY <1>4, <1>5, <1>6 DEF Overwrite

\* The rest of the program, and crashes.
LEMMA EnvironmentType ==
  ASSUME TypeInv,
         \/ \E k \in Calls : Crash(k)
         \/ \E l \in Leads, safe \in BOOLEAN, skip \in GeneratedSkips :
              GenerateEmail(l, safe, skip)
         \/ \E l \in Leads, t \in Tiers : Rescore(l, t)
         \/ \E r \in RowIds : ClearDeliveryError(r)
         \/ ResetFailedDeliveries
  PROVE  TypeInv'
<1>1. /\ rows \in [RowIds -> Row] /\ nrows \in 0 .. MaxRows /\ MaxRows \in Nat
      /\ RowIds = 1 .. MaxRows
  BY DeliveryAssumption DEF TypeInv, TypeOK, RowIds
<1>2. ASSUME NEW k \in Calls, Crash(k) PROVE TypeInv'
  <2>1. RowsKept
    BY <1>2, UnchangedKeepsRows DEF Crash
  <2>2. "crashed" \in Pcs \ {"idle"} /\ "crashed" \in Ended
    BY DEF Pcs, Ended
  <2>3. call' \in [Calls -> Call] /\ Started'
    BY <1>2, <2>1, <2>2, GotoType DEF Crash
  <2>4. call[k].lead \in Leads
    BY <1>2 DEF Crash, TypeInv, Started, Framed
  <2> QED BY <1>2, <2>3, <2>4 DEF Crash, Exposing, TypeInv, TypeOK
<1>3. ASSUME NEW l \in Leads, NEW safe \in BOOLEAN, NEW skip \in GeneratedSkips,
             GenerateEmail(l, safe, skip)
      PROVE  TypeInv'
  <2> DEFINE new == [lead |-> l, safe |-> safe, status |-> "none", delivered |-> FALSE,
                     hasId |-> FALSE, skip |-> skip]
  <2>1. new \in Row
    BY DEF Row, Statuses, SkipReasons, GeneratedSkips
  <2>2. rows' = [rows EXCEPT ![nrows + 1] = new]
    BY <1>3 DEF GenerateEmail, Write
  <2> HIDE DEF new
  <2>3. rows' \in [RowIds -> Row] /\ nrows' \in 0 .. MaxRows
    BY <1>1, <1>3, <2>1, <2>2 DEF GenerateEmail
  <2>4. Started'
    <3>1. ASSUME NEW k \in Calls, Live(k)' PROVE Framed(call[k])'
      <4>1. Framed(call[k]) /\ call' = call
        BY <1>3, <3>1 DEF GenerateEmail, Live, TypeInv, Started
      <4> QED BY <1>1, <1>3, <2>2, <4>1 DEF Framed, GenerateEmail
    <3>2. ASSUME NEW r \in 1 .. nrows' PROVE rows'[r].lead \in Leads
      <4>1. CASE r = nrows + 1
        BY <1>1, <1>3, <2>2, <4>1 DEF GenerateEmail, new
      <4>2. CASE r \in 1 .. nrows
        BY <1>1, <2>2, <4>2 DEF TypeInv, Started
      <4> QED BY <1>1, <1>3, <4>1, <4>2 DEF GenerateEmail
    <3> QED BY <3>1, <3>2 DEF Started
  <2> QED BY <1>3, <2>3, <2>4 DEF GenerateEmail, TypeInv, TypeOK
<1>4. ASSUME NEW l \in Leads, NEW t \in Tiers, Rescore(l, t) PROVE TypeInv'
  <2>1. Started'
    BY <1>4 DEF Rescore, TypeInv, Started, Live, Framed
  <2> QED BY <1>4, <2>1 DEF Rescore, TypeInv, TypeOK
<1>5. ASSUME NEW r \in RowIds, ClearDeliveryError(r) PROVE TypeInv'
  <2> DEFINE new == [rows[r] EXCEPT !.status = "none", !.delivered = FALSE, !.hasId = FALSE]
  <2>1. r <= nrows /\ Write(r, new) /\ UNCHANGED <<nrows, call>>
    BY <1>5 DEF ClearDeliveryError
  <2>2. r \in 1 .. nrows /\ rows[r].lead \in Leads
    BY <1>1, <2>1 DEF TypeInv, Started
  <2>3. RowsKept
    <3>1. new \in Row /\ new.lead = rows[r].lead
      BY <1>1 DEF Row, Statuses
    <3> HIDE DEF new
    <3> QED BY <2>1, <2>2, <3>1, WriteKeepsRows
  <2>4. Started'
    BY <2>1, <2>3 DEF RowsKept, TypeInv, Started, Live, Framed
  <2>5. exposed' \subseteq Leads
    BY <1>5, <2>2 DEF ClearDeliveryError, Exposing, TypeInv, TypeOK
  <2> QED BY <1>5, <2>3, <2>4, <2>5 DEF ClearDeliveryError, RowsKept, TypeInv, TypeOK
<1>6. CASE ResetFailedDeliveries
  <2>1. RowsKept
    <3>1. \A r \in RowIds : /\ rows[r] \in Row
                            /\ [rows[r] EXCEPT !.status = "none"] \in Row
                            /\ [rows[r] EXCEPT !.status = "none"].lead = rows[r].lead
      BY <1>1 DEF Row, Statuses
    <3> QED BY <1>1, <1>6, <3>1 DEF ResetFailedDeliveries, RowsKept
  <2>2. Started'
    BY <1>6, <2>1 DEF ResetFailedDeliveries, RowsKept, TypeInv, Started, Live, Framed
  <2> QED BY <1>6, <2>1, <2>2 DEF ResetFailedDeliveries, RowsKept, TypeInv, TypeOK
<1> QED BY <1>2, <1>3, <1>4, <1>5, <1>6

LEMMA NextType == TypeInv /\ [Next]_vars => TypeInv'
<1> SUFFICES ASSUME TypeInv, [Next]_vars PROVE TypeInv'
  OBVIOUS
<1>1. CASE UNCHANGED vars
  BY <1>1 DEF vars, TypeInv, TypeOK, Started, Live, Framed
<1>2. CASE Next
  BY <1>2, SnapshotType, DeliverType, PostType, OverwriteType, EnvironmentType
     DEF Next, CallStep
<1> QED BY <1>1, <1>2

\* Every reachable state has the types of TypeOK, for any number of leads,
\* calls, rows and attempts: a call never writes a row that does not exist.
THEOREM TypeCorrect == Spec => []TypeOK
<1>1. Spec => []TypeInv
  BY InitType, NextType, PTL DEF Spec
<1>2. TypeInv => TypeOK
  BY DEF TypeInv
<1> QED BY <1>1, <1>2, PTL

-----------------------------------------------------------------------------
(* What a step of a started call can touch: its own frame, row and lead.    *)

\* The frame of k moves to pc and keeps its lead and row.
Moves(k, pc) ==
  /\ call'[k].pc = pc
  /\ call'[k].lead = call[k].lead /\ call'[k].row = call[k].row
  /\ \A j \in Calls \ {k} : call'[j] = call[j]

LEMMA GotoMoves ==
  ASSUME TypeOK, NEW k \in Calls, NEW pc, Goto(k, pc)
  PROVE  Moves(k, pc)
<1>1. call \in [Calls -> Call] /\ call[k] \in Call
  BY DEF TypeOK
<1> QED BY <1>1 DEF Goto, Moves, Call

LEMMA SkipMoves ==
  ASSUME TypeOK, NEW k \in Calls, NEW reason, Skip(k, reason)
  PROVE  Moves(k, "skip")
<1>1. call \in [Calls -> Call] /\ call[k] \in Call
  BY DEF TypeOK
<1> DEFINE c == [call[k] EXCEPT !.pc = "skip", !.reason = reason]
<1>2. c.pc = "skip" /\ c.lead = call[k].lead /\ c.row = call[k].row
  BY <1>1 DEF Call
<1>3. call' = [call EXCEPT ![k] = c]
  BY DEF Skip
<1> HIDE DEF c
<1> QED BY <1>1, <1>2, <1>3 DEF Moves

\* After a failed attempt the call tries again, or ends in its failure branch.
LEMMA FailedAttemptMoves ==
  ASSUME TypeOK, NEW k \in Calls, NEW transient, FailedAttempt(k, transient),
         call[k].pc \in {"post", "create", "patch"}
  PROVE  \/ Moves(k, call[k].pc)
         \/ Moves(k, "failed")
         \/ call[k].pc = "post" /\ Moves(k, "record_error")
<1> DEFINE pc == IF transient /\ call[k].tries + 1 < MaxAttempts
                 THEN call[k].pc ELSE AfterFailure(k)
           c == [call[k] EXCEPT !.tries = @ + 1, !.pc = pc]
<1>1. call \in [Calls -> Call] /\ call[k] \in Call
  BY DEF TypeOK
<1>2. c.pc = pc /\ c.lead = call[k].lead /\ c.row = call[k].row
  <2> HIDE DEF pc
  <2> QED BY <1>1 DEF Call
<1>3. call' = [call EXCEPT ![k] = c]
  BY DEF FailedAttempt
<1>4. \/ pc = call[k].pc \/ pc = "failed"
      \/ call[k].pc = "post" /\ pc = "record_error"
  BY DEF AfterFailure
<1>5. Moves(k, pc)
  <2> HIDE DEF c, pc
  <2> QED BY <1>1, <1>2, <1>3 DEF Moves
<1> HIDE DEF pc
<1> QED BY <1>4, <1>5

\* The moves of each kind of step.
LEMMA CallStepMoves ==
  ASSUME TypeOK, NEW k \in Calls
  PROVE  /\ RecordSkip(k) => Moves(k, "done")
         /\ VerifyCached(k) => Moves(k, "configure") \/ Moves(k, "skip")
         /\ VerifyRequest(k) => Moves(k, "verifying")
         /\ VerifyAnswer(k) => Moves(k, "configure") \/ Moves(k, "skip")
         /\ VerifyFailure(k) => Moves(k, "failed")
         /\ Configure(k) => Moves(k, "skip") \/ Moves(k, "mark") \/ Moves(k, "done")
         /\ MarkInProgress(k) => Moves(k, "post")
         /\ RecordSent(k) => Moves(k, "done")
         /\ RecordError(k) => Moves(k, "failed")
         /\ \A answered \in BOOLEAN : PostAccepted(k, answered) =>
              \/ answered /\ call[k].pc = "post" /\ Moves(k, "record_sent")
              \/ answered /\ call[k].pc = "create" /\ Moves(k, "mark_local")
              \/ ~ answered /\ \/ Moves(k, call[k].pc) \/ Moves(k, "failed")
                               \/ Moves(k, "record_error")
         /\ PostRefused(k) => \/ Moves(k, call[k].pc) \/ Moves(k, "failed")
                              \/ Moves(k, "record_error")
         /\ OverwriteLookup(k) =>
              \/ Len(remote[call[k].lead]) = 1 /\ Moves(k, "patch")
              \/ Len(remote[call[k].lead]) = 0 /\ Moves(k, "create")
              \/ Moves(k, "done")
         /\ \A applied, answered \in BOOLEAN : OverwritePatch(k, applied, answered) =>
              \/ applied /\ Moves(k, "readback")
              \/ Moves(k, "patch") \/ Moves(k, "failed")
         /\ OverwriteReadBack(k) => Moves(k, "mark_local") \/ Moves(k, "done")
         /\ MarkLocalSent(k) => Moves(k, "done")
<1>1. /\ RecordSkip(k) => Moves(k, "done")
      /\ VerifyRequest(k) => Moves(k, "verifying")
      /\ VerifyFailure(k) => Moves(k, "failed")
      /\ MarkInProgress(k) => Moves(k, "post")
      /\ RecordSent(k) => Moves(k, "done")
      /\ RecordError(k) => Moves(k, "failed")
      /\ MarkLocalSent(k) => Moves(k, "done")
  BY GotoMoves DEF RecordSkip, VerifyRequest, VerifyFailure, MarkInProgress, RecordSent,
     RecordError, MarkLocalSent
<1>2. /\ VerifyCached(k) => Moves(k, "configure") \/ Moves(k, "skip")
      /\ VerifyAnswer(k) => Moves(k, "configure") \/ Moves(k, "skip")
  BY GotoMoves, SkipMoves DEF VerifyCached, VerifyAnswer, AfterVerification
<1>3. Configure(k) => Moves(k, "skip") \/ Moves(k, "mark") \/ Moves(k, "done")
  BY GotoMoves, SkipMoves DEF Configure, TypeOK
<1>4. ASSUME NEW answered \in BOOLEAN, PostAccepted(k, answered)
      PROVE  \/ answered /\ call[k].pc = "post" /\ Moves(k, "record_sent")
             \/ answered /\ call[k].pc = "create" /\ Moves(k, "mark_local")
             \/ ~ answered /\ \/ Moves(k, call[k].pc) \/ Moves(k, "failed")
                              \/ Moves(k, "record_error")
  <2>1. CASE answered
    BY <1>4, <2>1, GotoMoves DEF PostAccepted, PostPcs
  <2>2. CASE ~ answered
    BY <1>4, <2>2, FailedAttemptMoves DEF PostAccepted, PostPcs
  <2> QED BY <2>1, <2>2
<1>5. PostRefused(k) => \/ Moves(k, call[k].pc) \/ Moves(k, "failed")
                        \/ Moves(k, "record_error")
  BY FailedAttemptMoves DEF PostRefused, PostPcs
<1>6. OverwriteLookup(k) =>
        \/ Len(remote[call[k].lead]) = 1 /\ Moves(k, "patch")
        \/ Len(remote[call[k].lead]) = 0 /\ Moves(k, "create")
        \/ Moves(k, "done")
  BY GotoMoves DEF OverwriteLookup
<1>7. ASSUME NEW applied \in BOOLEAN, NEW answered \in BOOLEAN,
             OverwritePatch(k, applied, answered)
      PROVE  \/ applied /\ Moves(k, "readback")
             \/ Moves(k, "patch") \/ Moves(k, "failed")
  <2>1. CASE answered
    BY <1>7, <2>1, GotoMoves DEF OverwritePatch
  <2>2. CASE ~ answered
    BY <1>7, <2>2, FailedAttemptMoves DEF OverwritePatch
  <2> QED BY <2>1, <2>2
<1>8. OverwriteReadBack(k) => Moves(k, "mark_local") \/ Moves(k, "done")
  BY GotoMoves DEF OverwriteReadBack
<1> QED BY <1>1, <1>2, <1>3, <1>4, <1>5, <1>6, <1>7, <1>8

LEMMA CallStepEffect ==
  ASSUME TypeInv, NEW k \in Calls, CallStep(k)
  PROVE  /\ Live(k) /\ Framed(call[k])
         /\ call'[k].pc # "idle"
         /\ call'[k].lead = call[k].lead /\ call'[k].row = call[k].row
         /\ \A j \in Calls \ {k} : call'[j] = call[j]
         /\ exposed \subseteq exposed' /\ accepted \subseteq accepted'
         /\ nrows' = nrows
         /\ \A r \in RowIds : /\ rows'[r].lead = rows[r].lead
                              /\ rows'[r].safe = rows[r].safe
                              /\ r # call[k].row => rows'[r] = rows[r]
         /\ \A l \in Leads : l # call[k].lead => remote'[l] = remote[l]
<1>1. Live(k)
  BY DEF CallStep, Deliver, RecordSkip, VerifyCached, VerifyRequest, VerifyAnswer,
         VerifyFailure, Configure, MarkInProgress, RecordSent, RecordError, Post,
         PostAccepted, PostRefused, PostPcs, Overwrite, OverwriteLookup, OverwritePatch,
         OverwriteReadBack, MarkLocalSent, Live, Ended
<1>2. Framed(call[k])
  BY <1>1 DEF TypeInv, Started
<1>4. call \in [Calls -> Call] /\ rows \in [RowIds -> Row] /\ remote \in [Leads -> Seq(Copy)]
  BY DEF TypeInv, TypeOK
<1>5. /\ call'[k].lead = call[k].lead /\ call'[k].row = call[k].row
      /\ call'[k].pc # "idle"
      /\ \A j \in Calls \ {k} : call'[j] = call[j]
  <2>1. \E pc : Moves(k, pc) /\ pc # "idle"
    BY <1>1, CallStepMoves DEF CallStep, Deliver, Post, Overwrite, TypeInv, Live
  <2> QED BY <2>1 DEF Moves
<1>6. /\ exposed \subseteq exposed' /\ accepted \subseteq accepted' /\ nrows' = nrows
      /\ \A l \in Leads : l # call[k].lead => remote'[l] = remote[l]
  <2>1. CASE Deliver(k)
    BY <2>1 DEF Deliver, RecordSkip, VerifyCached, VerifyRequest, VerifyAnswer,
       VerifyFailure, Configure, MarkInProgress, RecordSent, RecordError
  <2>2. CASE Post(k)
    BY <1>4, <2>2 DEF Post, PostAccepted, PostRefused, Exposing
  <2>3. CASE Overwrite(k)
    BY <1>4, <2>3 DEF Overwrite, OverwriteLookup, OverwritePatch, OverwriteReadBack,
       MarkLocalSent
  <2> QED BY <2>1, <2>2, <2>3 DEF CallStep
<1>7. \A r \in RowIds : /\ rows'[r].lead = rows[r].lead
                        /\ rows'[r].safe = rows[r].safe
                        /\ r # call[k].row => rows'[r] = rows[r]
  <2>1. \/ UNCHANGED rows
        \/ \E new \in Row : /\ Write(call[k].row, new)
                            /\ new.lead = rows[call[k].row].lead
                            /\ new.safe = rows[call[k].row].safe
    <3>1. rows[call[k].row] \in Row /\ call[k].reason \in SkipReasons
      <4>1. nrows \in 0 .. MaxRows /\ MaxRows \in Nat
        BY DeliveryAssumption DEF TypeInv, TypeOK
      <4> QED BY <1>2, <1>4, <4>1 DEF Framed, RowIds, Call
    <3>2. CASE RecordSkip(k)
      <4> DEFINE new == [rows[call[k].row] EXCEPT !.skip = call[k].reason]
      <4>1. new \in Row /\ new.lead = rows[call[k].row].lead
            /\ new.safe = rows[call[k].row].safe
        BY <3>1 DEF Row
      <4> QED BY <3>2, <4>1 DEF RecordSkip
    <3>3. CASE MarkInProgress(k)
      <4> DEFINE new == [rows[call[k].row] EXCEPT !.status = "in_progress"]
      <4>1. new \in Row /\ new.lead = rows[call[k].row].lead
            /\ new.safe = rows[call[k].row].safe
        BY <3>1 DEF Row, Statuses
      <4> QED BY <3>3, <4>1 DEF MarkInProgress
    <3>4. CASE RecordSent(k)
      <4>1. PICK id \in BOOLEAN :
               Write(call[k].row, [rows[call[k].row] EXCEPT
                                     !.status = "sent", !.delivered = TRUE, !.hasId = id])
        BY <3>4 DEF RecordSent, RecordedRow
      <4> DEFINE new == [rows[call[k].row] EXCEPT
                           !.status = "sent", !.delivered = TRUE, !.hasId = id]
      <4>2. new \in Row /\ new.lead = rows[call[k].row].lead
            /\ new.safe = rows[call[k].row].safe
        BY <3>1 DEF Row, Statuses
      <4> QED BY <4>1, <4>2
    <3>5. CASE RecordError(k)
      <4> DEFINE new == [rows[call[k].row] EXCEPT !.status = "error", !.delivered = FALSE]
      <4>1. new \in Row /\ new.lead = rows[call[k].row].lead
            /\ new.safe = rows[call[k].row].safe
        BY <3>1 DEF Row, Statuses
      <4> QED BY <3>5, <4>1 DEF RecordError
    <3>6. CASE MarkLocalSent(k)
      <4>1. PICK id \in BOOLEAN :
               Write(call[k].row, [rows[call[k].row] EXCEPT
                                     !.status = "sent", !.delivered = TRUE, !.hasId = @ \/ id])
        BY <3>6 DEF MarkLocalSent
      <4> DEFINE new == [rows[call[k].row] EXCEPT
                           !.status = "sent", !.delivered = TRUE, !.hasId = @ \/ id]
      <4>2. new \in Row /\ new.lead = rows[call[k].row].lead
            /\ new.safe = rows[call[k].row].safe
        BY <3>1 DEF Row, Statuses
      <4> QED BY <4>1, <4>2
    <3>7. CASE \/ VerifyCached(k) \/ VerifyRequest(k) \/ VerifyAnswer(k) \/ VerifyFailure(k)
               \/ Configure(k) \/ Post(k)
               \/ OverwriteLookup(k) \/ OverwriteReadBack(k)
               \/ \E applied, answered \in BOOLEAN : OverwritePatch(k, applied, answered)
      BY <3>7 DEF VerifyCached, VerifyRequest, VerifyAnswer, VerifyFailure, Configure, Post,
         PostAccepted, PostRefused, OverwriteLookup, OverwritePatch, OverwriteReadBack
    <3> QED BY <3>2, <3>3, <3>4, <3>5, <3>6, <3>7 DEF CallStep, Deliver, Overwrite
  <2> QED BY <1>4, <2>1 DEF Write
<1> QED BY <1>1, <1>2, <1>5, <1>6, <1>7

-----------------------------------------------------------------------------
(* A row shown as sent was accepted: a call that may record a success holds  *)
(* the acceptance of its own row already.                                    *)

Acked ==
  \A k \in Calls :
    call[k].pc \in {"record_sent", "readback", "mark_local"} => call[k].row \in accepted

SentInv == Acked /\ SentWasAccepted

LEMMA SentStep == TypeInv /\ TypeInv' /\ SentInv /\ [Next]_vars => SentInv'
<1> SUFFICES ASSUME TypeInv, TypeInv', SentInv, [Next]_vars PROVE SentInv'
  OBVIOUS
<1>0. /\ call \in [Calls -> Call] /\ rows \in [RowIds -> Row]
      /\ RowIds = 1 .. MaxRows /\ MaxRows \in Nat /\ nrows \in 0 .. MaxRows
  BY DeliveryAssumption DEF TypeInv, TypeOK, RowIds
<1>1. CASE UNCHANGED vars
  BY <1>1 DEF vars, SentInv, Acked, SentWasAccepted
<1>2. ASSUME NEW k \in Calls, CallStep(k) PROVE SentInv'
  <2>1. /\ \A j \in Calls \ {k} : call'[j] = call[j]
        /\ call'[k].row = call[k].row /\ accepted \subseteq accepted'
        /\ \A r \in RowIds : r # call[k].row => rows'[r] = rows[r]
        /\ Framed(call[k])
    BY <1>2, CallStepEffect
  <2>2. call'[k].pc \in {"record_sent", "readback", "mark_local"} => call[k].row \in accepted'
    <3>1. CASE Deliver(k)
      BY <3>1, CallStepMoves DEF Deliver, TypeInv, Moves
    <3>2. CASE Post(k)
      <4>1. ASSUME NEW answered \in BOOLEAN, PostAccepted(k, answered)
            PROVE  call[k].row \in accepted'
        BY <4>1 DEF PostAccepted, PostedRow
      <4>2. PostRefused(k) => call'[k].pc \notin {"record_sent", "readback", "mark_local"}
        BY CallStepMoves DEF PostRefused, PostPcs, TypeInv, Moves
      <4> QED BY <3>2, <4>1, <4>2 DEF Post
    <3>3. CASE Overwrite(k)
      <4>1. ASSUME NEW applied \in BOOLEAN, NEW answered \in BOOLEAN,
                   OverwritePatch(k, applied, answered)
            PROVE  applied => call[k].row \in accepted'
        BY <4>1 DEF OverwritePatch
      <4>2. OverwriteLookup(k) \/ MarkLocalSent(k) =>
              call'[k].pc \notin {"record_sent", "readback", "mark_local"}
        BY CallStepMoves DEF TypeInv, Moves
      <4>3. OverwriteReadBack(k) => call[k].row \in accepted
        BY DEF OverwriteReadBack, SentInv, Acked
      <4>4. ASSUME NEW applied \in BOOLEAN, NEW answered \in BOOLEAN,
                   OverwritePatch(k, applied, answered), ~ applied
            PROVE  call'[k].pc \notin {"record_sent", "readback", "mark_local"}
        BY <4>4, CallStepMoves DEF TypeInv, Moves
      <4> QED BY <2>1, <3>3, <4>1, <4>2, <4>3, <4>4 DEF Overwrite
    <3> QED BY <1>2, <3>1, <3>2, <3>3 DEF CallStep
  <2>3. Acked'
    BY <2>1, <2>2 DEF SentInv, Acked
  <2>4. rows'[call[k].row].status = "sent" => call[k].row \in accepted'
    <3>0. call[k].row \in RowIds
      BY <1>0, <2>1 DEF Framed
    <3>1. CASE RecordSent(k) \/ MarkLocalSent(k)
      BY <2>1, <3>1 DEF RecordSent, MarkLocalSent, SentInv, Acked
    <3>2. CASE RecordSkip(k) \/ MarkInProgress(k) \/ RecordError(k)
      <4>1. rows'[call[k].row].status \in {rows[call[k].row].status, "in_progress", "error"}
        BY <1>0, <3>0, <3>2 DEF RecordSkip, MarkInProgress, RecordError, Write, Row
      <4> QED BY <2>1, <3>0, <4>1 DEF SentInv, SentWasAccepted
    <3>4. CASE VerifyCached(k) \/ VerifyRequest(k) \/ VerifyAnswer(k) \/ VerifyFailure(k)
               \/ Configure(k)
      BY <2>1, <3>0, <3>4 DEF VerifyCached, VerifyRequest, VerifyAnswer, VerifyFailure,
         Configure, SentInv, SentWasAccepted
    <3>3. CASE Post(k) \/ (Overwrite(k) /\ ~ MarkLocalSent(k))
      BY <2>1, <3>0, <3>3 DEF Post, PostAccepted, PostRefused, Overwrite, OverwriteLookup,
         OverwritePatch, OverwriteReadBack, SentInv, SentWasAccepted
    <3> QED BY <1>2, <3>1, <3>2, <3>3, <3>4 DEF CallStep, Deliver
  <2> QED BY <2>1, <2>3, <2>4 DEF SentInv, SentWasAccepted
<1>3. ASSUME NEW k \in Calls, NEW l \in Leads,
             DeliverSnapshot(k, l) \/ OverwriteSnapshot(k, l)
      PROVE  SentInv'
  BY <1>0, <1>3 DEF DeliverSnapshot, OverwriteSnapshot, SentInv, Acked, SentWasAccepted
<1>4. ASSUME NEW k \in Calls, Crash(k) PROVE SentInv'
  BY <1>0, <1>4 DEF Crash, Goto, SentInv, Acked, SentWasAccepted
<1>5. ASSUME NEW l \in Leads, NEW safe \in BOOLEAN, NEW skip \in GeneratedSkips,
             GenerateEmail(l, safe, skip)
      PROVE  SentInv'
  BY <1>0, <1>5 DEF GenerateEmail, Write, SentInv, Acked, SentWasAccepted
<1>6. ASSUME NEW l \in Leads, NEW t \in Tiers, Rescore(l, t) PROVE SentInv'
  BY <1>6 DEF Rescore, SentInv, Acked, SentWasAccepted
<1>7. ASSUME NEW r \in RowIds, ClearDeliveryError(r) PROVE SentInv'
  BY <1>0, <1>7 DEF ClearDeliveryError, Write, SentInv, Acked, SentWasAccepted, Row
<1>8. CASE ResetFailedDeliveries
  BY <1>0, <1>8 DEF ResetFailedDeliveries, SentInv, Acked, SentWasAccepted, Row
<1> QED BY <1>1, <1>2, <1>3, <1>4, <1>5, <1>6, <1>7, <1>8 DEF Next

\* A row is "sent" only if Instantly accepted that row's own copy.
THEOREM SentWasAcceptedCorrect == Spec => []SentWasAccepted
<1>1. Init => SentInv
  BY DEF Init, SentInv, Acked, SentWasAccepted, RowIds
<1>2. Init => TypeInv
  BY InitType
<1>3. TypeInv /\ [Next]_vars => TypeInv'
  BY NextType
<1>4. SentInv => SentWasAccepted
  BY DEF SentInv
<1> QED BY <1>1, <1>2, <1>3, <1>4, SentStep, PTL DEF Spec

-----------------------------------------------------------------------------
(* At most one record of an unexposed lead.  The invariant says why the       *)
(* dedupe guard is enough outside the windows: one call is at work on the     *)
(* lead; on its way to the POST nothing is in the campaign; and a record in   *)
(* the campaign is known to the database, or about to be.                     *)

UnsentPcs ==
  {"verify", "verifying", "configure", "mark", "post", "record_error", "create"}

Alone ==
  \A j, k \in Calls :
    /\ Live(j) /\ Live(k)
    /\ call[j].lead = call[k].lead
    /\ call[k].lead \notin exposed
    => j = k

Unsent ==
  \A k \in Calls :
    call[k].pc \in UnsentPcs /\ call[k].lead \notin exposed =>
      Len(remote[call[k].lead]) = 0

Recording(k, l) == call[k].lead = l /\ call[k].pc \in {"record_sent", "mark_local"}

Known ==
  \A l \in Leads : l \notin exposed /\ Len(remote[l]) # 0 =>
    AlreadyDelivered(l) \/ \E k \in Calls : Recording(k, l)

OnceInv == Alone /\ Unsent /\ Known /\ AtMostOnce

\* A patch replaces the copy of a record and adds none.
LEMMA PatchKeepsLength ==
  ASSUME NEW seq \in Seq(Copy), NEW r \in RowIds
  PROVE  Len([seq EXCEPT ![1].row = r]) = Len(seq)
<1> DEFINE new == [seq EXCEPT ![1].row = r]
<1>1. CASE 1 \in DOMAIN seq
  <2> DEFINE e == [seq[1] EXCEPT !.row = r]
  <2>1. 1 \in 1 .. Len(seq) /\ seq[1] \in Copy
    BY <1>1
  <2>2. e \in Copy
    BY <2>1 DEF Copy
  <2>3. Len([seq EXCEPT ![1] = e]) = Len(seq)
    <3> HIDE DEF e
    <3> QED BY <2>1, <2>2, ExceptSeq
  <2> QED BY <2>3
<1>2. CASE 1 \notin DOMAIN seq
  <2>1. new = seq
    BY <1>2
  <2> QED BY <2>1
<1> QED BY <1>1, <1>2

\* How a step of a started call changes the number of records of its lead.
LEMMA CallStepLength ==
  ASSUME TypeInv, NEW k \in Calls, CallStep(k)
  PROVE  \/ Len(remote'[call[k].lead]) = Len(remote[call[k].lead])
         \/ /\ call[k].pc \in {"post", "create"}
            /\ Len(remote'[call[k].lead]) = Len(remote[call[k].lead]) + 1
            /\ \/ call'[k].pc \in {"record_sent", "mark_local"}
               \/ call[k].lead \in exposed'
<1>1. /\ call[k].lead \in Leads /\ call[k].row \in RowIds
      /\ remote \in [Leads -> Seq(Copy)]
  <2>1. Framed(call[k]) /\ nrows \in 0 .. MaxRows /\ MaxRows \in Nat
    BY CallStepEffect, DeliveryAssumption DEF TypeInv, TypeOK
  <2> QED BY <2>1 DEF Framed, RowIds, TypeInv, TypeOK
<1>2. CASE Deliver(k) \/ PostRefused(k) \/ OverwriteLookup(k) \/ OverwriteReadBack(k)
           \/ MarkLocalSent(k)
  BY <1>2 DEF Deliver, RecordSkip, VerifyCached, VerifyRequest, VerifyAnswer,
     VerifyFailure, Configure, MarkInProgress, RecordSent, RecordError, PostRefused,
     OverwriteLookup, OverwriteReadBack, MarkLocalSent
<1>3. ASSUME NEW answered \in BOOLEAN, PostAccepted(k, answered)
      PROVE  /\ call[k].pc \in {"post", "create"}
             /\ Len(remote'[call[k].lead]) = Len(remote[call[k].lead]) + 1
             /\ \/ call'[k].pc \in {"record_sent", "mark_local"}
                \/ call[k].lead \in exposed'
  <2> DEFINE copy == [row |-> PostedRow(k),
                      via |-> IF call[k].pc = "post" THEN "deliver" ELSE "overwrite"]
  <2>1. copy \in Copy
    BY <1>1 DEF Copy, PostedRow
  <2>2. remote' = [remote EXCEPT ![call[k].lead] = Append(@, copy)]
    BY <1>3 DEF PostAccepted
  <2>3. Len(remote'[call[k].lead]) = Len(remote[call[k].lead]) + 1
    <3> HIDE DEF copy
    <3> QED BY <1>1, <2>1, <2>2, AppendProperties
  <2>4. answered => call'[k].pc \in {"record_sent", "mark_local"}
    BY <1>3, CallStepMoves DEF TypeInv, Moves
  <2>5. ~ answered => call[k].lead \in exposed'
    BY <1>3 DEF PostAccepted, Exposing
  <2> QED BY <1>3, <2>3, <2>4, <2>5 DEF PostAccepted, PostPcs
<1>4. ASSUME NEW applied \in BOOLEAN, NEW answered \in BOOLEAN,
             OverwritePatch(k, applied, answered)
      PROVE  Len(remote'[call[k].lead]) = Len(remote[call[k].lead])
  <2>1. CASE applied
    <3>1. remote'[call[k].lead] = [remote[call[k].lead] EXCEPT ![1].row = call[k].row]
      BY <1>1, <1>4, <2>1 DEF OverwritePatch
    <3> QED BY <1>1, <3>1, PatchKeepsLength
  <2>2. CASE ~ applied
    BY <1>4, <2>2 DEF OverwritePatch
  <2> QED BY <2>1, <2>2
<1> QED BY <1>2, <1>3, <1>4 DEF CallStep, Post, Overwrite

\* Which step of a call may leave it on its way to the POST.
LEMMA CallStepUnsent ==
  ASSUME TypeInv, NEW k \in Calls, CallStep(k), call'[k].pc \in UnsentPcs
  PROVE  /\ \/ call[k].pc \in UnsentPcs
            \/ Len(remote[call[k].lead]) = 0
         /\ \/ call[k].lead \in exposed'
            \/ Len(remote'[call[k].lead]) = Len(remote[call[k].lead])
<1>1. \/ call[k].pc \in UnsentPcs
      \/ Len(remote[call[k].lead]) = 0
  <2>1. CASE Deliver(k)
    BY <2>1, CallStepMoves DEF Deliver, TypeInv, Moves, UnsentPcs, RecordSkip, VerifyCached,
       VerifyRequest, VerifyAnswer, VerifyFailure, Configure, MarkInProgress, RecordSent,
       RecordError
  <2>2. CASE Post(k)
    BY <2>2 DEF Post, PostAccepted, PostRefused, PostPcs, UnsentPcs
  <2>3. CASE Overwrite(k)
    BY <2>3, CallStepMoves DEF Overwrite, TypeInv, Moves, UnsentPcs
  <2> QED BY <2>1, <2>2, <2>3 DEF CallStep
<1>2. \/ call[k].lead \in exposed'
      \/ Len(remote'[call[k].lead]) = Len(remote[call[k].lead])
  BY CallStepLength DEF UnsentPcs
<1> QED BY <1>1, <1>2

\* A delivered row stays so, except in the failure branch; and a call that
\* stops recording has recorded.
LEMMA CallStepDelivered ==
  ASSUME TypeInv, NEW k \in Calls, CallStep(k)
  PROVE  \/ call[k].pc = "record_error"
         \/ /\ \A r \in RowIds : rows[r].delivered => rows'[r].delivered
            /\ call[k].pc \in {"record_sent", "mark_local"} => rows'[call[k].row].delivered
<1>1. /\ call[k].row \in RowIds /\ rows \in [RowIds -> Row]
      /\ rows[call[k].row] \in Row
  <2>1. Framed(call[k]) /\ nrows \in 0 .. MaxRows /\ MaxRows \in Nat
    BY CallStepEffect, DeliveryAssumption DEF TypeInv, TypeOK
  <2> QED BY <2>1 DEF Framed, RowIds, TypeInv, TypeOK
<1>2. CASE \/ VerifyCached(k) \/ VerifyRequest(k) \/ VerifyAnswer(k) \/ VerifyFailure(k)
           \/ Configure(k) \/ Post(k)
           \/ OverwriteLookup(k) \/ OverwriteReadBack(k)
           \/ \E applied, answered \in BOOLEAN : OverwritePatch(k, applied, answered)
  BY <1>2 DEF VerifyCached, VerifyRequest, VerifyAnswer, VerifyFailure, Configure, Post,
     PostAccepted, PostRefused, PostPcs, OverwriteLookup, OverwritePatch, OverwriteReadBack
<1>3. CASE RecordSkip(k) \/ MarkInProgress(k)
  BY <1>1, <1>3 DEF RecordSkip, MarkInProgress, Write, Row
<1>4. CASE RecordSent(k)
  BY <1>1, <1>4 DEF RecordSent, RecordedRow, Write, Row
<1>5. CASE MarkLocalSent(k)
  BY <1>1, <1>5 DEF MarkLocalSent, Write, Row
<1>6. RecordError(k) => call[k].pc = "record_error"
  BY DEF RecordError
<1> QED BY <1>2, <1>3, <1>4, <1>5, <1>6 DEF CallStep, Deliver, Overwrite

LEMMA OnceCallStep ==
  ASSUME TypeInv, OnceInv, NEW k \in Calls, CallStep(k)
  PROVE  OnceInv'
<1> DEFINE m == call[k].lead
<1>1. /\ Live(k) /\ m \in Leads /\ call[k].row \in 1 .. nrows
      /\ rows[call[k].row].lead = m
      /\ call'[k].pc # "idle" /\ call'[k].lead = m
      /\ \A j \in Calls \ {k} : call'[j] = call[j]
      /\ exposed \subseteq exposed' /\ nrows' = nrows /\ 1 .. nrows \subseteq RowIds
      /\ \A r \in RowIds : /\ rows'[r].lead = rows[r].lead
                           /\ r # call[k].row => rows'[r] = rows[r]
      /\ \A l \in Leads : l # m => remote'[l] = remote[l]
  <2>1. nrows \in 0 .. MaxRows /\ MaxRows \in Nat
    BY DeliveryAssumption DEF TypeInv, TypeOK
  <2> QED BY <2>1, CallStepEffect DEF Framed, RowIds
<1>2. remote \in [Leads -> Seq(Copy)] /\ Len(remote[m]) \in Nat
  BY <1>1 DEF TypeInv, TypeOK
<1>3. Alone'
  <2> SUFFICES ASSUME NEW i \in Calls, NEW j \in Calls, Live(i)', Live(j)',
                      call'[i].lead = call'[j].lead, call'[j].lead \notin exposed'
               PROVE  i = j
    BY DEF Alone
  <2>1. Live(i) /\ Live(j) /\ call[i].lead = call'[i].lead /\ call[j].lead = call'[j].lead
    BY <1>1 DEF Live
  <2> QED BY <1>1, <2>1 DEF OnceInv, Alone
<1>4. Unsent'
  <2> SUFFICES ASSUME NEW j \in Calls, call'[j].pc \in UnsentPcs,
                      call'[j].lead \notin exposed'
               PROVE  Len(remote'[call'[j].lead]) = 0
    BY DEF Unsent
  <2>1. CASE j = k
    <3>1. Len(remote[m]) = 0
      BY <1>1, <2>1, CallStepUnsent DEF OnceInv, Unsent
    <3> QED BY <1>1, <2>1, <3>1, CallStepUnsent
  <2>2. CASE j # k
    <3>1. call'[j] = call[j] /\ Live(j) /\ call[j].lead \in Leads
      BY <1>1, <2>2 DEF Live, Ended, UnsentPcs, TypeInv, Started, Framed
    <3>2. call[j].lead # m
      BY <1>1, <2>2, <3>1 DEF OnceInv, Alone
    <3> QED BY <1>1, <3>1, <3>2 DEF OnceInv, Unsent
  <2> QED BY <2>1, <2>2
<1>5. Known'
  <2> SUFFICES ASSUME NEW l \in Leads, l \notin exposed', Len(remote'[l]) # 0
               PROVE  AlreadyDelivered(l)' \/ \E j \in Calls : Recording(j, l)'
    BY DEF Known
  <2>1. CASE l # m
    <3>1. AlreadyDelivered(l) \/ \E j \in Calls : Recording(j, l)
      BY <1>1, <2>1 DEF OnceInv, Known
    <3>2. ASSUME AlreadyDelivered(l) PROVE AlreadyDelivered(l)'
      BY <1>1, <2>1, <3>2 DEF AlreadyDelivered, RowsOf
    <3>3. ASSUME NEW j \in Calls, Recording(j, l) PROVE Recording(j, l)'
      BY <1>1, <2>1, <3>3 DEF Recording
    <3> QED BY <3>1, <3>2, <3>3
  <2>2. CASE l = m
    <3>1. l \notin exposed
      BY <1>1
    <3>2. CASE Len(remote'[m]) = Len(remote[m])
      <4>1. AlreadyDelivered(l) \/ \E j \in Calls : Recording(j, l)
        BY <2>2, <3>1, <3>2 DEF OnceInv, Known
      <4>2. call[k].pc # "record_error"
        BY <2>2, <3>1, <3>2 DEF OnceInv, Unsent, UnsentPcs
      <4>3. /\ \A r \in RowIds : rows[r].delivered => rows'[r].delivered
            /\ call[k].pc \in {"record_sent", "mark_local"} => rows'[call[k].row].delivered
        BY <4>2, CallStepDelivered
      <4>4. ASSUME AlreadyDelivered(l) PROVE AlreadyDelivered(l)'
        BY <1>1, <4>3, <4>4 DEF AlreadyDelivered, RowsOf
      <4>5. ASSUME NEW j \in Calls, Recording(j, l)
            PROVE  AlreadyDelivered(l)' \/ Recording(j, l)'
        <5>1. CASE j = k
          BY <1>1, <2>2, <4>3, <4>5, <5>1 DEF AlreadyDelivered, RowsOf, Recording
        <5>2. CASE j # k
          BY <1>1, <4>5, <5>2 DEF Recording
        <5> QED BY <5>1, <5>2
      <4> QED BY <4>1, <4>4, <4>5
    <3>3. CASE Len(remote'[m]) # Len(remote[m])
      <4>1. call'[k].pc \in {"record_sent", "mark_local"}
        BY <2>2, <3>3, CallStepLength
      <4> QED BY <1>1, <2>2, <4>1 DEF Recording
    <3> QED BY <3>2, <3>3
  <2> QED BY <2>1, <2>2
<1>6. AtMostOnce'
  <2> SUFFICES ASSUME NEW l \in Leads, l \notin exposed' PROVE Len(remote'[l]) <= 1
    BY DEF AtMostOnce
  <2>1. CASE l # m
    BY <1>1, <2>1 DEF OnceInv, AtMostOnce
  <2>2. CASE l = m
    <3>1. l \notin exposed /\ Len(remote[m]) <= 1
      BY <1>1, <2>2 DEF OnceInv, AtMostOnce
    <3>2. call[k].pc \in {"post", "create"} => Len(remote[m]) = 0
      BY <2>2, <3>1 DEF OnceInv, Unsent, UnsentPcs
    <3> QED BY <1>2, <2>2, <3>1, <3>2, CallStepLength
  <2> QED BY <2>1, <2>2
<1> QED BY <1>3, <1>4, <1>5, <1>6 DEF OnceInv

\* A snapshot that lets a call through found no delivered row, and no other
\* call on the lead: nothing is in the campaign.
LEMMA OnceSnapshot ==
  ASSUME TypeInv, OnceInv, NEW k \in Calls, NEW l \in Leads,
         DeliverSnapshot(k, l) \/ OverwriteSnapshot(k, l)
  PROVE  OnceInv'
<1>1. /\ call[k].pc = "idle"
      /\ \A j \in Calls \ {k} : call'[j] = call[j]
      /\ call'[k].lead = l
      /\ UNCHANGED <<rows, nrows, remote>>
      /\ exposed \subseteq exposed'
      /\ Overlaps(k, l) => l \in exposed'
  BY DEF DeliverSnapshot, OverwriteSnapshot, Exposing, TypeInv, TypeOK
<1>2. call'[k].pc \in UnsentPcs => ~ AlreadyDelivered(l)
  <2>1. CASE DeliverSnapshot(k, l)
    <3>1. call'[k].pc = CASE LatestRow(l) = 0 -> "done"
                          [] LatestRow(l) # 0 /\ GuardOutcome(l) # "none" -> "skip"
                          [] LatestRow(l) # 0 /\ GuardOutcome(l) = "none" -> "verify"
      BY <2>1 DEF DeliverSnapshot, TypeInv, TypeOK
    <3>2. call'[k].pc \in UnsentPcs => GuardOutcome(l) = "none"
      BY <3>1 DEF UnsentPcs
    <3> QED BY <3>2 DEF GuardOutcome
  <2>2. CASE OverwriteSnapshot(k, l)
    <3>1. call'[k].pc \in {"lookup", "done"}
      BY <2>2 DEF OverwriteSnapshot, TypeInv, TypeOK
    <3> QED BY <3>1 DEF UnsentPcs
  <2> QED BY <2>1, <2>2
<1>3. Alone'
  <2> SUFFICES ASSUME NEW i \in Calls, NEW j \in Calls, Live(i)', Live(j)',
                      call'[i].lead = call'[j].lead, call'[j].lead \notin exposed', i # j
               PROVE  FALSE
    BY DEF Alone
  <2>1. CASE i # k /\ j # k
    BY <1>1, <2>1 DEF OnceInv, Alone, Live
  <2>2. CASE i = k \/ j = k
    BY <1>1, <2>2 DEF Overlaps, Live
  <2> QED BY <2>1, <2>2
<1>4. ASSUME NEW h \in Leads, h \notin exposed', Len(remote[h]) # 0
      PROVE  AlreadyDelivered(h)' \/ \E j \in Calls \ {k} : Recording(j, h)'
  <2>1. AlreadyDelivered(h) \/ \E j \in Calls : Recording(j, h)
    BY <1>1, <1>4 DEF OnceInv, Known
  <2>2. AlreadyDelivered(h) => AlreadyDelivered(h)'
    BY <1>1 DEF AlreadyDelivered, RowsOf
  <2>3. \A j \in Calls : Recording(j, h) => j # k /\ Recording(j, h)'
    BY <1>1 DEF Recording
  <2> QED BY <2>1, <2>2, <2>3
<1>5. Unsent'
  <2> SUFFICES ASSUME NEW j \in Calls, call'[j].pc \in UnsentPcs,
                      call'[j].lead \notin exposed'
               PROVE  Len(remote'[call'[j].lead]) = 0
    BY DEF Unsent
  <2>1. CASE j = k
    <3>1. ~ AlreadyDelivered(l)'
      BY <1>1, <1>2, <2>1 DEF AlreadyDelivered, RowsOf
    <3>2. \A i \in Calls \ {k} : ~ Recording(i, l)'
      BY <1>1, <2>1 DEF Overlaps, Recording, Live, Ended
    <3> QED BY <1>1, <1>4, <2>1, <3>1, <3>2
  <2>2. CASE j # k
    BY <1>1, <2>2 DEF OnceInv, Unsent
  <2> QED BY <2>1, <2>2
<1>6. Known'
  BY <1>1, <1>4 DEF Known
<1>7. AtMostOnce'
  BY <1>1 DEF OnceInv, AtMostOnce
<1> QED BY <1>3, <1>5, <1>6, <1>7 DEF OnceInv

\* A step that only ends calls, exposes leads and keeps delivered_at of the
\* others keeps the invariant.
LEMMA OnceQuiet ==
  ASSUME OnceInv,
         \A j \in Calls :
           \/ call'[j] = call[j]
           \/ /\ call'[j].pc \in Ended
              /\ Recording(j, call[j].lead) => call[j].lead \in exposed',
         remote' = remote, exposed \subseteq exposed',
         \A l \in Leads \ exposed' : AlreadyDelivered(l) => AlreadyDelivered(l)'
  PROVE  OnceInv'
<1>1. ASSUME NEW j \in Calls, Live(j)' PROVE call'[j] = call[j] /\ Live(j)
  BY <1>1 DEF Live
<1>2. ASSUME NEW j \in Calls, call'[j].pc \in UnsentPcs PROVE call'[j] = call[j]
  BY <1>2 DEF UnsentPcs, Ended
<1>3. ASSUME NEW j \in Calls, NEW l, Recording(j, l), l \notin exposed'
      PROVE  Recording(j, l)'
  <2>1. call'[j] = call[j]
    BY <1>3 DEF Recording
  <2> QED BY <1>3, <2>1 DEF Recording
<1>4. Alone'
  BY <1>1 DEF OnceInv, Alone
<1>5. Unsent'
  BY <1>2 DEF OnceInv, Unsent
<1>6. Known'
  <2> SUFFICES ASSUME NEW l \in Leads, l \notin exposed', Len(remote'[l]) # 0
               PROVE  AlreadyDelivered(l)' \/ \E j \in Calls : Recording(j, l)'
    BY DEF Known
  <2>1. AlreadyDelivered(l) \/ \E j \in Calls : Recording(j, l)
    BY DEF OnceInv, Known
  <2> QED BY <1>3, <2>1
<1>7. AtMostOnce'
  BY DEF OnceInv, AtMostOnce
<1> QED BY <1>4, <1>5, <1>6, <1>7 DEF OnceInv

LEMMA OnceStep == TypeInv /\ OnceInv /\ [Next]_vars => OnceInv'
<1> SUFFICES ASSUME TypeInv, OnceInv, [Next]_vars PROVE OnceInv'
  OBVIOUS
<1>0. /\ call \in [Calls -> Call] /\ rows \in [RowIds -> Row]
      /\ RowIds = 1 .. MaxRows /\ MaxRows \in Nat /\ nrows \in 0 .. MaxRows
  BY DeliveryAssumption DEF TypeInv, TypeOK, RowIds
<1>1. CASE UNCHANGED vars
  BY <1>1, OnceQuiet DEF vars, AlreadyDelivered, RowsOf
<1>2. ASSUME NEW k \in Calls, Crash(k) PROVE OnceInv'
  <2>1. Moves(k, "crashed")
    BY <1>2, GotoMoves DEF Crash, TypeInv
  <2>2. /\ UNCHANGED <<rows, nrows, remote>> /\ exposed \subseteq exposed'
        /\ call[k].pc \in {"record_sent", "mark_local"} => call[k].lead \in exposed'
    BY <1>2 DEF Crash, Exposing
  <2>3. \A l \in Leads : AlreadyDelivered(l) => AlreadyDelivered(l)'
    BY <2>2 DEF AlreadyDelivered, RowsOf
  <2>4. /\ \A j \in Calls \ {k} : call'[j] = call[j]
        /\ call'[k].pc \in Ended
        /\ Recording(k, call[k].lead) => call[k].lead \in exposed'
    BY <2>1, <2>2 DEF Moves, Ended, Recording
  <2> QED BY <2>2, <2>3, <2>4, OnceQuiet
<1>3. ASSUME NEW l \in Leads, NEW safe \in BOOLEAN, NEW skip \in GeneratedSkips,
             GenerateEmail(l, safe, skip)
      PROVE  OnceInv'
  <2>1. UNCHANGED <<call, remote, exposed>>
    BY <1>3 DEF GenerateEmail
  <2>2. nrows' = nrows + 1 /\ \A r \in 1 .. nrows : rows'[r] = rows[r]
    BY <1>0, <1>3 DEF GenerateEmail, Write
  <2>3. \A h \in Leads : AlreadyDelivered(h) => AlreadyDelivered(h)'
    BY <1>0, <2>2 DEF AlreadyDelivered, RowsOf
  <2> QED BY <2>1, <2>3, OnceQuiet
<1>4. ASSUME NEW l \in Leads, NEW t \in Tiers, Rescore(l, t) PROVE OnceInv'
  BY <1>4, OnceQuiet DEF Rescore, AlreadyDelivered, RowsOf
<1>5. ASSUME NEW r \in RowIds, ClearDeliveryError(r) PROVE OnceInv'
  <2>1. /\ UNCHANGED <<call, remote, nrows>> /\ exposed \subseteq exposed'
        /\ rows[r].delivered => rows[r].lead \in exposed'
    BY <1>5 DEF ClearDeliveryError, Exposing
  <2>2. \A s \in RowIds : s # r => rows'[s] = rows[s]
    BY <1>0, <1>5 DEF ClearDeliveryError, Write
  <2>3. \A l \in Leads \ exposed' : AlreadyDelivered(l) => AlreadyDelivered(l)'
    BY <1>0, <2>1, <2>2 DEF AlreadyDelivered, RowsOf
  <2> QED BY <2>1, <2>3, OnceQuiet
<1>6. CASE ResetFailedDeliveries
  <2>1. UNCHANGED <<call, remote, exposed, nrows>>
    BY <1>6 DEF ResetFailedDeliveries
  <2>2. \A r \in RowIds : /\ rows'[r].lead = rows[r].lead
                          /\ rows'[r].delivered = rows[r].delivered
    BY <1>0, <1>6 DEF ResetFailedDeliveries, Row
  <2>3. \A l \in Leads : AlreadyDelivered(l) => AlreadyDelivered(l)'
    BY <1>0, <2>1, <2>2 DEF AlreadyDelivered, RowsOf
  <2> QED BY <2>1, <2>3, OnceQuiet
<1> QED BY <1>1, <1>2, <1>3, <1>4, <1>5, <1>6, OnceCallStep, OnceSnapshot DEF Next

\* Outside the named windows (overlapping calls, an acceptance whose answer or
\* process was lost, a delivered row cleared by an operator) Instantly never
\* holds two records of a lead, whatever is generated, rescored or retried.
THEOREM AtMostOnceCorrect == Spec => []AtMostOnce
<1>1. Init => OnceInv
  BY DEF Init, OnceInv, Alone, Unsent, UnsentPcs, Known, AtMostOnce, Live
<1>2. Init => TypeInv
  BY InitType
<1>3. TypeInv /\ [Next]_vars => TypeInv'
  BY NextType
<1>4. OnceInv => AtMostOnce
  BY DEF OnceInv
<1> QED BY <1>1, <1>2, <1>3, <1>4, OnceStep, PTL DEF Spec

-----------------------------------------------------------------------------
(* What is in the campaign passed the gates.  A call on its way to a request  *)
(* holds a row that was found safe, and a send in addition a lead whose tier   *)
(* was sendable when it was looked at; neither is undone by what happens       *)
(* while the call waits.                                                       *)

GatedPcs == {"verify", "verifying", "configure", "mark", "post"}
PayloadPcs == GatedPcs \cup {"lookup", "patch", "create"}

Passed(k) ==
  /\ call[k].pc \in PayloadPcs => rows[call[k].row].safe
  /\ call[k].pc \in GatedPcs => call[k].lead \in gated

Vetted(l, copy) ==
  /\ copy.row \in 1 .. nrows
  /\ rows[copy.row].safe
  /\ copy.via = "deliver" => l \in gated

GateInv ==
  /\ \A l \in Leads : ShouldSend(tier[l]) => l \in gated
  /\ \A k \in Calls : Passed(k)
  /\ \A l \in Leads : \A i \in DOMAIN remote[l] : Vetted(l, remote[l][i])

\* No step of a started call rescores a lead, and few touch the campaign.
LEMMA CallStepLeavesAlone ==
  ASSUME NEW k \in Calls, CallStep(k)
  PROVE  /\ UNCHANGED <<tier, gated>>
         /\ \/ Deliver(k) \/ PostRefused(k) \/ OverwriteLookup(k)
            \/ OverwriteReadBack(k) \/ MarkLocalSent(k)
            => UNCHANGED remote
<1>1. /\ RecordSkip(k) => UNCHANGED <<tier, gated, remote>>
      /\ VerifyCached(k) => UNCHANGED <<tier, gated, remote>>
      /\ VerifyRequest(k) => UNCHANGED <<tier, gated, remote>>
      /\ VerifyAnswer(k) => UNCHANGED <<tier, gated, remote>>
      /\ VerifyFailure(k) => UNCHANGED <<tier, gated, remote>>
  BY Zenon DEF RecordSkip, VerifyCached, VerifyRequest, VerifyAnswer, VerifyFailure
<1>2. /\ Configure(k) => UNCHANGED <<tier, gated, remote>>
      /\ MarkInProgress(k) => UNCHANGED <<tier, gated, remote>>
      /\ RecordSent(k) => UNCHANGED <<tier, gated, remote>>
      /\ RecordError(k) => UNCHANGED <<tier, gated, remote>>
  BY Zenon DEF Configure, MarkInProgress, RecordSent, RecordError
<1>3. /\ PostRefused(k) => UNCHANGED <<tier, gated, remote>>
      /\ \A answered \in BOOLEAN : PostAccepted(k, answered) => UNCHANGED <<tier, gated>>
  BY Zenon DEF PostRefused, PostAccepted
<1>4. /\ OverwriteLookup(k) => UNCHANGED <<tier, gated, remote>>
      /\ OverwriteReadBack(k) => UNCHANGED <<tier, gated, remote>>
      /\ MarkLocalSent(k) => UNCHANGED <<tier, gated, remote>>
      /\ \A applied, answered \in BOOLEAN :
           OverwritePatch(k, applied, answered) => UNCHANGED <<tier, gated>>
  BY Zenon DEF OverwriteLookup, OverwriteReadBack, MarkLocalSent, OverwritePatch
<1> QED BY <1>1, <1>2, <1>3, <1>4 DEF CallStep, Deliver, Post, Overwrite

\* The records of a lead after a step: as before, or of the row of the call.
LEMMA CallStepRecords ==
  ASSUME TypeInv, NEW k \in Calls, CallStep(k),
         NEW l \in Leads, NEW i \in DOMAIN remote'[l]
  PROVE  \/ i \in DOMAIN remote[l] /\ remote'[l][i] = remote[l][i]
         \/ /\ l = call[k].lead
            /\ call[k].pc \in {"post", "create", "patch"}
            /\ remote'[l][i].row = call[k].row
            /\ remote'[l][i].via = "deliver" =>
                 \/ call[k].pc = "post"
                 \/ i \in DOMAIN remote[l] /\ remote[l][i].via = "deliver"
<1>0. /\ call[k].lead \in Leads /\ remote \in [Leads -> Seq(Copy)]
      /\ call[k].row \in RowIds
  <2>1. Framed(call[k]) /\ nrows \in 0 .. MaxRows /\ MaxRows \in Nat
    BY CallStepEffect, DeliveryAssumption DEF TypeInv, TypeOK
  <2> QED BY <2>1 DEF Framed, RowIds, TypeInv, TypeOK
<1>1. CASE l # call[k].lead
  BY <1>1, CallStepEffect
<1>2. CASE l = call[k].lead
  <2>1. CASE Deliver(k) \/ PostRefused(k) \/ OverwriteLookup(k) \/ OverwriteReadBack(k)
             \/ MarkLocalSent(k)
    BY <2>1, CallStepLeavesAlone
  <2>2. ASSUME NEW answered \in BOOLEAN, PostAccepted(k, answered)
        PROVE  \/ i \in DOMAIN remote[l] /\ remote'[l][i] = remote[l][i]
               \/ /\ call[k].pc \in {"post", "create"}
                  /\ remote'[l][i].row = call[k].row
                  /\ remote'[l][i].via = "deliver" => call[k].pc = "post"
    <3> DEFINE copy == [row |-> PostedRow(k),
                        via |-> IF call[k].pc = "post" THEN "deliver" ELSE "overwrite"]
    <3>1. copy \in Copy
      BY <1>0 DEF Copy, PostedRow
    <3>2. copy.row = call[k].row /\ (copy.via = "deliver" => call[k].pc = "post")
      BY DEF PostedRow
    <3>3. remote'[l] = Append(remote[l], copy)
      BY <1>0, <1>2, <2>2 DEF PostAccepted
    <3>4. /\ i \in 1 .. Len(remote[l]) + 1
          /\ remote'[l][i] = IF i <= Len(remote[l]) THEN remote[l][i] ELSE copy
      <4> HIDE DEF copy
      <4>1. remote[l] \in Seq(Copy)
        BY <1>0
      <4> QED BY <3>1, <3>3, <4>1
    <3>5. call[k].pc \in {"post", "create"}
      BY <2>2 DEF PostAccepted, PostPcs
    <3>6. CASE i <= Len(remote[l])
      <4>1. remote[l] \in Seq(Copy)
        BY <1>0
      <4> QED BY <3>4, <3>6, <4>1
    <3>7. CASE ~ (i <= Len(remote[l]))
      <4>1. remote'[l][i] = copy
        BY <3>4, <3>7
      <4> HIDE DEF copy
      <4> QED BY <3>2, <3>5, <4>1
    <3> QED BY <3>6, <3>7
  <2>3. ASSUME NEW applied \in BOOLEAN, NEW answered \in BOOLEAN,
               OverwritePatch(k, applied, answered)
        PROVE  \/ i \in DOMAIN remote[l] /\ remote'[l][i] = remote[l][i]
               \/ /\ call[k].pc = "patch"
                  /\ remote'[l][i].row = call[k].row
                  /\ i \in DOMAIN remote[l] /\ remote'[l][i].via = remote[l][i].via
    <3>1. CASE applied
      <4>1. remote'[l] = [remote[l] EXCEPT ![1].row = call[k].row]
        BY <1>0, <1>2, <2>3, <3>1 DEF OverwritePatch
      <4>2. remote[l] \in Seq(Copy) /\ call[k].pc = "patch"
        BY <1>0, <2>3 DEF OverwritePatch
      <4>3. i \in DOMAIN remote[l] /\ remote[l][i] \in Copy
        BY <4>1, <4>2
      <4>4. CASE i = 1
        <5>1. remote'[l][i] = [remote[l][i] EXCEPT !.row = call[k].row]
          BY <4>1, <4>3, <4>4
        <5> QED BY <4>2, <4>3, <5>1 DEF Copy
      <4>5. CASE i # 1
        BY <4>1, <4>3, <4>5
      <4> QED BY <4>4, <4>5
    <3>2. CASE ~ applied
      BY <2>3, <3>2 DEF OverwritePatch
    <3> QED BY <3>1, <3>2
  <2> QED BY <1>2, <2>1, <2>2, <2>3 DEF CallStep, Post, Overwrite
<1> QED BY <1>1, <1>2

\* No step of a started call enters the way to a request.
LEMMA CallStepStaysGated ==
  ASSUME TypeInv, NEW k \in Calls, CallStep(k)
  PROVE  /\ call'[k].pc \in PayloadPcs => call[k].pc \in PayloadPcs
         /\ call'[k].pc \in GatedPcs => call[k].pc \in GatedPcs
<1>1. CASE Deliver(k)
  <2>1. CASE RecordSkip(k) \/ VerifyFailure(k) \/ RecordSent(k) \/ RecordError(k)
    BY <2>1, CallStepMoves DEF TypeInv, Moves, GatedPcs, PayloadPcs
  <2>2. CASE VerifyCached(k) \/ VerifyRequest(k) \/ VerifyAnswer(k)
    <3>1. call[k].pc \in {"verify", "verifying"}
      BY <2>2 DEF VerifyCached, VerifyRequest, VerifyAnswer
    <3> QED BY <3>1 DEF GatedPcs, PayloadPcs
  <2>3. CASE Configure(k) \/ MarkInProgress(k)
    <3>1. call[k].pc \in {"configure", "mark"}
      BY <2>3 DEF Configure, MarkInProgress
    <3> QED BY <3>1 DEF GatedPcs, PayloadPcs
  <2> QED BY <1>1, <2>1, <2>2, <2>3 DEF Deliver
<1>2. CASE Post(k)
  BY <1>2, CallStepMoves DEF Post, PostAccepted, PostRefused, PostPcs, TypeInv, Moves,
     GatedPcs, PayloadPcs
<1>3. CASE Overwrite(k)
  BY <1>3, CallStepMoves DEF Overwrite, OverwriteLookup, OverwritePatch, TypeInv, Moves,
     GatedPcs, PayloadPcs
<1> QED BY <1>1, <1>2, <1>3 DEF CallStep

LEMMA GateStep == TypeInv /\ TypeInv' /\ GateInv /\ [Next]_vars => GateInv'
<1> SUFFICES ASSUME TypeInv, TypeInv', GateInv, [Next]_vars PROVE GateInv'
  OBVIOUS
<1>0. /\ call \in [Calls -> Call] /\ rows \in [RowIds -> Row]
      /\ RowIds = 1 .. MaxRows /\ MaxRows \in Nat /\ nrows \in 0 .. MaxRows
  BY DeliveryAssumption DEF TypeInv, TypeOK, RowIds
<1> USE DEF Vetted, Passed
<1>1. CASE UNCHANGED vars
  BY <1>1 DEF vars, GateInv
<1>2. ASSUME NEW k \in Calls, CallStep(k) PROVE GateInv'
  <2>1. /\ \A j \in Calls \ {k} : call'[j] = call[j]
        /\ call'[k].row = call[k].row /\ call'[k].lead = call[k].lead
        /\ nrows' = nrows
        /\ \A r \in RowIds : rows'[r].safe = rows[r].safe
        /\ Framed(call[k])
    BY <1>2, CallStepEffect
  <2>2. UNCHANGED <<tier, gated>>
    BY <1>2, CallStepLeavesAlone
  <2>3. call[k].row \in RowIds /\ call[k].row \in 1 .. nrows
    BY <1>0, <2>1 DEF Framed
  <2>4. Passed(k)'
    BY <1>2, <2>1, <2>2, <2>3, CallStepStaysGated DEF GateInv
  <2>5. ASSUME NEW j \in Calls \ {k} PROVE Passed(j)'
    <3>1. Passed(j) /\ call'[j] = call[j]
      BY <2>1 DEF GateInv
    <3>2. call[j].pc \in PayloadPcs => call[j].row \in RowIds
      BY <1>0 DEF TypeInv, Started, Framed, Live, Ended, PayloadPcs, GatedPcs
    <3> QED BY <2>1, <2>2, <3>1, <3>2
  <2>6. ASSUME NEW l \in Leads, NEW i \in DOMAIN remote'[l] PROVE Vetted(l, remote[l][i])'
    <3>1. CASE i \in DOMAIN remote[l] /\ remote'[l][i] = remote[l][i]
      BY <1>0, <2>1, <2>2, <3>1 DEF GateInv
    <3>2. CASE /\ l = call[k].lead
               /\ call[k].pc \in {"post", "create", "patch"}
               /\ remote'[l][i].row = call[k].row
               /\ remote'[l][i].via = "deliver" =>
                    \/ call[k].pc = "post"
                    \/ i \in DOMAIN remote[l] /\ remote[l][i].via = "deliver"
      <4>1. Passed(k) /\ \A n \in DOMAIN remote[l] : Vetted(l, remote[l][n])
        BY DEF GateInv
      <4>2. rows'[call[k].row].safe
        BY <2>1, <2>3, <3>2, <4>1 DEF PayloadPcs, GatedPcs
      <4> QED BY <2>1, <2>2, <2>3, <3>2, <4>1, <4>2 DEF GatedPcs
    <3> QED BY <1>2, <2>6, <3>1, <3>2, CallStepRecords
  <2> QED BY <2>2, <2>4, <2>5, <2>6 DEF GateInv
<1>3. ASSUME NEW k \in Calls, NEW l \in Leads,
             DeliverSnapshot(k, l) \/ OverwriteSnapshot(k, l)
      PROVE  GateInv'
  <2>1. UNCHANGED <<rows, nrows, tier, gated, remote>>
    BY <1>3 DEF DeliverSnapshot, OverwriteSnapshot
  <2>2. \A j \in Calls \ {k} : call'[j] = call[j]
    BY <1>0, <1>3 DEF DeliverSnapshot, OverwriteSnapshot
  <2>3. CASE DeliverSnapshot(k, l)
    <3>1. /\ call'[k].row = LatestRow(l) /\ call'[k].lead = l
          /\ call'[k].pc \in {"done", "skip", "verify"}
          /\ call'[k].pc = "verify" => LatestRow(l) # 0 /\ GuardOutcome(l) = "none"
      BY <1>0, <2>3 DEF DeliverSnapshot
    <3>2. LatestRow(l) # 0 /\ GuardOutcome(l) = "none" =>
            ShouldSend(tier[l]) /\ rows[LatestRow(l)].safe
      BY DEF GuardOutcome
    <3>3. Passed(k)'
      BY <2>1, <3>1, <3>2 DEF GateInv, PayloadPcs, GatedPcs
    <3> QED BY <2>1, <2>2, <3>3 DEF GateInv
  <2>4. CASE OverwriteSnapshot(k, l)
    <3>1. /\ call'[k].row = LatestRow(l)
          /\ call'[k].pc \in {"done", "lookup"}
          /\ call'[k].pc = "lookup" => OverwritableRow(LatestRow(l))
      BY <1>0, <2>4 DEF OverwriteSnapshot
    <3>2. Passed(k)'
      BY <2>1, <3>1 DEF OverwritableRow, PayloadPcs, GatedPcs
    <3> QED BY <2>1, <2>2, <3>2 DEF GateInv
  <2> QED BY <1>3, <2>3, <2>4
<1>4. ASSUME NEW k \in Calls, Crash(k) PROVE GateInv'
  BY <1>0, <1>4 DEF Crash, Goto, GateInv, PayloadPcs, GatedPcs
<1>5. ASSUME NEW l \in Leads, NEW safe \in BOOLEAN, NEW skip \in GeneratedSkips,
             GenerateEmail(l, safe, skip)
      PROVE  GateInv'
  <2>1. /\ nrows' = nrows + 1 /\ UNCHANGED <<call, tier, gated, remote>>
        /\ \A r \in 1 .. nrows : rows'[r] = rows[r]
    BY <1>0, <1>5 DEF GenerateEmail, Write
  <2>2. \A k \in Calls : call[k].pc \in PayloadPcs => call[k].row \in 1 .. nrows
    BY DEF TypeInv, Started, Framed, Live, Ended, PayloadPcs, GatedPcs
  <2> QED BY <1>0, <2>1, <2>2 DEF GateInv
<1>6. ASSUME NEW l \in Leads, NEW t \in Tiers, Rescore(l, t) PROVE GateInv'
  <2>1. /\ UNCHANGED <<rows, nrows, call, remote>> /\ gated \subseteq gated'
        /\ \A m \in Leads : tier'[m] = IF m = l THEN t ELSE tier[m]
        /\ ShouldSend(t) => l \in gated'
    BY <1>6 DEF Rescore, ShouldSend, TypeInv, TypeOK
  <2> QED BY <2>1 DEF GateInv, ShouldSend
<1>7. ASSUME NEW r \in RowIds, ClearDeliveryError(r) PROVE GateInv'
  <2>1. /\ UNCHANGED <<nrows, call, tier, gated, remote>>
        /\ \A q \in RowIds : rows'[q].safe = rows[q].safe
    BY <1>0, <1>7 DEF ClearDeliveryError, Write, Row
  <2>2. \A k \in Calls : call[k].pc \in PayloadPcs => call[k].row \in RowIds
    BY <1>0 DEF TypeInv, Started, Framed, Live, Ended, PayloadPcs, GatedPcs
  <2> QED BY <1>0, <2>1, <2>2 DEF GateInv
<1>8. CASE ResetFailedDeliveries
  <2>1. /\ UNCHANGED <<nrows, call, tier, gated, remote>>
        /\ \A q \in RowIds : rows'[q].safe = rows[q].safe
    BY <1>0, <1>8 DEF ResetFailedDeliveries, Row
  <2>2. \A k \in Calls : call[k].pc \in PayloadPcs => call[k].row \in RowIds
    BY <1>0 DEF TypeInv, Started, Framed, Live, Ended, PayloadPcs, GatedPcs
  <2> QED BY <1>0, <2>1, <2>2 DEF GateInv
<1> QED BY <1>1, <1>2, <1>3, <1>4, <1>5, <1>6, <1>7, <1>8 DEF Next

LEMMA GateInvariant == Spec => []GateInv
<1>1. Init => GateInv
  BY DeliveryAssumption DEF Init, GateInv, Passed, PayloadPcs, GatedPcs, ShouldSend
<1> QED BY <1>1, InitType, NextType, GateStep, PTL DEF Spec

\* Whatever is generated, rescored or cleared while a call waits, no
\* placeholder or empty text reaches Instantly.
THEOREM OnlySafeCopiesCorrect == Spec => []OnlySafeCopies
<1>1. GateInv => OnlySafeCopies
  BY DEF GateInv, Vetted, OnlySafeCopies
<1> QED BY <1>1, GateInvariant, PTL

\* A record that deliver_email created belongs to a lead that had passed the
\* tier floor.
THEOREM GatedSendsCorrect == Spec => []GatedSends
<1>1. GateInv => GatedSends
  BY DEF GateInv, Vetted, GatedSends
<1> QED BY <1>1, GateInvariant, PTL

-----------------------------------------------------------------------------
(* Status and mark of a row agree: every transaction that sets one of sent    *)
(* and error sets delivered_at with it, and only a reset or a mark follows.   *)

LEMMA MarkStep == TypeInv /\ StatusAgreesWithMark /\ [Next]_vars => StatusAgreesWithMark'
<1> SUFFICES ASSUME TypeInv, StatusAgreesWithMark, [Next]_vars
             PROVE  StatusAgreesWithMark'
  OBVIOUS
<1>0. /\ rows \in [RowIds -> Row]
      /\ RowIds = 1 .. MaxRows /\ MaxRows \in Nat /\ nrows \in 0 .. MaxRows
  BY DeliveryAssumption DEF TypeInv, TypeOK, RowIds
<1> USE DEF StatusAgreesWithMark
<1>1. CASE UNCHANGED rows
  BY <1>1
<1>2. ASSUME NEW r, NEW new, Write(r, new),
             new.status = "sent" => new.delivered,
             new.status = "error" => ~ new.delivered
      PROVE  StatusAgreesWithMark'
  BY <1>0, <1>2 DEF Write
<1>3. ASSUME NEW k \in Calls, CallStep(k) PROVE StatusAgreesWithMark'
  <2>1. call[k].row \in RowIds /\ rows[call[k].row] \in Row
    BY <1>0, <1>3, CallStepEffect DEF Framed
  <2>2. CASE RecordSkip(k)
    BY <1>2, <2>1, <2>2 DEF RecordSkip, Row
  <2>3. CASE MarkInProgress(k)
    BY <1>2, <2>1, <2>3 DEF MarkInProgress, Row
  <2>4. CASE RecordSent(k)
    BY <1>2, <2>1, <2>4 DEF RecordSent, RecordedRow, Row
  <2>5. CASE RecordError(k)
    BY <1>2, <2>1, <2>5 DEF RecordError, Row
  <2>6. CASE MarkLocalSent(k)
    BY <1>2, <2>1, <2>6 DEF MarkLocalSent, Row
  <2>7. CASE \/ VerifyCached(k) \/ VerifyRequest(k) \/ VerifyAnswer(k) \/ VerifyFailure(k)
             \/ Configure(k) \/ Post(k)
             \/ OverwriteLookup(k) \/ OverwriteReadBack(k)
             \/ \E applied, answered \in BOOLEAN : OverwritePatch(k, applied, answered)
    BY <1>1, <2>7 DEF VerifyCached, VerifyRequest, VerifyAnswer, VerifyFailure, Configure,
       Post, PostAccepted, PostRefused, OverwriteLookup, OverwritePatch, OverwriteReadBack
  <2> QED BY <1>3, <2>2, <2>3, <2>4, <2>5, <2>6, <2>7 DEF CallStep, Deliver, Overwrite
<1>4. ASSUME NEW l \in Leads, NEW safe \in BOOLEAN, NEW skip \in GeneratedSkips,
             GenerateEmail(l, safe, skip)
      PROVE  StatusAgreesWithMark'
  BY <1>2, <1>4 DEF GenerateEmail
<1>5. ASSUME NEW r \in RowIds, ClearDeliveryError(r) PROVE StatusAgreesWithMark'
  BY <1>0, <1>2, <1>5 DEF ClearDeliveryError, Row
<1>6. CASE ResetFailedDeliveries
  BY <1>0, <1>6 DEF ResetFailedDeliveries, Row
<1>7. CASE \/ UNCHANGED vars
           \/ \E k \in Calls : Crash(k)
           \/ \E k \in Calls, l \in Leads : DeliverSnapshot(k, l) \/ OverwriteSnapshot(k, l)
           \/ \E l \in Leads, t \in Tiers : Rescore(l, t)
  BY <1>1, <1>7 DEF vars, Crash, DeliverSnapshot, OverwriteSnapshot, Rescore
<1> QED BY <1>3, <1>4, <1>5, <1>6, <1>7 DEF Next

\* "sent" carries delivered_at and "error" does not, whichever calls end on
\* one row in whichever order.
THEOREM StatusAgreesWithMarkCorrect == Spec => []StatusAgreesWithMark
<1>1. Init => StatusAgreesWithMark
  BY DEF Init, StatusAgreesWithMark
<1> QED BY <1>1, InitType, NextType, MarkStep, PTL DEF Spec

-----------------------------------------------------------------------------
(* delivered_at is not lost: a delivered row has a record in the campaign, and *)
(* a call in its failure branch has none, so the two are not on one lead.      *)

BackedPcs == {"record_sent", "patch", "readback", "mark_local"}

BackedInv ==
  /\ \A k \in Calls : call[k].pc \in BackedPcs => Len(remote[call[k].lead]) # 0
  /\ \A r \in RowIds :
       rows[r].delivered => r \in 1 .. nrows /\ Len(remote[rows[r].lead]) # 0

LEMMA BackedCallStep ==
  ASSUME TypeInv, BackedInv, NEW k \in Calls, CallStep(k)
  PROVE  BackedInv'
<1>1. /\ Framed(call[k])
      /\ \A j \in Calls \ {k} : call'[j] = call[j]
      /\ call'[k].lead = call[k].lead
      /\ nrows' = nrows
      /\ \A r \in RowIds : /\ rows'[r].lead = rows[r].lead
                           /\ r # call[k].row => rows'[r] = rows[r]
      /\ \A l \in Leads : l # call[k].lead => remote'[l] = remote[l]
  BY CallStepEffect
<1>2. /\ call[k].lead \in Leads /\ call[k].row \in RowIds /\ call[k].row \in 1 .. nrows
      /\ rows[call[k].row].lead = call[k].lead
      /\ rows \in [RowIds -> Row] /\ remote \in [Leads -> Seq(Copy)]
      /\ \A j \in Calls : call[j].pc \in BackedPcs => call[j].lead \in Leads
      /\ \A r \in 1 .. nrows : rows[r].lead \in Leads
  <2>1. nrows \in 0 .. MaxRows /\ MaxRows \in Nat
    BY DeliveryAssumption DEF TypeInv, TypeOK
  <2>2. /\ call[k].lead \in Leads /\ call[k].row \in RowIds /\ call[k].row \in 1 .. nrows
        /\ rows[call[k].row].lead = call[k].lead
    BY <1>1, <2>1 DEF Framed, RowIds
  <2>3. \A j \in Calls : call[j].pc \in BackedPcs => call[j].lead \in Leads
    BY DEF TypeInv, Started, Framed, Live, Ended, BackedPcs
  <2> QED BY <2>2, <2>3 DEF TypeInv, TypeOK, Started
<1>3. \A l \in Leads : Len(remote[l]) \in Nat
  BY <1>2
<1>4. \A l \in Leads : Len(remote[l]) # 0 => Len(remote'[l]) # 0
  <2>1. Len(remote[call[k].lead]) # 0 => Len(remote'[call[k].lead]) # 0
    BY <1>2, <1>3, CallStepLength
  <2> QED BY <1>1, <2>1
<1>5. call'[k].pc \in BackedPcs => Len(remote'[call[k].lead]) # 0
  <2>1. CASE Deliver(k)
    <3>1. call'[k].pc \notin BackedPcs
      BY <2>1, CallStepMoves DEF Deliver, TypeInv, Moves, BackedPcs
    <3> QED BY <3>1
  <2>2. ASSUME NEW answered \in BOOLEAN, PostAccepted(k, answered)
        PROVE  Len(remote'[call[k].lead]) # 0
    <3> DEFINE copy == [row |-> PostedRow(k),
                        via |-> IF call[k].pc = "post" THEN "deliver" ELSE "overwrite"]
    <3>1. copy \in Copy
      BY <1>2 DEF Copy, PostedRow
    <3>2. remote' = [remote EXCEPT ![call[k].lead] = Append(@, copy)]
      BY <2>2 DEF PostAccepted
    <3> HIDE DEF copy
    <3>3. Len(remote'[call[k].lead]) = Len(remote[call[k].lead]) + 1
      BY <1>2, <3>1, <3>2, AppendProperties
    <3> QED BY <1>2, <1>3, <3>3
  <2>3. CASE PostRefused(k)
    <3>1. call'[k].pc \notin BackedPcs
      BY <2>3, CallStepMoves DEF PostRefused, PostPcs, TypeInv, Moves, BackedPcs
    <3> QED BY <3>1
  <2>4. CASE OverwriteLookup(k)
    <3>0. \/ Len(remote[call[k].lead]) = 1
          \/ Moves(k, "create") \/ Moves(k, "done")
      BY <2>4, CallStepMoves DEF TypeInv
    <3>1. call'[k].pc \in BackedPcs => Len(remote[call[k].lead]) = 1
      BY <3>0 DEF Moves, BackedPcs
    <3>2. call[k].lead \in Leads
      BY <1>2
    <3> QED BY <1>4, <3>1, <3>2
  <2>5. CASE \/ OverwriteReadBack(k)
             \/ \E applied, answered \in BOOLEAN : OverwritePatch(k, applied, answered)
    <3>1. call[k].pc \in BackedPcs
      BY <2>5 DEF OverwriteReadBack, OverwritePatch, BackedPcs
    <3> QED BY <1>2, <1>4, <3>1 DEF BackedInv
  <2>6. CASE MarkLocalSent(k)
    <3>1. call'[k].pc \notin BackedPcs
      BY <2>6, CallStepMoves DEF TypeInv, Moves, BackedPcs
    <3> QED BY <3>1
  <2> QED BY <2>1, <2>2, <2>3, <2>4, <2>5, <2>6 DEF CallStep, Post, Overwrite
<1>6. \A j \in Calls : call'[j].pc \in BackedPcs => Len(remote'[call'[j].lead]) # 0
  BY <1>1, <1>2, <1>4, <1>5 DEF BackedInv
<1>7. rows'[call[k].row].delivered =>
        rows[call[k].row].delivered \/ call[k].pc \in BackedPcs
  <2>1. rows[call[k].row] \in Row
    BY <1>2
  <2>2. CASE RecordSent(k) \/ MarkLocalSent(k)
    <3>1. call[k].pc \in {"record_sent", "mark_local"}
      BY <2>2, Zenon DEF RecordSent, MarkLocalSent
    <3> QED BY <3>1 DEF BackedPcs
  <2>3. CASE RecordSkip(k)
    BY <1>2, <2>1, <2>3 DEF RecordSkip, Write, Row
  <2>4. CASE MarkInProgress(k)
    BY <1>2, <2>1, <2>4 DEF MarkInProgress, Write, Row
  <2>5. CASE RecordError(k)
    BY <1>2, <2>1, <2>5 DEF RecordError, Write, Row
  <2>6. CASE \/ VerifyCached(k) \/ VerifyRequest(k) \/ VerifyAnswer(k) \/ VerifyFailure(k)
             \/ Configure(k) \/ Post(k)
             \/ OverwriteLookup(k) \/ OverwriteReadBack(k)
             \/ \E applied, answered \in BOOLEAN : OverwritePatch(k, applied, answered)
    <3>1. rows' = rows
      BY <2>6 DEF VerifyCached, VerifyRequest, VerifyAnswer, VerifyFailure, Configure,
         Post, PostAccepted, PostRefused, OverwriteLookup, OverwritePatch, OverwriteReadBack
    <3> QED BY <3>1
  <2> QED BY <2>2, <2>3, <2>4, <2>5, <2>6 DEF CallStep, Deliver, Overwrite
<1>8. ASSUME NEW r \in RowIds, rows'[r].delivered
      PROVE  r \in 1 .. nrows' /\ Len(remote'[rows'[r].lead]) # 0
  <2>1. CASE rows[r].delivered
    BY <1>1, <1>2, <1>4, <2>1 DEF BackedInv
  <2>2. CASE ~ rows[r].delivered
    <3>1. r = call[k].row /\ call[k].pc \in BackedPcs
      BY <1>1, <1>7, <1>8, <2>2
    <3> QED BY <1>1, <1>2, <1>4, <3>1 DEF BackedInv
  <2> QED BY <2>1, <2>2
<1> QED BY <1>6, <1>8 DEF BackedInv

LEMMA BackedStep == TypeInv /\ BackedInv /\ [Next]_vars => BackedInv'
<1> SUFFICES ASSUME TypeInv, BackedInv, [Next]_vars PROVE BackedInv'
  OBVIOUS
<1>0. /\ call \in [Calls -> Call] /\ rows \in [RowIds -> Row]
      /\ RowIds = 1 .. MaxRows /\ MaxRows \in Nat /\ nrows \in 0 .. MaxRows
  BY DeliveryAssumption DEF TypeInv, TypeOK, RowIds
<1> USE DEF BackedInv
<1>1. CASE UNCHANGED vars
  BY <1>1 DEF vars
<1>2. ASSUME NEW k \in Calls, Crash(k) PROVE BackedInv'
  <2>1. Moves(k, "crashed") /\ UNCHANGED <<rows, nrows, remote>>
    BY <1>2, GotoMoves DEF Crash, TypeInv
  <2> QED BY <2>1 DEF Moves, BackedPcs
<1>3. ASSUME NEW k \in Calls, NEW l \in Leads,
             DeliverSnapshot(k, l) \/ OverwriteSnapshot(k, l)
      PROVE  BackedInv'
  <2>1. UNCHANGED <<rows, nrows, remote>>
    BY <1>3 DEF DeliverSnapshot, OverwriteSnapshot
  <2>2. /\ \A j \in Calls \ {k} : call'[j] = call[j]
        /\ call'[k].pc \in {"done", "skip", "verify", "lookup"}
    BY <1>0, <1>3 DEF DeliverSnapshot, OverwriteSnapshot
  <2> QED BY <2>1, <2>2 DEF BackedPcs
<1>4. ASSUME NEW l \in Leads, NEW safe \in BOOLEAN, NEW skip \in GeneratedSkips,
             GenerateEmail(l, safe, skip)
      PROVE  BackedInv'
  <2>1. /\ UNCHANGED <<call, remote>> /\ nrows' = nrows + 1
        /\ ~ rows'[nrows + 1].delivered
        /\ \A r \in RowIds : r # nrows + 1 => rows'[r] = rows[r]
    BY <1>0, <1>4 DEF GenerateEmail, Write
  <2> QED BY <1>0, <2>1
<1>5. ASSUME NEW l \in Leads, NEW t \in Tiers, Rescore(l, t) PROVE BackedInv'
  BY <1>5 DEF Rescore
<1>6. ASSUME NEW r \in RowIds, ClearDeliveryError(r) PROVE BackedInv'
  <2>1. /\ UNCHANGED <<call, remote, nrows>>
        /\ ~ rows'[r].delivered
        /\ \A q \in RowIds : q # r => rows'[q] = rows[q]
    BY <1>0, <1>6 DEF ClearDeliveryError, Write, Row
  <2> QED BY <2>1
<1>7. CASE ResetFailedDeliveries
  <2>1. /\ UNCHANGED <<call, remote, nrows>>
        /\ \A r \in RowIds : /\ rows'[r].lead = rows[r].lead
                             /\ rows'[r].delivered = rows[r].delivered
    BY <1>0, <1>7 DEF ResetFailedDeliveries, Row
  <2> QED BY <2>1
<1> QED BY <1>1, <1>2, <1>3, <1>4, <1>5, <1>6, <1>7, BackedCallStep DEF Next

LEMMA MarkSticksStep ==
  ASSUME TypeInv, OnceInv, BackedInv, [Next]_vars,
         NEW r \in RowIds, rows[r].delivered, ~ rows'[r].delivered
  PROVE  rows[r].lead \in exposed'
<1>0. /\ rows \in [RowIds -> Row] /\ r \in 1 .. nrows
      /\ RowIds = 1 .. MaxRows /\ MaxRows \in Nat /\ nrows \in 0 .. MaxRows
  BY DeliveryAssumption DEF TypeInv, TypeOK, RowIds, BackedInv
<1>1. ASSUME NEW k \in Calls, CallStep(k) PROVE rows[r].lead \in exposed'
  <2>1. call[k].pc = "record_error"
    BY <1>1, CallStepDelivered
  <2>2. r = call[k].row /\ exposed \subseteq exposed'
    BY <1>1, CallStepEffect
  <2>3. rows[r].lead = call[k].lead
    BY <1>1, <2>2, CallStepEffect DEF Framed
  <2>4. Len(remote[call[k].lead]) # 0
    BY <2>3 DEF BackedInv
  <2>5. call[k].lead \in exposed
    BY <2>1, <2>4 DEF OnceInv, Unsent, UnsentPcs
  <2> QED BY <2>2, <2>3, <2>5
<1>2. ASSUME NEW l \in Leads, NEW safe \in BOOLEAN, NEW skip \in GeneratedSkips,
             GenerateEmail(l, safe, skip)
      PROVE  FALSE
  <2>1. rows'[r] = rows[r]
    BY <1>0, <1>2 DEF GenerateEmail, Write
  <2> QED BY <2>1
<1>3. ASSUME NEW q \in RowIds, ClearDeliveryError(q) PROVE rows[r].lead \in exposed'
  <2>1. q # r => rows'[r] = rows[r]
    BY <1>0, <1>3 DEF ClearDeliveryError, Write
  <2>2. q = r
    BY <2>1
  <2> QED BY <1>3, <2>2 DEF ClearDeliveryError, Exposing
<1>4. CASE ResetFailedDeliveries
  <2>1. rows'[r].delivered = rows[r].delivered
    BY <1>0, <1>4 DEF ResetFailedDeliveries, Row
  <2> QED BY <2>1
<1>5. CASE \/ UNCHANGED vars
           \/ \E k \in Calls : Crash(k)
           \/ \E k \in Calls, l \in Leads : DeliverSnapshot(k, l) \/ OverwriteSnapshot(k, l)
           \/ \E l \in Leads, t \in Tiers : Rescore(l, t)
  <2>1. rows' = rows
    BY <1>5 DEF vars, Crash, DeliverSnapshot, OverwriteSnapshot, Rescore
  <2> QED BY <2>1
<1> QED BY <1>1, <1>2, <1>3, <1>4, <1>5 DEF Next

LEMMA OnceInvariant == Spec => []OnceInv
<1>1. Init => OnceInv
  BY DEF Init, OnceInv, Alone, Unsent, UnsentPcs, Known, AtMostOnce, Live
<1> QED BY <1>1, InitType, NextType, OnceStep, PTL DEF Spec

\* delivered_at, once set, goes away only on a lead that went through one of
\* the named windows: the failure branch of a call finds no earlier send.
THEOREM DeliveryMarkSticksCorrect == Spec => DeliveryMarkSticks
<1>1. Init => BackedInv
  BY DEF Init, BackedInv, BackedPcs
<1>2. TypeInv /\ OnceInv /\ BackedInv /\ [Next]_vars =>
        [\A r \in RowIds :
           rows[r].delivered /\ ~ rows'[r].delivered => rows[r].lead \in exposed']_vars
  BY MarkSticksStep
<1> QED BY <1>1, <1>2, InitType, NextType, OnceInvariant, BackedStep, PTL
        DEF Spec, DeliveryMarkSticks

-----------------------------------------------------------------------------
(* A row in_progress is in the hands of a call.                               *)

HoldingPcs == {"post", "record_sent", "record_error", "crashed"}

Holds(k, r) == call[k].row = r /\ call[k].pc \in HoldingPcs

\* A call leaves its POST for one of the two outcomes it then records.
LEMMA PostStaysHeld ==
  ASSUME TypeOK, NEW k \in Calls, Post(k), call[k].pc = "post"
  PROVE  call'[k].pc \in HoldingPcs
<1>1. call \in [Calls -> Call] /\ call[k] \in Call
  BY DEF TypeOK
<1>2. ASSUME NEW transient, FailedAttempt(k, transient)
      PROVE  call'[k].pc \in {"post", "record_error"}
  <2> DEFINE pc == IF transient /\ call[k].tries + 1 < MaxAttempts
                   THEN call[k].pc ELSE AfterFailure(k)
             c == [call[k] EXCEPT !.tries = @ + 1, !.pc = pc]
  <2>1. c.pc = pc
    <3> HIDE DEF pc
    <3> QED BY <1>1 DEF Call
  <2>2. call' = [call EXCEPT ![k] = c]
    BY <1>2 DEF FailedAttempt
  <2>3. call'[k] = c
    <3> HIDE DEF c, pc
    <3> QED BY <1>1, <2>2
  <2>4. pc \in {"post", "record_error"}
    BY DEF AfterFailure
  <2> QED BY <2>1, <2>3, <2>4
<1>3. CASE PostRefused(k)
  BY <1>2, <1>3 DEF PostRefused, HoldingPcs
<1>4. ASSUME NEW answered \in BOOLEAN, PostAccepted(k, answered)
      PROVE  call'[k].pc \in HoldingPcs
  <2>1. CASE answered
    <3>1. Goto(k, "record_sent")
      BY <1>4, <2>1 DEF PostAccepted
    <3> QED BY <3>1, GotoMoves DEF Moves, HoldingPcs
  <2>2. CASE ~ answered
    BY <1>2, <1>4, <2>2 DEF PostAccepted, HoldingPcs
  <2> QED BY <2>1, <2>2
<1> QED BY <1>3, <1>4 DEF Post

\* A step of k that keeps or gives in_progress to its own row keeps a holder.
LEMMA HeldOwnRow ==
  ASSUME TypeInv, NEW k \in Calls, CallStep(k), InProgressHeld,
         rows'[call[k].row].status = "in_progress"
  PROVE  \/ call'[k].pc \in HoldingPcs
         \/ \E j \in Calls \ {k} : Holds(j, call[k].row)
<1>1. call[k].row \in RowIds /\ rows[call[k].row] \in Row /\ rows \in [RowIds -> Row]
  <2>1. Framed(call[k]) /\ nrows \in 0 .. MaxRows /\ MaxRows \in Nat
    BY CallStepEffect, DeliveryAssumption DEF TypeInv, TypeOK
  <2> QED BY <2>1 DEF Framed, RowIds, TypeInv, TypeOK
<1>2. CASE MarkInProgress(k)
  <2>1. call'[k].pc = "post"
    BY <1>2, CallStepMoves DEF TypeInv, Moves
  <2> QED BY <2>1 DEF HoldingPcs
<1>3. CASE RecordSent(k) \/ RecordError(k) \/ MarkLocalSent(k)
  <2>1. CASE RecordSent(k)
    BY <1>1, <2>1 DEF RecordSent, RecordedRow, Write, Row
  <2>2. CASE RecordError(k)
    BY <1>1, <2>2 DEF RecordError, Write, Row
  <2>3. CASE MarkLocalSent(k)
    BY <1>1, <2>3 DEF MarkLocalSent, Write, Row
  <2> QED BY <1>3, <2>1, <2>2, <2>3
<1>4. CASE RecordSkip(k)
  <2>1. /\ rows'[call[k].row].status = rows[call[k].row].status
        /\ call[k].pc = "skip"
    BY <1>1, <1>4 DEF RecordSkip, Write, Row
  <2>2. PICK j \in Calls : Holds(j, call[k].row)
    BY <1>1, <2>1 DEF InProgressHeld, Holds, HoldingPcs
  <2>3. j # k
    BY <2>1, <2>2 DEF Holds, HoldingPcs
  <2> QED BY <2>2, <2>3
<1>5. CASE Post(k)
  <2>1. rows' = rows
    BY <1>5 DEF Post, PostAccepted, PostRefused
  <2>2. PICK j \in Calls : Holds(j, call[k].row)
    BY <1>1, <2>1 DEF InProgressHeld, Holds, HoldingPcs
  <2>3. CASE j = k
    <3>1. call[k].pc = "post"
      BY <1>5, <2>2, <2>3 DEF Post, PostAccepted, PostRefused, PostPcs, Holds, HoldingPcs
    <3> QED BY <1>5, <3>1, PostStaysHeld DEF TypeInv
  <2> QED BY <2>2, <2>3
<1>6. CASE \/ VerifyCached(k) \/ VerifyRequest(k) \/ VerifyAnswer(k) \/ VerifyFailure(k)
           \/ Configure(k) \/ OverwriteLookup(k) \/ OverwriteReadBack(k)
           \/ \E applied, answered \in BOOLEAN : OverwritePatch(k, applied, answered)
  <2>1. /\ rows' = rows
        /\ call[k].pc \notin HoldingPcs
    BY <1>6 DEF VerifyCached, VerifyRequest, VerifyAnswer, VerifyFailure, Configure,
       OverwriteLookup, OverwritePatch, OverwriteReadBack, HoldingPcs
  <2>2. PICK j \in Calls : Holds(j, call[k].row)
    BY <1>1, <2>1 DEF InProgressHeld, Holds, HoldingPcs
  <2>3. j # k
    BY <2>1, <2>2 DEF Holds
  <2> QED BY <2>2, <2>3
<1> QED BY <1>2, <1>3, <1>4, <1>5, <1>6 DEF CallStep, Deliver, Overwrite

LEMMA HeldStep == TypeInv /\ InProgressHeld /\ [Next]_vars => InProgressHeld'
<1> SUFFICES ASSUME TypeInv, InProgressHeld, [Next]_vars,
                    NEW r \in RowIds, rows'[r].status = "in_progress"
             PROVE  \E k \in Calls : Holds(k, r)'
  BY DEF InProgressHeld, Holds, HoldingPcs
<1>0. /\ call \in [Calls -> Call] /\ rows \in [RowIds -> Row]
      /\ RowIds = 1 .. MaxRows /\ MaxRows \in Nat /\ nrows \in 0 .. MaxRows
  BY DeliveryAssumption DEF TypeInv, TypeOK, RowIds
<1>1. rows[r].status = "in_progress" => \E j \in Calls : Holds(j, r)
  BY DEF InProgressHeld, Holds, HoldingPcs
<1>2. ASSUME NEW k \in Calls, CallStep(k) PROVE \E j \in Calls : Holds(j, r)'
  <2>1. /\ call'[k].row = call[k].row
        /\ \A j \in Calls \ {k} : call'[j] = call[j]
        /\ r # call[k].row => rows'[r] = rows[r]
    BY <1>2, CallStepEffect
  <2>2. CASE r = call[k].row
    <3>1. \/ call'[k].pc \in HoldingPcs
          \/ \E j \in Calls \ {k} : Holds(j, r)
      BY <1>2, <2>2, HeldOwnRow
    <3> QED BY <2>1, <2>2, <3>1 DEF Holds
  <2>3. CASE r # call[k].row
    <3>1. PICK j \in Calls : Holds(j, r)
      BY <1>1, <2>1, <2>3
    <3>2. j # k
      BY <2>3, <3>1 DEF Holds
    <3> QED BY <2>1, <3>1, <3>2 DEF Holds
  <2> QED BY <2>2, <2>3
<1>3. ASSUME NEW k \in Calls, Crash(k) PROVE \E j \in Calls : Holds(j, r)'
  <2>1. Moves(k, "crashed") /\ rows' = rows
    BY <1>3, GotoMoves DEF Crash, TypeInv
  <2>2. PICK j \in Calls : Holds(j, r)
    BY <1>1, <2>1
  <2> QED BY <2>1, <2>2 DEF Moves, Holds, HoldingPcs
<1>4. ASSUME NEW k \in Calls, NEW l \in Leads,
             DeliverSnapshot(k, l) \/ OverwriteSnapshot(k, l)
      PROVE  \E j \in Calls : Holds(j, r)'
  <2>1. /\ rows' = rows /\ call[k].pc = "idle"
        /\ \A j \in Calls \ {k} : call'[j] = call[j]
    BY <1>0, <1>4 DEF DeliverSnapshot, OverwriteSnapshot
  <2>2. PICK j \in Calls : Holds(j, r)
    BY <1>1, <2>1
  <2>3. j # k
    BY <2>1, <2>2 DEF Holds, HoldingPcs
  <2> QED BY <2>1, <2>2, <2>3 DEF Holds
<1>5. ASSUME call' = call, rows'[r].status = rows[r].status
      PROVE  \E j \in Calls : Holds(j, r)'
  BY <1>1, <1>5 DEF Holds
<1>6. ASSUME NEW l \in Leads, NEW safe \in BOOLEAN, NEW skip \in GeneratedSkips,
             GenerateEmail(l, safe, skip)
      PROVE  \E j \in Calls : Holds(j, r)'
  <2>1. call' = call /\ rows'[r].status = rows[r].status
    BY <1>0, <1>6 DEF GenerateEmail, Write
  <2> QED BY <1>5, <2>1
<1>7. ASSUME NEW q \in RowIds, ClearDeliveryError(q) PROVE \E j \in Calls : Holds(j, r)'
  <2>1. call' = call /\ rows'[r].status = rows[r].status
    BY <1>0, <1>7 DEF ClearDeliveryError, Write, Row
  <2> QED BY <1>5, <2>1
<1>8. CASE ResetFailedDeliveries
  <2>1. call' = call /\ rows'[r].status = rows[r].status
    BY <1>0, <1>8 DEF ResetFailedDeliveries, Row
  <2> QED BY <1>5, <2>1
<1>9. CASE UNCHANGED vars \/ \E l \in Leads, t \in Tiers : Rescore(l, t)
  <2>1. call' = call /\ rows' = rows
    BY <1>9 DEF vars, Rescore
  <2> QED BY <1>5, <2>1
<1> QED BY <1>2, <1>3, <1>4, <1>6, <1>7, <1>8, <1>9 DEF Next

LEMMA HeldInvariant == Spec => []InProgressHeld
<1>1. Init => InProgressHeld
  BY DEF Init, InProgressHeld
<1> QED BY <1>1, InitType, NextType, HeldStep, PTL DEF Spec

-----------------------------------------------------------------------------
(* A row refused as a duplicate has a delivered row beside it, outside the    *)
(* windows: what the snapshot saw is still so when the refusal is written.    *)

Justified(l) == AlreadyDelivered(l) \/ l \in exposed

Refusing(k) == call[k].pc = "skip" /\ call[k].reason = "already_delivered"

SkipInv ==
  /\ \A k \in Calls : Refusing(k) => Justified(call[k].lead)
  /\ SkipJustified

\* Only a lead that goes through a window loses its justification.
LEMMA JustifiedStays ==
  ASSUME TypeInv, OnceInv, BackedInv, [Next]_vars, NEW l \in Leads, Justified(l),
         exposed \subseteq exposed', nrows \in Nat, nrows' \in Nat, nrows <= nrows',
         \A r \in 1 .. nrows : rows'[r].lead = rows[r].lead,
         1 .. nrows \subseteq RowIds
  PROVE  Justified(l)'
<1>1. CASE l \in exposed
  BY <1>1 DEF Justified
<1>2. CASE AlreadyDelivered(l)
  <2>1. PICK r \in 1 .. nrows : rows[r].lead = l /\ rows[r].delivered
    BY <1>2 DEF AlreadyDelivered, RowsOf
  <2>2. r \in RowIds /\ r \in 1 .. nrows' /\ rows'[r].lead = l
    BY <2>1
  <2>3. CASE rows'[r].delivered
    BY <2>2, <2>3 DEF Justified, AlreadyDelivered, RowsOf
  <2>4. CASE ~ rows'[r].delivered
    <3>1. rows[r].lead \in exposed'
      BY <2>1, <2>2, <2>4, MarkSticksStep
    <3> QED BY <2>1, <3>1 DEF Justified
  <2> QED BY <2>3, <2>4
<1> QED BY <1>1, <1>2 DEF Justified

\* A started call begins to skip only for reasons found after the snapshot.
LEMMA CallStepSkips ==
  ASSUME TypeInv, NEW k \in Calls, CallStep(k)
  PROVE  /\ ~ Refusing(k)'
         /\ \A r \in RowIds : \/ rows'[r].skip = rows[r].skip
                             \/ /\ r = call[k].row
                                /\ call[k].pc = "skip"
                                /\ rows'[r].skip = call[k].reason
<1>1. /\ call \in [Calls -> Call] /\ call[k] \in Call
      /\ call[k].row \in RowIds /\ rows[call[k].row] \in Row /\ rows \in [RowIds -> Row]
  <2>1. Framed(call[k]) /\ nrows \in 0 .. MaxRows /\ MaxRows \in Nat
    BY CallStepEffect, DeliveryAssumption DEF TypeInv, TypeOK
  <2> QED BY <2>1 DEF Framed, RowIds, TypeInv, TypeOK
<1>2. ASSUME NEW reason, Skip(k, reason), reason # "already_delivered"
      PROVE  ~ Refusing(k)'
  <2> DEFINE c == [call[k] EXCEPT !.pc = "skip", !.reason = reason]
  <2>1. c.reason = reason
    BY <1>1 DEF Call
  <2>2. call' = [call EXCEPT ![k] = c]
    BY <1>2 DEF Skip
  <2> HIDE DEF c
  <2>3. call'[k] = c
    BY <1>1, <2>2
  <2> QED BY <1>2, <2>1, <2>3 DEF Refusing
<1>3. ASSUME NEW pc, Moves(k, pc), pc # "skip" PROVE ~ Refusing(k)'
  BY <1>3 DEF Moves, Refusing
<1>4. CASE VerifyCached(k) \/ VerifyAnswer(k)
  <2>1. Goto(k, "configure") \/ Skip(k, "email_invalid")
    BY <1>4 DEF VerifyCached, VerifyAnswer, AfterVerification
  <2>2. Goto(k, "configure") => Moves(k, "configure")
    BY GotoMoves DEF TypeInv
  <2>3. rows' = rows
    BY <1>4 DEF VerifyCached, VerifyAnswer
  <2> QED BY <1>2, <1>3, <2>1, <2>2, <2>3
<1>5. CASE Configure(k)
  <2>1. \/ Skip(k, "missing_instantly_api_key") \/ Skip(k, "workspace_not_configured")
        \/ Goto(k, "mark") \/ Goto(k, "done")
    BY <1>5 DEF Configure, TypeInv, TypeOK
  <2>2. /\ Goto(k, "mark") => Moves(k, "mark")
        /\ Goto(k, "done") => Moves(k, "done")
    BY GotoMoves DEF TypeInv
  <2>3. rows' = rows
    BY <1>5 DEF Configure
  <2> QED BY <1>2, <1>3, <2>1, <2>2, <2>3
<1>6. CASE RecordSkip(k)
  <2>1. Moves(k, "done") /\ call[k].pc = "skip"
    BY <1>6, CallStepMoves DEF TypeInv, RecordSkip
  <2>2. rows' = [rows EXCEPT ![call[k].row] =
                   [rows[call[k].row] EXCEPT !.skip = call[k].reason]]
    BY <1>6 DEF RecordSkip, Write
  <2> DEFINE new == [rows[call[k].row] EXCEPT !.skip = call[k].reason]
  <2>3. new.skip = call[k].reason
    BY <1>1 DEF Row
  <2>4. rows' = [rows EXCEPT ![call[k].row] = new]
    BY <2>2
  <2> HIDE DEF new
  <2>5. \A r \in RowIds : rows'[r] = IF r = call[k].row THEN new ELSE rows[r]
    BY <1>1, <2>4
  <2> QED BY <1>3, <2>1, <2>3, <2>5
<1>7. ASSUME NEW new, Write(call[k].row, new), new.skip = rows[call[k].row].skip,
             NEW r \in RowIds
      PROVE  rows'[r].skip = rows[r].skip
  BY <1>1, <1>7 DEF Write
<1>8. CASE MarkInProgress(k)
  <2>1. Moves(k, "post")
    BY <1>8, CallStepMoves DEF TypeInv
  <2>2. \A r \in RowIds : rows'[r].skip = rows[r].skip
    BY <1>1, <1>7, <1>8 DEF MarkInProgress, Row
  <2> QED BY <1>3, <2>1, <2>2
<1>9. CASE RecordSent(k)
  <2>1. Moves(k, "done")
    BY <1>9, CallStepMoves DEF TypeInv
  <2>2. \A r \in RowIds : rows'[r].skip = rows[r].skip
    BY <1>1, <1>7, <1>9 DEF RecordSent, RecordedRow, Row
  <2> QED BY <1>3, <2>1, <2>2
<1>10. CASE RecordError(k)
  <2>1. Moves(k, "failed")
    BY <1>10, CallStepMoves DEF TypeInv
  <2>2. \A r \in RowIds : rows'[r].skip = rows[r].skip
    BY <1>1, <1>7, <1>10 DEF RecordError, Row
  <2> QED BY <1>3, <2>1, <2>2
<1>11. CASE MarkLocalSent(k)
  <2>1. Moves(k, "done")
    BY <1>11, CallStepMoves DEF TypeInv
  <2>2. \A r \in RowIds : rows'[r].skip = rows[r].skip
    BY <1>1, <1>7, <1>11 DEF MarkLocalSent, Row
  <2> QED BY <1>3, <2>1, <2>2
<1>12. CASE \/ VerifyRequest(k) \/ VerifyFailure(k) \/ Post(k)
            \/ OverwriteLookup(k) \/ OverwriteReadBack(k)
            \/ \E applied, answered \in BOOLEAN : OverwritePatch(k, applied, answered)
  <2>1. rows' = rows
    BY <1>12 DEF VerifyRequest, VerifyFailure, Post, PostAccepted, PostRefused,
       OverwriteLookup, OverwritePatch, OverwriteReadBack
  <2>2. \E pc : Moves(k, pc) /\ pc # "skip"
    <3>1. \/ VerifyRequest(k) \/ VerifyFailure(k) \/ OverwriteLookup(k)
          \/ OverwriteReadBack(k)
          \/ \E applied, answered \in BOOLEAN : OverwritePatch(k, applied, answered)
          => \E pc : Moves(k, pc) /\ pc # "skip"
      BY CallStepMoves DEF TypeInv
    <3>2. ASSUME Post(k) PROVE \E pc : Moves(k, pc) /\ pc # "skip"
      <4>1. call[k].pc \in PostPcs
        BY <3>2 DEF Post, PostAccepted, PostRefused
      <4> QED BY <3>2, <4>1, CallStepMoves DEF TypeInv, Post, PostPcs
    <3> QED BY <1>12, <3>1, <3>2
  <2> QED BY <1>3, <2>1, <2>2
<1> QED BY <1>4, <1>5, <1>6, <1>8, <1>9, <1>10, <1>11, <1>12
        DEF CallStep, Deliver, Overwrite

LEMMA SkipStep == TypeInv /\ OnceInv /\ BackedInv /\ SkipInv /\ [Next]_vars => SkipInv'
<1> SUFFICES ASSUME TypeInv, OnceInv, BackedInv, SkipInv, [Next]_vars PROVE SkipInv'
  OBVIOUS
<1>0. /\ call \in [Calls -> Call] /\ rows \in [RowIds -> Row]
      /\ RowIds = 1 .. MaxRows /\ MaxRows \in Nat /\ nrows \in 0 .. MaxRows
      /\ nrows \in Nat /\ 1 .. nrows \subseteq RowIds
  BY DeliveryAssumption DEF TypeInv, TypeOK, RowIds
<1>1. ASSUME NEW r \in 1 .. nrows, rows[r].skip = "already_delivered"
      PROVE  rows[r].lead \in Leads /\ Justified(rows[r].lead)
  BY <1>1 DEF SkipInv, SkipJustified, Justified, TypeInv, Started
<1>2. ASSUME NEW k \in Calls, Refusing(k)
      PROVE  /\ Justified(call[k].lead) /\ call[k].lead \in Leads
             /\ call[k].row \in 1 .. nrows /\ rows[call[k].row].lead = call[k].lead
  BY <1>2 DEF SkipInv, Refusing, TypeInv, Started, Framed, Live, Ended
<1>3. ASSUME exposed \subseteq exposed', nrows' \in Nat, nrows <= nrows',
             \A r \in 1 .. nrows : rows'[r].lead = rows[r].lead,
             NEW l \in Leads, Justified(l)
      PROVE  Justified(l)'
  BY <1>0, <1>3, JustifiedStays
\* A step that leaves rows' reasons and the refusing calls as they were.
<1>4. ASSUME exposed \subseteq exposed', nrows' = nrows,
             \A r \in 1 .. nrows : /\ rows'[r].lead = rows[r].lead
                                  /\ rows'[r].skip = rows[r].skip,
             \A k \in Calls : Refusing(k)' => Refusing(k) /\ call'[k].lead = call[k].lead
      PROVE  SkipInv'
  <2>1. \A k \in Calls : Refusing(k)' => Justified(call[k].lead)'
    BY <1>0, <1>2, <1>3, <1>4
  <2>2. ASSUME NEW r \in 1 .. nrows, rows'[r].skip = "already_delivered"
        PROVE  Justified(rows[r].lead)'
    BY <1>0, <1>1, <1>3, <1>4, <2>2
  <2> QED BY <1>4, <2>1, <2>2 DEF SkipInv, SkipJustified, Justified
<1>5. ASSUME NEW k \in Calls, CallStep(k) PROVE SkipInv'
  <2>1. /\ Framed(call[k]) /\ exposed \subseteq exposed' /\ nrows' = nrows
        /\ \A j \in Calls \ {k} : call'[j] = call[j]
        /\ \A r \in RowIds : rows'[r].lead = rows[r].lead
    BY <1>5, CallStepEffect
  <2>2. /\ ~ Refusing(k)'
        /\ \A r \in RowIds : \/ rows'[r].skip = rows[r].skip
                            \/ /\ r = call[k].row
                               /\ call[k].pc = "skip"
                               /\ rows'[r].skip = call[k].reason
    BY <1>5, CallStepSkips
  <2>3. ASSUME NEW l \in Leads, Justified(l) PROVE Justified(l)'
    BY <1>0, <1>3, <2>1, <2>3
  <2>4. ASSUME NEW j \in Calls, Refusing(j)' PROVE Justified(call[j].lead)'
    <3>1. j # k /\ call'[j] = call[j]
      BY <2>1, <2>2, <2>4
    <3>2. Refusing(j)
      BY <2>4, <3>1 DEF Refusing
    <3> QED BY <1>2, <2>3, <3>1, <3>2
  <2>5. ASSUME NEW r \in 1 .. nrows, rows'[r].skip = "already_delivered"
        PROVE  Justified(rows[r].lead)'
    <3>1. CASE rows'[r].skip = rows[r].skip
      <4>1. rows[r].lead \in Leads /\ Justified(rows[r].lead)
        BY <1>1, <2>5, <3>1
      <4>2. rows'[r].lead = rows[r].lead
        BY <1>0, <2>1
      <4> QED BY <2>3, <4>1, <4>2
    <3>2. CASE r = call[k].row /\ call[k].pc = "skip" /\ rows'[r].skip = call[k].reason
      <4>1. Refusing(k)
        BY <2>5, <3>2 DEF Refusing
      <4>2. rows'[r].lead = call[k].lead
        BY <1>0, <1>2, <2>1, <3>2, <4>1
      <4> QED BY <1>2, <2>3, <4>1, <4>2
    <3> QED BY <1>0, <2>2, <3>1, <3>2
  <2> QED BY <2>1, <2>4, <2>5 DEF SkipInv, SkipJustified, Justified
<1>6. ASSUME NEW k \in Calls, Crash(k) PROVE SkipInv'
  <2>1. Moves(k, "crashed") /\ UNCHANGED <<rows, nrows>> /\ exposed \subseteq exposed'
    BY <1>6, GotoMoves DEF Crash, Exposing, TypeInv
  <2>2. \A j \in Calls : Refusing(j)' => Refusing(j) /\ call'[j].lead = call[j].lead
    BY <2>1 DEF Moves, Refusing
  <2> QED BY <1>4, <2>1, <2>2
<1>7. ASSUME NEW k \in Calls, NEW l \in Leads, OverwriteSnapshot(k, l) PROVE SkipInv'
  <2>1. UNCHANGED <<rows, nrows>> /\ exposed \subseteq exposed'
    BY <1>7 DEF OverwriteSnapshot, Exposing
  <2>2. /\ \A j \in Calls \ {k} : call'[j] = call[j]
        /\ call'[k].pc # "skip"
    BY <1>0, <1>7 DEF OverwriteSnapshot
  <2>3. \A j \in Calls : Refusing(j)' => Refusing(j) /\ call'[j].lead = call[j].lead
    BY <2>2 DEF Refusing
  <2> QED BY <1>4, <2>1, <2>3
<1>8. ASSUME NEW k \in Calls, NEW l \in Leads, DeliverSnapshot(k, l) PROVE SkipInv'
  <2>1. UNCHANGED <<rows, nrows>> /\ exposed \subseteq exposed'
    BY <1>8 DEF DeliverSnapshot, Exposing
  <2>2. /\ \A j \in Calls \ {k} : call'[j] = call[j]
        /\ call'[k].lead = l /\ call'[k].reason = GuardOutcome(l)
    BY <1>0, <1>8 DEF DeliverSnapshot
  <2>3. GuardOutcome(l) = "already_delivered" => AlreadyDelivered(l)
    BY DEF GuardOutcome
  <2>4. ASSUME NEW m \in Leads, Justified(m) PROVE Justified(m)'
    BY <1>0, <1>3, <2>1, <2>4
  <2>5. ASSUME NEW j \in Calls, Refusing(j)' PROVE Justified(call[j].lead)'
    <3>1. CASE j = k
      BY <2>2, <2>3, <2>4, <2>5, <3>1 DEF Refusing, Justified
    <3>2. CASE j # k
      <4>1. Refusing(j) /\ call'[j] = call[j]
        BY <2>2, <2>5, <3>2 DEF Refusing
      <4> QED BY <1>2, <2>4, <4>1
    <3> QED BY <3>1, <3>2
  <2>6. ASSUME NEW r \in 1 .. nrows, rows[r].skip = "already_delivered"
        PROVE  Justified(rows[r].lead)'
    BY <1>1, <2>1, <2>4, <2>6
  <2> QED BY <2>1, <2>5, <2>6 DEF SkipInv, SkipJustified, Justified
<1>9. ASSUME NEW l \in Leads, NEW safe \in BOOLEAN, NEW skip \in GeneratedSkips,
             GenerateEmail(l, safe, skip)
      PROVE  SkipInv'
  <2>1. /\ UNCHANGED <<call, exposed>> /\ nrows' = nrows + 1
        /\ rows'[nrows + 1].skip # "already_delivered"
        /\ \A r \in 1 .. nrows : rows'[r] = rows[r]
    BY <1>0, <1>9 DEF GenerateEmail, Write, GeneratedSkips
  <2>2. ASSUME NEW m \in Leads, Justified(m) PROVE Justified(m)'
    BY <1>0, <1>3, <2>1, <2>2
  <2>3. ASSUME NEW j \in Calls, Refusing(j)' PROVE Justified(call[j].lead)'
    <3>1. Refusing(j) /\ call'[j] = call[j]
      BY <2>1, <2>3 DEF Refusing
    <3> QED BY <1>2, <2>2, <3>1
  <2>4. ASSUME NEW r \in 1 .. nrows', rows'[r].skip = "already_delivered"
        PROVE  Justified(rows[r].lead)'
    <3>1. r \in 1 .. nrows /\ rows'[r] = rows[r]
      BY <1>0, <2>1, <2>4
    <3> QED BY <1>1, <2>2, <2>4, <3>1
  <2> QED BY <2>3, <2>4 DEF SkipInv, SkipJustified, Justified
<1>10. ASSUME NEW r \in RowIds, ClearDeliveryError(r) PROVE SkipInv'
  <2>1. /\ UNCHANGED <<call, nrows>> /\ exposed \subseteq exposed'
        /\ \A q \in RowIds : /\ rows'[q].lead = rows[q].lead
                            /\ rows'[q].skip = rows[q].skip
    BY <1>0, <1>10 DEF ClearDeliveryError, Write, Row, Exposing
  <2> QED BY <1>0, <1>4, <2>1 DEF Refusing
<1>11. CASE ResetFailedDeliveries
  <2>1. /\ UNCHANGED <<call, nrows, exposed>>
        /\ \A q \in RowIds : /\ rows'[q].lead = rows[q].lead
                            /\ rows'[q].skip = rows[q].skip
    BY <1>0, <1>11 DEF ResetFailedDeliveries, Row
  <2> QED BY <1>0, <1>4, <2>1 DEF Refusing
<1>12. CASE UNCHANGED vars \/ \E l \in Leads, t \in Tiers : Rescore(l, t)
  <2>1. UNCHANGED <<call, rows, nrows, exposed>>
    BY <1>12 DEF vars, Rescore
  <2> QED BY <1>4, <2>1 DEF Refusing
<1> QED BY <1>5, <1>6, <1>7, <1>8, <1>9, <1>10, <1>11, <1>12 DEF Next

LEMMA SkipInvariant == Spec => []SkipInv
<1>1. Init => BackedInv /\ SkipInv
  BY DEF Init, BackedInv, BackedPcs, SkipInv, SkipJustified, Refusing
<1> QED BY <1>1, InitType, NextType, OnceInvariant, BackedStep, SkipStep, PTL DEF Spec

-----------------------------------------------------------------------------
\* What a row says of its delivery is true: a sent row was accepted, status
\* and mark agree, a row in_progress is in the hands of a call, and a refused
\* duplicate has a delivered row beside it.
THEOREM RowsTellCorrect == Spec => []RowsTell
<1>1. SentWasAccepted /\ StatusAgreesWithMark /\ InProgressHeld /\ SkipInv => RowsTell
  BY DEF RowsTell, SkipInv
<1> QED BY <1>1, SentWasAcceptedCorrect, StatusAgreesWithMarkCorrect, HeldInvariant,
           SkipInvariant, PTL

\* Whatever is at Instantly passed its gate, on the path that created it.
THEOREM CopiesGuardedCorrect == Spec => []CopiesGuarded
<1>1. OnlySafeCopies /\ GatedSends => CopiesGuarded
  BY DEF CopiesGuarded
<1> QED BY <1>1, OnlySafeCopiesCorrect, GatedSendsCorrect, PTL
-----------------------------------------------------------------------------
(* Delivery implements OneRecord.  Every step of a call is a Send, a Replace, *)
(* a Note, a Forget or none of them; the rest of the program only disturbs.   *)

\* The mapped variables of OneRecord.
Recorded == [l \in Leads |-> Len(remote[l])]
TakenOf(l) == {r \in accepted : rows[r].lead = l}
NotedOf(l) == {r \in RowIds : rows[r].lead = l /\ rows[r].delivered}
TakenFor == [l \in Leads |-> TakenOf(l)]
NotedFor == [l \in Leads |-> NotedOf(l)]

\* Copies the campaign took are written rows: a row that is generated later is
\* not among those taken.
Written == accepted \subseteq 1 .. nrows

RecordInv == TypeInv /\ SentInv /\ OnceInv /\ BackedInv /\ Written

LEMMA RecordStutters ==
  ASSUME Recorded' = Recorded, TakenFor' = TakenFor, NotedFor' = NotedFor, exposed' = exposed
  PROVE  UNCHANGED Record!vars
BY DEF Record!vars, Recorded, TakenFor, NotedFor, TakenOf, NotedOf

LEMMA RecordMoves ==
  ASSUME NEW l \in Leads, NEW c \in RowIds,
         \/ Record!Send(l, c) \/ Record!Replace(l, c)
         \/ Record!Note(l, c) \/ Record!Forget(l, c)
  PROVE  [Record!Next]_Record!vars
BY DEF Record!Next

LEMMA RecordDisturbs ==
  ASSUME NEW l \in Leads, Recorded' = Recorded, TakenFor' = TakenFor, NotedFor' = NotedFor,
         exposed' \in {exposed, exposed \cup {l}}
  PROVE  [Record!Next]_Record!vars
<1>1. CASE exposed' = exposed
  BY <1>1, RecordStutters
<1>2. CASE exposed' = exposed \cup {l}
  <2>1. Record!Disturb(l)
    BY <1>2 DEF Record!Disturb, Recorded, TakenFor, NotedFor, TakenOf, NotedOf
  <2> QED BY <2>1 DEF Record!Next
<1> QED BY <1>1, <1>2

\* What Instantly took, and what is noted, changes only with accepted and with
\* delivered_at of the rows.
LEMMA TablesKept ==
  ASSUME accepted' = accepted, accepted \subseteq RowIds,
         \A r \in RowIds : /\ rows'[r].lead = rows[r].lead
                           /\ rows'[r].delivered = rows[r].delivered
  PROVE  TakenFor' = TakenFor /\ NotedFor' = NotedFor
<1>1. \A l \in Leads : TakenOf(l)' = TakenOf(l)
  BY DEF TakenOf
<1>2. \A l \in Leads : NotedOf(l)' = NotedOf(l)
  BY DEF NotedOf, RowIds
<1> QED BY <1>1, <1>2 DEF TakenFor, NotedFor

LEMMA RecordInit == ASSUME Init PROVE Record!Init
<1>1. /\ remote = [l \in Leads |-> <<>>] /\ accepted = {} /\ exposed = {}
      /\ \A r \in RowIds : ~ rows[r].delivered
  BY DEF Init
<1>2. Recorded = [l \in Leads |-> 0]
  BY <1>1 DEF Recorded
<1>3. TakenFor = [l \in Leads |-> {}]
  BY <1>1 DEF TakenFor, TakenOf
<1>4. NotedFor = [l \in Leads |-> {}]
  BY <1>1 DEF NotedFor, NotedOf
<1> QED BY <1>1, <1>2, <1>3, <1>4 DEF Record!Init, Recorded, TakenFor, NotedFor, TakenOf, NotedOf

\* Only an accepted request adds a copy to those taken.
LEMMA CallStepTakes ==
  ASSUME NEW k \in Calls,
         \/ Deliver(k) \/ PostRefused(k) \/ OverwriteLookup(k)
         \/ OverwriteReadBack(k) \/ MarkLocalSent(k)
  PROVE  accepted' = accepted
<1>1. /\ RecordSkip(k) => UNCHANGED accepted
      /\ VerifyCached(k) => UNCHANGED accepted
      /\ VerifyRequest(k) => UNCHANGED accepted
      /\ VerifyAnswer(k) => UNCHANGED accepted
      /\ VerifyFailure(k) => UNCHANGED accepted
  BY Zenon DEF RecordSkip, VerifyCached, VerifyRequest, VerifyAnswer, VerifyFailure
<1>2. /\ Configure(k) => UNCHANGED accepted
      /\ MarkInProgress(k) => UNCHANGED accepted
      /\ RecordSent(k) => UNCHANGED accepted
      /\ RecordError(k) => UNCHANGED accepted
  BY Zenon DEF Configure, MarkInProgress, RecordSent, RecordError
<1>3. /\ PostRefused(k) => UNCHANGED accepted
      /\ OverwriteLookup(k) => UNCHANGED accepted
      /\ OverwriteReadBack(k) => UNCHANGED accepted
      /\ MarkLocalSent(k) => UNCHANGED accepted
  BY Zenon DEF PostRefused, OverwriteLookup, OverwriteReadBack, MarkLocalSent
<1> QED BY <1>1, <1>2, <1>3 DEF Deliver

LEMMA WrittenStep == TypeInv /\ Written /\ [Next]_vars => Written'
<1> SUFFICES ASSUME TypeInv, Written, [Next]_vars PROVE Written'
  OBVIOUS
<1>0. nrows \in Nat
  BY DeliveryAssumption DEF TypeInv, TypeOK
<1>1. ASSUME NEW k \in Calls, CallStep(k) PROVE Written'
  <2>1. call[k].row \in 1 .. nrows /\ nrows' = nrows
    BY <1>1, CallStepEffect DEF Framed
  <2>2. accepted' \subseteq accepted \cup {call[k].row}
    <3>1. CASE \/ Deliver(k) \/ PostRefused(k) \/ OverwriteLookup(k)
               \/ OverwriteReadBack(k) \/ MarkLocalSent(k)
      BY <3>1, CallStepTakes
    <3>2. ASSUME NEW answered \in BOOLEAN, PostAccepted(k, answered)
          PROVE  accepted' = accepted \cup {call[k].row}
      BY <3>2, Zenon DEF PostAccepted, PostedRow
    <3>3. ASSUME NEW applied \in BOOLEAN, NEW answered \in BOOLEAN,
                 OverwritePatch(k, applied, answered)
          PROVE  accepted' \in {accepted, accepted \cup {call[k].row}}
      BY <3>3 DEF OverwritePatch
    <3> QED BY <1>1, <3>1, <3>2, <3>3 DEF CallStep, Post, Overwrite
  <2> QED BY <2>1, <2>2 DEF Written
<1>2. ASSUME NEW l \in Leads, NEW safe \in BOOLEAN, NEW skip \in GeneratedSkips,
             GenerateEmail(l, safe, skip)
      PROVE  Written'
  BY <1>0, <1>2 DEF GenerateEmail, Written
<1>3. CASE \/ UNCHANGED vars
           \/ \E k \in Calls : Crash(k)
           \/ \E k \in Calls, l \in Leads : DeliverSnapshot(k, l) \/ OverwriteSnapshot(k, l)
           \/ \E l \in Leads, t \in Tiers : Rescore(l, t)
           \/ \E r \in RowIds : ClearDeliveryError(r)
           \/ ResetFailedDeliveries
  <2>1. UNCHANGED <<nrows, accepted>>
    BY <1>3, Zenon DEF vars, Crash, DeliverSnapshot, OverwriteSnapshot, Rescore,
       ClearDeliveryError, ResetFailedDeliveries
  <2> QED BY <2>1 DEF Written
<1> QED BY <1>1, <1>2, <1>3 DEF Next

\* The steps of a call, by what they do to the four things OneRecord speaks of.
LEMMA PostSends ==
  ASSUME RecordInv, NEW k \in Calls, NEW answered \in BOOLEAN, PostAccepted(k, answered)
  PROVE  [Record!Next]_Record!vars
<1>0. PICK l, c : l = call[k].lead /\ c = call[k].row
  OBVIOUS
<1> DEFINE copy == [row |-> PostedRow(k),
                    via |-> IF call[k].pc = "post" THEN "deliver" ELSE "overwrite"]
<1>1. /\ CallStep(k) /\ call[k].pc \in UnsentPcs
  BY DEF CallStep, Post, PostAccepted, PostPcs, UnsentPcs
<1>2. /\ l \in Leads /\ c \in RowIds /\ rows[c].lead = l
      /\ remote \in [Leads -> Seq(Copy)] /\ accepted \subseteq RowIds
  <2>1. Framed(call[k]) /\ nrows \in 0 .. MaxRows /\ MaxRows \in Nat
    BY <1>0, <1>1, CallStepEffect, DeliveryAssumption DEF RecordInv, TypeInv, TypeOK
  <2> QED BY <1>0, <2>1 DEF Framed, RowIds, RecordInv, TypeInv, TypeOK
<1>3. l \in exposed \/ Recorded[l] = 0
  BY <1>0, <1>1, <1>2 DEF RecordInv, OnceInv, Unsent, Recorded
<1>4. Recorded[l] = 0 => NotedFor[l] = {}
  BY <1>0, <1>2 DEF RecordInv, BackedInv, Recorded, NotedFor, NotedOf
<1>5. Recorded' = [Recorded EXCEPT ![l] = @ + 1]
  <2>1. copy \in Copy
    BY <1>0, <1>2 DEF Copy, PostedRow
  <2>2. remote' = [remote EXCEPT ![l] = Append(@, copy)]
    BY <1>0 DEF PostAccepted
  <2> HIDE DEF copy
  <2>3. Len(remote'[l]) = Len(remote[l]) + 1
    BY <1>0, <1>2, <2>1, <2>2, AppendProperties
  <2> QED BY <1>0, <1>2, <2>2, <2>3 DEF Recorded
<1>6. TakenFor' = [TakenFor EXCEPT ![l] = @ \cup {c}]
  <2>1. accepted' = accepted \cup {c} /\ rows' = rows
    BY <1>0 DEF PostAccepted, PostedRow
  <2>2. \A m \in Leads : TakenOf(m)' = IF m = l THEN TakenOf(m) \cup {c} ELSE TakenOf(m)
    BY <1>0, <1>2, <2>1 DEF TakenOf
  <2> QED BY <1>0, <1>2, <2>2 DEF TakenFor
<1>7. NotedFor' = NotedFor
  BY <1>0 DEF PostAccepted, NotedFor, NotedOf, RowIds
<1>8. exposed' \in {exposed, exposed \cup {l}}
  BY <1>0 DEF PostAccepted, Exposing
<1>9. Record!Send(l, c)
  BY <1>3, <1>4, <1>5, <1>6, <1>7, <1>8
     DEF Record!Send, Record!Take, Recorded, TakenFor, NotedFor, TakenOf, NotedOf
<1> QED BY <1>0, <1>2, <1>9, RecordMoves

\* A patch finds the record it replaces the copy of.
LEMMA PatchReplaces ==
  ASSUME RecordInv, NEW k \in Calls, NEW answered \in BOOLEAN,
         OverwritePatch(k, TRUE, answered)
  PROVE  [Record!Next]_Record!vars
<1>0. PICK l, c : l = call[k].lead /\ c = call[k].row
  OBVIOUS
<1>1. CallStep(k) /\ call[k].pc \in BackedPcs
  BY DEF CallStep, Overwrite, OverwritePatch, BackedPcs
<1>2. /\ l \in Leads /\ c \in RowIds /\ rows[c].lead = l
      /\ remote \in [Leads -> Seq(Copy)] /\ accepted \subseteq RowIds
  <2>1. Framed(call[k]) /\ nrows \in 0 .. MaxRows /\ MaxRows \in Nat
    BY <1>0, <1>1, CallStepEffect, DeliveryAssumption DEF RecordInv, TypeInv, TypeOK
  <2> QED BY <1>0, <2>1 DEF Framed, RowIds, RecordInv, TypeInv, TypeOK
<1>3. Recorded[l] # 0
  BY <1>0, <1>1, <1>2 DEF RecordInv, BackedInv, Recorded
<1>4. Recorded' = Recorded
  <2>1. remote' = [remote EXCEPT ![l] = [@ EXCEPT ![1].row = c]]
    BY <1>0 DEF OverwritePatch
  <2>2. Len([remote[l] EXCEPT ![1].row = c]) = Len(remote[l])
    BY <1>0, <1>2, PatchKeepsLength
  <2>3. \A m \in Leads : Len(remote'[m]) = Len(remote[m])
    BY <1>0, <1>2, <2>1, <2>2
  <2> QED BY <2>3 DEF Recorded
<1>5. TakenFor' = [TakenFor EXCEPT ![l] = @ \cup {c}]
  <2>1. accepted' = accepted \cup {c} /\ rows' = rows
    BY <1>0 DEF OverwritePatch
  <2>2. \A m \in Leads : TakenOf(m)' = IF m = l THEN TakenOf(m) \cup {c} ELSE TakenOf(m)
    BY <1>0, <1>2, <2>1 DEF TakenOf
  <2> QED BY <1>0, <1>2, <2>2 DEF TakenFor
<1>6. NotedFor' = NotedFor /\ exposed' = exposed
  BY DEF OverwritePatch, NotedFor, NotedOf, RowIds
<1>7. Record!Replace(l, c)
  BY <1>3, <1>4, <1>5, <1>6
     DEF Record!Replace, Record!Take, Recorded, TakenFor, NotedFor, TakenOf, NotedOf
<1> QED BY <1>0, <1>2, <1>7, RecordMoves

\* A success is recorded on the row whose copy was accepted, and on no other.
LEMMA SuccessNotes ==
  ASSUME RecordInv, NEW k \in Calls, RecordSent(k) \/ MarkLocalSent(k)
  PROVE  [Record!Next]_Record!vars
<1>0. PICK l, c : l = call[k].lead /\ c = call[k].row
  OBVIOUS
<1>1. CallStep(k) /\ call[k].pc \in {"record_sent", "mark_local"}
  BY Zenon DEF CallStep, Deliver, Overwrite, RecordSent, MarkLocalSent
<1>2. /\ l \in Leads /\ c \in RowIds /\ rows[c].lead = l
      /\ rows \in [RowIds -> Row] /\ rows[c] \in Row /\ accepted \subseteq RowIds
  <2>1. Framed(call[k]) /\ nrows \in 0 .. MaxRows /\ MaxRows \in Nat
    BY <1>0, <1>1, CallStepEffect, DeliveryAssumption DEF RecordInv, TypeInv, TypeOK
  <2> QED BY <1>0, <2>1 DEF Framed, RowIds, RecordInv, TypeInv, TypeOK
<1>3. c \in TakenFor[l]
  BY <1>0, <1>1, <1>2 DEF RecordInv, SentInv, Acked, TakenFor, TakenOf
<1>4. /\ \A r \in RowIds : rows'[r].lead = rows[r].lead
      /\ \A r \in RowIds \ {c} : rows'[r] = rows[r]
      /\ rows'[c].delivered
  BY <1>0, <1>1, CallStepEffect, CallStepDelivered DEF RecordInv
<1>5. UNCHANGED <<remote, accepted, exposed>>
  BY Zenon DEF RecordSent, MarkLocalSent
<1>6. Recorded' = Recorded
  BY <1>5 DEF Recorded
<1>7. TakenFor' = TakenFor
  <2>1. \A m \in Leads : TakenOf(m)' = TakenOf(m)
    BY <1>0, <1>2, <1>4, <1>5 DEF TakenOf
  <2> QED BY <2>1 DEF TakenFor
<1>8. NotedFor' = [NotedFor EXCEPT ![l] = @ \cup {c}]
  <2>1. \A m \in Leads : NotedOf(m)' = IF m = l THEN NotedOf(m) \cup {c} ELSE NotedOf(m)
    BY <1>0, <1>2, <1>4 DEF NotedOf, RowIds
  <2> QED BY <1>0, <1>2, <2>1 DEF NotedFor
<1>9. Record!Note(l, c)
  BY <1>3, <1>5, <1>6, <1>7, <1>8
     DEF Record!Note, Recorded, TakenFor, NotedFor, TakenOf, NotedOf
<1> QED BY <1>0, <1>2, <1>9, RecordMoves

\* A delivered row whose mark goes: forgotten, and its lead disturbed.
LEMMA RowForgets ==
  ASSUME RecordInv, [Next]_vars, NEW c \in RowIds, UNCHANGED <<remote, accepted>>,
         \A r \in RowIds : rows'[r].lead = rows[r].lead,
         \A r \in RowIds \ {c} : rows'[r] = rows[r],
         rows[c].delivered, ~ rows'[c].delivered,
         NEW l, l = rows[c].lead, exposed' \in {exposed, exposed \cup {l}}
  PROVE  [Record!Next]_Record!vars
<1>1. l \in Leads /\ accepted \subseteq RowIds
  BY DEF RecordInv, BackedInv, TypeInv, Started, TypeOK
<1>2. l \in exposed'
  BY MarkSticksStep DEF RecordInv
<1>3. exposed' = exposed \cup {l}
  BY <1>2
<1>4. Recorded' = Recorded
  BY DEF Recorded
<1>5. TakenFor' = TakenFor
  <2>1. \A m \in Leads : TakenOf(m)' = TakenOf(m)
    BY <1>1 DEF TakenOf
  <2> QED BY <2>1 DEF TakenFor
<1>6. NotedFor' = [NotedFor EXCEPT ![l] = @ \ {c}]
  <2>1. \A m \in Leads : NotedOf(m)' = IF m = l THEN NotedOf(m) \ {c} ELSE NotedOf(m)
    BY DEF NotedOf, RowIds
  <2> QED BY <1>1, <2>1 DEF NotedFor
<1>7. Record!Forget(l, c)
  BY <1>3, <1>4, <1>5, <1>6 DEF Record!Forget, Recorded, TakenFor, NotedFor, TakenOf, NotedOf
<1> QED BY <1>1, <1>7, RecordMoves

LEMMA RecordCallStep ==
  ASSUME RecordInv, NEW k \in Calls, CallStep(k)
  PROVE  [Record!Next]_Record!vars
<1>1. /\ call[k].lead \in Leads /\ call[k].row \in RowIds /\ accepted \subseteq RowIds
      /\ rows \in [RowIds -> Row] /\ rows[call[k].row] \in Row
  <2>1. Framed(call[k]) /\ nrows \in 0 .. MaxRows /\ MaxRows \in Nat
    BY CallStepEffect, DeliveryAssumption DEF RecordInv, TypeInv, TypeOK
  <2> QED BY <2>1 DEF Framed, RowIds, RecordInv, TypeInv, TypeOK
<1>2. /\ \A r \in RowIds : rows'[r].lead = rows[r].lead
      /\ \A r \in RowIds \ {call[k].row} : rows'[r] = rows[r]
  BY CallStepEffect DEF RecordInv
<1>3. ASSUME NEW answered \in BOOLEAN, PostAccepted(k, answered)
      PROVE  [Record!Next]_Record!vars
  BY <1>3, PostSends
<1>4. ASSUME NEW answered \in BOOLEAN, OverwritePatch(k, TRUE, answered)
      PROVE  [Record!Next]_Record!vars
  BY <1>4, PatchReplaces
<1>5. CASE RecordSent(k) \/ MarkLocalSent(k)
  BY <1>5, SuccessNotes
<1>6. ASSUME UNCHANGED <<remote, accepted, exposed>>,
             rows'[call[k].row].delivered = rows[call[k].row].delivered
      PROVE  [Record!Next]_Record!vars
  <2>1. \A r \in RowIds : rows'[r].delivered = rows[r].delivered
    BY <1>2, <1>6
  <2>2. TakenFor' = TakenFor /\ NotedFor' = NotedFor
    BY <1>1, <1>2, <1>6, <2>1, TablesKept
  <2>3. Recorded' = Recorded
    BY <1>6 DEF Recorded
  <2> QED BY <1>6, <2>2, <2>3, RecordStutters
<1>7. CASE RecordError(k)
  <2>1. /\ UNCHANGED <<remote, accepted, exposed>> /\ ~ rows'[call[k].row].delivered
    BY <1>1, <1>7 DEF RecordError, Write, Row
  <2>2. CASE rows[call[k].row].delivered
    <3>1. [Next]_vars
      BY DEF Next
    <3>2. PICK c, l : c = call[k].row /\ l = rows[c].lead
      OBVIOUS
    <3> QED BY <1>1, <1>2, <2>1, <2>2, <3>1, <3>2, RowForgets
  <2>3. CASE ~ rows[call[k].row].delivered
    <3>1. rows'[call[k].row].delivered = rows[call[k].row].delivered
      <4>1. rows'[call[k].row].delivered \in BOOLEAN /\ rows[call[k].row].delivered \in BOOLEAN
        BY <1>1, <1>7 DEF RecordError, Write, Row
      <4> QED BY <2>1, <2>3, <4>1
    <3> QED BY <1>6, <2>1, <3>1
  <2> QED BY <2>2, <2>3
<1>8. CASE RecordSkip(k) \/ MarkInProgress(k)
  <2>1. rows'[call[k].row].delivered = rows[call[k].row].delivered
    BY <1>1, <1>8 DEF RecordSkip, MarkInProgress, Write, Row
  <2>2. UNCHANGED <<remote, accepted, exposed>>
    BY <1>8 DEF RecordSkip, MarkInProgress
  <2> QED BY <1>6, <2>1, <2>2
<1>9. CASE \/ VerifyCached(k) \/ VerifyRequest(k) \/ VerifyAnswer(k) \/ VerifyFailure(k)
           \/ Configure(k) \/ PostRefused(k) \/ OverwriteLookup(k) \/ OverwriteReadBack(k)
           \/ \E answered \in BOOLEAN : OverwritePatch(k, FALSE, answered)
  <2>1. UNCHANGED <<rows, remote, accepted, exposed>>
    BY <1>9 DEF VerifyCached, VerifyRequest, VerifyAnswer, VerifyFailure, Configure,
       PostRefused, OverwriteLookup, OverwriteReadBack, OverwritePatch
  <2> QED BY <1>6, <2>1
<1> QED BY <1>3, <1>4, <1>5, <1>7, <1>8, <1>9 DEF CallStep, Deliver, Post, Overwrite

LEMMA RecordStep == ASSUME RecordInv, [Next]_vars PROVE [Record!Next]_Record!vars
<1>0. /\ call \in [Calls -> Call] /\ rows \in [RowIds -> Row] /\ accepted \subseteq RowIds
      /\ RowIds = 1 .. MaxRows /\ MaxRows \in Nat /\ nrows \in 0 .. MaxRows
  BY DeliveryAssumption DEF RecordInv, TypeInv, TypeOK, RowIds
<1>1. ASSUME NEW l \in Leads, UNCHANGED <<rows, remote, accepted>>,
             exposed' \in {exposed, exposed \cup {l}}
      PROVE  [Record!Next]_Record!vars
  <2>1. Recorded' = Recorded /\ TakenFor' = TakenFor /\ NotedFor' = NotedFor
    BY <1>1 DEF Recorded, TakenFor, NotedFor, TakenOf, NotedOf, RowIds
  <2> QED BY <1>1, <2>1, RecordDisturbs
<1>2. ASSUME NEW k \in Calls, NEW l \in Leads,
             DeliverSnapshot(k, l) \/ OverwriteSnapshot(k, l)
      PROVE  [Record!Next]_Record!vars
  BY <1>1, <1>2 DEF DeliverSnapshot, OverwriteSnapshot, Exposing
<1>3. ASSUME NEW k \in Calls, Crash(k) PROVE [Record!Next]_Record!vars
  <2>1. call[k].lead \in Leads
    BY <1>3 DEF Crash, RecordInv, TypeInv, Started, Framed
  <2> QED BY <1>1, <1>3, <2>1 DEF Crash, Exposing
<1>4. CASE UNCHANGED vars \/ \E l \in Leads, t \in Tiers : Rescore(l, t)
  <2>1. UNCHANGED <<rows, remote, accepted, exposed>>
    BY <1>4 DEF vars, Rescore
  <2>2. Recorded' = Recorded /\ TakenFor' = TakenFor /\ NotedFor' = NotedFor
    BY <2>1 DEF Recorded, TakenFor, NotedFor, TakenOf, NotedOf, RowIds
  <2> QED BY <2>1, <2>2, RecordStutters
<1>5. ASSUME NEW l \in Leads, NEW safe \in BOOLEAN, NEW skip \in GeneratedSkips,
             GenerateEmail(l, safe, skip)
      PROVE  [Record!Next]_Record!vars
  <2>1. /\ UNCHANGED <<remote, accepted, exposed>>
        /\ nrows + 1 \in RowIds /\ ~ rows'[nrows + 1].delivered
        /\ \A r \in RowIds \ {nrows + 1} : rows'[r] = rows[r]
    BY <1>0, <1>5 DEF GenerateEmail, Write
  <2>2. nrows + 1 \notin accepted /\ ~ rows[nrows + 1].delivered
    BY <1>0, <2>1 DEF RecordInv, Written, BackedInv
  <2>3. TakenFor' = TakenFor
    <3>1. \A m \in Leads : TakenOf(m)' = TakenOf(m)
      BY <1>0, <2>1, <2>2 DEF TakenOf
    <3> QED BY <3>1 DEF TakenFor
  <2>4. NotedFor' = NotedFor
    <3>1. \A m \in Leads : NotedOf(m)' = NotedOf(m)
      BY <2>1, <2>2 DEF NotedOf, RowIds
    <3> QED BY <3>1 DEF NotedFor
  <2>5. Recorded' = Recorded
    BY <2>1 DEF Recorded
  <2> QED BY <2>1, <2>3, <2>4, <2>5, RecordStutters
<1>6. ASSUME NEW r \in RowIds, ClearDeliveryError(r) PROVE [Record!Next]_Record!vars
  <2>1. /\ UNCHANGED <<remote, accepted>>
        /\ \A q \in RowIds : rows'[q].lead = rows[q].lead
        /\ \A q \in RowIds \ {r} : rows'[q] = rows[q]
        /\ rows'[r].delivered = FALSE /\ rows[r].delivered \in BOOLEAN
        /\ exposed' = IF rows[r].delivered THEN exposed \cup {rows[r].lead} ELSE exposed
    BY <1>0, <1>6 DEF ClearDeliveryError, Write, Exposing, Row
  <2>2. CASE rows[r].delivered
    <3>1. PICK l : l = rows[r].lead
      OBVIOUS
    <3> QED BY <2>1, <2>2, <3>1, RowForgets
  <2>3. CASE ~ rows[r].delivered
    <3>1. \A q \in RowIds : rows'[q].delivered = rows[q].delivered
      BY <2>1, <2>3
    <3>2. TakenFor' = TakenFor /\ NotedFor' = NotedFor
      BY <1>0, <2>1, <3>1, TablesKept
    <3>3. Recorded' = Recorded /\ exposed' = exposed
      BY <2>1, <2>3 DEF Recorded
    <3> QED BY <3>2, <3>3, RecordStutters
  <2> QED BY <2>2, <2>3
<1>7. CASE ResetFailedDeliveries
  <2>1. /\ UNCHANGED <<remote, accepted, exposed>>
        /\ \A r \in RowIds : /\ rows'[r].lead = rows[r].lead
                             /\ rows'[r].delivered = rows[r].delivered
    BY <1>0, <1>7 DEF ResetFailedDeliveries, Row
  <2>2. TakenFor' = TakenFor /\ NotedFor' = NotedFor
    BY <1>0, <2>1, TablesKept
  <2>3. Recorded' = Recorded
    BY <2>1 DEF Recorded
  <2> QED BY <2>1, <2>2, <2>3, RecordStutters
<1> QED BY <1>2, <1>3, <1>4, <1>5, <1>6, <1>7, RecordCallStep DEF Next

\* The sender of the code, with its snapshots, lost answers, retries, crashes,
\* repairs and overwrites, implements the one that sends and notes at once.
THEOREM SendsOnceCorrect == Spec => SendsOnce
<1>1. Init => BackedInv /\ SentInv /\ Written
  BY DEF Init, BackedInv, BackedPcs, SentInv, Acked, SentWasAccepted, RowIds, Written
<1>2. RecordInv /\ [Next]_vars => [Record!Next]_Record!vars
  BY RecordStep
<1>3. TypeInv /\ SentInv /\ OnceInv /\ BackedInv /\ Written => RecordInv
  BY DEF RecordInv
<1>4. Init => Record!Init
  BY RecordInit
<1> QED BY <1>1, <1>2, <1>3, <1>4, InitType, NextType, OnceInvariant, BackedStep, SentStep,
        WrittenStep, PTL DEF Spec, SendsOnce, Record!Spec
=============================================================================
