------------------------------ MODULE Delivery ------------------------------
(***************************************************************************)
(* Delivery of generated emails to an Instantly campaign.                  *)
(*                                                                         *)
(* A call of deliver_email or of overwrite_lead_copy is a coroutine: it    *)
(* reads the database in one transaction, keeps what it read, awaits HTTP  *)
(* answers, and writes back in later transactions.  Nothing locks the row  *)
(* it works on, so calls made by the pipeline, the bulk push and scripts   *)
(* may overlap.  One action is one transaction or one HTTP exchange.       *)
(*                                                                         *)
(* Ghost state (read by the properties only): accepted, gated, exposed.    *)
(***************************************************************************)
EXTENDS Naturals, Sequences, FiniteSets

CONSTANTS
  Leads,         \* lead ids
  NoLead,        \* the lead of a call not started, of a row not written
  Calls,         \* invocations of deliver_email / overwrite_lead_copy
  MaxRows,       \* bound: email rows generated in a behaviour
  MaxAttempts,   \* stop_after_attempt of retry_api
  Tiers,         \* tiers a score may have
  SendTiers,     \* tiers at or above settings.send_min_tier
  VerifyAnswers  \* normalised answers of the email verifier

ASSUME DeliveryAssumption ==
  /\ NoLead \notin Leads
  /\ MaxRows \in Nat
  /\ MaxAttempts \in Nat \ {0}
  /\ SendTiers \subseteq Tiers
  /\ "none" \notin Tiers
  /\ VerifyAnswers \subseteq {"valid", "invalid", "risky", "unknown"}

VARIABLES
  rows,      \* generated_contents rows of kind email, by id
  nrows,     \* ids 1..nrows are written
  tier,      \* scores.tier of a lead, "none" without a score row
  verif,     \* leads.email_verification_status, normalised
  config,    \* what resolve_instantly_config finds
  remote,    \* lead records of the campaign holding a lead's address
  call,      \* program counter and locals of every call
  accepted,  \* rows whose copy Instantly has accepted
  gated,     \* leads that had a sendable tier at some time
  exposed    \* leads for which a hazard of Exposing(..) has happened

vars == <<rows, nrows, tier, verif, config, remote, call,
          accepted, gated, exposed>>

-----------------------------------------------------------------------------
RowIds == 1 .. MaxRows

Statuses == {"none", "in_progress", "sent", "error"}

SkipReasons ==
  {"none", "tier_below_threshold", "already_delivered",
   "unsafe_internal_review_content", "email_invalid",
   "missing_instantly_api_key", "workspace_not_configured",
   "needs_buyer_research"}

Row == [lead : Leads \cup {NoLead}, safe : BOOLEAN, status : Statuses,
        delivered : BOOLEAN, hasId : BOOLEAN, skip : SkipReasons]

Ended == {"done", "failed", "crashed"}

DeliverPcs == {"verify", "verifying", "configure", "mark", "post",
               "record_sent", "record_error", "skip"}

OverwritePcs == {"lookup", "patch", "readback", "create", "mark_local"}

Pcs == {"idle"} \cup DeliverPcs \cup OverwritePcs \cup Ended

Call == [pc : Pcs, lead : Leads \cup {NoLead}, row : 0 .. MaxRows,
         tries : 0 .. MaxAttempts, reason : SkipReasons]

Copy == [row : RowIds, via : {"deliver", "overwrite"}]

TypeOK ==
  /\ rows \in [RowIds -> Row]
  /\ nrows \in 0 .. MaxRows
  /\ tier \in [Leads -> Tiers \cup {"none"}]
  /\ verif \in [Leads -> VerifyAnswers \cup {"none"}]
  /\ config \in {"ok", "no_key", "no_campaign"}
  /\ remote \in [Leads -> Seq(Copy)]
  /\ call \in [Calls -> Call]
  /\ accepted \subseteq RowIds
  /\ gated \subseteq Leads
  /\ exposed \subseteq Leads

-----------------------------------------------------------------------------
(* What a snapshot transaction finds. *)

RowsOf(l) == {r \in 1 .. nrows : rows[r].lead = l}

\* The newest email row of a lead (ORDER BY id DESC, first), 0 without one.
LatestRow(l) ==
  IF RowsOf(l) = {} THEN 0
  ELSE CHOOSE r \in RowsOf(l) : \A s \in RowsOf(l) : s <= r

\* Mutants: a dedupe on the newest row only, and one on delivery_id.
LatestDelivered(l) == LatestRow(l) # 0 /\ rows[LatestRow(l)].delivered
AnyDeliveryId(l) == \E r \in RowsOf(l) : rows[r].hasId
AnyAttempt(l) == \E r \in RowsOf(l) : rows[r].status # "none"

\* Some email row of the lead, of any age, carries delivered_at.
AlreadyDelivered(l) == \E r \in RowsOf(l) : rows[r].delivered

\* Mutant: any scored lead is sendable.
AnyScore(t) == t # "none"

ShouldSend(t) == t \in SendTiers

AcceptVerification(s, strict) == s = "valid" \/ (s # "invalid" /\ ~ strict)

Live(k) == call[k].pc \notin {"idle"} \cup Ended

(* Another call is at work on the lead: a hazard for at-most-once sending. *)
Overlaps(k, l) == \E j \in Calls \ {k} : Live(j) /\ call[j].lead = l

Exposing(l, hazard) == exposed' = IF hazard THEN exposed \cup {l} ELSE exposed

\* A transaction on one row.
Write(r, new) == rows' = [rows EXCEPT ![r] = new]

Goto(k, pc) == call' = [call EXCEPT ![k].pc = pc]

Skip(k, reason) ==
  call' = [call EXCEPT ![k] = [@ EXCEPT !.pc = "skip", !.reason = reason]]

-----------------------------------------------------------------------------
(* deliver_email *)

\* Guards 1 to 3b on the snapshot, in the order of the code.
GuardOutcome(l) ==
  LET r == LatestRow(l) IN
  CASE ~ ShouldSend(tier[l])             -> "tier_below_threshold"
    [] ShouldSend(tier[l]) /\ AlreadyDelivered(l) -> "already_delivered"
    [] OTHER -> IF r # 0 /\ ~ rows[r].safe
                THEN "unsafe_internal_review_content" ELSE "none"

\* One transaction reads tier, latest row and delivered rows; then the guards.
\* A refusal without a row to note it on just returns.
DeliverSnapshot(k, l) ==
  /\ call[k].pc = "idle"
  /\ LET r == LatestRow(l)
         refusal == GuardOutcome(l)
     IN call' = [call EXCEPT ![k] =
          [pc |-> CASE r = 0 -> "done"
                    [] r # 0 /\ refusal # "none" -> "skip"
                    [] r # 0 /\ refusal = "none" -> "verify",
           lead |-> l, row |-> r, tries |-> 0, reason |-> refusal]]
  /\ Exposing(l, Overlaps(k, l))
  /\ UNCHANGED <<rows, nrows, tier, verif, config, remote, accepted, gated>>

\* _record_skip writes on the snapshotted row, in a transaction of its own.
RecordSkip(k) ==
  /\ call[k].pc = "skip"
  /\ Write(call[k].row, [rows[call[k].row] EXCEPT !.skip = call[k].reason])
  /\ Goto(k, "done")
  /\ UNCHANGED <<nrows, tier, verif, config, remote, accepted, gated, exposed>>

\* The caller's strict_verification is an argument: both values are possible.
AfterVerification(k, status) ==
  \E strict \in BOOLEAN :
    IF AcceptVerification(status, strict) THEN Goto(k, "configure")
    ELSE Skip(k, "email_invalid")

VerifyCached(k) ==
  /\ call[k].pc = "verify"
  /\ verif[call[k].lead] # "none"
  /\ AfterVerification(k, verif[call[k].lead])
  /\ UNCHANGED <<rows, nrows, tier, verif, config, remote,
                 accepted, gated, exposed>>

VerifyRequest(k) ==
  /\ call[k].pc = "verify"
  /\ verif[call[k].lead] = "none"
  /\ Goto(k, "verifying")
  /\ UNCHANGED <<rows, nrows, tier, verif, config, remote,
                 accepted, gated, exposed>>

\* The answer is stored on the lead whatever was stored meanwhile.
VerifyAnswer(k) ==
  /\ call[k].pc = "verifying"
  /\ \E s \in VerifyAnswers :
       /\ verif' = [verif EXCEPT ![call[k].lead] = s]
       /\ AfterVerification(k, s)
  /\ UNCHANGED <<rows, nrows, tier, config, remote, accepted, gated, exposed>>

\* The verifier's error leaves deliver_email as an exception.
VerifyFailure(k) ==
  /\ call[k].pc = "verifying"
  /\ Goto(k, "failed")
  /\ UNCHANGED <<rows, nrows, tier, verif, config, remote,
                 accepted, gated, exposed>>

\* Credentials, then the payload of the snapshotted row; a dry run stops here.
Configure(k) ==
  /\ call[k].pc = "configure"
  /\ CASE config = "no_key"      -> Skip(k, "missing_instantly_api_key")
       [] config = "no_campaign" -> Skip(k, "workspace_not_configured")
       [] config = "ok"          -> \E pc \in {"mark", "done"} : Goto(k, pc)
  /\ UNCHANGED <<rows, nrows, tier, verif, config, remote,
                 accepted, gated, exposed>>

MarkInProgress(k) ==
  /\ call[k].pc = "mark"
  /\ Write(call[k].row, [rows[call[k].row] EXCEPT !.status = "in_progress"])
  /\ Goto(k, "post")
  /\ UNCHANGED <<nrows, tier, verif, config, remote, accepted, gated, exposed>>

-----------------------------------------------------------------------------
(* POST /leads under retry_api: a transient failure is retried until the   *)
(* attempts are used up, whether or not the request had been accepted.     *)

PostPcs == {"post", "create"}

\* Mutant: the payload is built from the row that is the newest by now.
NewestRow(k) == LatestRow(call[k].lead)

\* The payload is built from the row of the snapshot.
PostedRow(k) == call[k].row

\* Mutant: the failed send is not written down.
FailureUnrecorded(k) == "failed"

AfterFailure(k) ==
  CASE call[k].pc = "post"  -> "record_error"
    [] call[k].pc \in {"create", "patch"} -> "failed"

\* Mutant: transient failures are retried without a limit.
UnboundedAttempt(k, transient) ==
  call' = [call EXCEPT ![k] =
    [call[k] EXCEPT
       !.tries = @ + 1,
       !.pc = IF transient THEN call[k].pc ELSE AfterFailure(k)]]

\* One more attempt used; transient failures are retried below the limit.
FailedAttempt(k, transient) ==
  call' = [call EXCEPT ![k] =
    [call[k] EXCEPT
       !.tries = @ + 1,
       !.pc = IF transient /\ call[k].tries + 1 < MaxAttempts
              THEN call[k].pc ELSE AfterFailure(k)]]

\* Instantly stores a lead record; its answer arrives, or is lost.
PostAccepted(k, answered) ==
  /\ call[k].pc \in PostPcs
  /\ LET l == call[k].lead
         copy == [row |-> PostedRow(k),
                  via |-> IF call[k].pc = "post" THEN "deliver" ELSE "overwrite"]
     IN /\ remote' = [remote EXCEPT ![l] = Append(@, copy)]
        /\ accepted' = accepted \cup {copy.row}
        /\ Exposing(l, ~ answered)
  /\ IF answered
     THEN Goto(k, IF call[k].pc = "post" THEN "record_sent" ELSE "mark_local")
     ELSE FailedAttempt(k, TRUE)
  /\ UNCHANGED <<rows, nrows, tier, verif, config, gated>>

\* 4xx is terminal; 5xx, a timeout or a network error is transient.
PostRefused(k) ==
  /\ call[k].pc \in PostPcs
  /\ \E transient \in BOOLEAN : FailedAttempt(k, transient)
  /\ UNCHANGED <<rows, nrows, tier, verif, config, remote,
                 accepted, gated, exposed>>

\* The row of the snapshot, not the newest one.
RecordedRow(k) == call[k].row

\* Success: delivered_at, delivery_id (the answer may lack an id), "sent".
RecordSent(k) ==
  /\ call[k].pc = "record_sent"
  /\ \E id \in BOOLEAN :
       LET r == RecordedRow(k)
       IN Write(r, [rows[r] EXCEPT !.status = "sent", !.delivered = TRUE,
                                   !.hasId = id])
  /\ Goto(k, "done")
  /\ UNCHANGED <<nrows, tier, verif, config, remote, accepted, gated, exposed>>

\* Mutant: the failure leaves delivered_at of a racing send alone.
RecordErrorOnly(k) ==
  /\ call[k].pc = "record_error"
  /\ Write(call[k].row, [rows[call[k].row] EXCEPT !.status = "error"])
  /\ Goto(k, "failed")
  /\ UNCHANGED <<nrows, tier, verif, config, remote, accepted, gated, exposed>>

\* Failure: "error" and delivered_at cleared, then the exception goes on.
RecordError(k) ==
  /\ call[k].pc = "record_error"
  /\ Write(call[k].row,
           [rows[call[k].row] EXCEPT !.status = "error", !.delivered = FALSE])
  /\ Goto(k, "failed")
  /\ UNCHANGED <<nrows, tier, verif, config, remote, accepted, gated, exposed>>

-----------------------------------------------------------------------------
(* overwrite_lead_copy: no tier, verification or dedupe gate. *)

OverwritableRow(r) == r # 0 /\ rows[r].safe

OverwriteSnapshot(k, l) ==
  /\ call[k].pc = "idle"
  /\ call' = [call EXCEPT ![k] =
       [pc |-> IF config = "ok" /\ OverwritableRow(LatestRow(l))
               THEN "lookup" ELSE "done",
        lead |-> l, row |-> LatestRow(l), tries |-> 0, reason |-> "none"]]
  /\ Exposing(l, Overlaps(k, l))
  /\ UNCHANGED <<rows, nrows, tier, verif, config, remote, accepted, gated>>

\* Several records: refuse.  One: patch it.  None: create if the caller allows.
\* The lookup itself may fail.
OverwriteLookup(k) ==
  /\ call[k].pc = "lookup"
  /\ LET n == Len(remote[call[k].lead]) IN
     \/ n = 1 /\ Goto(k, "patch")
     \/ n = 0 /\ Goto(k, "create")
     \/ Goto(k, "done")
  /\ UNCHANGED <<rows, nrows, tier, verif, config, remote,
                 accepted, gated, exposed>>

\* PATCH custom_variables of the record found; it may apply unanswered.
OverwritePatch(k, applied, answered) ==
  /\ call[k].pc = "patch"
  /\ answered => applied
  /\ IF applied
     THEN /\ remote' = [remote EXCEPT
                          ![call[k].lead] = [@ EXCEPT ![1].row = call[k].row]]
          /\ accepted' = accepted \cup {call[k].row}
     ELSE UNCHANGED <<remote, accepted>>
  /\ IF answered THEN Goto(k, "readback")
     ELSE \E transient \in BOOLEAN : FailedAttempt(k, transient)
  /\ UNCHANGED <<rows, nrows, tier, verif, config, gated, exposed>>

\* Mutant: a copy that does not match is looked up and patched again.
ReadBackAgain(k) ==
  /\ call[k].pc = "readback"
  /\ \E pc \in {"mark_local", "lookup"} : Goto(k, pc)
  /\ UNCHANGED <<rows, nrows, tier, verif, config, remote,
                 accepted, gated, exposed>>

\* GET the record again: the copy must be the one just written.
OverwriteReadBack(k) ==
  /\ call[k].pc = "readback"
  /\ \/ /\ remote[call[k].lead][1].row = call[k].row
        /\ Goto(k, "mark_local")
     \/ Goto(k, "done")
  /\ UNCHANGED <<rows, nrows, tier, verif, config, remote,
                 accepted, gated, exposed>>

\* _mark_local_sent: an id the answer lacked leaves delivery_id alone.
MarkLocalSent(k) ==
  /\ call[k].pc = "mark_local"
  /\ \E id \in BOOLEAN :
       LET r == call[k].row
       IN Write(r, [rows[r] EXCEPT !.status = "sent", !.delivered = TRUE,
                                   !.hasId = @ \/ id])
  /\ Goto(k, "done")
  /\ UNCHANGED <<nrows, tier, verif, config, remote, accepted, gated, exposed>>

-----------------------------------------------------------------------------
(* The rest of the program, and failures. *)

GeneratedSkips == {"none", "tier_below_threshold", "needs_buyer_research"}

\* generate_email always inserts a row; placeholders (SKIP, NEEDS REVIEW) and
\* empty bodies are the unsafe ones.
\* Placeholders are inserted with a skip reason, the model's texts without.
GenerateEmail(l, safe, skip) ==
  /\ nrows < MaxRows
  /\ safe => skip = "none"
  /\ nrows' = nrows + 1
  /\ Write(nrows + 1, [lead |-> l, safe |-> safe, status |-> "none",
                       delivered |-> FALSE, hasId |-> FALSE, skip |-> skip])
  /\ UNCHANGED <<tier, verif, config, remote, call, accepted, gated, exposed>>

Rescore(l, t) ==
  /\ tier' = [tier EXCEPT ![l] = t]
  /\ gated' = IF t \in SendTiers THEN gated \cup {l} ELSE gated
  /\ UNCHANGED <<rows, nrows, verif, config, remote, call, accepted, exposed>>

\* clear_delivery_error resets the row whatever its status.
ClearDeliveryError(r) ==
  /\ r <= nrows
  /\ Write(r, [rows[r] EXCEPT !.status = "none", !.delivered = FALSE,
                              !.hasId = FALSE])
  /\ Exposing(rows[r].lead, rows[r].delivered)
  /\ UNCHANGED <<nrows, tier, verif, config, remote, call, accepted, gated>>

StaleError(r) == rows[r].status = "error" /\ ~ rows[r].hasId

\* scripts/reset_failed_deliveries.py: one UPDATE over all rows.
ResetFailedDeliveries ==
  /\ rows' = [r \in RowIds |-> IF StaleError(r)
                               THEN [rows[r] EXCEPT !.status = "none"]
                               ELSE rows[r]]
  /\ UNCHANGED <<nrows, tier, verif, config, remote, call,
                 accepted, gated, exposed>>

\* The process dies: the call never writes again.  A record Instantly has
\* accepted and the database does not know is a hazard.
Crash(k) ==
  /\ Live(k)
  /\ Goto(k, "crashed")
  /\ Exposing(call[k].lead, call[k].pc \in {"record_sent", "mark_local"})
  /\ UNCHANGED <<rows, nrows, tier, verif, config, remote, accepted, gated>>

-----------------------------------------------------------------------------
Init ==
  /\ rows = [r \in RowIds |->
       [lead |-> NoLead, safe |-> FALSE, status |-> "none",
        delivered |-> FALSE, hasId |-> FALSE, skip |-> "none"]]
  /\ nrows = 0
  /\ tier = [l \in Leads |-> "none"]
  /\ verif \in [Leads -> VerifyAnswers \cup {"none"}]
  /\ config \in {"ok", "no_key", "no_campaign"}
  /\ remote = [l \in Leads |-> <<>>]
  /\ call = [k \in Calls |-> [pc |-> "idle", lead |-> NoLead, row |-> 0,
                              tries |-> 0, reason |-> "none"]]
  /\ accepted = {}
  /\ gated = {}
  /\ exposed = {}

Deliver(k) ==
  \/ RecordSkip(k)
  \/ VerifyCached(k)
  \/ VerifyRequest(k)
  \/ VerifyAnswer(k)
  \/ VerifyFailure(k)
  \/ Configure(k)
  \/ MarkInProgress(k)
  \/ RecordSent(k)
  \/ RecordError(k)

Post(k) ==
  \/ \E answered \in BOOLEAN : PostAccepted(k, answered)
  \/ PostRefused(k)

Overwrite(k) ==
  \/ OverwriteLookup(k)
  \/ \E applied, answered \in BOOLEAN : OverwritePatch(k, applied, answered)
  \/ OverwriteReadBack(k)
  \/ MarkLocalSent(k)

\* The steps of a started call; the event loop runs it to its end.
CallStep(k) == Deliver(k) \/ Post(k) \/ Overwrite(k)

Next ==
  \/ \E k \in Calls :
       \/ \E l \in Leads : DeliverSnapshot(k, l) \/ OverwriteSnapshot(k, l)
       \/ CallStep(k)
       \/ Crash(k)
  \/ \E l \in Leads :
       \/ \E safe \in BOOLEAN, skip \in GeneratedSkips :
            GenerateEmail(l, safe, skip)
       \/ \E t \in Tiers : Rescore(l, t)
  \/ \E r \in RowIds : ClearDeliveryError(r)
  \/ ResetFailedDeliveries

Spec == Init /\ [][Next]_vars

\* Every await of a call returns: the HTTP clients have timeouts.
Fairness == \A k \in Calls : WF_vars(CallStep(k))

FairSpec == Spec /\ Fairness

-----------------------------------------------------------------------------
(* Properties.  A lead is exposed once a second call has started on it, an  *)
(* accepted POST went unanswered, a crash lost an acceptance, or an operator *)
(* cleared a delivered row: the windows the code leaves open.               *)

\* A row is shown as sent only if Instantly has accepted that row's own copy,
\* whatever was generated while the call awaited its answers.
SentWasAccepted == \A r \in RowIds : rows[r].status = "sent" => r \in accepted

\* No placeholder or empty text reaches Instantly, by a send or an overwrite.
OnlySafeCopies ==
  \A l \in Leads : \A i \in DOMAIN remote[l] : rows[remote[l][i].row].safe

\* Outside the named windows the campaign holds one record of a lead at most,
\* across regenerated rows, overwrites and later calls (the dedupe guard).
AtMostOnce == \A l \in Leads : l \notin exposed => Len(remote[l]) <= 1

\* A record created by deliver_email means the lead passed the tier floor.
GatedSends ==
  \A l \in Leads : \A i \in DOMAIN remote[l] :
    remote[l][i].via = "deliver" => l \in gated

\* The outcome and the mark agree even when two calls end on one row:
\* "sent" carries delivered_at and "error" does not.
StatusAgreesWithMark ==
  \A r \in RowIds : /\ rows[r].status = "sent" => rows[r].delivered
                    /\ rows[r].status = "error" => ~ rows[r].delivered

\* A row refused as already_delivered has a delivered row beside it, unless
\* its lead went through one of the windows.
SkipJustified ==
  \A r \in 1 .. nrows :
    rows[r].skip = "already_delivered" =>
      AlreadyDelivered(rows[r].lead) \/ rows[r].lead \in exposed

\* delivered_at, once set, is not lost outside the windows: the failure
\* branch of a later call never wipes the record of an earlier send.
DeliveryMarkSticks ==
  [][\A r \in RowIds :
       rows[r].delivered /\ ~ rows'[r].delivered => rows[r].lead \in exposed']_vars

\* A row in_progress is in the hands of a call that has its POST or its
\* outcome before it, or of one that died: no interleaving, repair or
\* overwrite strands it while its call goes on to an end.
InProgressHeld ==
  \A r \in RowIds :
    rows[r].status = "in_progress" =>
      \E k \in Calls : /\ call[k].row = r
                       /\ call[k].pc \in {"post", "record_sent", "record_error",
                                        "crashed"}

\* What the row of an email says of its delivery is true: a sent row was
\* accepted, status and mark agree, in_progress has a call behind it, and a
\* row refused as a duplicate has a delivered row beside it.
RowsTell ==
  /\ SentWasAccepted
  /\ StatusAgreesWithMark
  /\ InProgressHeld
  /\ SkipJustified

\* Whatever is at Instantly passed its gate: safe text on every path, and the
\* tier floor on the path that has one.
CopiesGuarded == OnlySafeCopies /\ GatedSends

\* Calls that read, wait and write back keep the promise of OneRecord: outside
\* the windows a lead is sent only while nothing of it is in the campaign or
\* marked, delivered_at is set on a row only after Instantly took that row's
\* copy, and it is not lost again.
Record == INSTANCE OneRecord WITH
  Copies <- RowIds,
  records <- [l \in Leads |-> Len(remote[l])],
  taken <- [l \in Leads |-> {r \in accepted : rows[r].lead = l}],
  noted <- [l \in Leads |-> {r \in RowIds : rows[r].lead = l /\ rows[r].delivered}],
  disturbed <- exposed

SendsOnce == Record!Spec

\* Retries are bounded: every call ends.
CallsEnd == \A k \in Calls : Live(k) ~> ~ Live(k)

=============================================================================
