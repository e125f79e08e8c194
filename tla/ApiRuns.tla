------------------------------ MODULE ApiRuns ------------------------------
(***************************************************************************)
(* Runs of the internal API: the api_runs table and those who process it.  *)
(*                                                                         *)
(* POST /api/v1/leads/process stores a run.  A sync request processes it   *)
(* in the request; an async one leaves it queued for a drainer: the worker *)
(* process or a call of /api/v1/drain.  A drainer lists queued ids in one  *)
(* transaction and takes them one by one later, without a claim: drainers  *)
(* may overlap, die, or lose the database between any two transactions.    *)
(*                                                                         *)
(* Ghost state (read by the properties only): takers, lost, made.          *)
(***************************************************************************)
EXTENDS Naturals, Sequences, FiniteSets

CONSTANTS
  Drainers,     \* the worker and the drain requests
  Handlers,     \* sync requests
  Contacts,     \* contacts that requests may carry
  Unidentified, \* those among them the import can neither match nor create
  Requests,     \* what may be requested: leads, with normalised options (email:
                \* asked for, and switched on in the workspace)
  BatchSize,    \* the batch argument of drain_once
  MaxRuns,      \* bound: runs created in a behaviour
  MaxFaults     \* bound: crashes and failed transactions in a behaviour

ASSUME ApiRunsAssumption ==
  /\ Drainers \cap Handlers = {}
  /\ Unidentified \subseteq Contacts
  /\ Requests \subseteq [leads : Seq(Contacts) \ {<<>>},
                         options : [enrich : BOOLEAN, email : BOOLEAN]]
  /\ BatchSize \in Nat \ {0}
  /\ MaxRuns \in Nat
  /\ MaxFaults \in Nat

VARIABLES
  runs,      \* api_runs rows by id
  nruns,     \* ids 1..nruns are written
  leads,     \* contacts with a row in leads
  enriched,  \* leads with an enrichments row
  emails,    \* email rows generated for a lead
  exec,      \* program counter and locals of every processing coroutine
  faults,    \* crashes and failed transactions so far
  takers,    \* who has marked a run as running
  lost,      \* runs whose processing died or raised since they were taken
  made       \* emails generated on behalf of a run

vars == <<runs, nruns, leads, enriched, emails, exec, faults,
          takers, lost, made>>

db == <<leads, enriched, emails, made>>

-----------------------------------------------------------------------------
Executors == Drainers \cup Handlers

RunIds == 1 .. MaxRuns

Terminal == {"completed", "partial", "failed"}

Run == [mode : {"sync", "async"},
        status : {"none", "queued", "running"} \cup Terminal,
        leads : Seq(Contacts), options : [enrich : BOOLEAN, email : BOOLEAN],
        processed : Nat, failed : Nat, error : BOOLEAN]

Pcs == {"idle", "claim", "import", "leads", "enriching", "generating",
        "payload", "fail"}

Exec == [pc : Pcs, todo : SUBSET RunIds, run : 0 .. MaxRuns, i : Nat,
         processed : Nat, failed : Nat]

TypeOK ==
  /\ runs \in [RunIds -> Run]
  /\ nruns \in 0 .. MaxRuns
  /\ leads \subseteq Contacts
  /\ enriched \subseteq leads
  /\ emails \in [Contacts -> Nat]
  /\ exec \in [Executors -> Exec]
  /\ faults \in 0 .. MaxFaults
  /\ takers \in [RunIds -> SUBSET Executors]
  /\ lost \subseteq RunIds
  /\ made \in [RunIds -> Nat]

-----------------------------------------------------------------------------
(* Locals of an executor *)

Goto(e, pc) == exec' = [exec EXCEPT ![e].pc = pc]

TheRun(e) == runs[exec[e].run]

TheContact(e) == TheRun(e).leads[exec[e].i]

Idle(e) == exec[e].pc = "idle"

Processing(e) == exec[e].pc # "idle"

\* Another crash or failed transaction.
Fault == faults < MaxFaults /\ faults' = faults + 1

-----------------------------------------------------------------------------
(* POST /api/v1/leads/process *)

NewRun(mode, status, req) ==
  [mode |-> mode, status |-> status, leads |-> req.leads, options |-> req.options,
   processed |-> 0, failed |-> 0, error |-> FALSE]

\* The id of the next row, and the row.
CreateRun(run) ==
  /\ nruns < MaxRuns
  /\ nruns' = nruns + 1
  /\ runs' = [runs EXCEPT ![nruns + 1] = run]

SubmitAsync(req) ==
  /\ CreateRun(NewRun("async", "queued", req))
  /\ UNCHANGED <<db, exec, faults, takers, lost>>

\* Mutant: the sync run is created with the default status.
DefaultStatus(mode) == IF mode = "none" THEN "none" ELSE "queued"

InitialStatus(mode) == IF mode = "sync" THEN "running" ELSE "queued"

\* The request goes on with process_run.
SubmitSync(h, req) ==
  /\ Idle(h)
  /\ CreateRun(NewRun("sync", InitialStatus("sync"), req))
  /\ exec' = [exec EXCEPT ![h] = [@ EXCEPT !.pc = "claim", !.run = nruns + 1]]
  /\ UNCHANGED <<db, faults, takers, lost>>

-----------------------------------------------------------------------------
(* drain_once *)

\* Mutant: failed runs are listed again.
QueuedOrFailed == {r \in 1 .. nruns : runs[r].status \in {"queued", "failed"}}

Queued == {r \in 1 .. nruns : runs[r].status = "queued"}

\* Mutant: the limit is applied before the condition on the status.
LimitFirst == {r \in Queued : r <= BatchSize}

\* ORDER BY id LIMIT batch.
OldestQueued == {r \in Queued : Cardinality({s \in Queued : s < r}) < BatchSize}

\* list_queued_run_ids, a transaction of its own.
ListQueued(d) ==
  /\ Idle(d)
  /\ exec[d].todo = {}
  /\ OldestQueued # {}
  /\ exec' = [exec EXCEPT ![d].todo = OldestQueued]
  /\ UNCHANGED <<runs, nruns, db, faults, takers, lost>>

\* The next id of the list, whatever has become of its run.
TakeNext(d) ==
  /\ Idle(d)
  /\ \E r \in exec[d].todo :
       /\ \A s \in exec[d].todo : r <= s
       /\ exec' = [exec EXCEPT ![d] =
            [@ EXCEPT !.pc = "claim", !.run = r, !.todo = exec[d].todo \ {r}]]
  /\ UNCHANGED <<runs, nruns, db, faults, takers, lost>>

-----------------------------------------------------------------------------
(* process_run *)

\* mark_running has no condition on the status it overwrites.
MarkRunning(e) ==
  /\ exec[e].pc = "claim"
  /\ runs' = [runs EXCEPT ![exec[e].run].status = "running"]
  /\ takers' = [takers EXCEPT ![exec[e].run] = @ \cup {e}]
  /\ exec' = [exec EXCEPT ![e] =
       [@ EXCEPT !.pc = "import", !.i = 1, !.processed = 0, !.failed = 0]]
  /\ lost' = lost \ {exec[e].run}
  /\ UNCHANGED <<nruns, db, faults>>

\* What import_contacts makes of a request, contact by contact (ContactImport
\* has its transactions): leads, or a line in the import log only.
Importable(e) ==
  {TheRun(e).leads[n] : n \in DOMAIN TheRun(e).leads} \ Unidentified

Imported(e, contacts) ==
  /\ leads' = leads \cup contacts
  /\ exec' = [exec EXCEPT ![e] = [@ EXCEPT !.pc = "leads", !.i = 1]]

ImportContacts(e) ==
  /\ exec[e].pc = "import"
  /\ Imported(e, Importable(e))
  /\ UNCHANGED <<runs, nruns, enriched, emails, made, faults, takers, lost>>

\* Rows fail and the loop goes on; or the import log cannot be opened and the
\* outer handler takes over.
ImportFailure(e) ==
  /\ exec[e].pc = "import"
  /\ Fault
  /\ \/ \E contacts \in SUBSET Importable(e) : Imported(e, contacts)
     \/ Goto(e, "fail") /\ UNCHANGED leads
  /\ UNCHANGED <<runs, nruns, enriched, emails, made, takers, lost>>

\* Mutants: a lead that failed is counted as processed; the loop stays on it.
FailedAsProcessed(e, ok) ==
  [exec[e] EXCEPT !.pc = "leads", !.i = @ + 1, !.processed = @ + 1]
SameLead(e, ok) ==
  [exec[e] EXCEPT !.pc = "leads",
                  !.processed = IF ok THEN @ + 1 ELSE @,
                  !.failed = IF ok THEN @ ELSE @ + 1]

\* The next lead, this one counted.
Counted(e, ok) ==
  [exec[e] EXCEPT !.pc = "leads", !.i = @ + 1,
                  !.processed = IF ok THEN @ + 1 ELSE @,
                  !.failed = IF ok THEN @ ELSE @ + 1]

NextLead(e, ok) == exec' = [exec EXCEPT ![e] = Counted(e, ok)]

HasLead(e) == exec[e].pc = "leads" /\ exec[e].i <= Len(TheRun(e).leads)

\* No lead answers to the contact.
SkipLead(e) ==
  /\ HasLead(e)
  /\ TheContact(e) \notin leads
  /\ NextLead(e, FALSE)
  /\ UNCHANGED <<runs, nruns, db, faults, takers, lost>>

\* Mutant: contacts without a lead are not left out.
StartAnyLead(e) ==
  /\ HasLead(e)
  /\ Goto(e, IF TheRun(e).options.enrich THEN "enriching" ELSE "generating")
  /\ UNCHANGED <<runs, nruns, db, faults, takers, lost>>

\* Enrichment is skipped if there is one at this moment.
StartLead(e) ==
  /\ HasLead(e)
  /\ TheContact(e) \in leads
  /\ Goto(e, IF TheRun(e).options.enrich /\ TheContact(e) \notin enriched
             THEN "enriching" ELSE "generating")
  /\ UNCHANGED <<runs, nruns, db, faults, takers, lost>>

\* enrich_lead upserts its row after its awaits.
Enrich(e) ==
  /\ exec[e].pc = "enriching"
  /\ enriched' = enriched \cup {TheContact(e)}
  /\ Goto(e, "generating")
  /\ UNCHANGED <<runs, nruns, leads, emails, made, faults, takers, lost>>

\* Hiring signals, score, and one more email row when it is wanted.
Generate(e) ==
  /\ exec[e].pc = "generating"
  /\ Goto(e, "payload")
  /\ IF TheRun(e).options.email
     THEN /\ emails' = [emails EXCEPT ![TheContact(e)] = @ + 1]
          /\ made' = [made EXCEPT ![exec[e].run] = @ + 1]
     ELSE UNCHANGED <<emails, made>>
  /\ UNCHANGED <<runs, nruns, leads, enriched, faults, takers, lost>>

\* build_processed_payload reads the rows; the lead is done.
BuildPayload(e) ==
  /\ exec[e].pc = "payload"
  /\ NextLead(e, TRUE)
  /\ UNCHANGED <<runs, nruns, db, faults, takers, lost>>

\* Any step of a lead may raise; the lead is counted as failed.
LeadFailure(e) ==
  /\ HasLead(e) \/ exec[e].pc \in {"enriching", "generating", "payload"}
  /\ NextLead(e, FALSE)
  /\ UNCHANGED <<runs, nruns, db, faults, takers, lost>>

\* Mutant: any success makes the run completed.
SomeSuccess(processed, failed) ==
  IF processed > 0 THEN "completed" ELSE "failed"

Outcome(processed, failed) ==
  CASE failed = 0                   -> "completed"
    [] failed > 0 /\ processed > 0  -> "partial"
    [] failed > 0 /\ processed = 0  -> "failed"

\* Mutant: complete_run writes the counts only.
CountsOnly(e, status, error) ==
  [runs EXCEPT ![exec[e].run] =
     [@ EXCEPT !.error = error,
               !.processed = exec[e].processed, !.failed = exec[e].failed]]

\* complete_run writes status and counts in one transaction.
Finished(e, status, error) ==
  [runs EXCEPT ![exec[e].run] =
     [@ EXCEPT !.status = status, !.error = error,
               !.processed = exec[e].processed, !.failed = exec[e].failed]]

LoopEnded(e) == exec[e].pc = "leads" /\ ~ HasLead(e)

Complete(e) ==
  /\ LoopEnded(e)
  /\ runs' = Finished(e, Outcome(exec[e].processed, exec[e].failed), FALSE)
  /\ Goto(e, "idle")
  /\ UNCHANGED <<nruns, db, faults, takers, lost>>

\* The outer handler: the run fails with the counts reached so far.
Fail(e) ==
  /\ exec[e].pc = "fail"
  /\ runs' = Finished(e, "failed", TRUE)
  /\ Goto(e, "idle")
  /\ UNCHANGED <<nruns, db, faults, takers, lost>>

\* complete_run inside the try: its failure reaches the outer handler.
CompleteFailure(e) ==
  /\ LoopEnded(e)
  /\ Fault
  /\ Goto(e, "fail")
  /\ UNCHANGED <<runs, nruns, db, takers, lost>>

\* get_run and mark_running are outside the try, and complete_run may fail in
\* the handler: the exception leaves process_run; drain_once goes on with its
\* list, a request answers with an error.
Raise(e) ==
  /\ exec[e].pc \in {"claim", "fail"}
  /\ Fault
  /\ Goto(e, "idle")
  /\ lost' = lost \cup {exec[e].run}
  /\ UNCHANGED <<runs, nruns, db, takers>>

-----------------------------------------------------------------------------
\* The process of an executor dies (maxDuration, restart): locals are gone.
Crash(e) ==
  /\ ~ Idle(e) \/ exec[e].todo # {}
  /\ Fault
  /\ lost' = IF Processing(e) THEN lost \cup {exec[e].run} ELSE lost
  /\ exec' = [exec EXCEPT ![e] = [@ EXCEPT !.pc = "idle", !.todo = {}]]
  /\ UNCHANGED <<runs, nruns, db, takers>>

Init ==
  /\ runs = [r \in RunIds |->
       [mode |-> "async", status |-> "none", leads |-> <<>>,
        options |-> [enrich |-> FALSE, email |-> FALSE], processed |-> 0,
        failed |-> 0, error |-> FALSE]]
  /\ nruns = 0
  /\ leads = {}
  /\ enriched = {}
  /\ emails = [c \in Contacts |-> 0]
  /\ exec = [e \in Executors |-> [pc |-> "idle", todo |-> {}, run |-> 0, i |-> 0,
                                  processed |-> 0, failed |-> 0]]
  /\ faults = 0
  /\ takers = [r \in RunIds |-> {}]
  /\ lost = {}
  /\ made = [r \in RunIds |-> 0]

Drain(d) == ListQueued(d) \/ TakeNext(d)

ProcessRun(e) ==
  \/ MarkRunning(e)
  \/ ImportContacts(e)
  \/ SkipLead(e)
  \/ StartLead(e)
  \/ Enrich(e)
  \/ Generate(e)
  \/ BuildPayload(e)
  \/ LeadFailure(e)
  \/ Complete(e)
  \/ Fail(e)

Failure(e) == ImportFailure(e) \/ CompleteFailure(e) \/ Raise(e) \/ Crash(e)

Next ==
  \/ \E req \in Requests :
       \/ SubmitAsync(req)
       \/ \E h \in Handlers : SubmitSync(h, req)
  \/ \E d \in Drainers : Drain(d)
  \/ \E e \in Executors : ProcessRun(e) \/ Failure(e)

Spec == Init /\ [][Next]_vars

\* The worker polls for ever (a dead one is restarted), and every await ends.
Fairness ==
  /\ \A d \in Drainers : WF_vars(Drain(d))
  /\ \A e \in Executors : WF_vars(ProcessRun(e))

FairSpec == Spec /\ Fairness

-----------------------------------------------------------------------------
(* Properties *)

\* The status a caller polls agrees with the counts beside it, also after two
\* drainers have finished the same run: every lead counted once, in the column
\* the status claims; only an aborted run may be short of leads.
StatusAgreesWithCounts ==
  \A r \in 1 .. nruns :
    LET run == runs[r]
        total == run.processed + run.failed
    IN /\ run.status = "completed" =>
            run.failed = 0 /\ run.processed = Len(run.leads)
       /\ run.status = "partial" =>
            run.failed > 0 /\ run.processed > 0 /\ total = Len(run.leads)
       /\ run.status = "failed" =>
            IF run.error THEN total <= Len(run.leads)
            ELSE run.processed = 0 /\ run.failed = Len(run.leads)

\* A completed run has done its work for every lead of the request: the lead
\* exists, and has an enrichment and an email if they were asked for.
CompletedIsBacked ==
  \A r \in 1 .. nruns :
    runs[r].status = "completed" =>
      \A i \in DOMAIN runs[r].leads :
        LET c == runs[r].leads[i] IN
          /\ c \in leads
          /\ runs[r].options.enrich => c \in enriched
          /\ runs[r].options.email => emails[c] > 0

\* What a finished run reports is what was done.
ReportsTrue == StatusAgreesWithCounts /\ CompletedIsBacked

\* The run of a sync request is processed by that request alone, though the
\* drainers see the same table.
SyncNotDrained ==
  \A r \in 1 .. nruns : runs[r].mode = "sync" => takers[r] \cap Drainers = {}

\* Emails of a run: one per lead for each executor that took it, so that a run
\* taken once never generates (and pays for) an email twice.
OncePerTaker ==
  \A r \in 1 .. nruns : made[r] <= Len(runs[r].leads) * Cardinality(takers[r])

\* A finished run is reopened only by a second executor with a stale list.
NotReopened ==
  [][\A r \in 1 .. nruns :
       runs[r].status \in Terminal /\ runs'[r].status \notin Terminal =>
         Cardinality(takers'[r]) > 1]_vars

\* Runs are not processed twice behind their caller's back: sync runs are left
\* to their request, what a run pays for is bounded by who took it, and finished
\* runs stay finished.
Exclusive == [](SyncNotDrained /\ OncePerTaker) /\ NotReopened

\* A queued run is taken up, in spite of newer runs, batch limits and faults.
QueueServed == \A r \in RunIds : runs[r].status = "queued" ~> runs[r].status # "queued"

\* A run that is running comes to an end unless its processing was lost.
RunsEnd ==
  \A r \in RunIds :
    runs[r].status = "running" ~> runs[r].status \in Terminal \/ r \in lost

\* The table is worked off: no run waits for ever, none runs for ever.
Served == QueueServed /\ RunsEnd
=============================================================================
