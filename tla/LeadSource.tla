----------------------------- MODULE LeadSource -----------------------------
(***************************************************************************)
(* Scheduled imports from the lead source, and the settings they share.    *)
(*                                                                         *)
(* The settings of a workspace are one JSON document.  Every update loads  *)
(* it in one transaction, edits its copy and saves the whole copy in       *)
(* another; a load that fails yields defaults.  A scheduled run (CLI cron  *)
(* or HTTP endpoint, nothing keeps two apart) may first trigger a sourcing *)
(* run and poll it, then fetches pages from the stored cursor, imports     *)
(* them, advances the cursor and processes the leads it created.           *)
(*                                                                         *)
(* Ghost state (read by the properties only): intended, covered, hazards,  *)
(* died; and overlaps, which also bounds how often two cycles overlap.     *)
(***************************************************************************)
EXTENDS Naturals, Sequences, FiniteSets

CONSTANTS
  Runners,      \* sources of scheduled runs, each one run at a time
  Contacts,     \* contacts of the remote system
  NoLead,       \* the id of a lead whose creation was rolled back
  FirstRemote,  \* the remote list at the start
  Choices,      \* settings of the switches an operator may save
  Limit,        \* daily_fetch_limit
  PageCap,      \* contacts per request at most
  MaxPolls,     \* polls before run_max_wait_seconds have passed
  MaxOverlaps,  \* bound: runs and forms started while another is active
  MaxFaults     \* bound: failed transactions and requests, crashes

ASSUME LeadSourceAssumption ==
  /\ NoLead \notin Contacts
  /\ FirstRemote \in Seq(Contacts)
  /\ \A i, j \in DOMAIN FirstRemote : FirstRemote[i] = FirstRemote[j] => i = j
  /\ Choices \subseteq [auto : BOOLEAN, trigger : BOOLEAN, process : BOOLEAN,
                        complete : BOOLEAN]
  /\ Limit \in Nat \ {0}
  /\ PageCap \in Nat \ {0}
  /\ MaxPolls \in Nat
  /\ MaxOverlaps \in Nat
  /\ MaxFaults \in Nat

VARIABLES
  doc,       \* workspaces.lead_source_config
  remote,    \* the contacts the API lists (external)
  leads,     \* contacts with a lead
  emails,    \* email rows of a lead
  processed, \* leads that went through process_imported_leads
  log,       \* import log of the latest run of a runner
  run,       \* program counter and locals of every runner
  form,      \* the settings form an operator has open
  faults,    \* failed transactions, failed requests and crashes so far
  intended,  \* the switches the operator saved last
  covered,   \* contacts fetched since the cursor was last at the front
  overlaps,  \* read-modify-write cycles begun while another was active
  hazards,   \* the windows of Hazards that have been open
  died       \* runners whose run died or could not close its log

vars == <<doc, remote, leads, emails, processed, log, run, form, faults,
          intended, overlaps, covered, hazards, died>>

db == <<leads, emails, processed>>
ghosts == <<intended, overlaps, covered, hazards, died>>

-----------------------------------------------------------------------------
\* What an operator sets: the switches, and whether URL, slug and key are there.
Switches == [auto : BOOLEAN, trigger : BOOLEAN, process : BOOLEAN,
             complete : BOOLEAN]

Outcomes == {"none", "completed", "failed", "timeout", "error"}

\* The last_* fields are for display only and left out.
Doc == [set : Switches, cursor : Nat]

\* The field defaults of LeadSourceConfig.
DefaultDoc ==
  [set |-> [auto |-> FALSE, trigger |-> FALSE, process |-> FALSE,
            complete |-> FALSE],
   cursor |-> 0]

\* The four partial updates of the document.
Updates == {"run", "fetch", "cursor", "auto"}

Pcs == {"idle", "trigger", "polling", "open_log", "fetch", "fetch_failed",
        "ingest", "process", "load", "save"}

Ids == Contacts \cup {NoLead}

Runner == [pc : Pcs, cfg : Doc, copy : Doc, update : Updates, got : Seq(Contacts),
           polls : Nat, todo : Seq(Ids), created : Seq(Ids), outcome : Outcomes]

\* The windows in which the code can lose settings or skip contacts.
Hazards == {"bad_load", "removed"}

NoForm == [open |-> FALSE, copy |-> DefaultDoc]

TypeOK ==
  /\ doc \in Doc
  /\ remote \in Seq(Contacts)
  /\ leads \subseteq Contacts
  /\ emails \in [Contacts -> Nat]
  /\ \A c \in Contacts : emails[c] > 0 => c \in leads
  /\ processed \subseteq leads
  /\ log \in [Runners -> {"none", "running", "completed", "failed"}]
  /\ run \in [Runners -> Runner]
  /\ form \in [open : BOOLEAN, copy : Doc]
  /\ faults \in 0 .. MaxFaults
  /\ intended \in Switches
  /\ covered \subseteq Contacts
  /\ overlaps \in 0 .. MaxOverlaps
  /\ hazards \subseteq Hazards
  /\ died \subseteq Runners

-----------------------------------------------------------------------------
Listed == {remote[i] : i \in DOMAIN remote}

Live(s) == run[s].pc # "idle"

Fault == faults < MaxFaults /\ faults' = faults + 1

Goto(s, pc) == run' = [run EXCEPT ![s].pc = pc]

\* The next partial update.
Update(s, u) == run' = [run EXCEPT ![s] = [@ EXCEPT !.pc = "load", !.update = u]]

IdleRun == [pc |-> "idle", cfg |-> DefaultDoc, copy |-> DefaultDoc,
            update |-> "auto", got |-> <<>>, polls |-> 0, todo |-> <<>>,
            created |-> <<>>, outcome |-> "none"]

\* What is left of a run: the update of last_auto_run_*.
EndRun(s) == run' = [run EXCEPT ![s] = [IdleRun EXCEPT !.pc = "load"]]

-----------------------------------------------------------------------------
(* load_lead_source_config, save_lead_source_config and the updates *)

\* Any exception while loading is answered with defaults.
UpdateLoad(s) ==
  /\ run[s].pc = "load"
  /\ \/ /\ run' = [run EXCEPT ![s] = [@ EXCEPT !.pc = "save", !.copy = doc]]
        /\ UNCHANGED <<faults, hazards>>
     \/ /\ Fault
        /\ run' = [run EXCEPT ![s] = [@ EXCEPT !.pc = "save", !.copy = DefaultDoc]]
        /\ hazards' = hazards \cup {"bad_load"}
  /\ UNCHANGED <<doc, remote, db, log, form, intended, overlaps, covered, died>>

\* Mutant: the cursor is never put back to the front.
NeverWrapped(cursor, n) == cursor + n

\* advance_import_cursor: the cursor of the copy just loaded, or the front.
Advanced(cursor, n) == IF n < Limit THEN 0 ELSE cursor + n

\* Mutant: a fresh document is saved with the updated field.
FromDefaults(s) == [DefaultDoc EXCEPT !.cursor = run[s].copy.cursor]

\* The copy with the fields of the update set: the cursor, or fields for display.
Edited(s) ==
  LET r == run[s] IN
  IF r.update = "cursor"
  THEN [r.copy EXCEPT !.cursor = Advanced(@, Len(r.got))]
  ELSE r.copy

\* Mutant: the import is not blocked by a run that did not complete.
AlwaysImport(r) == "open_log"

\* Where a run goes after its update of the last triggered run.
AfterTrigger(r) == IF r.outcome = "completed" THEN "open_log" ELSE "blocked"

\* Mutant: an import that created a single lead counts as empty.
SeveralCreated(r) == r.cfg.set.process /\ Len(r.created) > 1

\* Only leads this run has created are processed.
HasWork(r) == r.cfg.set.process /\ r.created # <<>>

AfterUpdate(s) ==
  LET r == [run[s] EXCEPT !.copy = DefaultDoc]
      Become(next) == run' = [run EXCEPT ![s] = next]
  IN CASE r.update = "run" /\ AfterTrigger(r) = "open_log" ->
            Become([r EXCEPT !.pc = "open_log"])
       [] r.update = "run" /\ AfterTrigger(r) # "open_log" -> EndRun(s)
       [] r.update = "fetch" -> Become([r EXCEPT !.pc = "load", !.update = "cursor"])
       [] r.update = "cursor" /\ HasWork(r) ->
            Become([r EXCEPT !.pc = "process", !.todo = r.created])
       [] r.update = "cursor" /\ ~ HasWork(r) -> EndRun(s)
       [] r.update = "auto" -> Become(IdleRun)

\* The whole copy is written; an exception is swallowed.
UpdateSave(s) ==
  /\ run[s].pc = "save"
  /\ \/ /\ doc' = Edited(s)
        /\ covered' = IF run[s].update = "cursor" /\ Edited(s).cursor = 0
                      THEN {} ELSE covered
        /\ UNCHANGED faults
     \/ /\ Fault
        /\ UNCHANGED <<doc, covered>>
  /\ AfterUpdate(s)
  /\ UNCHANGED <<remote, db, log, form, intended, overlaps, hazards, died>>

-----------------------------------------------------------------------------
(* run_workspace_auto_import *)

\* Another run or an open form: two read-modify-write cycles may overlap.
Alone(s) == (\A t \in Runners \ {s} : ~ Live(t)) /\ ~ form.open

Overlap(busy) ==
  IF busy THEN overlaps < MaxOverlaps /\ overlaps' = overlaps + 1
  ELSE UNCHANGED overlaps

\* The cron job or a request: load, and go on if switched on and complete.  The
\* trigger and the fetch use this snapshot to the end.
Start(s) ==
  /\ ~ Live(s)
  /\ doc.set.auto
  /\ doc.set.complete
  /\ run' = [run EXCEPT ![s] =
       [IdleRun EXCEPT !.pc = IF doc.set.trigger THEN "trigger" ELSE "open_log",
                       !.cfg = doc]]
  /\ Overlap(~ Alone(s))
  /\ log' = [log EXCEPT ![s] = "none"]
  /\ died' = died \ {s}
  /\ UNCHANGED <<doc, remote, db, form, faults, intended, covered, hazards>>

Triggered(s, outcome) ==
  run' = [run EXCEPT ![s] =
            [@ EXCEPT !.pc = "load", !.update = "run", !.outcome = outcome,
                      !.polls = 0]]

\* POST /runs: refused, finished at once, or to be polled.
Trigger(s) ==
  /\ run[s].pc = "trigger"
  /\ \/ Triggered(s, "completed") /\ UNCHANGED faults
     \/ \E bad \in {"failed", "error"} : Triggered(s, bad) /\ Fault
     \/ Goto(s, "polling") /\ UNCHANGED faults
  /\ UNCHANGED <<doc, remote, db, log, form, ghosts>>

\* Mutant: the deadline is computed anew in the loop.
DeadlineRestarts(s) ==
  /\ run[s].pc = "polling"
  /\ \/ Triggered(s, "completed")
     \/ run' = [run EXCEPT ![s].polls = IF @ >= MaxPolls THEN 0 ELSE @ + 1]
  /\ UNCHANGED <<doc, remote, db, log, form, faults, ghosts>>

\* GET /runs/{id} until terminal or the deadline; a failed request is one more
\* poll.
Poll(s) ==
  /\ run[s].pc = "polling"
  /\ IF run[s].polls >= MaxPolls
     THEN Triggered(s, "timeout") /\ UNCHANGED faults
     ELSE \/ Triggered(s, "completed") /\ UNCHANGED faults
          \/ Triggered(s, "failed") /\ Fault
          \/ run' = [run EXCEPT ![s].polls = @ + 1] /\ UNCHANGED faults
  /\ UNCHANGED <<doc, remote, db, log, form, ghosts>>

-----------------------------------------------------------------------------
(* run_import *)

\* start_import_log.
OpenLog(s) ==
  /\ run[s].pc = "open_log"
  /\ log' = [log EXCEPT ![s] = "running"]
  /\ Goto(s, "fetch")
  /\ UNCHANGED <<doc, remote, db, form, faults, ghosts>>

\* Its failure leaves run_import before there is a log.
OpenLogFailure(s) ==
  /\ run[s].pc = "open_log"
  /\ Fault
  /\ EndRun(s)
  /\ UNCHANGED <<doc, remote, db, log, form, ghosts>>

PageSize(r) ==
  IF Limit - Len(r.got) < PageCap THEN Limit - Len(r.got) ELSE PageCap

\* list_contacts: at most n contacts behind an offset.
ListContacts(offset, n) ==
  LET behind == IF offset < Len(remote) THEN Len(remote) - offset ELSE 0
  IN [i \in 1 .. (IF behind < n THEN behind ELSE n) |-> remote[offset + i]]

\* Mutant: every page starts at the front of the list.
FrontPage(r) == ListContacts(Len(r.got), PageSize(r))

\* The next page, from the cursor of the snapshot on.
Page(r) == ListContacts(r.cfg.cursor + Len(r.got), PageSize(r))

FetchPage(s) ==
  /\ run[s].pc = "fetch"
  /\ LET page == Page(run[s])
         got == run[s].got \o page
         more == Len(got) < Limit /\ Len(page) = PageSize(run[s])
     IN /\ run' = [run EXCEPT ![s] = [@ EXCEPT !.got = got, !.todo = got,
                                       !.pc = IF more THEN "fetch" ELSE "ingest"]]
        /\ covered' = covered \cup {page[i] : i \in DOMAIN page}
  /\ UNCHANGED <<doc, remote, db, log, form, faults, intended, overlaps, hazards, died>>

FetchFailure(s) ==
  /\ run[s].pc = "fetch"
  /\ Fault
  /\ Goto(s, "fetch_failed")
  /\ UNCHANGED <<doc, remote, db, log, form, ghosts>>

\* Mutant: the log is left as it is.
LogLeftRunning(s) ==
  /\ run[s].pc = "fetch_failed"
  /\ EndRun(s)
  /\ UNCHANGED <<doc, remote, db, log, form, faults, ghosts>>

\* _fail_import, then the exception goes on to the scheduler.
FailImport(s) ==
  /\ run[s].pc = "fetch_failed"
  /\ log' = [log EXCEPT ![s] = "failed"]
  /\ EndRun(s)
  /\ UNCHANGED <<doc, remote, db, form, faults, ghosts>>

\* Mutant: the leads a run only found are processed again.
FoundAsCreated(s) ==
  /\ run[s].pc = "ingest"
  /\ run[s].todo # <<>>
  /\ LET r == run[s]
         c == Head(r.todo)
     IN /\ leads' = leads \cup {c}
        /\ run' = [run EXCEPT ![s] =
             [r EXCEPT !.todo = Tail(r.todo), !.created = Append(r.created, c)]]
  /\ UNCHANGED <<doc, remote, emails, processed, log, form, faults, ghosts>>

\* import_contacts, one transaction per contact: a lead is created, or found.
\* Two runs cannot both create it (uq_leads_email_workspace).
IngestContact(s) ==
  /\ run[s].pc = "ingest"
  /\ run[s].todo # <<>>
  /\ LET r == run[s]
         c == Head(r.todo)
     IN /\ leads' = leads \cup {c}
        /\ run' = [run EXCEPT ![s] = [r EXCEPT
             !.todo = Tail(r.todo),
             !.created = IF c \in leads THEN r.created ELSE Append(r.created, c)]]
  /\ UNCHANGED <<doc, remote, emails, processed, log, form, faults, ghosts>>

\* A row that fails is counted, and the loop goes on.  When it is the commit
\* that fails, the id of the lead is on the list already (and not used again).
IngestFailure(s) ==
  /\ run[s].pc = "ingest"
  /\ run[s].todo # <<>>
  /\ Fault
  /\ LET r == run[s] IN
       \/ run' = [run EXCEPT ![s].todo = Tail(r.todo)]
       \/ /\ Head(r.todo) \notin leads
          /\ run' = [run EXCEPT ![s] =
               [r EXCEPT !.todo = Tail(r.todo), !.created = Append(r.created, NoLead)]]
  /\ UNCHANGED <<doc, remote, db, log, form, ghosts>>

\* _finish_import closes the log (an exception is swallowed), then the
\* last_fetch fields are updated.
FinishImport(s) ==
  /\ run[s].pc = "ingest"
  /\ run[s].todo = <<>>
  /\ Update(s, "fetch")
  /\ \/ /\ log' = [log EXCEPT ![s] = "completed"]
        /\ UNCHANGED <<faults, died>>
     \/ /\ Fault
        /\ died' = died \cup {s}
        /\ UNCHANGED log
  /\ UNCHANGED <<doc, remote, db, form, intended, overlaps, covered, hazards>>

-----------------------------------------------------------------------------
(* process_imported_leads *)

\* Mutant: the lead is not looked up before it is worked on.
UnknownLead(s) ==
  /\ run[s].pc = "process"
  /\ run[s].todo # <<>>
  /\ processed' = processed \cup {Head(run[s].todo)}
  /\ run' = [run EXCEPT ![s].todo = Tail(@)]
  /\ UNCHANGED <<doc, remote, leads, emails, log, form, faults, ghosts>>

\* Enrichment and score, then an email row; any of them may fail, and all do
\* when there is no such lead.
ProcessLead(s) ==
  /\ run[s].pc = "process"
  /\ run[s].todo # <<>>
  /\ LET c == Head(run[s].todo) IN
       /\ processed' = processed \cup ({c} \cap leads)
       /\ \/ c \in leads /\ emails' = [emails EXCEPT ![c] = @ + 1]
          \/ UNCHANGED emails
  /\ run' = [run EXCEPT ![s].todo = Tail(@)]
  /\ UNCHANGED <<doc, remote, leads, log, form, faults, ghosts>>

EndProcessing(s) ==
  /\ run[s].pc = "process"
  /\ run[s].todo = <<>>
  /\ EndRun(s)
  /\ UNCHANGED <<doc, remote, db, log, form, faults, ghosts>>

\* The process of a run dies.
Crash(s) ==
  /\ Live(s)
  /\ Fault
  /\ run' = [run EXCEPT ![s] = IdleRun]
  /\ died' = died \cup {s}
  /\ UNCHANGED <<doc, remote, db, log, form, intended, overlaps, covered, hazards>>

-----------------------------------------------------------------------------
(* The rest of the program, the operator, and the remote system. *)

\* An API run or the pipeline generates an email for a lead.
OtherGenerates(c) ==
  /\ c \in leads
  /\ emails[c] = 0
  /\ emails' = [emails EXCEPT ![c] = 1]
  /\ UNCHANGED <<doc, remote, leads, processed, log, run, form, faults, ghosts>>

\* The settings page loads the document, and later saves it as a whole.
OpenForm ==
  /\ ~ form.open
  /\ form' = [open |-> TRUE, copy |-> doc]
  /\ Overlap(\E s \in Runners : Live(s))
  /\ UNCHANGED <<doc, remote, db, log, run, faults, intended, covered, hazards, died>>

SaveForm(switches) ==
  /\ form.open
  /\ doc' = [form.copy EXCEPT !.set = switches]
  /\ intended' = switches
  /\ form' = NoForm
  /\ UNCHANGED <<remote, db, log, run, faults, overlaps, covered, hazards, died>>

Without(c) ==
  LET place == CHOOSE i \in DOMAIN remote : remote[i] = c
  IN SubSeq(remote, 1, place - 1) \o SubSeq(remote, place + 1, Len(remote))

\* New contacts appear at the front.  For the cursor a new contact counts as
\* covered: it is reached after the next turn.
Publish(c) ==
  /\ c \notin Listed
  /\ remote' = <<c>> \o remote
  /\ covered' = covered \cup {c}
  /\ UNCHANGED <<doc, db, log, run, form, faults, intended, overlaps, hazards, died>>

\* A suppressed contact is no longer listed; those behind it move up.
Suppress(c) ==
  /\ c \in Listed
  /\ remote' = Without(c)
  /\ hazards' = hazards \cup {"removed"}
  /\ UNCHANGED <<doc, db, log, run, form, faults, intended, overlaps, covered, died>>

-----------------------------------------------------------------------------
Init ==
  /\ intended \in {set \in Choices : set.auto /\ set.complete}
  /\ doc = [DefaultDoc EXCEPT !.set = intended]
  /\ remote = FirstRemote
  /\ leads = {}
  /\ emails = [c \in Contacts |-> 0]
  /\ processed = {}
  /\ log = [s \in Runners |-> "none"]
  /\ run = [s \in Runners |-> IdleRun]
  /\ form = NoForm
  /\ faults = 0
  /\ covered = {}
  /\ overlaps = 0
  /\ hazards = {}
  /\ died = {}

\* The steps of a run that has been started.
RunStep(s) ==
  \/ UpdateLoad(s)
  \/ UpdateSave(s)
  \/ Trigger(s)
  \/ Poll(s)
  \/ OpenLog(s)
  \/ FetchPage(s)
  \/ FailImport(s)
  \/ IngestContact(s)
  \/ FinishImport(s)
  \/ ProcessLead(s)
  \/ EndProcessing(s)

RunFailure(s) ==
  OpenLogFailure(s) \/ FetchFailure(s) \/ IngestFailure(s) \/ Crash(s)

Scheduled == \E s \in Runners : Start(s) \/ RunStep(s) \/ RunFailure(s)

Environment == \E c \in Contacts : OtherGenerates(c) \/ Publish(c) \/ Suppress(c)

Operator == OpenForm \/ \E switches \in Choices : SaveForm(switches)

Next == Scheduled \/ Environment \/ Operator

Spec == Init /\ [][Next]_vars

\* Scheduled runs only: settings and list stay as they are.
QuietSpec == Init /\ [][Scheduled]_vars

\* The schedule fires for ever; a run goes on until it ends.
Fairness == \A s \in Runners : WF_vars(Start(s)) /\ WF_vars(RunStep(s))

FairQuietSpec == QuietSpec /\ Fairness

-----------------------------------------------------------------------------
(* Properties *)

Importing(s) == run[s].pc \in {"open_log", "fetch", "fetch_failed", "ingest", "process"}

\* A sourcing run that failed, timed out or could not be started blocks the
\* import, whatever the settings have become meanwhile.
NoSilentImport ==
  \A s \in Runners :
    Importing(s) /\ run[s].cfg.set.trigger => run[s].outcome = "completed"

\* The switches are those the operator saved last, through any number of
\* partial updates, unless two read-modify-write cycles overlapped or a load
\* failed.
SettingsKept ==
  overlaps = 0 /\ "bad_load" \notin hazards => doc.set = intended

\* However runs overlap, a contact is processed at most once: one run has
\* created its lead, and only that run generates content for it.
OneEmail == \A c \in Contacts : emails[c] <= 1

\* The cursor has not run past a contact that no run has fetched in this turn
\* of the list, while pages shift under it and imports fail half way.
CursorCovers ==
  overlaps = 0 /\ hazards = {} =>
    \A i \in DOMAIN remote : i <= doc.cursor => remote[i] \in covered

\* What is imported: nothing without a sourcing run that completed, and every
\* row the cursor has passed was fetched.
ImportsSafe == NoSilentImport /\ CursorCovers

TriggerFails == \E s \in Runners : run[s].outcome \in {"failed", "timeout", "error"}

\* Every listed contact becomes a lead: the cursor reaches all pages and comes
\* back to rows that failed, unless sourcing runs fail again and again.
EveryContactImported ==
  \/ []<>TriggerFails
  \/ \A c \in Contacts : c \in Listed ~> c \in leads \/ overlaps > 0 \/ hazards # {}

\* The run s has created the lead of c, and is to process it.
Owes(s, c) ==
  /\ run[s].cfg.set.process
  /\ c \in leads
  /\ \E i \in DOMAIN run[s].created : run[s].created[i] = c

\* A lead created by a run with processing on is processed by it, unless the
\* process died: nothing else looks for it.
CreatedProcessed ==
  \A s \in Runners, c \in Contacts :
    Owes(s, c) ~> c \in processed \/ s \in died

\* From the list to the content: contacts become leads, new leads get content,
\* and get it once.
ContactsServed == EveryContactImported /\ CreatedProcessed /\ []OneEmail

\* An import log does not stay "running", unless the process died or the log
\* could not be written.
LogsClose ==
  \A s \in Runners : log[s] = "running" ~> log[s] # "running" \/ s \in died

\* Polling has a deadline: every run ends.
RunsEnd == \A s \in Runners : Live(s) ~> ~ Live(s)

\* Runs and their logs come to an end.
RunsClose == LogsClose /\ RunsEnd

=============================================================================
