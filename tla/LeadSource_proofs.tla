-------------------------- MODULE LeadSource_proofs --------------------------
(* Proofs about LeadSource: its types, what the import waits for, what the   *)
(* partial updates keep, and which contacts the cursor has passed.           *)
EXTENDS LeadSource, TLAPS, SequenceTheorems

-----------------------------------------------------------------------------
(* Types *)

\* A run that creates leads works on a list of contacts.
Ingests == \A s \in Runners : run[s].pc = "ingest" => run[s].todo \in Seq(Contacts)

Typed == TypeOK /\ Ingests

\* What EndRun leaves.
Ended == [IdleRun EXCEPT !.pc = "load"]

LEMMA DefaultDocTyped == DefaultDoc \in Doc
BY DEF DefaultDoc, Doc, Switches

LEMMA IdleRunTyped ==
  /\ IdleRun \in Runner /\ IdleRun.pc = "idle"
  /\ Ended \in Runner /\ Ended.pc = "load" /\ Ended.update = "auto"
  /\ Ended.got = <<>> /\ Ended.created = <<>>
<1>1. DefaultDoc \in Doc
  BY DefaultDocTyped
<1>2. <<>> \in Seq(Contacts) /\ <<>> \in Seq(Ids) /\ 0 \in Nat
  OBVIOUS
<1>3. IdleRun \in Runner /\ IdleRun.pc = "idle"
  BY <1>1, <1>2 DEF IdleRun, Runner, Pcs, Updates, Outcomes
<1> QED BY <1>3 DEF Ended, IdleRun, Runner, Pcs

LEMMA BecomesTyped ==
  ASSUME Typed, NEW s \in Runners, NEW r \in Runner, run' = [run EXCEPT ![s] = r],
         r.pc = "ingest" => r.todo \in Seq(Contacts)
  PROVE  run' \in [Runners -> Runner] /\ Ingests'
<1>1. run \in [Runners -> Runner]
  BY DEF Typed, TypeOK
<1>2. run' \in [Runners -> Runner]
  BY <1>1
<1>3. \A t \in Runners : run'[t] = IF t = s THEN r ELSE run[t]
  BY <1>1
<1> QED BY <1>2, <1>3 DEF Typed, Ingests

\* The types of everything but the runs.
RestTyped ==
  /\ doc \in Doc
  /\ remote \in Seq(Contacts)
  /\ leads \subseteq Contacts
  /\ emails \in [Contacts -> Nat]
  /\ \A c \in Contacts : emails[c] > 0 => c \in leads
  /\ processed \subseteq leads
  /\ log \in [Runners -> {"none", "running", "completed", "failed"}]
  /\ form \in [open : BOOLEAN, copy : Doc]
  /\ faults \in 0 .. MaxFaults
  /\ intended \in Switches
  /\ covered \subseteq Contacts
  /\ overlaps \in 0 .. MaxOverlaps
  /\ hazards \subseteq Hazards
  /\ died \subseteq Runners

LEMMA FaultTyped == ASSUME Typed, Fault PROVE faults' \in 0 .. MaxFaults
BY LeadSourceAssumption DEF Typed, TypeOK, Fault

LEMMA OverlapTyped ==
  ASSUME Typed, NEW busy, Overlap(busy)
  PROVE  overlaps' \in 0 .. MaxOverlaps
BY LeadSourceAssumption DEF Typed, TypeOK, Overlap

LEMMA RunTyped ==
  ASSUME Typed, NEW s \in Runners
  PROVE  /\ run[s] \in Runner
         /\ run[s].pc = "ingest" => run[s].todo \in Seq(Contacts)
BY DEF Typed, TypeOK, Ingests

LEMMA AdvancedTyped ==
  ASSUME NEW n \in Nat, NEW m \in Nat
  PROVE  Advanced(n, m) \in Nat
BY DEF Advanced

LEMMA EditedTyped ==
  ASSUME Typed, NEW s \in Runners
  PROVE  /\ Edited(s) \in Doc
         /\ Edited(s).set = run[s].copy.set
         /\ Edited(s).cursor = IF run[s].update = "cursor"
                               THEN Advanced(run[s].copy.cursor, Len(run[s].got))
                               ELSE run[s].copy.cursor
<1>1. run[s].copy \in Doc /\ Len(run[s].got) \in Nat
  BY RunTyped DEF Runner
<1>2. run[s].copy.cursor \in Nat
  BY <1>1 DEF Doc
<1>3. Advanced(run[s].copy.cursor, Len(run[s].got)) \in Nat
  BY <1>1, <1>2, AdvancedTyped
<1> QED BY <1>1, <1>3 DEF Edited, Doc

LEMMA AfterUpdateDoes ==
  ASSUME Typed, NEW s \in Runners, AfterUpdate(s)
  PROVE  \E next \in Runner :
           /\ run' = [run EXCEPT ![s] = next]
           /\ \/ /\ run[s].update = "run" /\ AfterTrigger(run[s]) = "open_log"
                 /\ next.pc = "open_log" /\ next.got = run[s].got
                 /\ next.cfg = run[s].cfg /\ next.outcome = run[s].outcome
                 /\ next.created = run[s].created
              \/ /\ run[s].update = "fetch"
                 /\ next.pc = "load" /\ next.update = "cursor"
                 /\ next.got = run[s].got /\ next.cfg = run[s].cfg
                 /\ next.outcome = run[s].outcome /\ next.created = run[s].created
              \/ /\ run[s].update = "cursor"
                 /\ next.pc = "process" /\ next.cfg = run[s].cfg
                 /\ next.outcome = run[s].outcome
                 /\ next.created = run[s].created /\ next.todo = run[s].created
              \/ next = Ended
              \/ next = IdleRun
<1> DEFINE r == [run[s] EXCEPT !.copy = DefaultDoc]
<1>1. r \in Runner /\ r.update = run[s].update /\ r.outcome = run[s].outcome
      /\ r.created = run[s].created /\ r.cfg = run[s].cfg /\ r.got = run[s].got
      /\ r.todo = run[s].todo
  BY RunTyped, DefaultDocTyped DEF Runner
<1>2. AfterTrigger(r) = AfterTrigger(run[s]) /\ HasWork(r) = HasWork(run[s])
  BY <1>1 DEF AfterTrigger, HasWork
<1>3. r.update \in Updates
  BY <1>1 DEF Runner
<1>4. CASE r.update = "run" /\ AfterTrigger(r) = "open_log"
  <2> DEFINE next == [r EXCEPT !.pc = "open_log"]
  <2>1. next \in Runner /\ next.pc = "open_log" /\ next.got = r.got /\ next.cfg = r.cfg
        /\ next.outcome = r.outcome /\ next.created = r.created
    BY <1>1 DEF Runner, Pcs
  <2>2. run' = [run EXCEPT ![s] = next]
    BY <1>4 DEF AfterUpdate
  <2> HIDE DEF next, r
  <2> QED BY <1>1, <1>2, <1>4, <2>1, <2>2
<1>5. CASE r.update = "run" /\ AfterTrigger(r) # "open_log"
  <2>1. run' = [run EXCEPT ![s] = Ended]
    BY <1>5 DEF AfterUpdate, EndRun, Ended
  <2> QED BY <2>1, IdleRunTyped
<1>6. CASE r.update = "fetch"
  <2> DEFINE next == [r EXCEPT !.pc = "load", !.update = "cursor"]
  <2>1. next \in Runner /\ next.pc = "load" /\ next.update = "cursor" /\ next.got = r.got
        /\ next.cfg = r.cfg /\ next.outcome = r.outcome /\ next.created = r.created
    BY <1>1 DEF Runner, Pcs, Updates
  <2>2. run' = [run EXCEPT ![s] = next]
    BY <1>6 DEF AfterUpdate
  <2> HIDE DEF next, r
  <2> QED BY <1>1, <1>6, <2>1, <2>2
<1>7. CASE r.update = "cursor" /\ HasWork(r)
  <2> DEFINE next == [r EXCEPT !.pc = "process", !.todo = r.created]
  <2>1. next \in Runner /\ next.pc = "process" /\ next.todo = r.created
        /\ next.cfg = r.cfg /\ next.outcome = r.outcome /\ next.created = r.created
    BY <1>1 DEF Runner, Pcs
  <2>2. run' = [run EXCEPT ![s] = next]
    BY <1>7 DEF AfterUpdate
  <2> HIDE DEF next, r
  <2> QED BY <1>1, <1>7, <2>1, <2>2
<1>8. CASE r.update = "cursor" /\ ~ HasWork(r)
  <2>1. run' = [run EXCEPT ![s] = Ended]
    BY <1>8 DEF AfterUpdate, EndRun, Ended
  <2> QED BY <2>1, IdleRunTyped
<1>9. CASE r.update = "auto"
  <2>1. run' = [run EXCEPT ![s] = IdleRun]
    BY <1>9 DEF AfterUpdate
  <2> QED BY <2>1, IdleRunTyped
<1> HIDE DEF r
<1> QED BY <1>3, <1>4, <1>5, <1>6, <1>7, <1>8, <1>9 DEF Updates

LEMMA TriggeredTyped ==
  ASSUME Typed, NEW s \in Runners, NEW outcome \in Outcomes, Triggered(s, outcome)
  PROVE  \E next \in Runner :
           /\ run' = [run EXCEPT ![s] = next]
           /\ next.pc = "load" /\ next.update = "run" /\ next.outcome = outcome
           /\ next.cfg = run[s].cfg /\ next.got = run[s].got
           /\ next.created = run[s].created
<1> DEFINE r == [run[s] EXCEPT !.pc = "load", !.update = "run", !.outcome = outcome,
                               !.polls = 0]
<1>1. r \in Runner /\ r.pc = "load" /\ r.update = "run" /\ r.outcome = outcome
      /\ r.cfg = run[s].cfg /\ r.got = run[s].got /\ r.created = run[s].created
  BY RunTyped DEF Runner, Pcs, Updates
<1>2. run' = [run EXCEPT ![s] = r]
  BY DEF Triggered
<1> HIDE DEF r
<1> QED BY <1>1, <1>2

LEMMA GotoTyped ==
  ASSUME Typed, NEW s \in Runners, NEW pc \in Pcs, Goto(s, pc)
  PROVE  \E next \in Runner :
           /\ run' = [run EXCEPT ![s] = next]
           /\ next.pc = pc /\ next.update = run[s].update /\ next.outcome = run[s].outcome
           /\ next.cfg = run[s].cfg /\ next.got = run[s].got
           /\ next.created = run[s].created /\ next.todo = run[s].todo
<1> DEFINE r == [run[s] EXCEPT !.pc = pc]
<1>1. r \in Runner /\ r.pc = pc /\ r.update = run[s].update /\ r.outcome = run[s].outcome
      /\ r.cfg = run[s].cfg /\ r.got = run[s].got /\ r.created = run[s].created
      /\ r.todo = run[s].todo
  BY RunTyped DEF Runner
<1>2. run' = [run EXCEPT ![s] = r]
  BY DEF Goto
<1> HIDE DEF r
<1> QED BY <1>1, <1>2

-----------------------------------------------------------------------------
(* What the steps of a run do *)

\* The import of the run has begun, or is over and being written down.
Past(r) ==
  \/ r.pc \in {"open_log", "fetch", "fetch_failed", "ingest", "process"}
  \/ r.pc \in {"load", "save"} /\ r.update \in {"fetch", "cursor"}

\* The run has yet to fetch pages, from the cursor of its snapshot.
Early(r) ==
  \/ r.pc \in {"trigger", "polling", "open_log", "fetch"}
  \/ r.pc \in {"load", "save"} /\ r.update = "run"

\* The run is under way, and its update of the cursor is not behind it.
Fetching(r) == r.pc \notin {"idle", "process"}

\* The leads the run has created and has not processed.
ToProcess(r) == IF r.pc = "process" THEN r.todo ELSE r.created

\* Only a completed sourcing run, or none, lets an import begin.
LetsImport(s, next) ==
  Past(next) =>
    \/ Past(run[s]) /\ next.cfg = run[s].cfg /\ next.outcome = run[s].outcome
    \/ ~ next.cfg.set.trigger
    \/ next.outcome = "completed"

\* A run fetches along the list, from the snapshot it began with.
Fetches(s, next) ==
  /\ Early(next) =>
       next.cfg = doc \/ (Early(run[s]) /\ next.cfg = run[s].cfg)
  /\ Fetching(next) =>
       \/ next.got = <<>>
       \/ Fetching(run[s]) /\ next.got = run[s].got
       \/ /\ run[s].pc = "fetch" /\ next.got = run[s].got \o Page(run[s])
          /\ covered' = covered \cup {Page(run[s])[i] : i \in DOMAIN Page(run[s])}

\* A run creates a lead, or sets a created one aside, and the rest stays.
Creates(s, next) ==
  \/ /\ ToProcess(next) \in {<<>>, ToProcess(run[s])}
     /\ UNCHANGED <<leads, emails>>
  \/ \E c \in Contacts \ leads :
       /\ ToProcess(next) = Append(ToProcess(run[s]), c)
       /\ leads' = leads \cup {c} /\ UNCHANGED emails
  \/ /\ ToProcess(next) = Append(ToProcess(run[s]), NoLead)
     /\ UNCHANGED <<leads, emails>>
  \/ /\ ToProcess(run[s]) # <<>> /\ ToProcess(next) = Tail(ToProcess(run[s]))
     /\ UNCHANGED leads
     /\ \/ UNCHANGED emails
        \/ LET c == Head(ToProcess(run[s])) IN
             c \in leads /\ emails' = [emails EXCEPT ![c] = @ + 1]

\* A step of a run, other than a save: the settings and the list stay.
Moves(s) ==
  /\ UNCHANGED <<doc, remote, form, intended>>
  /\ covered \subseteq covered' /\ hazards \subseteq hazards'
  /\ Live(s) => UNCHANGED overlaps
  /\ ~ Live(s) => Overlap(~ Alone(s))
  /\ \E next \in Runner :
       /\ run' = [run EXCEPT ![s] = next]
       /\ next.pc = "ingest" => next.todo \in Seq(Contacts)
       /\ next.pc = "save" => next.copy = doc \/ "bad_load" \in hazards'
       /\ LetsImport(s, next)
       /\ Fetches(s, next)
       /\ Creates(s, next)

LEMMA ResetMoves ==
  ASSUME Typed, NEW s \in Runners, Live(s), NEW next \in {IdleRun, Ended},
         run' = [run EXCEPT ![s] = next],
         UNCHANGED <<doc, remote, leads, emails, form, intended, covered, hazards, overlaps>>
  PROVE  Moves(s)
<1>1. next \in Runner /\ next.pc \in {"idle", "load"} /\ next.update = "auto"
      /\ next.got = <<>> /\ next.created = <<>>
  BY IdleRunTyped DEF IdleRun
<1> QED BY <1>1 DEF Moves, LetsImport, Fetches, Creates, Past, Early, Fetching, ToProcess

LEMMA StartMoves == ASSUME Typed, NEW s \in Runners, Start(s) PROVE Moves(s)
<1> DEFINE r == [IdleRun EXCEPT !.pc = IF doc.set.trigger THEN "trigger" ELSE "open_log",
                                !.cfg = doc]
<1>1. /\ r \in Runner /\ r.pc \in {"trigger", "open_log"}
      /\ doc.set.trigger => r.pc = "trigger"
      /\ r.cfg = doc /\ r.got = <<>> /\ r.created = <<>>
  BY IdleRunTyped DEF Typed, TypeOK, Runner, Pcs, IdleRun
<1>2. run' = [run EXCEPT ![s] = r]
  BY DEF Start
<1> HIDE DEF r
<1>3. LetsImport(s, r) /\ Fetches(s, r) /\ Creates(s, r)
  BY <1>1 DEF LetsImport, Fetches, Creates, Past, Early, ToProcess, Start, db
<1> QED BY <1>1, <1>2, <1>3 DEF Moves, Start

LEMMA LoadMoves == ASSUME Typed, NEW s \in Runners, UpdateLoad(s) PROVE Moves(s)
<1>1. ASSUME NEW d \in Doc, d = doc \/ "bad_load" \in hazards',
             run' = [run EXCEPT ![s] = [run[s] EXCEPT !.pc = "save", !.copy = d]]
      PROVE  Moves(s)
  <2> DEFINE r == [run[s] EXCEPT !.pc = "save", !.copy = d]
  <2>1. r \in Runner /\ r.pc = "save" /\ r.copy = d /\ r.update = run[s].update
        /\ r.cfg = run[s].cfg /\ r.outcome = run[s].outcome /\ r.got = run[s].got
        /\ r.created = run[s].created
    BY RunTyped DEF Runner, Pcs
  <2>2. run' = [run EXCEPT ![s] = r]
    BY <1>1
  <2> HIDE DEF r
  <2>3. run[s].pc = "load"
    BY DEF UpdateLoad
  <2>4. LetsImport(s, r) /\ Fetches(s, r) /\ Creates(s, r)
    BY <2>1, <2>3 DEF LetsImport, Fetches, Creates, Past, Early, Fetching, ToProcess,
                      UpdateLoad, db
  <2>5. hazards \subseteq hazards'
    BY DEF UpdateLoad
  <2> QED BY <1>1, <2>1, <2>2, <2>3, <2>4, <2>5 DEF Moves, UpdateLoad, Live
<1>2. doc \in Doc /\ DefaultDoc \in Doc
  BY DefaultDocTyped DEF Typed, TypeOK
<1> QED BY <1>1, <1>2 DEF UpdateLoad

LEMMA TriggerMoves ==
  ASSUME Typed, NEW s \in Runners, Trigger(s) \/ Poll(s) PROVE Moves(s)
<1>1. /\ run[s].pc \in {"trigger", "polling"}
      /\ UNCHANGED <<doc, remote, leads, emails, form, intended, covered, hazards, overlaps>>
  BY DEF Trigger, Poll, db, ghosts
<1>2. ASSUME NEW next \in Runner, run' = [run EXCEPT ![s] = next], next.cfg = run[s].cfg,
             next.got = run[s].got, next.created = run[s].created,
             \/ next.pc = "polling"
             \/ next.pc = "load" /\ next.update = "run"
      PROVE  Moves(s)
  <2>1. LetsImport(s, next) /\ Fetches(s, next) /\ Creates(s, next)
    BY <1>1, <1>2 DEF LetsImport, Fetches, Creates, Past, Early, Fetching, ToProcess
  <2> QED BY <1>1, <1>2, <2>1 DEF Moves, Live
<1>3. ASSUME NEW outcome \in Outcomes, Triggered(s, outcome) PROVE Moves(s)
  BY <1>2, <1>3, TriggeredTyped
<1>4. CASE Goto(s, "polling")
  BY <1>2, <1>4, GotoTyped DEF Pcs
<1>5. CASE run' = [run EXCEPT ![s].polls = run[s].polls + 1] /\ run[s].pc = "polling"
  <2> DEFINE r == [run[s] EXCEPT !.polls = run[s].polls + 1]
  <2>0. run[s] \in Runner /\ run[s].polls + 1 \in Nat
    BY RunTyped DEF Runner
  <2>1. r \in Runner /\ r.pc = "polling" /\ r.cfg = run[s].cfg /\ r.got = run[s].got
        /\ r.created = run[s].created
    BY <1>5, <2>0 DEF Runner
  <2>2. run' = [run EXCEPT ![s] = r]
    BY <1>5
  <2> HIDE DEF r
  <2> QED BY <1>2, <2>1, <2>2
<1>6. CASE Trigger(s)
  BY <1>3, <1>4, <1>6 DEF Trigger, Outcomes
<1>7. CASE Poll(s)
  BY <1>3, <1>5, <1>7 DEF Poll, Outcomes
<1> QED BY <1>6, <1>7

\* The contacts a page lists are contacts.
LEMMA PageTyped ==
  ASSUME Typed, NEW s \in Runners
  PROVE  /\ Page(run[s]) \in Seq(Contacts)
         /\ \A i \in DOMAIN Page(run[s]) :
              /\ run[s].cfg.cursor + Len(run[s].got) + i \in DOMAIN remote
              /\ Page(run[s])[i] = remote[run[s].cfg.cursor + Len(run[s].got) + i]
<1> DEFINE offset == run[s].cfg.cursor + Len(run[s].got)
           n == PageSize(run[s])
           behind == IF offset < Len(remote) THEN Len(remote) - offset ELSE 0
           size == IF behind < n THEN behind ELSE n
<1>1. run[s].cfg \in Doc /\ run[s].got \in Seq(Contacts) /\ remote \in Seq(Contacts)
  BY RunTyped DEF Typed, TypeOK, Runner
<1>2. offset \in Nat /\ Len(remote) \in Nat
  BY <1>1 DEF Doc
<1>3. n \in Int
  BY <1>1, LeadSourceAssumption DEF PageSize
<1>4. Page(run[s]) = [i \in 1 .. size |-> remote[offset + i]]
  BY DEF Page, ListContacts
<1> HIDE DEF n, offset
<1>5. behind \in Nat /\ size \in Int /\ size <= behind
      /\ \A i \in 1 .. size : offset + i \in 1 .. Len(remote)
  BY <1>2, <1>3
<1> DEFINE m == IF size < 0 THEN 0 ELSE size
<1>6. m \in Nat /\ 1 .. size = 1 .. m
  BY <1>5
<1>7. \A i \in 1 .. m : remote[offset + i] \in Contacts
  BY <1>1, <1>5, <1>6
<1>8. Page(run[s]) = [i \in 1 .. m |-> remote[offset + i]]
  BY <1>4, <1>6
<1> HIDE DEF m, size
<1>9. Page(run[s]) \in Seq(Contacts) /\ DOMAIN Page(run[s]) = 1 .. m
  BY <1>6, <1>7, <1>8, SeqDef
<1> QED BY <1>1, <1>2, <1>5, <1>6, <1>8, <1>9 DEF offset

LEMMA FetchMoves == ASSUME Typed, NEW s \in Runners, FetchPage(s) PROVE Moves(s)
<1> DEFINE page == Page(run[s])
           got == run[s].got \o page
           more == Len(got) < Limit /\ Len(page) = PageSize(run[s])
           r == [run[s] EXCEPT !.got = got, !.todo = got,
                               !.pc = IF more THEN "fetch" ELSE "ingest"]
<1>1. run[s] \in Runner /\ run[s].pc = "fetch"
  BY RunTyped DEF FetchPage
<1>2. page \in Seq(Contacts) /\ got \in Seq(Contacts)
  <2>1. page \in Seq(Contacts) /\ run[s].got \in Seq(Contacts)
    BY <1>1, PageTyped DEF Runner
  <2> QED BY <2>1
<1>3. got \in Seq(Ids)
  BY <1>2 DEF Ids
<1>4. run' = [run EXCEPT ![s] = r]
  BY DEF FetchPage
<1> HIDE DEF got, more, page
<1>5. /\ r \in Runner /\ r.pc \in {"fetch", "ingest"} /\ r.got = got /\ r.todo = got
      /\ r.cfg = run[s].cfg /\ r.outcome = run[s].outcome /\ r.created = run[s].created
  BY <1>1, <1>2, <1>3 DEF Runner, Pcs
<1> HIDE DEF r
<1>6. covered' = covered \cup {page[i] : i \in DOMAIN page}
  BY DEF FetchPage, page
<1>7. LetsImport(s, r) /\ Creates(s, r)
  BY <1>1, <1>5 DEF LetsImport, Creates, Past, ToProcess, FetchPage, db
<1>8. Fetches(s, r)
  BY <1>1, <1>5, <1>6 DEF Fetches, Early, Fetching, got, page
<1> QED BY <1>1, <1>2, <1>4, <1>5, <1>6, <1>7, <1>8 DEF Moves, FetchPage, Live

\* The steps that change nothing but where a run is.
LEMMA PlainMoves ==
  ASSUME Typed, NEW s \in Runners,
         OpenLog(s) \/ FetchFailure(s) \/ OpenLogFailure(s) \/ FailImport(s)
         \/ FinishImport(s) \/ EndProcessing(s) \/ Crash(s)
  PROVE  Moves(s)
<1>1. UNCHANGED <<doc, remote, leads, emails, form, intended, covered, hazards, overlaps>>
  BY DEF OpenLog, FetchFailure, OpenLogFailure, FailImport, FinishImport, EndProcessing,
         Crash, db, ghosts
<1>2. Live(s)
  BY DEF OpenLog, FetchFailure, OpenLogFailure, FailImport, FinishImport, EndProcessing,
         Crash, Live
<1>3. CASE OpenLog(s) \/ FetchFailure(s)
  <2>1. \/ run[s].pc = "open_log" /\ Goto(s, "fetch")
        \/ run[s].pc = "fetch" /\ Goto(s, "fetch_failed")
    BY <1>3 DEF OpenLog, FetchFailure
  <2>2. PICK next \in Runner :
           /\ run' = [run EXCEPT ![s] = next]
           /\ next.pc \in {"fetch", "fetch_failed"} /\ run[s].pc \in {"open_log", "fetch"}
           /\ next.pc = "fetch" \/ run[s].pc = "fetch"
           /\ next.outcome = run[s].outcome
           /\ next.cfg = run[s].cfg /\ next.got = run[s].got
           /\ next.created = run[s].created
    BY <2>1, GotoTyped DEF Pcs
  <2>3. LetsImport(s, next) /\ Fetches(s, next) /\ Creates(s, next)
    BY <1>1, <2>2 DEF LetsImport, Fetches, Creates, Past, Early, Fetching, ToProcess
  <2> QED BY <1>1, <1>2, <2>2, <2>3 DEF Moves
<1>4. CASE FinishImport(s)
  <2> DEFINE r == [run[s] EXCEPT !.pc = "load", !.update = "fetch"]
  <2>1. r \in Runner /\ r.pc = "load" /\ r.update = "fetch" /\ r.cfg = run[s].cfg
        /\ r.outcome = run[s].outcome /\ r.got = run[s].got /\ r.created = run[s].created
    BY RunTyped DEF Runner, Pcs, Updates
  <2>2. run' = [run EXCEPT ![s] = r] /\ run[s].pc = "ingest"
    BY <1>4 DEF FinishImport, Update
  <2> HIDE DEF r
  <2>3. LetsImport(s, r) /\ Fetches(s, r) /\ Creates(s, r)
    BY <1>1, <2>1, <2>2 DEF LetsImport, Fetches, Creates, Past, Early, Fetching, ToProcess
  <2> QED BY <1>1, <1>2, <2>1, <2>2, <2>3 DEF Moves
<1>5. CASE OpenLogFailure(s) \/ FailImport(s) \/ EndProcessing(s) \/ Crash(s)
  <2>1. \E next \in {IdleRun, Ended} : run' = [run EXCEPT ![s] = next]
    BY <1>5 DEF OpenLogFailure, FailImport, EndProcessing, Crash, EndRun, Ended
  <2> QED BY <1>1, <1>2, <2>1, ResetMoves
<1> QED BY <1>3, <1>4, <1>5

LEMMA IngestMoves ==
  ASSUME Typed, NEW s \in Runners, IngestContact(s) \/ IngestFailure(s) PROVE Moves(s)
<1>1. /\ run[s].pc = "ingest" /\ run[s].todo # <<>>
      /\ UNCHANGED <<doc, remote, emails, form, intended, covered, hazards, overlaps>>
  BY DEF IngestContact, IngestFailure, db, ghosts
<1>2. run[s] \in Runner /\ run[s].todo \in Seq(Contacts) /\ run[s].created \in Seq(Ids)
  BY <1>1, RunTyped DEF Runner
<1>3. PICK c : c = Head(run[s].todo)
  OBVIOUS
<1>4. PICK rest : rest = Tail(run[s].todo)
  OBVIOUS
<1>5. c \in Contacts /\ rest \in Seq(Contacts) /\ rest \in Seq(Ids)
  BY <1>1, <1>2, <1>3, <1>4 DEF Ids
<1>6. ASSUME NEW created \in Seq(Ids),
             run' = [run EXCEPT ![s] = [run[s] EXCEPT !.todo = rest, !.created = created]],
             \/ created = run[s].created /\ leads' = leads
             \/ created = Append(run[s].created, c) /\ c \notin leads
                /\ leads' = leads \cup {c}
             \/ created = Append(run[s].created, NoLead) /\ leads' = leads
      PROVE  Moves(s)
  <2> DEFINE r == [run[s] EXCEPT !.todo = rest, !.created = created]
  <2>1. r \in Runner /\ r.pc = "ingest" /\ r.todo = rest /\ r.cfg = run[s].cfg
        /\ r.outcome = run[s].outcome /\ r.got = run[s].got /\ r.created = created
    BY <1>1, <1>2, <1>5 DEF Runner
  <2>2. run' = [run EXCEPT ![s] = r]
    BY <1>6
  <2> HIDE DEF r
  <2>3. LetsImport(s, r) /\ Fetches(s, r)
    BY <1>1, <2>1 DEF LetsImport, Fetches, Past, Early, Fetching
  <2>4. Creates(s, r)
    BY <1>1, <1>5, <1>6, <2>1 DEF Creates, ToProcess
  <2> QED BY <1>1, <1>5, <2>1, <2>2, <2>3, <2>4 DEF Moves, Live
<1>7. NoLead \in Ids /\ c \in Ids
  BY <1>5 DEF Ids
<1>8. CASE IngestContact(s)
  <2>1. leads' = leads \cup {c}
    BY <1>3, <1>8 DEF IngestContact
  <2>2. run' = [run EXCEPT ![s] = [run[s] EXCEPT !.todo = rest,
          !.created = IF c \in leads THEN run[s].created ELSE Append(run[s].created, c)]]
    BY <1>3, <1>4, <1>8 DEF IngestContact
  <2>3. CASE c \in leads
    BY <1>2, <1>6, <2>1, <2>2, <2>3
  <2>4. CASE c \notin leads
    <3>1. Append(run[s].created, c) \in Seq(Ids)
      BY <1>2, <1>7
    <3> QED BY <1>6, <2>1, <2>2, <2>4, <3>1
  <2> QED BY <2>3, <2>4
<1>9. CASE IngestFailure(s)
  <2>1. leads' = leads
    BY <1>9 DEF IngestFailure, db
  <2>2. CASE run' = [run EXCEPT ![s].todo = Tail(run[s].todo)]
    <3>1. [run[s] EXCEPT !.todo = rest] = [run[s] EXCEPT !.todo = rest, !.created = run[s].created]
      BY <1>2 DEF Runner
    <3>2. run' = [run EXCEPT ![s] = [run[s] EXCEPT !.todo = rest]]
      BY <1>4, <2>2
    <3> QED BY <1>2, <1>6, <2>1, <3>1, <3>2
  <2>3. CASE run' = [run EXCEPT ![s] = [run[s] EXCEPT !.todo = Tail(run[s].todo),
                                          !.created = Append(run[s].created, NoLead)]]
    <3>1. Append(run[s].created, NoLead) \in Seq(Ids)
      BY <1>2, <1>7
    <3> QED BY <1>4, <1>6, <2>1, <2>3, <3>1
  <2> QED BY <1>9, <2>2, <2>3 DEF IngestFailure
<1> QED BY <1>8, <1>9

LEMMA ProcessMoves == ASSUME Typed, NEW s \in Runners, ProcessLead(s) PROVE Moves(s)
<1>1. /\ run[s].pc = "process" /\ run[s].todo # <<>>
      /\ UNCHANGED <<doc, remote, leads, form, intended, covered, hazards, overlaps>>
  BY DEF ProcessLead, ghosts
<1>2. run[s] \in Runner /\ run[s].todo \in Seq(Ids)
  BY RunTyped DEF Runner
<1>7. Tail(run[s].todo) \in Seq(Ids)
  BY <1>1, <1>2
<1> DEFINE r == [run[s] EXCEPT !.todo = Tail(run[s].todo)]
<1>3. r \in Runner /\ r.pc = "process" /\ r.todo = Tail(run[s].todo) /\ r.cfg = run[s].cfg
      /\ r.outcome = run[s].outcome
  BY <1>1, <1>2, <1>7 DEF Runner
<1>4. run' = [run EXCEPT ![s] = r]
  BY DEF ProcessLead
<1> HIDE DEF r
<1>5. LetsImport(s, r) /\ Fetches(s, r)
  BY <1>1, <1>3 DEF LetsImport, Fetches, Past, Early, Fetching
<1>6. Creates(s, r)
  BY <1>1, <1>3 DEF Creates, ToProcess, ProcessLead
<1> QED BY <1>1, <1>3, <1>4, <1>5, <1>6 DEF Moves, Live

LEMMA RunMoves ==
  ASSUME Typed, NEW s \in Runners, Start(s) \/ RunStep(s) \/ RunFailure(s)
  PROVE  UpdateSave(s) \/ Moves(s)
BY StartMoves, LoadMoves, TriggerMoves, FetchMoves, PlainMoves, IngestMoves, ProcessMoves
   DEF RunStep, RunFailure

-----------------------------------------------------------------------------
(* Type correctness *)

LEMMA RunsTyped ==
  ASSUME Typed, NEW s \in Runners, Moves(s) \/ UpdateSave(s)
  PROVE  run' \in [Runners -> Runner] /\ Ingests'
<1>1. PICK next \in Runner :
        run' = [run EXCEPT ![s] = next] /\ (next.pc = "ingest" => next.todo \in Seq(Contacts))
  BY AfterUpdateDoes, IdleRunTyped DEF UpdateSave, Moves
<1> QED BY <1>1, BecomesTyped

LEMMA RestStep ==
  ASSUME Typed, NEW s \in Runners, Start(s) \/ RunStep(s) \/ RunFailure(s)
  PROVE  RestTyped'
<1>0. RestTyped
  BY DEF Typed, TypeOK, RestTyped
<1>1. CASE Start(s)
  BY <1>0, <1>1, OverlapTyped DEF Start, RestTyped, db
<1>2. CASE UpdateLoad(s)
  BY <1>0, <1>2, FaultTyped DEF UpdateLoad, RestTyped, db, Hazards
<1>3. CASE UpdateSave(s)
  BY <1>0, <1>3, EditedTyped, FaultTyped DEF UpdateSave, RestTyped, db
<1>4. CASE Trigger(s) \/ Poll(s)
  BY <1>0, <1>4, FaultTyped DEF Trigger, Poll, RestTyped, db, ghosts
<1>5. CASE OpenLog(s) \/ FailImport(s)
  BY <1>0, <1>5 DEF OpenLog, FailImport, RestTyped, db, ghosts
<1>6. CASE FetchPage(s)
  <2>1. {Page(run[s])[i] : i \in DOMAIN Page(run[s])} \subseteq Contacts
    BY PageTyped
  <2>2. covered' = covered \cup {Page(run[s])[i] : i \in DOMAIN Page(run[s])}
    BY <1>6 DEF FetchPage
  <2>3. covered' \subseteq Contacts
    BY <1>0, <2>1, <2>2 DEF RestTyped
  <2> QED BY <1>0, <1>6, <2>3 DEF FetchPage, RestTyped, db
<1>7. CASE IngestContact(s)
  <2>1. run[s].todo \in Seq(Contacts) /\ run[s].todo # <<>>
    BY <1>7, RunTyped DEF IngestContact
  <2>2. Head(run[s].todo) \in Contacts
    BY <2>1
  <2>3. leads' = leads \cup {Head(run[s].todo)}
    BY <1>7 DEF IngestContact
  <2> QED BY <1>0, <1>7, <2>2, <2>3 DEF IngestContact, RestTyped, ghosts
<1>8. CASE FinishImport(s)
  BY <1>0, <1>8, FaultTyped DEF FinishImport, RestTyped, db
<1>9. CASE ProcessLead(s)
  <2>1. processed' \subseteq leads /\ leads' = leads
    BY <1>0, <1>9 DEF ProcessLead, RestTyped
  <2>2. emails' \in [Contacts -> Nat] /\ \A c \in Contacts : emails'[c] > 0 => c \in leads
    <3>1. PICK c : c = Head(run[s].todo)
      OBVIOUS
    <3>2. emails' = emails \/ (c \in leads /\ emails' = [emails EXCEPT ![c] = emails[c] + 1])
      BY <1>9, <3>1 DEF ProcessLead
    <3>3. CASE c \in leads /\ emails' = [emails EXCEPT ![c] = emails[c] + 1]
      <4>1. c \in Contacts /\ emails[c] + 1 \in Nat
        BY <1>0, <3>3 DEF RestTyped
      <4> QED BY <1>0, <3>3, <4>1 DEF RestTyped
    <3> QED BY <1>0, <3>2, <3>3 DEF RestTyped
  <2> QED BY <1>0, <1>9, <2>1, <2>2 DEF ProcessLead, RestTyped, ghosts
<1>10. CASE EndProcessing(s)
  BY <1>0, <1>10 DEF EndProcessing, RestTyped, db, ghosts
<1>11. CASE RunFailure(s)
  BY <1>0, <1>11, FaultTyped
     DEF RunFailure, OpenLogFailure, FetchFailure, IngestFailure, Crash, RestTyped, db, ghosts
<1> QED BY <1>1, <1>2, <1>3, <1>4, <1>5, <1>6, <1>7, <1>8, <1>9, <1>10, <1>11 DEF RunStep

LEMMA WithoutTyped ==
  ASSUME Typed, NEW c \in Listed
  PROVE  Without(c) \in Seq(Contacts)
<1> DEFINE place == CHOOSE i \in DOMAIN remote : remote[i] = c
<1>1. remote \in Seq(Contacts)
  BY DEF Typed, TypeOK
<1>2. place \in 1 .. Len(remote)
  BY <1>1 DEF Listed
<1> HIDE DEF place
<1>3. SubSeq(remote, 1, place - 1) \in Seq(Contacts)
  <2>1. 1 \in Int /\ place - 1 \in Int /\ \A i \in 1 .. place - 1 : remote[i] \in Contacts
    BY <1>1, <1>2
  <2> QED BY <2>1, SubSeqProperties
<1>4. SubSeq(remote, place + 1, Len(remote)) \in Seq(Contacts)
  <2>1. /\ place + 1 \in Int /\ Len(remote) \in Int
        /\ \A i \in place + 1 .. Len(remote) : remote[i] \in Contacts
    BY <1>1, <1>2
  <2> QED BY <2>1, SubSeqProperties
<1> QED BY <1>3, <1>4, ConcatProperties DEF Without, place

LEMMA OthersTyped ==
  ASSUME Typed, Environment \/ Operator \/ UNCHANGED vars
  PROVE  Typed'
<1>0. RestTyped /\ run \in [Runners -> Runner] /\ Ingests
  BY DEF Typed, TypeOK, RestTyped
<1>1. run' = run
  BY DEF Environment, Operator, OtherGenerates, Publish, Suppress, OpenForm, SaveForm, vars, db
<1>2. run' \in [Runners -> Runner] /\ Ingests'
  BY <1>0, <1>1 DEF Ingests
<1>3. ASSUME NEW c \in Contacts, OtherGenerates(c) PROVE RestTyped'
  BY <1>0, <1>3 DEF OtherGenerates, RestTyped, ghosts
<1>4. ASSUME NEW c \in Contacts, Publish(c) PROVE RestTyped'
  <2>1. remote' \in Seq(Contacts)
    BY <1>0, <1>4 DEF Publish, RestTyped
  <2> QED BY <1>0, <1>4, <2>1 DEF Publish, RestTyped, db
<1>5. ASSUME NEW c \in Contacts, Suppress(c) PROVE RestTyped'
  BY <1>0, <1>5, WithoutTyped DEF Suppress, RestTyped, db, Hazards
<1>6. ASSUME OpenForm PROVE RestTyped'
  BY <1>0, <1>6, OverlapTyped DEF OpenForm, RestTyped, db
<1>7. ASSUME NEW switches \in Choices, SaveForm(switches) PROVE RestTyped'
  <2>1. switches \in Switches
    BY LeadSourceAssumption DEF Switches
  <2>2. [form.copy EXCEPT !.set = switches] \in Doc
    BY <1>0, <2>1 DEF RestTyped, Doc
  <2>3. NoForm \in [open : BOOLEAN, copy : Doc]
    BY DefaultDocTyped DEF NoForm
  <2> QED BY <1>0, <1>7, <2>1, <2>2, <2>3 DEF SaveForm, RestTyped, db
<1>8. ASSUME UNCHANGED vars PROVE RestTyped'
  BY <1>0, <1>8 DEF vars, RestTyped
<1>9. RestTyped'
  BY <1>3, <1>4, <1>5, <1>6, <1>7, <1>8 DEF Environment, Operator
<1> QED BY <1>2, <1>9 DEF Typed, TypeOK, RestTyped

LEMMA TypedInit == ASSUME Init PROVE Typed
<1>1. \A set \in Choices : set \in Switches
  BY LeadSourceAssumption DEF Switches
<1>2. doc \in Doc /\ intended \in Switches
  BY <1>1, DefaultDocTyped DEF Init, Doc
<1>3. form \in [open : BOOLEAN, copy : Doc]
  BY DefaultDocTyped DEF Init, NoForm
<1>4. run \in [Runners -> Runner] /\ Ingests
  BY IdleRunTyped DEF Init, Ingests
<1> QED BY <1>2, <1>3, <1>4, LeadSourceAssumption DEF Init, Typed, TypeOK

LEMMA TypedStep == ASSUME Typed, [Next]_vars PROVE Typed'
<1>1. ASSUME NEW s \in Runners, Start(s) \/ RunStep(s) \/ RunFailure(s) PROVE Typed'
  <2>1. run' \in [Runners -> Runner] /\ Ingests'
    BY <1>1, RunMoves, RunsTyped
  <2>2. RestTyped'
    BY <1>1, RestStep
  <2> QED BY <2>1, <2>2 DEF Typed, TypeOK, RestTyped
<1> QED BY <1>1, OthersTyped DEF Next, Scheduled

\* Every reachable state is well typed: only imported contacts are processed or
\* get emails, and a run ingests contacts, never the id of a lead rolled back.
THEOREM TypeCorrect == Spec => []TypeOK
<1>1. Init => Typed
  BY TypedInit
<1>2. Typed /\ [Next]_vars => Typed'
  BY TypedStep
<1>3. Typed => TypeOK
  BY DEF Typed
<1> QED BY <1>1, <1>2, <1>3, PTL DEF Spec

-----------------------------------------------------------------------------
(* Imports wait for their sourcing run *)

\* NoSilentImport, to the update of the cursor and beyond.
Completed ==
  \A s \in Runners :
    Past(run[s]) /\ run[s].cfg.set.trigger => run[s].outcome = "completed"

\* A save that begins an import follows a completed sourcing run.
LEMMA SavedLetsImport ==
  ASSUME Typed, NEW s \in Runners, UpdateSave(s)
  PROVE  \E next \in Runner : run' = [run EXCEPT ![s] = next] /\ LetsImport(s, next)
<1>1. run[s].pc = "save" /\ AfterUpdate(s)
  BY DEF UpdateSave
<1>2. PICK next \in Runner :
        /\ run' = [run EXCEPT ![s] = next]
        /\ \/ run[s].update = "run" /\ AfterTrigger(run[s]) = "open_log"
              /\ next.outcome = run[s].outcome
           \/ /\ run[s].update \in {"fetch", "cursor"}
              /\ next.cfg = run[s].cfg /\ next.outcome = run[s].outcome
           \/ next = Ended
           \/ next = IdleRun
  BY <1>1, AfterUpdateDoes
<1>3. CASE run[s].update = "run" /\ AfterTrigger(run[s]) = "open_log"
           /\ next.outcome = run[s].outcome
  BY <1>2, <1>3 DEF LetsImport, AfterTrigger
<1>4. CASE run[s].update \in {"fetch", "cursor"}
           /\ next.cfg = run[s].cfg /\ next.outcome = run[s].outcome
  BY <1>1, <1>2, <1>4 DEF LetsImport, Past
<1>5. CASE next = Ended \/ next = IdleRun
  BY <1>2, <1>5, IdleRunTyped DEF LetsImport, Past
<1> QED BY <1>2, <1>3, <1>4, <1>5

LEMMA CompletedInit == ASSUME Init PROVE Completed
BY IdleRunTyped DEF Init, Completed, Past

LEMMA CompletedStep == ASSUME Typed, Completed, [Next]_vars PROVE Completed'
<1>1. ASSUME NEW s \in Runners, Start(s) \/ RunStep(s) \/ RunFailure(s) PROVE Completed'
  <2>1. PICK next \in Runner : run' = [run EXCEPT ![s] = next] /\ LetsImport(s, next)
    BY <1>1, RunMoves, SavedLetsImport DEF Moves
  <2>2. \A t \in Runners : run'[t] = IF t = s THEN next ELSE run[t]
    BY <2>1 DEF Typed, TypeOK
  <2>3. Past(next) /\ next.cfg.set.trigger => next.outcome = "completed"
    BY <2>1 DEF LetsImport, Completed
  <2>4. ASSUME NEW t \in Runners, Past(run'[t]), run'[t].cfg.set.trigger
        PROVE  run'[t].outcome = "completed"
    BY <2>2, <2>3, <2>4 DEF Completed
  <2> QED BY <2>4 DEF Completed, Past
<1>2. ASSUME run' = run PROVE Completed'
  BY <1>2 DEF Completed, Past
<1>3. Environment \/ Operator \/ UNCHANGED vars => run' = run
  BY DEF Environment, Operator, OtherGenerates, Publish, Suppress, OpenForm, SaveForm, vars, db
<1> QED BY <1>1, <1>2, <1>3 DEF Next, Scheduled

-----------------------------------------------------------------------------
(* What the updates of the settings keep *)

\* While no two read-modify-write cycles have overlapped, none do.
Apart == overlaps = 0 => \A s \in Runners : Live(s) => Alone(s)

\* What is about to be saved is the document with the switches the operator set,
\* unless a load failed.
Copied ==
  overlaps = 0 /\ "bad_load" \notin hazards =>
    /\ doc.set = intended
    /\ form.open => form.copy = doc
    /\ \A s \in Runners : run[s].pc = "save" => run[s].copy = doc

LEMMA ApartInit == ASSUME Init PROVE Apart
BY IdleRunTyped DEF Init, Apart, Live

LEMMA RunsApart ==
  ASSUME Typed, Apart, NEW s \in Runners, NEW next,
         run' = [run EXCEPT ![s] = next], form' = form,
         Live(s) => UNCHANGED overlaps,
         ~ Live(s) => Overlap(~ Alone(s)),
         overlaps' = 0
  PROVE  overlaps = 0 /\ Alone(s) /\ \A t \in Runners : Live(t)' => t = s /\ Alone(t)'
<1>1. overlaps = 0 /\ Alone(s)
  BY DEF Overlap, Apart, Typed, TypeOK
<1>2. \A t \in Runners : t # s => ~ Live(t)
  BY <1>1 DEF Alone
<1>3. \A t \in Runners : t # s => run'[t] = run[t]
  BY DEF Typed, TypeOK
<1>4. \A t \in Runners : t # s => ~ (Live(t)')
  BY <1>2, <1>3 DEF Live
<1>5. Alone(s)'
  BY <1>1, <1>4 DEF Alone
<1> QED BY <1>1, <1>4, <1>5

LEMMA ApartStep == ASSUME Typed, Apart, [Next]_vars PROVE Apart'
<1>1. ASSUME NEW s \in Runners, Start(s) \/ RunStep(s) \/ RunFailure(s) PROVE Apart'
  <2>1. CASE UpdateSave(s)
    <3>1. Live(s) /\ form' = form /\ overlaps' = overlaps
      BY <2>1 DEF UpdateSave, Live
    <3>2. PICK next \in Runner : run' = [run EXCEPT ![s] = next]
      BY <2>1, AfterUpdateDoes DEF UpdateSave
    <3> QED BY <3>1, <3>2, RunsApart DEF Apart
  <2>2. CASE Moves(s)
    BY <2>2, RunsApart DEF Apart, Moves
  <2> QED BY <1>1, <2>1, <2>2, RunMoves
<1>2. ASSUME run' = run, overlaps' = overlaps, ~ form'.open \/ form' = form PROVE Apart'
  BY <1>2 DEF Apart, Alone, Live
<1>3. CASE OpenForm
  BY <1>3 DEF OpenForm, Overlap, Apart, Live, Typed, TypeOK
<1>4. ASSUME NEW switches \in Choices, SaveForm(switches) PROVE Apart'
  BY <1>2, <1>4 DEF SaveForm, NoForm
<1>5. ASSUME NEW c \in Contacts, OtherGenerates(c) \/ Publish(c) \/ Suppress(c) PROVE Apart'
  BY <1>2, <1>5 DEF OtherGenerates, Publish, Suppress, ghosts
<1>6. CASE UNCHANGED vars
  BY <1>2, <1>6 DEF vars
<1> QED BY <1>1, <1>3, <1>4, <1>5, <1>6 DEF Next, Scheduled, Environment, Operator

LEMMA CopiedInit == ASSUME Init PROVE Copied
<1>1. doc.set = intended /\ ~ form.open /\ \A s \in Runners : run[s].pc = "idle"
  BY IdleRunTyped DEF Init, NoForm, DefaultDoc
<1> QED BY <1>1 DEF Copied

LEMMA CopiedStep == ASSUME Typed, Apart, Copied, [Next]_vars PROVE Copied'
<1> SUFFICES ASSUME overlaps' = 0, "bad_load" \notin hazards'
             PROVE  /\ doc'.set = intended'
                    /\ form'.open => form'.copy = doc'
                    /\ \A s \in Runners : run'[s].pc = "save" => run'[s].copy = doc'
  BY DEF Copied
<1>1. ASSUME NEW s \in Runners, Moves(s) PROVE Copied'
  <2>1. PICK next \in Runner : /\ run' = [run EXCEPT ![s] = next]
                               /\ next.pc = "save" => next.copy = doc
    BY <1>1 DEF Moves
  <2>2. overlaps = 0 /\ "bad_load" \notin hazards /\ UNCHANGED <<doc, form, intended>>
    BY <1>1, <2>1, RunsApart DEF Moves
  <2>3. \A t \in Runners : run'[t] = IF t = s THEN next ELSE run[t]
    BY <2>1 DEF Typed, TypeOK
  <2> QED BY <2>1, <2>2, <2>3 DEF Copied
<1>2. ASSUME NEW s \in Runners, UpdateSave(s) PROVE Copied'
  <2>1. Live(s) /\ UNCHANGED <<form, overlaps, hazards, intended>> /\ run[s].pc = "save"
    BY <1>2 DEF UpdateSave, Live
  <2>2. PICK next \in Runner : run' = [run EXCEPT ![s] = next] /\ next.pc # "save"
    BY <1>2, AfterUpdateDoes, IdleRunTyped DEF UpdateSave
  <2>3. overlaps = 0 /\ Alone(s) /\ \A t \in Runners : Live(t)' => t = s
    BY <2>1, <2>2, RunsApart
  <2>4. ~ form.open
    BY <2>3 DEF Alone
  <2>5. run'[s] = next
    BY <2>2 DEF Typed, TypeOK
  <2>6. \A t \in Runners : run'[t].pc # "save"
    BY <2>2, <2>3, <2>5 DEF Live
  <2>7. doc' = doc \/ doc' = Edited(s)
    BY <1>2 DEF UpdateSave
  <2>8. doc'.set = doc.set
    BY <2>1, <2>3, <2>7, EditedTyped DEF Copied
  <2> QED BY <2>1, <2>3, <2>4, <2>6, <2>8 DEF Copied
<1>3. ASSUME OpenForm PROVE Copied'
  BY <1>3 DEF OpenForm, Overlap, Copied, Typed, TypeOK
<1>4. ASSUME NEW switches \in Choices, SaveForm(switches) PROVE Copied'
  <2>1. form.open /\ overlaps = 0 /\ "bad_load" \notin hazards /\ run' = run
        /\ intended' = switches /\ ~ form'.open
    BY <1>4 DEF SaveForm, NoForm
  <2>2. \A s \in Runners : ~ Live(s)
    BY <2>1 DEF Apart, Alone
  <2>3. form.copy \in Doc /\ doc' = [form.copy EXCEPT !.set = switches]
    BY <1>4 DEF SaveForm, Typed, TypeOK
  <2>4. doc'.set = switches
    BY <2>3 DEF Doc
  <2> QED BY <2>1, <2>2, <2>4 DEF Copied, Live
<1>5. ASSUME NEW c \in Contacts, OtherGenerates(c) \/ Publish(c) \/ Suppress(c) PROVE Copied'
  BY <1>5 DEF OtherGenerates, Publish, Suppress, ghosts, Copied
<1>6. ASSUME UNCHANGED vars PROVE Copied'
  BY <1>6 DEF vars, Copied
<1>7. Copied'
  BY <1>1, <1>2, <1>3, <1>4, <1>5, <1>6, RunMoves DEF Next, Scheduled, Environment, Operator
<1> QED BY <1>7 DEF Copied

-----------------------------------------------------------------------------
(* What the cursor has passed *)

\* The first n contacts of the list are covered.
Reached(n) == \A i \in DOMAIN remote : i <= n => remote[i] \in covered

\* Runs fetch on from the stored cursor, and have covered what they have got.
Tracked ==
  overlaps = 0 /\ hazards = {} =>
    /\ Reached(doc.cursor)
    /\ \A s \in Runners : Early(run[s]) => run[s].cfg.cursor = doc.cursor
    /\ \A s \in Runners : Fetching(run[s]) => Reached(doc.cursor + Len(run[s].got))

LEMMA TrackedInit == ASSUME Init PROVE Tracked
<1>1. doc.cursor = 0 /\ DOMAIN remote = 1 .. Len(remote)
  BY LeadSourceAssumption DEF Init, DefaultDoc
<1>2. \A i \in DOMAIN remote : ~ (i <= doc.cursor)
  BY <1>1
<1> QED BY <1>1, <1>2, IdleRunTyped DEF Init, Tracked, Reached, Early, Fetching

\* Another page is behind what has been fetched.
LEMMA PageReached ==
  ASSUME Typed, NEW s \in Runners, NEW got,
         run[s].cfg.cursor = doc.cursor, Reached(doc.cursor + Len(run[s].got)),
         got = run[s].got \o Page(run[s]), remote' = remote,
         covered' = covered \cup {Page(run[s])[i] : i \in DOMAIN Page(run[s])},
         NEW i \in DOMAIN remote, i <= doc.cursor + Len(got)
  PROVE  remote[i] \in covered'
<1> DEFINE n == doc.cursor + Len(run[s].got)
           page == Page(run[s])
<1>1. /\ run[s].got \in Seq(Contacts) /\ page \in Seq(Contacts)
      /\ doc.cursor \in Nat /\ remote \in Seq(Contacts)
  BY RunTyped, PageTyped DEF Typed, TypeOK, Runner, Doc
<1>2. n \in Nat /\ i \in Nat /\ Len(page) \in Nat /\ DOMAIN page = 1 .. Len(page)
  BY <1>1
<1>3. Len(got) = Len(run[s].got) + Len(page)
  BY <1>1
<1>4. \A k \in DOMAIN page : page[k] = remote[n + k]
  BY PageTyped
<1>5. CASE i <= n
  BY <1>5 DEF Reached
<1>6. CASE ~ (i <= n)
  <2>1. i <= n + Len(page)
    <3>1. Len(run[s].got) \in Nat /\ Len(page) \in Nat /\ doc.cursor \in Nat /\ i \in Nat
      BY <1>1, <1>2
    <3> HIDE DEF page
    <3> QED BY <1>3, <3>1
  <2> HIDE DEF n, page
  <2>2. i - n \in DOMAIN page /\ n + (i - n) = i
    BY <1>2, <1>6, <2>1
  <2>3. page[i - n] = remote[i]
    BY <1>4, <2>2
  <2> QED BY <2>2, <2>3 DEF page
<1> QED BY <1>5, <1>6

LEMMA MovesTracked ==
  ASSUME Typed, Apart, Tracked, NEW s \in Runners, Moves(s)
  PROVE  Tracked'
<1> SUFFICES ASSUME overlaps' = 0, hazards' = {}
             PROVE  Tracked'
  BY DEF Tracked
<1>1. PICK next \in Runner : run' = [run EXCEPT ![s] = next] /\ Fetches(s, next)
  BY DEF Moves
<1>2. /\ overlaps = 0 /\ hazards = {} /\ doc' = doc /\ remote' = remote
      /\ covered \subseteq covered'
  BY <1>1, RunsApart DEF Moves
<1>3. \A t \in Runners : run'[t] = IF t = s THEN next ELSE run[t]
  BY <1>1 DEF Typed, TypeOK
<1>4. \A n : Reached(n) => Reached(n)'
  BY <1>2 DEF Reached
<1>5. Early(next) => next.cfg.cursor = doc.cursor
  BY <1>1, <1>2 DEF Fetches, Tracked
<1>6. ASSUME Fetching(next) PROVE Reached(doc.cursor + Len(next.got))'
  <2>1. CASE next.got = <<>>
    <3>1. doc.cursor + Len(next.got) = doc.cursor
      BY <2>1 DEF Typed, TypeOK, Doc
    <3>2. Reached(doc.cursor)
      BY <1>2 DEF Tracked
    <3> QED BY <1>2, <3>1, <3>2 DEF Reached
  <2>2. CASE Fetching(run[s]) /\ next.got = run[s].got
    <3>1. Reached(doc.cursor + Len(next.got))
      BY <1>2, <2>2 DEF Tracked
    <3> QED BY <1>2, <3>1 DEF Reached
  <2>3. CASE /\ run[s].pc = "fetch" /\ next.got = run[s].got \o Page(run[s])
             /\ covered' = covered \cup {Page(run[s])[i] : i \in DOMAIN Page(run[s])}
    <3>1. Early(run[s]) /\ Fetching(run[s])
      BY <2>3 DEF Early, Fetching
    <3>2. run[s].cfg.cursor = doc.cursor /\ Reached(doc.cursor + Len(run[s].got))
      BY <1>2, <3>1 DEF Tracked
    <3>3. \A i \in DOMAIN remote : i <= doc.cursor + Len(next.got) => remote[i] \in covered'
      BY <1>2, <2>3, <3>2, PageReached
    <3> QED BY <1>2, <3>3 DEF Reached
  <2> QED BY <1>1, <1>6, <2>1, <2>2, <2>3 DEF Fetches
<1>7. Reached(doc.cursor)'
  BY <1>2, <1>4 DEF Tracked, Reached
<1>8. ASSUME NEW t \in Runners, Early(run'[t]) PROVE run'[t].cfg.cursor = doc'.cursor
  BY <1>2, <1>3, <1>5, <1>8 DEF Tracked
<1>9. ASSUME NEW t \in Runners, Fetching(run'[t]) PROVE Reached(doc.cursor + Len(run[t].got))'
  <2>1. CASE t = s
    BY <1>3, <1>6, <1>9, <2>1 DEF Reached
  <2>2. CASE t # s
    BY <1>2, <1>3, <1>9, <2>2 DEF Tracked, Reached
  <2> QED BY <2>1, <2>2
<1> QED BY <1>7, <1>8, <1>9 DEF Tracked, Early, Fetching

LEMMA SaveTracked ==
  ASSUME Typed, Apart, Copied, Tracked, NEW s \in Runners, UpdateSave(s)
  PROVE  Tracked'
<1> SUFFICES ASSUME overlaps' = 0, hazards' = {}
             PROVE  Tracked'
  BY DEF Tracked
<1>1. /\ UNCHANGED <<form, remote, overlaps, hazards>> /\ run[s].pc = "save"
      /\ Live(s) /\ AfterUpdate(s)
  BY DEF UpdateSave, Live
<1>2. PICK next \in Runner :
        /\ run' = [run EXCEPT ![s] = next]
        /\ \/ /\ run[s].update = "run"
              /\ next.pc = "open_log" /\ next.got = run[s].got /\ next.cfg = run[s].cfg
           \/ /\ run[s].update = "fetch"
              /\ next.pc = "load" /\ next.update = "cursor" /\ next.got = run[s].got
           \/ run[s].update = "cursor" /\ next.pc = "process"
           \/ next = Ended
           \/ next = IdleRun
  BY <1>1, AfterUpdateDoes
<1>3. overlaps = 0 /\ hazards = {} /\ \A t \in Runners : Live(t)' => t = s
  BY <1>1, <1>2, RunsApart
<1>4. run'[s] = next /\ \A t \in Runners : t # s => run'[t].pc = "idle"
  BY <1>2, <1>3 DEF Typed, TypeOK, Live
<1>5. run[s].copy = doc /\ Fetching(run[s])
  BY <1>1, <1>3 DEF Copied, Fetching
<1>6. Reached(doc.cursor) /\ Reached(doc.cursor + Len(run[s].got))
  BY <1>3, <1>5 DEF Tracked
<1>7. doc.cursor \in Nat /\ Len(run[s].got) \in Nat /\ doc'.cursor \in Nat
  <2>1. doc \in Doc
    BY DEF Typed, TypeOK
  <2>2. doc' \in Doc
    BY <2>1, EditedTyped DEF UpdateSave
  <2>3. run[s].got \in Seq(Contacts)
    BY RunTyped DEF Runner
  <2> QED BY <2>1, <2>2, <2>3 DEF Doc
<1>8. CASE doc'.cursor = doc.cursor /\ covered' = covered
  <2>1. Reached(doc.cursor)' /\ Reached(doc.cursor + Len(run[s].got))
    BY <1>1, <1>6, <1>8 DEF Reached
  <2>2. Early(next) => next.cfg.cursor = doc'.cursor
    <3>1. Early(next) => run[s].update = "run" /\ next.cfg = run[s].cfg
      BY <1>2, IdleRunTyped DEF Early
    <3>2. run[s].update = "run" => Early(run[s])
      BY <1>1 DEF Early
    <3> QED BY <1>3, <1>8, <3>1, <3>2 DEF Tracked
  <2>3. Fetching(next) => next.got \in {run[s].got, <<>>}
    BY <1>2, IdleRunTyped DEF Fetching
  <2>4. doc.cursor + Len(<<>>) = doc.cursor
    BY <1>7
  <2>5. ASSUME Fetching(next)
        PROVE  \A i \in DOMAIN remote' : i <= doc'.cursor + Len(next.got) => remote'[i] \in covered'
    BY <1>1, <1>6, <1>8, <2>3, <2>4, <2>5 DEF Reached
  <2> QED BY <1>4, <2>1, <2>2, <2>5 DEF Tracked, Early, Fetching, Reached
<1>9. CASE run[s].update = "cursor" /\ doc' = Edited(s)
           /\ covered' = IF Edited(s).cursor = 0 THEN {} ELSE covered
  <2>1. doc'.cursor = IF Len(run[s].got) < Limit THEN 0 ELSE doc.cursor + Len(run[s].got)
    BY <1>5, <1>9, EditedTyped DEF Advanced
  <2>2. Reached(doc.cursor)'
    <3>1. CASE doc'.cursor = 0
      <4>1. \A i \in DOMAIN remote' : ~ (i <= 0)
        BY <1>1 DEF Typed, TypeOK
      <4> QED BY <3>1, <4>1 DEF Reached
    <3>2. CASE doc'.cursor # 0
      BY <1>1, <1>6, <1>9, <2>1, <3>2 DEF Reached
    <3> QED BY <3>1, <3>2
  <2>3. ~ Early(next) /\ (Fetching(next) => next.got = <<>>)
    BY <1>2, <1>9, IdleRunTyped DEF Early, Fetching
  <2>4. doc'.cursor + Len(<<>>) = doc'.cursor
    BY <1>7
  <2>5. ASSUME Fetching(next)
        PROVE  \A i \in DOMAIN remote' : i <= doc'.cursor + Len(next.got) => remote'[i] \in covered'
    BY <2>2, <2>3, <2>4, <2>5 DEF Reached
  <2> QED BY <1>4, <2>2, <2>3, <2>5 DEF Tracked, Early, Fetching, Reached
<1>10. \/ doc'.cursor = doc.cursor /\ covered' = covered
       \/ run[s].update = "cursor" /\ doc' = Edited(s)
            /\ covered' = IF Edited(s).cursor = 0 THEN {} ELSE covered
  BY <1>5, EditedTyped DEF UpdateSave
<1> QED BY <1>8, <1>9, <1>10

\* A contact published at the front counts as covered, and the others move back.
LEMMA PublishTracked ==
  ASSUME Typed, Tracked, NEW c \in Contacts, Publish(c)
  PROVE  Tracked'
<1>1. UNCHANGED <<doc, run, overlaps, hazards>> /\ covered' = covered \cup {c}
      /\ remote' = <<c>> \o remote
  BY DEF Publish
<1>2. remote \in Seq(Contacts)
  BY DEF Typed, TypeOK
<1>3. /\ DOMAIN remote' = 1 .. Len(remote) + 1 /\ Len(remote) \in Nat
      /\ \A i \in DOMAIN remote' :
           remote'[i] = IF i = 1 THEN c ELSE remote[i - 1]
  BY <1>1, <1>2
<1>4. ASSUME NEW n \in Nat, Reached(n) PROVE Reached(n)'
  <2>1. ASSUME NEW i \in DOMAIN remote', i <= n PROVE remote'[i] \in covered'
    <3>1. CASE i = 1
      BY <1>1, <1>3, <3>1
    <3>2. CASE i # 1
      <4>1. i - 1 \in DOMAIN remote /\ i - 1 <= n
        BY <1>2, <1>3, <2>1, <3>2
      <4> QED BY <1>1, <1>3, <1>4, <3>2, <4>1 DEF Reached
    <3> QED BY <3>1, <3>2
  <2> QED BY <2>1 DEF Reached
<1>5. doc.cursor \in Nat /\ \A s \in Runners : doc.cursor + Len(run[s].got) \in Nat
  <2>1. doc.cursor \in Nat
    BY DEF Typed, TypeOK, Doc
  <2>2. \A s \in Runners : run[s].got \in Seq(Contacts)
    BY RunTyped DEF Runner
  <2> QED BY <2>1, <2>2
<1>6. \A s \in Runners : Reached(doc.cursor + Len(run[s].got)) =>
        \A i \in DOMAIN remote' : i <= doc.cursor + Len(run[s].got) => remote'[i] \in covered'
  BY <1>4, <1>5 DEF Reached
<1>7. Reached(doc.cursor) =>
        \A i \in DOMAIN remote' : i <= doc.cursor => remote'[i] \in covered'
  BY <1>4, <1>5 DEF Reached
<1> QED BY <1>1, <1>6, <1>7 DEF Tracked, Early, Fetching, Reached

LEMMA TrackedStep == ASSUME Typed, Apart, Copied, Tracked, [Next]_vars PROVE Tracked'
<1>1. ASSUME UNCHANGED <<remote, run, overlaps, hazards, covered>>, doc'.cursor = doc.cursor
      PROVE  Tracked'
  BY <1>1 DEF Tracked, Early, Fetching, Reached
<1>2. CASE OpenForm
  BY <1>2 DEF OpenForm, Overlap, Tracked, Early, Fetching, Reached, Typed, TypeOK
<1>3. ASSUME NEW switches \in Choices, SaveForm(switches) PROVE Tracked'
  <2>1. UNCHANGED <<remote, run, overlaps, hazards, covered>>
    BY <1>3 DEF SaveForm
  <2>2. ASSUME overlaps = 0, hazards = {} PROVE doc'.cursor = doc.cursor
    <3>1. form.copy = doc /\ doc \in Doc
      BY <1>3, <2>2 DEF SaveForm, Copied, Typed, TypeOK
    <3> QED BY <1>3, <3>1 DEF SaveForm, Doc
  <2> QED BY <1>1, <2>1, <2>2 DEF Tracked
<1>4. ASSUME NEW c \in Contacts, OtherGenerates(c) PROVE Tracked'
  BY <1>1, <1>4 DEF OtherGenerates, ghosts
<1>5. ASSUME NEW c \in Contacts, Suppress(c) PROVE Tracked'
  BY <1>5 DEF Suppress, Tracked
<1>6. CASE UNCHANGED vars
  BY <1>1, <1>6 DEF vars
<1> QED BY <1>2, <1>3, <1>4, <1>5, <1>6, RunMoves, MovesTracked, SaveTracked, PublishTracked
        DEF Next, Scheduled, Environment, Operator

-----------------------------------------------------------------------------
(* The theorems about settings and imports *)

\* The switches stay what the operator saved last, through any number of partial
\* updates, unless read-modify-write cycles overlapped or a load failed.
THEOREM SettingsKeptCorrect == Spec => []SettingsKept
<1>1. Init => Typed /\ Apart /\ Copied
  BY TypedInit, ApartInit, CopiedInit
<1>2. Typed /\ Apart /\ Copied /\ [Next]_vars => (Typed /\ Apart /\ Copied)'
  BY TypedStep, ApartStep, CopiedStep
<1>3. Copied => SettingsKept
  BY DEF Copied, SettingsKept
<1> QED BY <1>1, <1>2, <1>3, PTL DEF Spec

\* No import begins behind a sourcing run that did not complete; and as long as
\* no cycles overlapped, no load failed and no contact was removed, every
\* contact that the cursor has passed was fetched in this turn of the list.
THEOREM ImportsSafeCorrect == Spec => []ImportsSafe
<1>1. Init => Typed /\ Completed /\ Apart /\ Copied /\ Tracked
  BY TypedInit, CompletedInit, ApartInit, CopiedInit, TrackedInit
<1>2. Typed /\ Completed /\ Apart /\ Copied /\ Tracked /\ [Next]_vars =>
        (Typed /\ Completed /\ Apart /\ Copied /\ Tracked)'
  BY TypedStep, CompletedStep, ApartStep, CopiedStep, TrackedStep
<1>3. Completed => NoSilentImport
  BY DEF Completed, Past, NoSilentImport, Importing
<1>4. Tracked => CursorCovers
  BY DEF Tracked, Reached, CursorCovers
<1>5. Typed /\ Completed /\ Apart /\ Copied /\ Tracked => ImportsSafe
  BY <1>3, <1>4 DEF ImportsSafe
<1> QED BY <1>1, <1>2, <1>5, PTL DEF Spec

-----------------------------------------------------------------------------
(* Scheduled runs generate one email for a contact                          *)

\* The lead of c is in a place of the list of s.
Waits(s, i, c) == i \in DOMAIN ToProcess(run[s]) /\ ToProcess(run[s])[i] = c

\* A created lead waits in one place of one run, without an email.
Owned ==
  /\ OneEmail
  /\ \A s \in Runners, i \in Nat, c \in Contacts : Waits(s, i, c) =>
       /\ c \in leads /\ emails[c] = 0
       /\ \A t \in Runners, j \in Nat : Waits(t, j, c) => t = s /\ j = i

LEMMA ToProcessTyped ==
  ASSUME Typed, NEW s \in Runners
  PROVE  ToProcess(run[s]) \in Seq(Ids)
BY RunTyped DEF Runner, ToProcess

LEMMA SaveCreates ==
  ASSUME Typed, NEW s \in Runners, UpdateSave(s)
  PROVE  \E next \in Runner : run' = [run EXCEPT ![s] = next] /\ Creates(s, next)
<1>1. run[s].pc = "save" /\ AfterUpdate(s) /\ UNCHANGED <<leads, emails>>
  BY DEF UpdateSave, db
<1>2. PICK next \in Runner :
        /\ run' = [run EXCEPT ![s] = next]
        /\ \/ next.pc \in {"open_log", "load"} /\ next.created = run[s].created
           \/ next.pc = "process" /\ next.todo = run[s].created
           \/ next = Ended
           \/ next = IdleRun
  BY <1>1, AfterUpdateDoes
<1>3. ToProcess(next) \in {<<>>, ToProcess(run[s])}
  <2>1. IdleRun.created = <<>>
    BY DEF IdleRun
  <2> QED BY <1>1, <1>2, <2>1, IdleRunTyped DEF ToProcess
<1> QED BY <1>1, <1>2, <1>3 DEF Creates

LEMMA WaitsNext ==
  ASSUME Typed, NEW s \in Runners, NEW next, run' = [run EXCEPT ![s] = next],
         NEW i, NEW c
  PROVE  /\ Waits(s, i, c)' <=> (i \in DOMAIN ToProcess(next) /\ ToProcess(next)[i] = c)
         /\ \A t \in Runners : t # s => (Waits(t, i, c)' <=> Waits(t, i, c))
<1>1. \A t \in Runners : run'[t] = IF t = s THEN next ELSE run[t]
  BY DEF Typed, TypeOK
<1> QED BY <1>1 DEF Waits, ToProcess

\* What waits has waited before, in a place of its own.
LEMMA PlacesKept ==
  ASSUME Typed, Owned, NEW s \in Runners, NEW shift \in Nat, leads \subseteq leads',
         \A i \in Nat, c \in Contacts : Waits(s, i, c)' => Waits(s, i + shift, c),
         \A t \in Runners, i \in Nat, c \in Contacts :
           t # s /\ Waits(t, i, c)' => Waits(t, i, c),
         \A t \in Runners, i \in Nat, c \in Contacts : Waits(t, i, c)' => emails'[c] = 0,
         OneEmail'
  PROVE  Owned'
<1> DEFINE at(t) == IF t = s THEN shift ELSE 0
<1>1. \A t \in Runners, i \in Nat, c \in Contacts :
        Waits(t, i, c)' => Waits(t, i + at(t), c) /\ i + at(t) \in Nat
  OBVIOUS
<1>2. ASSUME NEW t \in Runners, NEW i \in Nat, NEW c \in Contacts, Waits(t, i, c)'
      PROVE  /\ c \in leads' /\ emails'[c] = 0
             /\ \A u \in Runners, j \in Nat : Waits(u, j, c)' => u = t /\ j = i
  <2>1. Waits(t, i + at(t), c) /\ i + at(t) \in Nat
    BY <1>1, <1>2
  <2>2. PICK k \in Nat : k = i + at(t)
    BY <2>1
  <2>3. c \in leads /\ \A u \in Runners, j \in Nat : Waits(u, j, c) => u = t /\ j = k
    BY <2>1, <2>2 DEF Owned
  <2>4. ASSUME NEW u \in Runners, NEW j \in Nat, Waits(u, j, c)' PROVE u = t /\ j = i
    <3>1. Waits(u, j + at(u), c) /\ j + at(u) \in Nat
      BY <1>1, <2>4
    <3>2. u = t /\ j + at(u) = k
      BY <2>3, <3>1
    <3> QED BY <2>2, <3>2
  <2> QED BY <1>2, <2>3, <2>4
<1> QED BY <1>2 DEF Owned

\* A lead just created is in no other place.
LEMMA CreatedOwned ==
  ASSUME Typed, Owned, NEW s \in Runners, NEW m \in Nat, NEW d \in Contacts \ leads,
         leads' = leads \cup {d}, emails' = emails,
         \A t \in Runners, i \in Nat, c \in Contacts :
           Waits(t, i, c)' => Waits(t, i, c) \/ (t = s /\ i = m /\ c = d)
  PROVE  Owned'
<1>1. emails[d] = 0
  BY DEF Typed, TypeOK
<1>2. \A t \in Runners, i \in Nat : ~ Waits(t, i, d)
  BY DEF Owned
<1>3. ASSUME NEW t \in Runners, NEW i \in Nat, NEW c \in Contacts, Waits(t, i, c)'
      PROVE  /\ c \in leads' /\ emails'[c] = 0
             /\ \A u \in Runners, j \in Nat : Waits(u, j, c)' => u = t /\ j = i
  <2>1. CASE c = d
    BY <1>1, <1>2, <1>3, <2>1
  <2>2. CASE c # d
    BY <1>3, <2>2 DEF Owned
  <2> QED BY <2>1, <2>2
<1>4. OneEmail'
  BY DEF Owned, OneEmail
<1> QED BY <1>3, <1>4 DEF Owned

\* A lead set aside has its email, and waits nowhere else.
LEMMA AsideOwned ==
  ASSUME Typed, Owned, NEW s \in Runners, NEW next, run' = [run EXCEPT ![s] = next],
         NEW q \in Seq(Ids), q = ToProcess(run[s]), q # <<>>, ToProcess(next) = Tail(q),
         leads' = leads,
         \/ emails' = emails
         \/ Head(q) \in leads /\ emails' = [emails EXCEPT ![Head(q)] = emails[Head(q)] + 1]
  PROVE  Owned'
<1>1. PICK h : h = Head(q)
  OBVIOUS
<1>2. emails' = emails \/ (h \in leads /\ emails' = [emails EXCEPT ![h] = emails[h] + 1])
  BY <1>1
<1>3. Waits(s, 1, h)
  BY <1>1 DEF Waits
<1>4. leads \subseteq Contacts /\ emails \in [Contacts -> Nat]
  BY DEF Typed, TypeOK
<1>5. h \in leads => emails[h] = 0
  BY <1>3, <1>4 DEF Owned
<1>6. ASSUME NEW i \in Nat, NEW c \in Contacts, Waits(s, i, c)'
      PROVE  Waits(s, i + 1, c) /\ i + 1 # 1
  <2>1. i \in DOMAIN Tail(q) /\ Tail(q)[i] = c
    BY <1>6, WaitsNext
  <2>2. i + 1 \in DOMAIN q /\ q[i + 1] = c /\ i + 1 # 1
    BY <2>1
  <2> QED BY <2>2 DEF Waits
<1>7. \A t \in Runners, i \in Nat, c \in Contacts :
        t # s /\ Waits(t, i, c)' => Waits(t, i, c)
  BY WaitsNext
<1>8. ASSUME NEW t \in Runners, NEW i \in Nat, NEW c \in Contacts, Waits(t, i, c)'
      PROVE  emails'[c] = 0
  <2>1. PICK k \in Nat : Waits(t, k, c) /\ ~ (t = s /\ k = 1)
    <3>1. CASE t = s
      BY <1>6, <1>8, <3>1
    <3>2. CASE t # s
      BY <1>7, <1>8, <3>2
    <3> QED BY <3>1, <3>2
  <2>2. emails[c] = 0
    BY <2>1 DEF Owned
  <2>3. ASSUME c = h PROVE FALSE
    <3>1. Waits(s, 1, c) /\ 1 \in Nat
      BY <1>3, <2>3
    <3> QED BY <2>1, <3>1 DEF Owned
  <2> QED BY <1>2, <1>4, <2>2, <2>3
<1>9. OneEmail'
  BY <1>2, <1>4, <1>5 DEF Owned, OneEmail
<1>10. 1 \in Nat
  OBVIOUS
<1> QED BY <1>6, <1>7, <1>8, <1>9, <1>10, PlacesKept

LEMMA OwnedStep == ASSUME Typed, Owned, [Scheduled]_vars PROVE Owned'
<1>1. ASSUME NEW s \in Runners, NEW next \in Runner, run' = [run EXCEPT ![s] = next],
             Creates(s, next)
      PROVE  Owned'
  <2>1. PICK q \in Seq(Ids) : q = ToProcess(run[s])
    BY ToProcessTyped
  <2>2. PICK p : p = ToProcess(next)
    OBVIOUS
  <2>3. ASSUME emails' = emails, leads' = leads,
               \A i \in Nat, c \in Contacts : i \in DOMAIN p /\ p[i] = c =>
                 i \in DOMAIN q /\ q[i] = c
        PROVE  Owned'
    <3>1. \A t \in Runners, i \in Nat, c \in Contacts : Waits(t, i, c)' => Waits(t, i, c)
      <4>1. \A i \in Nat, c \in Contacts : Waits(s, i, c)' => Waits(s, i, c)
        BY <1>1, <2>1, <2>2, <2>3, WaitsNext DEF Waits
      <4>2. \A t \in Runners, i \in Nat, c \in Contacts :
              t # s /\ Waits(t, i, c)' => Waits(t, i, c)
        BY <1>1, WaitsNext
      <4> QED BY <4>1, <4>2
    <3>2. \A i \in Nat, c \in Contacts : Waits(s, i, c)' => Waits(s, i + 0, c)
      BY <3>1
    <3>3. \A t \in Runners, i \in Nat, c \in Contacts : Waits(t, i, c)' => emails'[c] = 0
      BY <2>3, <3>1 DEF Owned
    <3>4. OneEmail' /\ 0 \in Nat /\ leads \subseteq leads'
      BY <2>3 DEF Owned, OneEmail
    <3> QED BY <3>1, <3>2, <3>3, <3>4, PlacesKept
  <2>4. CASE p \in {<<>>, q} /\ UNCHANGED <<leads, emails>>
    BY <2>3, <2>4
  <2>5. CASE p = Append(q, NoLead) /\ UNCHANGED <<leads, emails>>
    <3>1. \A i \in Nat, c \in Contacts : i \in DOMAIN p /\ p[i] = c =>
            i \in DOMAIN q /\ q[i] = c
      BY <2>1, <2>5, LeadSourceAssumption
    <3> QED BY <2>3, <2>5, <3>1
  <2>6. CASE /\ q # <<>> /\ p = Tail(q) /\ UNCHANGED leads
             /\ \/ UNCHANGED emails
                \/ Head(q) \in leads /\ emails' = [emails EXCEPT ![Head(q)] = emails[Head(q)] + 1]
    BY <1>1, <2>1, <2>2, <2>6, AsideOwned
  <2>7. ASSUME NEW d \in Contacts \ leads,
               p = Append(q, d), leads' = leads \cup {d}, UNCHANGED emails
        PROVE  Owned'
    <3>1. PICK m \in Nat : m = Len(q) + 1
      BY <2>1
    <3>2. \A i \in Nat, c \in Contacts : i \in DOMAIN p /\ p[i] = c =>
            (i \in DOMAIN q /\ q[i] = c) \/ (i = m /\ c = d)
      BY <2>1, <2>7, <3>1
    <3>3. \A i \in Nat, c \in Contacts : Waits(s, i, c)' => Waits(s, i, c) \/ (i = m /\ c = d)
      BY <1>1, <2>1, <2>2, <3>2, WaitsNext DEF Waits
    <3>4. \A t \in Runners, i \in Nat, c \in Contacts :
            Waits(t, i, c)' => Waits(t, i, c) \/ (t = s /\ i = m /\ c = d)
      <4>1. \A t \in Runners, i \in Nat, c \in Contacts :
              t # s /\ Waits(t, i, c)' => Waits(t, i, c)
        BY <1>1, WaitsNext
      <4> QED BY <3>3, <4>1
    <3>5. emails' = emails /\ leads' = leads \cup {d}
      BY <2>7
    <3> QED BY <3>1, <3>4, <3>5, CreatedOwned
  <2>8. \/ p \in {<<>>, q} /\ UNCHANGED <<leads, emails>>
        \/ p = Append(q, NoLead) /\ UNCHANGED <<leads, emails>>
        \/ /\ q # <<>> /\ p = Tail(q) /\ UNCHANGED leads
           /\ \/ UNCHANGED emails
              \/ Head(q) \in leads /\ emails' = [emails EXCEPT ![Head(q)] = emails[Head(q)] + 1]
        \/ \E d \in Contacts \ leads :
             p = Append(q, d) /\ leads' = leads \cup {d} /\ UNCHANGED emails
    BY <1>1, <2>1, <2>2 DEF Creates
  <2> QED BY <2>4, <2>5, <2>6, <2>7, <2>8
<1>2. ASSUME NEW s \in Runners, Start(s) \/ RunStep(s) \/ RunFailure(s) PROVE Owned'
  BY <1>1, <1>2, RunMoves, SaveCreates DEF Moves
<1>3. CASE UNCHANGED vars
  BY <1>3 DEF vars, Owned, OneEmail, ToProcess, Waits
<1> QED BY <1>2, <1>3 DEF Scheduled

LEMMA OwnedInit == ASSUME Init PROVE Owned
<1>1. \A s \in Runners : ToProcess(run[s]) = <<>>
  BY IdleRunTyped DEF Init, ToProcess, IdleRun
<1>2. OneEmail
  BY DEF Init, OneEmail
<1> QED BY <1>1, <1>2 DEF Owned, Waits

\* However scheduled runs overlap, fail and die, a contact gets one email: one
\* run has created its lead, has it on its list once, and no run looks for it.
THEOREM OneEmailCorrect == QuietSpec => []OneEmail
<1>1. Init => Typed /\ Owned
  BY TypedInit, OwnedInit
<1>2. Typed /\ Owned /\ [Scheduled]_vars => (Typed /\ Owned)'
  BY TypedStep, OwnedStep DEF Next
<1>3. Owned => OneEmail
  BY DEF Owned
<1> QED BY <1>1, <1>2, <1>3, PTL DEF QuietSpec
=============================================================================
