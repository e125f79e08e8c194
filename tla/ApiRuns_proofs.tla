-------------------------- MODULE ApiRuns_proofs --------------------------
(* Proofs about ApiRuns: its types, what a finished run reports, and who    *)
(* works on a run.                                                          *)
EXTENDS ApiRuns, TLAPS, FiniteSetTheorems

-----------------------------------------------------------------------------
(* The inductive invariant.  A frame is what exec holds for one executor.   *)

InLoop == {"leads", "enriching", "generating", "payload"}

RunOf(x) == runs[x.run]

LeadOf(x) == RunOf(x).leads[x.i]

\* A frame at work has a run, and a position in the run's list of contacts.
Framed(x) ==
  /\ x.todo \subseteq 1 .. nruns
  /\ x.pc # "idle" => x.run \in 1 .. nruns
  /\ x.pc = "import" => x.i = 1
  /\ x.pc = "leads" => x.i \in 1 .. Len(RunOf(x).leads) + 1
  /\ x.pc \in InLoop \ {"leads"} =>
       x.i \in 1 .. Len(RunOf(x).leads) /\ LeadOf(x) \in leads

\* The counters agree with the position.
Counting(x) ==
  /\ x.pc = "import" => x.processed = 0 /\ x.failed = 0
  /\ x.pc \in InLoop => x.processed + x.failed = x.i - 1
  /\ x.pc = "fail" => x.processed + x.failed <= Len(RunOf(x).leads)

\* The work that run asks for has been done for its i-th contact.
Backed(run, i) ==
  /\ run.leads[i] \in leads
  /\ run.options.enrich => run.leads[i] \in enriched
  /\ run.options.email => emails[run.leads[i]] > 0

\* As long as no lead has failed, those passed are backed; the lead at hand is
\* as far as the program counter says.
Backing(x) ==
  /\ x.pc \in InLoop /\ x.failed = 0 =>
       \A j \in 1 .. x.i - 1 : Backed(RunOf(x), j)
  /\ x.pc \in {"generating", "payload"} /\ RunOf(x).options.enrich =>
       LeadOf(x) \in enriched
  /\ x.pc = "payload" /\ RunOf(x).options.email => emails[LeadOf(x)] > 0

Sound(x) == Framed(x) /\ Counting(x) /\ Backing(x)

WorkInv == TypeOK /\ \A e \in Executors : Sound(exec[e])

-----------------------------------------------------------------------------
(* What every step leaves as it is: written runs keep their request, and     *)
(* leads, enrichments and emails stay.                                      *)

RunsGrow ==
  /\ nruns' \in nruns .. MaxRuns
  /\ \A r \in 1 .. nruns :
       /\ runs'[r].leads = runs[r].leads
       /\ runs'[r].options = runs[r].options
       /\ runs'[r].mode = runs[r].mode

DbGrows ==
  /\ leads \subseteq leads'
  /\ enriched \subseteq enriched'
  /\ \A c \in Contacts : emails'[c] \in Nat /\ emails'[c] >= emails[c]

\* The step of one executor: its next frame is y, the others keep theirs.
Moves(e, y) == exec' = [exec EXCEPT ![e] = y]

LEMMA TypeFacts ==
  ASSUME TypeOK
  PROVE  /\ runs \in [RunIds -> Run] /\ nruns \in 0 .. MaxRuns /\ nruns \in Nat
         /\ MaxRuns \in Nat
         /\ exec \in [Executors -> Exec] /\ emails \in [Contacts -> Nat]
         /\ \A r \in 1 .. nruns :
              /\ r \in RunIds
              /\ runs[r] \in Run
              /\ Len(runs[r].leads) \in Nat
              /\ \A i \in 1 .. Len(runs[r].leads) : runs[r].leads[i] \in Contacts
<1>1. runs \in [RunIds -> Run] /\ nruns \in 0 .. MaxRuns /\ MaxRuns \in Nat
  BY ApiRunsAssumption DEF TypeOK
<1>2. ASSUME NEW r \in 1 .. nruns
      PROVE  /\ r \in RunIds /\ runs[r] \in Run /\ Len(runs[r].leads) \in Nat
             /\ \A i \in 1 .. Len(runs[r].leads) : runs[r].leads[i] \in Contacts
  <2>1. r \in RunIds
    BY <1>1 DEF RunIds
  <2>2. runs[r] \in Run
    BY <1>1, <2>1
  <2>3. runs[r].leads \in Seq(Contacts)
    BY <2>2 DEF Run
  <2> QED BY <2>1, <2>2, <2>3
<1> QED BY <1>1, <1>2 DEF TypeOK

\* A frame that is sound stays sound when only the tables grow.
LEMMA SoundStays ==
  ASSUME TypeOK, RunsGrow, DbGrows, NEW x \in Exec, Sound(x)
  PROVE  Sound(x)'
<1>1. /\ x.todo \subseteq 1 .. nruns'
      /\ x.pc # "idle" => /\ x.run \in 1 .. nruns'
                          /\ runs'[x.run].leads = runs[x.run].leads
                          /\ runs'[x.run].options = runs[x.run].options
  BY TypeFacts DEF RunsGrow, Sound, Framed
<1>2. Framed(x)'
  BY <1>1 DEF Sound, Framed, RunOf, LeadOf, InLoop, DbGrows
<1>3. Counting(x)'
  BY <1>1 DEF Sound, Counting, RunOf, InLoop
<1>4. CASE x.pc \notin InLoop
  BY <1>2, <1>3, <1>4 DEF Sound, Backing, InLoop
<1>5. CASE x.pc \in InLoop
  <2> DEFINE L == runs[x.run].leads
  <2>1. /\ x.run \in 1 .. nruns /\ Len(L) \in Nat
        /\ \A i \in 1 .. Len(L) : L[i] \in Contacts
    BY <1>5, TypeFacts DEF Sound, Framed, InLoop
  <2>2. x.i \in 1 .. Len(L) + 1 /\ (x.pc # "leads" => x.i \in 1 .. Len(L))
    BY <1>5, <2>1 DEF Sound, Framed, RunOf, InLoop
  <2>3. emails \in [Contacts -> Nat]
    BY TypeFacts
  <2>4. ASSUME NEW j \in 1 .. Len(L), Backed(RunOf(x), j)
        PROVE  Backed(RunOf(x), j)'
    BY <1>1, <1>5, <2>1, <2>3, <2>4 DEF Backed, DbGrows, InLoop, RunOf
  <2>5. x.failed = 0 => \A j \in 1 .. x.i - 1 : Backed(RunOf(x), j)'
    BY <1>5, <2>1, <2>2, <2>4 DEF Sound, Backing
  <2>6. x.pc # "leads" => LeadOf(x)' = LeadOf(x) /\ LeadOf(x) \in Contacts
    BY <1>1, <1>5, <2>1, <2>2 DEF LeadOf, RunOf, InLoop
  <2>7. x.pc \in {"generating", "payload"} /\ RunOf(x)'.options.enrich => LeadOf(x)' \in enriched'
    BY <1>1, <2>6, <1>5 DEF Sound, Backing, RunOf, DbGrows, InLoop
  <2>8. x.pc = "payload" /\ RunOf(x)'.options.email => emails'[LeadOf(x)'] > 0
    BY <1>1, <2>3, <2>6, <1>5 DEF Sound, Backing, RunOf, DbGrows, InLoop
  <2>9. Backing(x)'
    BY <2>5, <2>7, <2>8 DEF Backing
  <2> QED BY <1>2, <1>3, <2>9 DEF Sound
<1> QED BY <1>4, <1>5

\* So a step that moves one executor has to answer for its frame only.
LEMMA MoveSound ==
  ASSUME WorkInv, TypeOK', RunsGrow, DbGrows, NEW e \in Executors, NEW y \in Exec,
         Moves(e, y), Sound(y)'
  PROVE  WorkInv'
<1>1. exec \in [Executors -> Exec] /\ TypeOK
  BY TypeFacts DEF WorkInv
<1>2. ASSUME NEW o \in Executors PROVE Sound(exec[o])'
  <2>1. CASE o = e
    <3>1. exec'[o] = y
      BY <1>1, <2>1 DEF Moves
    <3> QED BY <3>1 DEF Sound, Framed, Counting, Backing, RunOf, LeadOf, InLoop, Backed
  <2>2. CASE o # e
    <3>1. exec'[o] = exec[o] /\ exec[o] \in Exec /\ Sound(exec[o])
      BY <1>1, <2>2 DEF Moves, WorkInv
    <3>2. PICK x \in Exec : x = exec[o] /\ Sound(x)
      BY <3>1
    <3>3. Sound(x)'
      BY <1>1, <3>2, SoundStays
    <3> QED BY <3>1, <3>2, <3>3 DEF Sound, Framed, Counting, Backing, RunOf, LeadOf, InLoop, Backed
  <2> QED BY <2>1, <2>2
<1> QED BY <1>2 DEF WorkInv

-----------------------------------------------------------------------------
(* Every step keeps the types and the soundness of the frames.              *)

LEMMA InitWork == Init => WorkInv
<1> SUFFICES ASSUME Init PROVE WorkInv
  OBVIOUS
<1>1. runs \in [RunIds -> Run]
  BY DEF Init, Run
<1>2. exec \in [Executors -> Exec]
  BY ApiRunsAssumption DEF Init, Exec, Pcs
<1>3. TypeOK
  BY <1>1, <1>2, ApiRunsAssumption DEF Init, TypeOK
<1>4. ASSUME NEW e \in Executors PROVE Sound(exec[e])
  BY DEF Init, Sound, Framed, Counting, Backing, InLoop
<1> QED BY <1>3, <1>4 DEF WorkInv

LEMMA TablesStay ==
  ASSUME TypeOK
  PROVE  /\ UNCHANGED <<runs, nruns>> => RunsGrow
         /\ UNCHANGED <<leads, enriched, emails>> => DbGrows
  BY TypeFacts DEF RunsGrow, DbGrows

\* What a step keeps.
Kept == WorkInv' /\ RunsGrow /\ DbGrows

\* A step that changes a frame and no table.
LEMMA FrameOnly ==
  ASSUME WorkInv, NEW e \in Executors, NEW y \in Exec, Moves(e, y), Sound(y),
         UNCHANGED <<runs, nruns, db, takers>>,
         faults' \in 0 .. MaxFaults, lost' \subseteq RunIds
  PROVE  Kept
<1>1. TypeOK'
  BY DEF WorkInv, TypeOK, Moves, db
<1>2. RunsGrow /\ DbGrows
  BY TablesStay DEF WorkInv, db
<1>3. Sound(y)'
  BY <1>2, SoundStays DEF WorkInv
<1> QED BY <1>1, <1>2, <1>3, MoveSound DEF Kept

\* A step of one executor and of the leads, enrichments and emails.
LEMMA FrameAndDb ==
  ASSUME WorkInv, NEW e \in Executors, NEW y \in Exec, Moves(e, y), Sound(y)',
         UNCHANGED <<runs, nruns, takers, lost>>, faults' \in 0 .. MaxFaults, DbGrows,
         leads' \subseteq Contacts, enriched' \subseteq leads',
         emails' \in [Contacts -> Nat], made' \in [RunIds -> Nat]
  PROVE  Kept
<1>1. TypeOK'
  BY DEF WorkInv, TypeOK, Moves
<1>2. RunsGrow
  BY TablesStay DEF WorkInv
<1> QED BY <1>1, <1>2, MoveSound DEF Kept

\* A step of one executor and of its run's status, error and counts.
LEMMA FrameAndRun ==
  ASSUME WorkInv, NEW e \in Executors, NEW y \in Exec, Moves(e, y), Sound(y),
         exec[e].pc # "idle",
         NEW status \in {"running"} \cup Terminal, NEW error \in BOOLEAN,
         NEW processed \in Nat, NEW failed \in Nat,
         runs' = [runs EXCEPT ![exec[e].run] =
                    [@ EXCEPT !.status = status, !.error = error,
                              !.processed = processed, !.failed = failed]],
         UNCHANGED <<nruns, db, faults>>, lost' \subseteq RunIds,
         takers' \in [RunIds -> SUBSET Executors]
  PROVE  Kept
<1>1. exec[e].run \in 1 .. nruns /\ exec[e].run \in RunIds /\ runs[exec[e].run] \in Run
  BY TypeFacts DEF WorkInv, Sound, Framed
<1>2. runs \in [RunIds -> Run] /\ TypeOK
  BY DEF WorkInv, TypeOK
<1> DEFINE new == [runs[exec[e].run] EXCEPT !.status = status, !.error = error,
                              !.processed = processed, !.failed = failed]
<1>3. new \in Run /\ new.leads = runs[exec[e].run].leads
      /\ new.options = runs[exec[e].run].options /\ new.mode = runs[exec[e].run].mode
  BY <1>1 DEF Run
<1>4. runs' = [runs EXCEPT ![exec[e].run] = new]
  OBVIOUS
<1> HIDE DEF new
<1>5. runs' \in [RunIds -> Run]
  BY <1>1, <1>2, <1>3, <1>4
<1>6. RunsGrow
  BY <1>1, <1>2, <1>3, <1>4, TypeFacts DEF RunsGrow
<1>7. TypeOK'
  BY <1>2, <1>5 DEF TypeOK, Moves, db
<1>8. DbGrows
  BY <1>2, TablesStay DEF db
<1>9. Sound(y)'
  BY <1>2, <1>6, <1>8, SoundStays
<1> QED BY <1>6, <1>7, <1>8, <1>9, MoveSound DEF Kept

LEMMA FrameFacts ==
  ASSUME WorkInv, NEW e \in Executors
  PROVE  /\ TypeOK /\ exec[e] \in Exec /\ Sound(exec[e])
         /\ exec[e].pc # "idle" =>
              /\ exec[e].run \in 1 .. nruns /\ exec[e].run \in RunIds
              /\ TheRun(e) \in Run /\ Len(TheRun(e).leads) \in Nat
              /\ \A i \in 1 .. Len(TheRun(e).leads) : TheRun(e).leads[i] \in Contacts
<1>1. TypeOK /\ exec[e] \in Exec /\ Sound(exec[e])
  BY TypeFacts DEF WorkInv
<1> QED BY <1>1, TypeFacts DEF Sound, Framed, TheRun

LEMMA FaultType == ASSUME TypeOK, Fault PROVE faults' \in 0 .. MaxFaults
  BY ApiRunsAssumption DEF TypeOK, Fault

(* POST /api/v1/leads/process *)

\* A new row does not disturb the others.
LEMMA NewRow ==
  ASSUME TypeOK, NEW mode \in {"sync", "async"}, NEW status \in {"queued", "running"},
         NEW req \in Requests, CreateRun(NewRun(mode, status, req)),
         UNCHANGED <<leads, enriched, emails>>
  PROVE  /\ nruns' = nruns + 1 /\ nruns' \in 0 .. MaxRuns /\ nruns' \in RunIds
         /\ runs' \in [RunIds -> Run] /\ RunsGrow /\ DbGrows
         /\ runs'[nruns + 1] = NewRun(mode, status, req)
         /\ \A r \in 1 .. nruns : runs'[r] = runs[r]
<1> DEFINE new == NewRun(mode, status, req)
<1>1. new \in Run
  BY ApiRunsAssumption DEF NewRun, Run
<1>2. nruns' = nruns + 1 /\ runs' = [runs EXCEPT ![nruns + 1] = new] /\ nruns < MaxRuns
  BY DEF CreateRun
<1>3. nruns' \in 0 .. MaxRuns /\ nruns' \in RunIds /\ nruns \in Nat
  BY <1>2, TypeFacts DEF RunIds
<1> HIDE DEF new
<1>4. runs' \in [RunIds -> Run] /\ runs'[nruns + 1] = new
  BY <1>1, <1>2, <1>3, TypeFacts
<1>5. \A r \in 1 .. nruns : runs'[r] = runs[r]
  BY <1>2, <1>3, TypeFacts
<1>6. RunsGrow
  BY <1>2, <1>3, <1>5, TypeFacts DEF RunsGrow
<1>7. DbGrows
  BY TablesStay
<1> QED BY <1>2, <1>3, <1>4, <1>5, <1>6, <1>7 DEF new

LEMMA SubmitAsyncWork ==
  ASSUME WorkInv, NEW req \in Requests, SubmitAsync(req)
  PROVE  Kept
<1>1. TypeOK /\ exec \in [Executors -> Exec] /\ \A e \in Executors : Sound(exec[e])
  BY TypeFacts DEF WorkInv
<1>2. /\ nruns' \in 0 .. MaxRuns /\ runs' \in [RunIds -> Run]
      /\ RunsGrow /\ DbGrows
  BY <1>1, NewRow DEF SubmitAsync, db
<1>3. TypeOK'
  BY <1>1, <1>2 DEF SubmitAsync, TypeOK, db
<1>4. ASSUME NEW e \in Executors PROVE Sound(exec[e])'
  <2>1. PICK x \in Exec : x = exec[e] /\ Sound(x)
    BY <1>1
  <2>2. Sound(x)'
    BY <1>1, <1>2, <2>1, SoundStays
  <2> QED BY <2>1, <2>2 DEF SubmitAsync, Sound, Framed, Counting, Backing, RunOf, LeadOf, Backed
<1> QED BY <1>2, <1>3, <1>4 DEF WorkInv, Kept

LEMMA SubmitSyncWork ==
  ASSUME WorkInv, NEW h \in Handlers, NEW req \in Requests, SubmitSync(h, req)
  PROVE  Kept
<1>1. h \in Executors
  BY DEF Executors
<1>2. TypeOK /\ exec[h] \in Exec /\ Sound(exec[h])
  BY <1>1, FrameFacts
<1>3. /\ nruns' = nruns + 1 /\ nruns' \in 0 .. MaxRuns /\ nruns' \in RunIds
      /\ runs' \in [RunIds -> Run] /\ RunsGrow /\ DbGrows
  BY <1>2, NewRow DEF SubmitSync, InitialStatus, db
<1>4. PICK y \in Exec : y = [exec[h] EXCEPT !.pc = "claim", !.run = nruns + 1]
  BY <1>2, <1>3 DEF Exec, Pcs, RunIds
<1>5. Moves(h, y)
  BY <1>4 DEF SubmitSync, Moves
<1>6. Framed(y)'
  <2>1. y.todo = exec[h].todo /\ y.pc = "claim" /\ y.run = nruns'
    BY <1>2, <1>3, <1>4 DEF Exec
  <2> QED BY <1>2, <1>3, <2>1, TypeFacts DEF Framed, Sound, InLoop, RunsGrow
<1>7. Sound(y)'
  BY <1>2, <1>4, <1>6 DEF Exec, Sound, Counting, Backing, InLoop
<1>8. TypeOK'
  BY <1>2, <1>3, <1>5 DEF SubmitSync, TypeOK, Moves, db
<1> QED BY <1>1, <1>3, <1>5, <1>7, <1>8, MoveSound DEF Kept

(* drain_once *)

LEMMA DrainWork ==
  ASSUME WorkInv, NEW d \in Drainers, Drain(d)
  PROVE  Kept
<1>1. d \in Executors
  BY DEF Executors
<1>2. TypeOK /\ exec[d] \in Exec /\ Sound(exec[d])
  BY <1>1, FrameFacts
<1>3. faults' \in 0 .. MaxFaults /\ lost' \subseteq RunIds /\ UNCHANGED <<runs, nruns, db, takers>>
  BY <1>2 DEF Drain, ListQueued, TakeNext, TypeOK
<1>4. CASE ListQueued(d)
  <2>1. OldestQueued \subseteq 1 .. nruns /\ OldestQueued \in SUBSET RunIds
    BY <1>2, TypeFacts DEF OldestQueued, Queued, RunIds
  <2>2. PICK y \in Exec : y = [exec[d] EXCEPT !.todo = OldestQueued]
    BY <1>2, <2>1 DEF Exec
  <2>3. Moves(d, y)
    BY <1>4, <2>2 DEF ListQueued, Moves
  <2>4. Sound(y)
    BY <1>2, <1>4, <2>1, <2>2
    DEF ListQueued, Idle, Exec, Sound, Framed, Counting, Backing, InLoop
  <2> QED BY <1>1, <1>3, <2>3, <2>4, FrameOnly
<1>5. CASE TakeNext(d)
  <2>1. PICK r \in exec[d].todo :
          exec' = [exec EXCEPT ![d] = [exec[d] EXCEPT !.pc = "claim", !.run = r,
                                                      !.todo = exec[d].todo \ {r}]]
    BY <1>5 DEF TakeNext
  <2>2. r \in 1 .. nruns /\ r \in 0 .. MaxRuns
    BY <1>2, TypeFacts DEF Sound, Framed
  <2>3. PICK y \in Exec : y = [exec[d] EXCEPT !.pc = "claim", !.run = r,
                                             !.todo = exec[d].todo \ {r}]
    BY <1>2, <2>2 DEF Exec, Pcs
  <2>4. Moves(d, y)
    BY <2>1, <2>3 DEF Moves
  <2>5. Sound(y)
    BY <1>2, <2>2, <2>3 DEF Exec, Sound, Framed, Counting, Backing, InLoop
  <2> QED BY <1>1, <1>3, <2>4, <2>5, FrameOnly
<1> QED BY <1>4, <1>5 DEF Drain

(* process_run *)

LEMMA MarkRunningWork ==
  ASSUME WorkInv, NEW e \in Executors, MarkRunning(e)
  PROVE  Kept
<1>1. /\ TypeOK /\ exec[e] \in Exec /\ Sound(exec[e]) /\ exec[e].pc = "claim"
      /\ exec[e].run \in 1 .. nruns /\ TheRun(e) \in Run
  BY FrameFacts DEF MarkRunning
<1>2. PICK y \in Exec : y = [exec[e] EXCEPT !.pc = "import", !.i = 1, !.processed = 0, !.failed = 0]
  BY <1>1 DEF Exec, Pcs
<1>3. Moves(e, y)
  BY <1>2 DEF MarkRunning, Moves
<1>4. Sound(y)
  BY <1>1, <1>2 DEF Exec, Sound, Framed, Counting, Backing, InLoop
<1>5. runs' = [runs EXCEPT ![exec[e].run] =
                 [@ EXCEPT !.status = "running", !.error = TheRun(e).error,
                           !.processed = TheRun(e).processed, !.failed = TheRun(e).failed]]
  <2>1. [TheRun(e) EXCEPT !.status = "running"] =
        [TheRun(e) EXCEPT !.status = "running", !.error = TheRun(e).error,
                          !.processed = TheRun(e).processed, !.failed = TheRun(e).failed]
    BY <1>1 DEF Run
  <2> QED BY <1>1, <2>1 DEF MarkRunning, TheRun
<1>6. /\ TheRun(e).error \in BOOLEAN
      /\ TheRun(e).processed \in Nat /\ TheRun(e).failed \in Nat
  BY <1>1 DEF Run
<1>7. /\ takers' \in [RunIds -> SUBSET Executors] /\ lost' \subseteq RunIds
      /\ UNCHANGED <<nruns, db, faults>>
  BY <1>1 DEF MarkRunning, TypeOK
<1> QED BY <1>1, <1>3, <1>4, <1>5, <1>6, <1>7, FrameAndRun

LEMMA ImportWork ==
  ASSUME WorkInv, NEW e \in Executors, ImportContacts(e) \/ ImportFailure(e)
  PROVE  Kept
<1>1. /\ TypeOK /\ exec[e] \in Exec /\ Sound(exec[e]) /\ exec[e].pc = "import"
      /\ exec[e].run \in 1 .. nruns /\ Len(TheRun(e).leads) \in Nat
      /\ \A i \in 1 .. Len(TheRun(e).leads) : TheRun(e).leads[i] \in Contacts
      /\ TheRun(e) \in Run
  BY FrameFacts DEF ImportContacts, ImportFailure
<1>2. Importable(e) \subseteq Contacts
  <2>1. TheRun(e).leads \in Seq(Contacts)
    BY <1>1 DEF Run
  <2> QED BY <2>1 DEF Importable
<1>3. ASSUME NEW contacts \in SUBSET Importable(e), Imported(e, contacts),
             UNCHANGED <<runs, nruns, enriched, emails, made, takers, lost>>,
             faults' \in 0 .. MaxFaults
      PROVE  Kept
  <2>1. PICK y \in Exec : y = [exec[e] EXCEPT !.pc = "leads", !.i = 1]
    BY <1>1 DEF Exec, Pcs
  <2>2. Moves(e, y)
    BY <1>3, <2>1 DEF Imported, Moves
  <2>3. y.todo = exec[e].todo /\ y.run = exec[e].run /\ y.pc = "leads" /\ y.i = 1
        /\ y.processed = 0 /\ y.failed = 0
    BY <1>1, <2>1 DEF Exec, Sound, Counting
  <2>4. Sound(y)'
    BY <1>1, <1>3, <2>3 DEF Sound, Framed, Counting, Backing, InLoop, RunOf, TheRun
  <2>5. /\ leads' \subseteq Contacts /\ enriched' \subseteq leads' /\ DbGrows
        /\ emails' \in [Contacts -> Nat] /\ made' \in [RunIds -> Nat]
    BY <1>1, <1>2, <1>3 DEF TypeOK, Imported, DbGrows
  <2> QED BY <1>3, <2>2, <2>4, <2>5, FrameAndDb
<1>4. CASE ImportContacts(e)
  BY <1>1, <1>3, <1>4 DEF ImportContacts, TypeOK
<1>5. CASE ImportFailure(e)
  <2>1. faults' \in 0 .. MaxFaults
    BY <1>1, <1>5, FaultType DEF ImportFailure
  <2>2. CASE \E contacts \in SUBSET Importable(e) : Imported(e, contacts)
    BY <1>3, <1>5, <2>1, <2>2 DEF ImportFailure
  <2>3. CASE Goto(e, "fail") /\ UNCHANGED leads
    <3>1. PICK y \in Exec : y = [exec[e] EXCEPT !.pc = "fail"]
      BY <1>1 DEF Exec, Pcs
    <3>2. Moves(e, y)
      BY <2>3, <3>1 DEF Goto, Moves
    <3>3. /\ y.todo = exec[e].todo /\ y.run = exec[e].run /\ y.pc = "fail"
          /\ y.processed = 0 /\ y.failed = 0
      BY <1>1, <3>1 DEF Exec, Sound, Counting
    <3>4. Sound(y)
      BY <1>1, <3>3 DEF Sound, Framed, Counting, Backing, InLoop, RunOf, TheRun
    <3> QED BY <1>1, <1>5, <2>1, <2>3, <3>2, <3>4, FrameOnly DEF ImportFailure, TypeOK, db
  <2> QED BY <1>5, <2>2, <2>3 DEF ImportFailure
<1> QED BY <1>4, <1>5

\* A lead is counted, in the right place, from wherever its step has ended.
LEMMA CountedSound ==
  ASSUME WorkInv, NEW e \in Executors, NEW ok \in BOOLEAN,
         HasLead(e) \/ exec[e].pc \in InLoop \ {"leads"},
         ok => exec[e].pc = "payload"
  PROVE  Counted(e, ok) \in Exec /\ Sound(Counted(e, ok))
<1>1. /\ TypeOK /\ exec[e] \in Exec /\ Sound(exec[e]) /\ exec[e].pc \in InLoop
      /\ exec[e].run \in 1 .. nruns /\ Len(TheRun(e).leads) \in Nat
      /\ TheRun(e).leads \in Seq(Contacts)
  BY FrameFacts DEF HasLead, InLoop, Run
<1>2. exec[e].i \in 1 .. Len(TheRun(e).leads)
  BY <1>1 DEF HasLead, Sound, Framed, InLoop, RunOf, TheRun
<1>3. PICK y \in Exec : y = Counted(e, ok)
  <2>1. exec[e].i + 1 \in Nat /\ exec[e].processed + 1 \in Nat /\ exec[e].failed + 1 \in Nat
    BY <1>1 DEF Exec
  <2>2. CASE ok
    BY <1>1, <2>1, <2>2 DEF Counted, Exec, Pcs
  <2>3. CASE ~ ok
    BY <1>1, <2>1, <2>3 DEF Counted, Exec, Pcs
  <2> QED BY <2>2, <2>3
<1>4. /\ y.todo = exec[e].todo /\ y.run = exec[e].run /\ y.pc = "leads"
      /\ y.i = exec[e].i + 1
      /\ y.processed = (IF ok THEN exec[e].processed + 1 ELSE exec[e].processed)
      /\ y.failed = (IF ok THEN exec[e].failed ELSE exec[e].failed + 1)
  BY <1>1, <1>3 DEF Counted, Exec
<1>5. exec[e].processed \in Nat /\ exec[e].failed \in Nat /\ exec[e].i \in Nat
  BY <1>1 DEF Exec
<1>6. Framed(y)
  BY <1>1, <1>2, <1>4 DEF Sound, Framed, InLoop, RunOf, TheRun
<1>7. Counting(y)
  <2>1. exec[e].processed + exec[e].failed = exec[e].i - 1
    BY <1>1 DEF Sound, Counting
  <2>2. y.processed + y.failed = y.i - 1
    BY <1>4, <1>5, <2>1
  <2> QED BY <1>4, <2>2 DEF Counting, InLoop
<1>8. ASSUME y.failed = 0, NEW j \in 1 .. y.i - 1 PROVE Backed(RunOf(y), j)
  <2>1. ok /\ exec[e].pc = "payload" /\ exec[e].failed = 0
    BY <1>4, <1>5, <1>8
  <2>2. CASE j = exec[e].i
    <3>1. /\ LeadOf(exec[e]) \in leads
          /\ RunOf(exec[e]).options.enrich => LeadOf(exec[e]) \in enriched
          /\ RunOf(exec[e]).options.email => emails[LeadOf(exec[e])] > 0
      BY <1>1, <2>1 DEF Sound, Framed, Backing, InLoop
    <3> QED BY <1>4, <2>2, <3>1 DEF Backed, RunOf, LeadOf
  <2>3. CASE j \in 1 .. exec[e].i - 1
    BY <1>1, <1>4, <2>1, <2>3 DEF Sound, Backing, InLoop, RunOf
  <2> QED BY <1>4, <1>5, <2>2, <2>3
<1>9. Backing(y)
  BY <1>4, <1>8 DEF Backing
<1> QED BY <1>3, <1>6, <1>7, <1>9 DEF Sound

LEMMA CountWork ==
  ASSUME WorkInv, NEW e \in Executors, SkipLead(e) \/ BuildPayload(e) \/ LeadFailure(e)
  PROVE  Kept
<1>1. \E ok \in BOOLEAN :
        /\ NextLead(e, ok)
        /\ HasLead(e) \/ exec[e].pc \in InLoop \ {"leads"}
        /\ ok => exec[e].pc = "payload"
  BY DEF SkipLead, BuildPayload, LeadFailure, InLoop
<1>2. PICK ok \in BOOLEAN :
        /\ NextLead(e, ok)
        /\ HasLead(e) \/ exec[e].pc \in InLoop \ {"leads"}
        /\ ok => exec[e].pc = "payload"
  BY <1>1
<1>3. PICK y \in Exec : y = Counted(e, ok) /\ Sound(Counted(e, ok))
  BY <1>2, CountedSound
<1>4. Moves(e, y)
  BY <1>2, <1>3 DEF NextLead, Moves
<1>5. Sound(y)
  BY <1>3
<1>6. faults' \in 0 .. MaxFaults /\ lost' \subseteq RunIds /\ UNCHANGED <<runs, nruns, db, takers>>
  BY DEF SkipLead, BuildPayload, LeadFailure, WorkInv, TypeOK
<1> QED BY <1>4, <1>5, <1>6, FrameOnly

LEMMA StartLeadWork ==
  ASSUME WorkInv, NEW e \in Executors, StartLead(e)
  PROVE  Kept
<1>1. /\ TypeOK /\ exec[e] \in Exec /\ Sound(exec[e]) /\ exec[e].pc = "leads"
      /\ exec[e].run \in 1 .. nruns /\ Len(TheRun(e).leads) \in Nat
  BY FrameFacts DEF StartLead, HasLead
<1> DEFINE enrich == TheRun(e).options.enrich /\ TheContact(e) \notin enriched
<1>2. PICK y \in Exec : y = [exec[e] EXCEPT !.pc = IF enrich THEN "enriching" ELSE "generating"]
  BY <1>1 DEF Exec, Pcs
<1>3. Moves(e, y)
  BY <1>2 DEF StartLead, Goto, Moves
<1>4. exec[e].i \in 1 .. Len(TheRun(e).leads) /\ LeadOf(exec[e]) \in leads
  BY <1>1 DEF StartLead, HasLead, Sound, Framed, RunOf, LeadOf, TheRun, TheContact
<1>5. /\ y.todo = exec[e].todo /\ y.run = exec[e].run /\ y.i = exec[e].i
      /\ y.processed = exec[e].processed /\ y.failed = exec[e].failed
      /\ y.pc = (IF enrich THEN "enriching" ELSE "generating")
  BY <1>1, <1>2 DEF Exec
<1>6. Framed(y)
  BY <1>1, <1>4, <1>5 DEF Sound, Framed, InLoop, RunOf, LeadOf, TheRun
<1>7. Counting(y)
  BY <1>1, <1>5 DEF Sound, Counting, InLoop
<1>8. Backing(y)
  BY <1>1, <1>5 DEF Sound, Backing, InLoop, RunOf, LeadOf, TheRun, TheContact
<1>9. faults' \in 0 .. MaxFaults /\ lost' \subseteq RunIds /\ UNCHANGED <<runs, nruns, db, takers>>
  BY <1>1 DEF StartLead, TypeOK
<1> QED BY <1>3, <1>6, <1>7, <1>8, <1>9, FrameOnly DEF Sound

LEMMA EnrichWork ==
  ASSUME WorkInv, NEW e \in Executors, Enrich(e)
  PROVE  Kept
<1>1. /\ TypeOK /\ exec[e] \in Exec /\ Sound(exec[e]) /\ exec[e].pc = "enriching"
      /\ exec[e].run \in 1 .. nruns /\ RunOf(exec[e]) = TheRun(e) /\ LeadOf(exec[e]) = TheContact(e)
  BY FrameFacts DEF Enrich, RunOf, LeadOf, TheRun, TheContact
<1>2. PICK x \in Exec : x = exec[e] /\ Sound(x)
  BY <1>1
<1>3. PICK y \in Exec : y = [exec[e] EXCEPT !.pc = "generating"]
  BY <1>1 DEF Exec, Pcs
<1>4. Moves(e, y)
  BY <1>3 DEF Enrich, Goto, Moves
<1>5. LeadOf(exec[e]) \in leads
  BY <1>1 DEF Sound, Framed, InLoop
<1>6. /\ leads' \subseteq Contacts /\ enriched' \subseteq leads' /\ DbGrows
      /\ emails' \in [Contacts -> Nat] /\ made' \in [RunIds -> Nat]
      /\ UNCHANGED <<runs, nruns, takers, lost>> /\ faults' \in 0 .. MaxFaults
  BY <1>1, <1>5 DEF Enrich, TypeOK, DbGrows
<1>7. RunsGrow
  BY <1>1, <1>6, TablesStay
<1>8. Sound(x)'
  BY <1>1, <1>2, <1>6, <1>7, SoundStays
<1>9. /\ y.todo = x.todo /\ y.run = x.run /\ y.i = x.i /\ y.pc = "generating"
      /\ y.processed = x.processed /\ y.failed = x.failed /\ x.pc = "enriching"
  BY <1>1, <1>2, <1>3 DEF Exec
<1>10. LeadOf(y)' \in enriched'
  BY <1>1, <1>2, <1>6, <1>9 DEF Enrich, LeadOf, RunOf
<1>11. Framed(y)' /\ Counting(y)'
  BY <1>8, <1>9 DEF Sound, Framed, Counting, InLoop, RunOf, LeadOf
<1>12. Backing(y)'
  BY <1>8, <1>9, <1>10 DEF Sound, Backing, InLoop, RunOf, LeadOf, Backed
<1>13. Sound(y)'
  BY <1>11, <1>12 DEF Sound
<1> QED BY <1>4, <1>6, <1>13, FrameAndDb

LEMMA GenerateWork ==
  ASSUME WorkInv, NEW e \in Executors, Generate(e)
  PROVE  Kept
<1>1. /\ TypeOK /\ exec[e] \in Exec /\ Sound(exec[e]) /\ exec[e].pc = "generating"
      /\ exec[e].run \in 1 .. nruns /\ exec[e].run \in RunIds
      /\ RunOf(exec[e]) = TheRun(e) /\ LeadOf(exec[e]) = TheContact(e)
  BY FrameFacts DEF Generate, RunOf, LeadOf, TheRun, TheContact
<1>2. PICK x \in Exec : x = exec[e] /\ Sound(x)
  BY <1>1
<1>3. PICK y \in Exec : y = [exec[e] EXCEPT !.pc = "payload"]
  BY <1>1 DEF Exec, Pcs
<1>4. Moves(e, y)
  BY <1>3 DEF Generate, Goto, Moves
<1>5. LeadOf(exec[e]) \in Contacts
  BY <1>1 DEF Sound, Framed, InLoop, TypeOK
<1>6. /\ leads' \subseteq Contacts /\ enriched' \subseteq leads' /\ DbGrows
      /\ emails' \in [Contacts -> Nat] /\ made' \in [RunIds -> Nat]
      /\ UNCHANGED <<runs, nruns, takers, lost>> /\ faults' \in 0 .. MaxFaults
  BY <1>1, <1>5 DEF Generate, TypeOK, DbGrows
<1>7. RunsGrow
  BY <1>1, <1>6, TablesStay
<1>8. Sound(x)'
  BY <1>1, <1>2, <1>6, <1>7, SoundStays
<1>9. /\ y.todo = x.todo /\ y.run = x.run /\ y.i = x.i /\ y.pc = "payload"
      /\ y.processed = x.processed /\ y.failed = x.failed /\ x.pc = "generating"
  BY <1>1, <1>2, <1>3 DEF Exec
<1>10. RunOf(y)'.options.email => emails'[LeadOf(y)'] > 0
  <2>1. RunOf(y)' = TheRun(e) /\ LeadOf(y)' = TheContact(e)
    BY <1>1, <1>2, <1>6, <1>9 DEF RunOf, LeadOf
  <2>2. emails \in [Contacts -> Nat] /\ TheContact(e) \in Contacts
    BY <1>1, <1>5 DEF TypeOK
  <2> QED BY <2>1, <2>2 DEF Generate
<1>11. Framed(y)' /\ Counting(y)'
  BY <1>8, <1>9 DEF Sound, Framed, Counting, InLoop, RunOf, LeadOf
<1>12. Backing(y)'
  BY <1>8, <1>9, <1>10 DEF Sound, Backing, InLoop, RunOf, LeadOf, Backed
<1>13. Sound(y)'
  BY <1>11, <1>12 DEF Sound
<1> QED BY <1>4, <1>6, <1>13, FrameAndDb

LEMMA FinishWork ==
  ASSUME WorkInv, NEW e \in Executors, Complete(e) \/ Fail(e)
  PROVE  Kept
<1>1. /\ TypeOK /\ exec[e] \in Exec /\ Sound(exec[e]) /\ exec[e].pc # "idle"
      /\ exec[e].run \in 1 .. nruns
  BY FrameFacts DEF Complete, LoopEnded, Fail
<1>2. PICK y \in Exec : y = [exec[e] EXCEPT !.pc = "idle"]
  BY <1>1 DEF Exec, Pcs
<1>3. Moves(e, y)
  BY <1>2 DEF Complete, Fail, Goto, Moves
<1>4. Sound(y)
  BY <1>1, <1>2 DEF Exec, Sound, Framed, Counting, Backing, InLoop
<1>5. exec[e].processed \in Nat /\ exec[e].failed \in Nat
  BY <1>1 DEF Exec
<1>6. Outcome(exec[e].processed, exec[e].failed) \in Terminal
  BY <1>5 DEF Outcome, Terminal
<1>7. PICK status \in {"running"} \cup Terminal, error \in BOOLEAN :
        runs' = [runs EXCEPT ![exec[e].run] =
                    [@ EXCEPT !.status = status, !.error = error,
                              !.processed = exec[e].processed, !.failed = exec[e].failed]]
  BY <1>6 DEF Complete, Fail, Finished, Terminal
<1>8. UNCHANGED <<nruns, db, faults>> /\ lost' \subseteq RunIds
      /\ takers' \in [RunIds -> SUBSET Executors]
  BY <1>1 DEF Complete, Fail, TypeOK
<1> QED BY <1>1, <1>3, <1>4, <1>5, <1>7, <1>8, FrameAndRun

LEMMA FaultWork ==
  ASSUME WorkInv, NEW e \in Executors, CompleteFailure(e) \/ Raise(e) \/ Crash(e)
  PROVE  Kept
<1>1. /\ TypeOK /\ exec[e] \in Exec /\ Sound(exec[e])
      /\ exec[e].pc # "idle" =>
            exec[e].run \in 1 .. nruns /\ exec[e].run \in RunIds /\ Len(TheRun(e).leads) \in Nat
  BY FrameFacts
<1>2. faults' \in 0 .. MaxFaults /\ UNCHANGED <<runs, nruns, db, takers>>
  BY <1>1, FaultType DEF CompleteFailure, Raise, Crash
<1>3. lost' \subseteq RunIds
  BY <1>1 DEF CompleteFailure, Raise, Crash, Processing, TypeOK
<1>4. CASE CompleteFailure(e)
  <2>1. PICK y \in Exec : y = [exec[e] EXCEPT !.pc = "fail"]
    BY <1>1 DEF Exec, Pcs
  <2>2. Moves(e, y)
    BY <1>4, <2>1 DEF CompleteFailure, Goto, Moves
  <2>3. exec[e].pc = "leads" /\ exec[e].i = Len(TheRun(e).leads) + 1
        /\ exec[e].processed + exec[e].failed = exec[e].i - 1
    BY <1>1, <1>4 DEF CompleteFailure, LoopEnded, HasLead, Sound, Framed, Counting, InLoop,
                      RunOf, TheRun
  <2>4. Sound(y)
    BY <1>1, <2>1, <2>3 DEF Exec, Sound, Framed, Counting, Backing, InLoop, RunOf, TheRun
  <2> QED BY <1>2, <1>3, <2>2, <2>4, FrameOnly
<1>5. CASE Raise(e)
  <2>1. PICK y \in Exec : y = [exec[e] EXCEPT !.pc = "idle"]
    BY <1>1 DEF Exec, Pcs
  <2>2. Moves(e, y)
    BY <1>5, <2>1 DEF Raise, Goto, Moves
  <2>3. Sound(y)
    BY <1>1, <2>1 DEF Exec, Sound, Framed, Counting, Backing, InLoop
  <2> QED BY <1>2, <1>3, <2>2, <2>3, FrameOnly
<1>6. CASE Crash(e)
  <2>1. PICK y \in Exec : y = [exec[e] EXCEPT !.pc = "idle", !.todo = {}]
    BY <1>1 DEF Exec, Pcs
  <2>2. Moves(e, y)
    BY <1>6, <2>1 DEF Crash, Moves
  <2>3. Sound(y)
    BY <1>1, <2>1 DEF Exec, Sound, Framed, Counting, Backing, InLoop
  <2> QED BY <1>2, <1>3, <2>2, <2>3, FrameOnly
<1> QED BY <1>4, <1>5, <1>6

LEMMA StutterWork == WorkInv /\ UNCHANGED vars => Kept
<1> SUFFICES ASSUME WorkInv, UNCHANGED vars PROVE Kept
  OBVIOUS
<1>1. TypeOK'
  BY DEF WorkInv, TypeOK, vars
<1>2. \A e \in Executors : Sound(exec[e])'
  BY DEF WorkInv, vars, Sound, Framed, Counting, Backing, InLoop, RunOf, LeadOf, Backed
<1>3. RunsGrow /\ DbGrows
  BY TablesStay DEF WorkInv, vars
<1> QED BY <1>1, <1>2, <1>3 DEF WorkInv, Kept

LEMMA StepWork == WorkInv /\ [Next]_vars => Kept
<1> SUFFICES ASSUME WorkInv, [Next]_vars PROVE Kept
  OBVIOUS
<1>1. ASSUME NEW req \in Requests, SubmitAsync(req) PROVE Kept
  BY <1>1, SubmitAsyncWork
<1>2. ASSUME NEW req \in Requests, NEW h \in Handlers, SubmitSync(h, req) PROVE Kept
  BY <1>2, SubmitSyncWork
<1>3. ASSUME NEW d \in Drainers, Drain(d) PROVE Kept
  BY <1>3, DrainWork
<1>4. ASSUME NEW e \in Executors, ProcessRun(e) \/ Failure(e) PROVE Kept
  BY <1>4, MarkRunningWork, ImportWork, CountWork, StartLeadWork, EnrichWork, GenerateWork,
     FinishWork, FaultWork DEF ProcessRun, Failure
<1>5. CASE UNCHANGED vars
  BY <1>5, StutterWork
<1> QED BY <1>1, <1>2, <1>3, <1>4, <1>5 DEF Next

THEOREM WorkCorrect == Spec => []WorkInv
<1>1. Init => WorkInv
  BY InitWork
<1>2. WorkInv /\ [Next]_vars => WorkInv'
  BY StepWork DEF Kept
<1> QED BY <1>1, <1>2, PTL DEF Spec

\* Every reachable state is well typed.
THEOREM TypeCorrect == Spec => []TypeOK
<1>1. WorkInv => TypeOK
  BY DEF WorkInv
<1> QED BY <1>1, WorkCorrect, PTL

-----------------------------------------------------------------------------
(* What a finished run reports.                                              *)

\* What a step makes of the run r.
RunStep(r) ==
  \/ r \in 1 .. nruns /\ runs'[r] = runs[r]
  \/ runs'[r].status \in {"queued", "running"}
  \/ \E e \in Executors : exec[e].run = r /\ (Complete(e) \/ Fail(e))

LEMMA RunSteps ==
  ASSUME WorkInv, [Next]_vars, NEW r \in 1 .. nruns'
  PROVE  RunStep(r)
<1>1. /\ runs \in [RunIds -> Run] /\ nruns \in Nat /\ TypeOK
      /\ \A q \in 1 .. nruns : q \in RunIds
  BY TypeFacts DEF WorkInv
<1>2. ASSUME NEW mode \in {"sync", "async"}, NEW status \in {"queued", "running"},
             NEW req \in Requests, CreateRun(NewRun(mode, status, req)),
             UNCHANGED <<leads, enriched, emails>>
      PROVE  RunStep(r)
  <2>1. /\ nruns' = nruns + 1 /\ runs'[nruns + 1] = NewRun(mode, status, req)
        /\ \A q \in 1 .. nruns : runs'[q] = runs[q]
    BY <1>1, <1>2, NewRow
  <2>2. CASE r = nruns + 1
    BY <2>1, <2>2 DEF RunStep, NewRun
  <2>3. CASE r \in 1 .. nruns
    BY <2>1, <2>3 DEF RunStep
  <2> QED BY <1>1, <2>1, <2>2, <2>3
<1>3. ASSUME NEW req \in Requests, SubmitAsync(req) PROVE RunStep(r)
  BY <1>2, <1>3 DEF SubmitAsync, db
<1>4. ASSUME NEW req \in Requests, NEW h \in Handlers, SubmitSync(h, req) PROVE RunStep(r)
  BY <1>2, <1>4 DEF SubmitSync, InitialStatus, db
<1>5. CASE UNCHANGED <<runs, nruns>>
  BY <1>5 DEF RunStep
<1>6. ASSUME NEW e \in Executors, MarkRunning(e) PROVE RunStep(r)
  <2>1. r \in RunIds /\ nruns' = nruns
    BY <1>1, <1>6 DEF MarkRunning
  <2>2. runs[r] \in Run
    BY <1>1, <2>1
  <2> QED BY <1>1, <1>6, <2>1, <2>2 DEF MarkRunning, RunStep, Run
<1>7. ASSUME NEW e \in Executors, Complete(e) \/ Fail(e) PROVE RunStep(r)
  <2>1. r \in RunIds /\ nruns' = nruns
    BY <1>1, <1>7 DEF Complete, Fail
  <2>2. CASE exec[e].run = r
    BY <1>7, <2>2 DEF RunStep
  <2>3. CASE exec[e].run # r
    BY <1>1, <1>7, <2>1, <2>3 DEF Complete, Fail, Finished, RunStep
  <2> QED BY <2>2, <2>3
<1>8. ASSUME NEW e \in Executors, ProcessRun(e) \/ Failure(e) PROVE RunStep(r)
  <2>1. CASE MarkRunning(e) \/ Complete(e) \/ Fail(e)
    BY <1>6, <1>7, <2>1
  <2>2. CASE ~ (MarkRunning(e) \/ Complete(e) \/ Fail(e))
    <3>1. UNCHANGED <<runs, nruns>>
      BY <1>8, <2>2 DEF ProcessRun, Failure, ImportContacts, SkipLead, StartLead, Enrich,
                        Generate, BuildPayload, LeadFailure, ImportFailure, CompleteFailure,
                        Raise, Crash
    <3> QED BY <1>5, <3>1
  <2> QED BY <2>1, <2>2
<1>9. ASSUME NEW d \in Drainers, Drain(d) PROVE RunStep(r)
  BY <1>5, <1>9 DEF Drain, ListQueued, TakeNext
<1>10. CASE UNCHANGED vars
  BY <1>5, <1>10 DEF vars
<1> QED BY <1>3, <1>4, <1>8, <1>9, <1>10 DEF Next

\* One run of StatusAgreesWithCounts.
Agrees(run) ==
  LET total == run.processed + run.failed
  IN  /\ run.status = "completed" =>
            run.failed = 0 /\ run.processed = Len(run.leads)
      /\ run.status = "partial" =>
            run.failed > 0 /\ run.processed > 0 /\ total = Len(run.leads)
      /\ run.status = "failed" =>
            IF run.error THEN total <= Len(run.leads)
            ELSE run.processed = 0 /\ run.failed = Len(run.leads)

\* One run of CompletedIsBacked.
AllBacked(r) ==
  runs[r].status = "completed" => \A i \in 1 .. Len(runs[r].leads) : Backed(runs[r], i)

Reported(r) == Agrees(runs[r]) /\ AllBacked(r)

ReportsInv == \A r \in 1 .. nruns : Reported(r)

LEMMA ReportsFollow == WorkInv /\ ReportsInv => ReportsTrue
<1> SUFFICES ASSUME WorkInv, ReportsInv PROVE ReportsTrue
  OBVIOUS
<1>1. StatusAgreesWithCounts
  BY DEF ReportsInv, Reported, Agrees, StatusAgreesWithCounts
<1>2. ASSUME NEW r \in 1 .. nruns, runs[r].status = "completed",
             NEW i \in DOMAIN runs[r].leads
      PROVE  Backed(runs[r], i)
  <2>1. runs[r].leads \in Seq(Contacts)
    BY TypeFacts DEF WorkInv, Run
  <2>2. i \in 1 .. Len(runs[r].leads)
    BY <2>1
  <2> QED BY <1>2, <2>2 DEF ReportsInv, Reported, AllBacked
<1>3. CompletedIsBacked
  BY <1>2 DEF CompletedIsBacked, Backed
<1> QED BY <1>1, <1>3 DEF ReportsTrue

\* The outcome of a loop that has gone through the list, or of one that broke off.
LEMMA FinishReports ==
  ASSUME WorkInv, Kept, NEW e \in Executors, Complete(e) \/ Fail(e), NEW r, r = exec[e].run
  PROVE  Reported(r)'
<1>1. /\ TypeOK /\ exec[e] \in Exec /\ Sound(exec[e]) /\ r \in 1 .. nruns /\ r \in RunIds
      /\ TheRun(e) \in Run /\ TheRun(e) = runs[r] /\ Len(runs[r].leads) \in Nat
      /\ exec[e].processed \in Nat /\ exec[e].failed \in Nat
  BY FrameFacts DEF Complete, LoopEnded, Fail, Exec, TheRun
<1>2. runs \in [RunIds -> Run]
  BY <1>1 DEF TypeOK
<1> DEFINE total == exec[e].processed + exec[e].failed
<1>3. CASE Complete(e)
  <2>1. exec[e].pc = "leads" /\ exec[e].i = Len(runs[r].leads) + 1 /\ total = Len(runs[r].leads)
    <3>1. exec[e].pc = "leads" /\ ~ (exec[e].i <= Len(runs[r].leads))
      BY <1>1, <1>3 DEF Complete, LoopEnded, HasLead
    <3>2. exec[e].i \in 1 .. Len(runs[r].leads) + 1 /\ total = exec[e].i - 1
      BY <1>1, <3>1 DEF Sound, Framed, Counting, InLoop, RunOf, TheRun
    <3>3. PICK n \in Nat : n = Len(runs[r].leads)
      BY <1>1
    <3>4. exec[e].i = n + 1 /\ total = n
      <4> HIDE DEF total
      <4> QED BY <3>1, <3>2, <3>3
    <3> QED BY <3>1, <3>3, <3>4
  <2>2. /\ runs'[r].processed = exec[e].processed /\ runs'[r].failed = exec[e].failed
        /\ runs'[r].leads = runs[r].leads /\ runs'[r].error = FALSE
        /\ runs'[r].options = runs[r].options
        /\ runs'[r].status = Outcome(exec[e].processed, exec[e].failed)
    BY <1>1, <1>2, <1>3 DEF Complete, Finished, Run
  <2>3. Agrees(runs[r])'
    BY <1>1, <2>1, <2>2 DEF Agrees, Outcome
  <2>4. ASSUME runs'[r].status = "completed", NEW i \in 1 .. Len(runs'[r].leads)
        PROVE  Backed(runs[r], i)'
    <3>1. exec[e].failed = 0
      BY <1>1, <2>2, <2>4 DEF Outcome
    <3>2. Backed(runs[r], i) /\ runs[r].leads[i] \in Contacts
      BY <1>1, <2>1, <2>2, <2>4, <3>1, TypeFacts DEF Sound, Backing, InLoop, RunOf
    <3>3. emails \in [Contacts -> Nat]
      BY <1>1 DEF TypeOK
    <3> QED BY <2>2, <3>2, <3>3 DEF Backed, Kept, DbGrows
  <2>5. AllBacked(r)'
    BY <2>4 DEF AllBacked
  <2> QED BY <2>3, <2>5 DEF Reported
<1>4. CASE Fail(e)
  <2>1. total <= Len(runs[r].leads)
    BY <1>1, <1>4 DEF Fail, Sound, Counting, RunOf
  <2>2. /\ runs'[r].processed = exec[e].processed /\ runs'[r].failed = exec[e].failed
        /\ runs'[r].leads = runs[r].leads /\ runs'[r].error = TRUE
        /\ runs'[r].status = "failed"
    BY <1>1, <1>2, <1>4 DEF Fail, Finished, Run
  <2> QED BY <2>1, <2>2 DEF Reported, Agrees, AllBacked
<1> QED BY <1>3, <1>4

LEMMA StepReports == WorkInv /\ ReportsInv /\ [Next]_vars => ReportsInv'
<1> SUFFICES ASSUME WorkInv, ReportsInv, [Next]_vars, NEW r \in 1 .. nruns'
             PROVE  Reported(r)'
  BY DEF ReportsInv
<1>1. Kept
  BY StepWork
<1>2. CASE r \in 1 .. nruns /\ runs'[r] = runs[r]
  <2>1. Reported(r) /\ Len(runs[r].leads) \in Nat /\ emails \in [Contacts -> Nat]
        /\ \A i \in 1 .. Len(runs[r].leads) : runs[r].leads[i] \in Contacts
    BY <1>2, TypeFacts DEF ReportsInv, WorkInv
  <2>2. Agrees(runs[r])'
    BY <1>2, <2>1 DEF Reported, Agrees
  <2>3. ASSUME NEW i \in 1 .. Len(runs[r].leads), Backed(runs[r], i) PROVE Backed(runs[r], i)'
    BY <1>1, <1>2, <2>1, <2>3 DEF Backed, Kept, DbGrows
  <2>4. AllBacked(r)'
    <3>1. runs'[r] = runs[r] /\ (runs[r].status = "completed" =>
             \A i \in 1 .. Len(runs[r].leads) : Backed(runs[r], i))
      BY <1>2, <2>1 DEF Reported, AllBacked
    <3>2. runs[r].status = "completed" =>
             \A i \in 1 .. Len(runs[r].leads) : Backed(runs[r], i)'
      BY <2>3, <3>1
    <3> QED BY <3>1, <3>2 DEF AllBacked
  <2> QED BY <2>2, <2>4 DEF Reported
<1>3. CASE runs'[r].status \in {"queued", "running"}
  BY <1>3 DEF Reported, Agrees, AllBacked
<1>4. ASSUME NEW e \in Executors, exec[e].run = r, Complete(e) \/ Fail(e) PROVE Reported(r)'
  BY <1>1, <1>4, FinishReports
<1> QED BY <1>2, <1>3, <1>4, RunSteps DEF RunStep

\* ReportsTrue: for any number of executors, runs, contacts and faults, a
\* finished run's status, counts and work agree.
THEOREM ReportsTrueCorrect == Spec => []ReportsTrue
<1>1. Init => ReportsInv
  BY DEF Init, ReportsInv
<1>2. WorkInv /\ ReportsInv /\ [Next]_vars => ReportsInv'
  BY StepReports
<1>3. WorkInv /\ ReportsInv => ReportsTrue
  BY ReportsFollow
<1> QED BY <1>1, <1>2, <1>3, WorkCorrect, PTL DEF Spec

-----------------------------------------------------------------------------
(* Who takes a run.                                                          *)

\* The program counters of a run that its executor has marked as running.
Own == InLoop \cup {"import", "fail"}

\* An executor takes a run at most once: what it has listed or is about to
\* take it has not taken yet.  Drainers never come to hold a sync run.
Taking(e, x) ==
  /\ \A r \in x.todo : e \notin takers[r]
  /\ x.pc = "claim" => x.run \notin x.todo /\ e \notin takers[x.run]
  /\ x.pc \in Own => e \in takers[x.run]
  /\ e \in Drainers =>
       /\ \A r \in x.todo : runs[r].mode # "sync"
       /\ x.pc # "idle" => runs[x.run].mode # "sync"

\* The status of a run tells whether it has been taken.
Taken(r) ==
  /\ IsFiniteSet(takers[r])
  /\ runs[r].status = "queued" => takers[r] = {} /\ runs[r].mode # "sync"
  /\ runs[r].status \in Terminal => takers[r] # {}
  /\ runs[r].mode = "sync" => takers[r] \cap Drainers = {}

Fresh(r) == takers[r] = {} /\ made[r] = 0

TakeInv ==
  /\ \A e \in Executors : Taking(e, exec[e])
  /\ \A r \in 1 .. nruns : Taken(r)
  /\ \A r \in RunIds : r > nruns => Fresh(r)

\* The contacts an executor may have generated an email for: those passed, and
\* the one at hand after its generation.
Busy(x) == x.pc \in InLoop \cup {"import"}

Reach(x) == IF x.pc = "payload" THEN x.i ELSE x.i - 1

\* The emails of a run stand for different pairs of a position in its list and
\* an executor that took it.
Pays(r, S) ==
  /\ S \subseteq (1 .. Len(runs[r].leads)) \X takers[r]
  /\ Cardinality(S) = made[r]
  /\ \A e \in Executors : Busy(exec[e]) /\ exec[e].run = r =>
        \A j \in 1 .. Len(runs[r].leads) : <<j, e>> \in S => j <= Reach(exec[e])

PayInv == \A r \in 1 .. nruns : \E S : Pays(r, S)

-----------------------------------------------------------------------------
(* A step that goes on with a run, or leaves it.                             *)

Continues(e, y) ==
  /\ Moves(e, y)
  /\ y.todo \subseteq exec[e].todo
  /\ y.run = exec[e].run
  /\ y.pc # "idle" => y.pc \in Own /\ exec[e].pc \in Own
  /\ Busy(y) => Busy(exec[e]) /\ Reach(exec[e]) <= Reach(y)

GoesOn(e) ==
  \/ ImportContacts(e) \/ ImportFailure(e) \/ SkipLead(e) \/ StartLead(e) \/ Enrich(e)
  \/ Generate(e) \/ BuildPayload(e) \/ LeadFailure(e) \/ Complete(e) \/ Fail(e)
  \/ CompleteFailure(e) \/ Raise(e) \/ Crash(e)

LEMMA Continuing ==
  ASSUME WorkInv, NEW e \in Executors, GoesOn(e)
  PROVE  \E y \in Exec : Continues(e, y)
<1>1. exec[e] \in Exec /\ exec \in [Executors -> Exec]
  BY FrameFacts, TypeFacts DEF WorkInv
<1>2. ASSUME NEW pc \in Own \cup {"idle"}, Goto(e, pc), exec[e].pc \in Own \/ pc = "idle",
             pc \in InLoop => Busy(exec[e]) /\ exec[e].pc # "payload", pc # "import"
      PROVE  \E y \in Exec : Continues(e, y)
  <2>1. PICK y \in Exec : y = [exec[e] EXCEPT !.pc = pc]
    BY <1>1 DEF Exec, Pcs, Own, InLoop
  <2>2. /\ y.pc = pc /\ y.todo = exec[e].todo /\ y.run = exec[e].run /\ y.i = exec[e].i
        /\ y.i \in Nat
    BY <1>1, <2>1 DEF Exec
  <2>3. Busy(y) => Busy(exec[e]) /\ Reach(exec[e]) <= Reach(y)
    BY <1>2, <2>2 DEF Busy, Reach
  <2> QED BY <1>2, <2>1, <2>2, <2>3 DEF Continues, Moves, Goto
<1>3. ASSUME NEW ok \in BOOLEAN, NextLead(e, ok), exec[e].pc \in InLoop,
             HasLead(e) \/ exec[e].pc \in InLoop \ {"leads"},
             ok => exec[e].pc = "payload"
      PROVE  \E y \in Exec : Continues(e, y)
  <2>1. PICK y \in Exec : y = Counted(e, ok)
    BY <1>3, CountedSound
  <2>2. /\ y.pc = "leads" /\ y.todo = exec[e].todo /\ y.run = exec[e].run
        /\ y.i = exec[e].i + 1 /\ exec[e].i \in Nat
    BY <1>1, <2>1 DEF Counted, Exec
  <2>3. Moves(e, y)
    BY <1>3, <2>1 DEF Moves, NextLead
  <2>4. Busy(exec[e]) /\ Reach(exec[e]) <= Reach(y)
    BY <1>3, <2>2 DEF Busy, Reach
  <2> QED BY <1>3, <2>2, <2>3, <2>4 DEF Continues, Own, InLoop
<1>4. ASSUME NEW contacts, Imported(e, contacts), exec[e].pc = "import"
      PROVE  \E y \in Exec : Continues(e, y)
  <2>1. PICK y \in Exec : y = [exec[e] EXCEPT !.pc = "leads", !.i = 1]
    BY <1>1 DEF Exec, Pcs
  <2>2. /\ y.pc = "leads" /\ y.todo = exec[e].todo /\ y.run = exec[e].run
        /\ y.i = 1 /\ exec[e].i = 1
    BY <1>1, <1>4, <2>1, FrameFacts DEF Exec, Sound, Framed
  <2>3. Moves(e, y)
    BY <1>4, <2>1 DEF Moves, Imported
  <2>4. Busy(exec[e]) /\ Reach(exec[e]) <= Reach(y)
    BY <1>4, <2>2 DEF Busy, Reach
  <2> QED BY <1>4, <2>2, <2>3, <2>4 DEF Continues, Own, InLoop
<1>5. CASE ImportContacts(e) \/ ImportFailure(e)
  <2>1. CASE Goto(e, "fail") /\ exec[e].pc = "import"
    BY <1>2, <2>1 DEF Own, InLoop
  <2> QED BY <1>4, <1>5, <2>1 DEF ImportContacts, ImportFailure
<1>6. CASE SkipLead(e) \/ BuildPayload(e) \/ LeadFailure(e)
  BY <1>3, <1>6 DEF SkipLead, BuildPayload, LeadFailure, HasLead, InLoop
<1>7. CASE StartLead(e)
  BY <1>2, <1>7 DEF StartLead, HasLead, Own, InLoop, Busy
<1>8. CASE Enrich(e) \/ Generate(e)
  BY <1>2, <1>8 DEF Enrich, Generate, Own, InLoop, Busy
<1>9. CASE Complete(e) \/ Fail(e) \/ Raise(e)
  BY <1>2, <1>9 DEF Complete, Fail, Raise, Own, InLoop
<1>10. CASE CompleteFailure(e)
  BY <1>2, <1>10 DEF CompleteFailure, LoopEnded, Own, InLoop
<1>11. CASE Crash(e)
  <2>1. PICK y \in Exec : y = [exec[e] EXCEPT !.pc = "idle", !.todo = {}]
    BY <1>1 DEF Exec, Pcs
  <2>2. y.pc = "idle" /\ y.todo = {} /\ y.run = exec[e].run
    BY <1>1, <2>1 DEF Exec
  <2> QED BY <1>11, <2>1, <2>2 DEF Crash, Continues, Moves, Busy, InLoop
<1> QED BY <1>5, <1>6, <1>7, <1>8, <1>9, <1>10, <1>11 DEF GoesOn

\* What such a step leaves alone: takers, and the status of every run it does
\* not finish; only Generate counts an email.
LEMMA GoesOnEffects ==
  ASSUME WorkInv, NEW e \in Executors, GoesOn(e)
  PROVE  /\ UNCHANGED <<nruns, takers>>
         /\ made' = made \/ Generate(e)
         /\ UNCHANGED runs \/ Complete(e) \/ Fail(e)
  BY DEF GoesOn, ImportContacts, ImportFailure, SkipLead, StartLead, Enrich, Generate,
         BuildPayload, LeadFailure, Complete, Fail, CompleteFailure, Raise, Crash, db

LEMMA StepCases ==
  ASSUME [Next]_vars
  PROVE  \/ \E req \in Requests : SubmitAsync(req) \/ \E h \in Handlers : SubmitSync(h, req)
         \/ \E d \in Drainers : ListQueued(d) \/ TakeNext(d)
         \/ \E e \in Executors : MarkRunning(e) \/ GoesOn(e)
         \/ UNCHANGED vars
  BY DEF Next, Drain, ProcessRun, Failure, GoesOn

\* The claim of a frame stays while nobody but others take runs.
LEMMA TakingStays ==
  ASSUME WorkInv, RunsGrow, NEW e \in Executors, NEW x \in Exec, Framed(x), Taking(e, x),
         \A r \in 1 .. nruns : e \in takers'[r] <=> e \in takers[r]
  PROVE  Taking(e, x)'
<1>1. \A r \in x.todo : r \in 1 .. nruns
  BY DEF Framed
<1>2. x.pc # "idle" => x.run \in 1 .. nruns
  BY DEF Framed
<1>3. x.pc \in Own => x.pc # "idle"
  BY DEF Own, InLoop
<1> QED BY <1>1, <1>2, <1>3 DEF Taking, RunsGrow

LEMMA TakenStays ==
  ASSUME WorkInv, RunsGrow, NEW r \in 1 .. nruns, Taken(r), takers'[r] = takers[r],
         \/ runs'[r].status = runs[r].status
         \/ runs'[r].status \in Terminal /\ takers[r] # {}
  PROVE  Taken(r)'
  BY DEF Taken, RunsGrow, Terminal

\* Frames other than the mover's.
LEMMA OthersTake ==
  ASSUME WorkInv, TakeInv, RunsGrow, NEW e \in Executors, NEW y \in Exec, Moves(e, y),
         NEW o \in Executors, o # e,
         \A r \in 1 .. nruns : o \in takers'[r] <=> o \in takers[r]
  PROVE  Taking(o, exec[o])'
<1>1. exec[o] \in Exec /\ Framed(exec[o]) /\ Taking(o, exec[o]) /\ exec'[o] = exec[o]
  BY FrameFacts DEF TakeInv, Moves, Sound, WorkInv, TypeOK
<1>2. PICK x \in Exec : x = exec[o] /\ Framed(x) /\ Taking(o, x)
  BY <1>1
<1>3. Taking(o, x)'
  BY <1>2, TakingStays
<1> QED BY <1>1, <1>2, <1>3 DEF Taking

LEMMA MoverTakes ==
  ASSUME WorkInv, NEW e \in Executors, NEW y \in Exec, Moves(e, y), Taking(e, y)'
  PROVE  Taking(e, exec[e])'
<1>1. exec'[e] = y
  BY TypeFacts DEF Moves, WorkInv
<1> QED BY <1>1 DEF Taking

LEMMA RowTakes ==
  ASSUME WorkInv, TakeInv, NEW mode \in {"sync", "async"}, NEW status \in {"queued", "running"},
         NEW req \in Requests, CreateRun(NewRun(mode, status, req)),
         mode = "sync" => status = "running",
         UNCHANGED <<leads, enriched, emails, takers, made>>
  PROVE  /\ RunsGrow /\ nruns' = nruns + 1 /\ nruns' \in RunIds /\ takers[nruns + 1] = {}
         /\ \A r \in 1 .. nruns' : Taken(r)'
         /\ \A r \in RunIds : r > nruns' => Fresh(r)'
<1>1. TypeOK /\ nruns \in Nat
  BY TypeFacts DEF WorkInv
<1>2. /\ nruns' = nruns + 1 /\ nruns' \in RunIds /\ RunsGrow
      /\ runs'[nruns + 1] = NewRun(mode, status, req)
      /\ \A r \in 1 .. nruns : runs'[r] = runs[r]
  BY <1>1, NewRow
<1>3. takers[nruns + 1] = {}
  BY <1>1, <1>2 DEF TakeInv, Fresh
<1>4. ASSUME NEW r \in 1 .. nruns' PROVE Taken(r)'
  <2>1. CASE r = nruns + 1
    BY <1>1, <1>2, <1>3, <2>1, FS_EmptySet DEF Taken, NewRun, Terminal
  <2>2. CASE r \in 1 .. nruns
    BY <1>1, <1>2, <2>2, TakenStays DEF TakeInv
  <2> QED BY <1>1, <1>2, <2>1, <2>2
<1>5. \A r \in RunIds : r > nruns' => Fresh(r)'
  BY <1>1, <1>2 DEF TakeInv, Fresh, RunIds
<1> QED BY <1>2, <1>3, <1>4, <1>5

LEMMA SubmitAsyncTakes ==
  ASSUME WorkInv, TakeInv, NEW req \in Requests, SubmitAsync(req)
  PROVE  TakeInv'
<1>1. /\ RunsGrow /\ \A r \in 1 .. nruns' : Taken(r)'
      /\ \A r \in RunIds : r > nruns' => Fresh(r)'
  BY RowTakes DEF SubmitAsync, db
<1>2. ASSUME NEW o \in Executors PROVE Taking(o, exec[o])'
  <2>1. exec[o] \in Exec /\ Framed(exec[o]) /\ Taking(o, exec[o]) /\ exec'[o] = exec[o]
    BY FrameFacts DEF TakeInv, Sound, SubmitAsync
  <2>2. PICK x \in Exec : x = exec[o] /\ Framed(x) /\ Taking(o, x)
    BY <2>1
  <2>3. Taking(o, x)'
    BY <1>1, <2>2, TakingStays DEF SubmitAsync
  <2> QED BY <2>1, <2>2, <2>3 DEF Taking
<1> QED BY <1>1, <1>2 DEF TakeInv

LEMMA SubmitSyncTakes ==
  ASSUME WorkInv, TakeInv, NEW req \in Requests, NEW h \in Handlers, SubmitSync(h, req)
  PROVE  TakeInv'
<1>1. /\ h \in Executors /\ exec[h] \in Exec /\ Framed(exec[h]) /\ Taking(h, exec[h])
      /\ nruns \in Nat /\ takers' = takers
  BY FrameFacts, TypeFacts DEF Executors, Sound, TakeInv, WorkInv, SubmitSync
<1>2. /\ RunsGrow /\ nruns' = nruns + 1 /\ nruns' \in RunIds /\ takers[nruns + 1] = {}
      /\ \A r \in 1 .. nruns' : Taken(r)'
      /\ \A r \in RunIds : r > nruns' => Fresh(r)'
  BY RowTakes DEF SubmitSync, InitialStatus, db
<1>3. PICK y \in Exec : y = [exec[h] EXCEPT !.pc = "claim", !.run = nruns + 1]
  <2>1. nruns + 1 \in 0 .. MaxRuns
    BY <1>1, <1>2 DEF RunIds
  <2> QED BY <1>1, <2>1 DEF Exec, Pcs
<1>4. y.todo = exec[h].todo /\ y.pc = "claim" /\ y.run = nruns + 1
  BY <1>1, <1>3 DEF Exec
<1>5. Moves(h, y)
  BY <1>3 DEF SubmitSync, Moves
<1>6. h \notin Drainers
  BY ApiRunsAssumption
<1>7. \A r \in y.todo : r # nruns + 1 /\ h \notin takers[r]
  BY <1>1, <1>4 DEF Framed, Taking
<1>8. Taking(h, y)'
  <2>1. y.run \notin y.todo /\ h \notin takers'[y.run] /\ y.pc \notin Own
    BY <1>1, <1>2, <1>4, <1>7 DEF Own, InLoop
  <2>2. \A r \in y.todo : h \notin takers'[r]
    BY <1>1, <1>7
  <2> QED BY <1>6, <2>1, <2>2 DEF Taking
<1>9. ASSUME NEW o \in Executors PROVE Taking(o, exec[o])'
  <2>1. CASE o = h
    BY <1>1, <1>5, <1>8, <2>1, MoverTakes
  <2>2. CASE o # h
    BY <1>1, <1>2, <1>5, <2>2, OthersTake
  <2> QED BY <2>1, <2>2
<1> QED BY <1>2, <1>9 DEF TakeInv

LEMMA DrainTakes ==
  ASSUME WorkInv, TakeInv, NEW d \in Drainers, ListQueued(d) \/ TakeNext(d)
  PROVE  TakeInv'
<1>1. /\ TypeOK /\ nruns \in Nat /\ d \in Executors /\ exec[d] \in Exec /\ Framed(exec[d])
      /\ Taking(d, exec[d]) /\ UNCHANGED <<runs, nruns, takers, made>>
  BY FrameFacts, TypeFacts DEF Executors, Sound, TakeInv, ListQueued, TakeNext, db
<1>2. RunsGrow
  BY <1>1, TablesStay
<1>3. \E y \in Exec : Moves(d, y) /\ Taking(d, y)
  <2>1. CASE ListQueued(d)
    <3>1. OldestQueued \subseteq Queued /\ Queued \subseteq 1 .. nruns /\ OldestQueued \in SUBSET RunIds
      BY <1>1, TypeFacts DEF OldestQueued, Queued, RunIds
    <3>2. PICK y \in Exec : y = [exec[d] EXCEPT !.todo = OldestQueued]
      BY <1>1, <3>1 DEF Exec
    <3>3. y.todo = OldestQueued /\ y.pc = "idle"
      BY <1>1, <2>1, <3>2 DEF ListQueued, Idle, Exec
    <3>4. \A r \in OldestQueued : takers[r] = {} /\ runs[r].mode # "sync"
      BY <3>1 DEF Queued, TakeInv, Taken
    <3>5. Moves(d, y)
      BY <2>1, <3>2 DEF ListQueued, Moves
    <3> QED BY <3>3, <3>4, <3>5 DEF Taking, Own, InLoop
  <2>2. CASE TakeNext(d)
    <3>1. PICK r \in exec[d].todo :
            exec' = [exec EXCEPT ![d] = [exec[d] EXCEPT !.pc = "claim", !.run = r,
                                                        !.todo = exec[d].todo \ {r}]]
      BY <2>2 DEF TakeNext
    <3>2. r \in 0 .. MaxRuns
      BY <1>1, TypeFacts DEF Framed
    <3>3. PICK y \in Exec : y = [exec[d] EXCEPT !.pc = "claim", !.run = r,
                                               !.todo = exec[d].todo \ {r}]
      BY <1>1, <3>2 DEF Exec, Pcs
    <3>4. y.pc = "claim" /\ y.run = r /\ y.todo = exec[d].todo \ {r}
      BY <1>1, <3>3 DEF Exec
    <3>5. Moves(d, y)
      BY <3>1, <3>3 DEF Moves
    <3> QED BY <1>1, <3>4, <3>5 DEF Taking, Own, InLoop
  <2> QED BY <2>1, <2>2
<1>4. PICK y \in Exec : Moves(d, y) /\ Taking(d, y)
  BY <1>3
<1>5. Taking(d, y)'
  BY <1>1, <1>4 DEF Taking
<1>6. ASSUME NEW o \in Executors PROVE Taking(o, exec[o])'
  BY <1>1, <1>2, <1>4, <1>5, MoverTakes, OthersTake
<1> QED BY <1>1, <1>6 DEF TakeInv, Taken, Fresh

LEMMA MarkTakes ==
  ASSUME WorkInv, TakeInv, NEW e \in Executors, MarkRunning(e)
  PROVE  TakeInv'
<1>1. /\ TypeOK /\ exec[e] \in Exec /\ Framed(exec[e]) /\ Taking(e, exec[e])
      /\ exec[e].pc = "claim" /\ exec[e].run \in 1 .. nruns /\ exec[e].run \in RunIds
      /\ UNCHANGED <<nruns, made>>
  BY FrameFacts DEF Sound, TakeInv, MarkRunning, db
<1>2. RunsGrow
  BY StepWork, MarkRunningWork DEF Kept
<1>3. /\ takers' = [takers EXCEPT ![exec[e].run] = @ \cup {e}]
      /\ takers \in [RunIds -> SUBSET Executors] /\ runs \in [RunIds -> Run]
  BY <1>1 DEF MarkRunning, TypeOK
<1>4. PICK y \in Exec : y = [exec[e] EXCEPT !.pc = "import", !.i = 1, !.processed = 0, !.failed = 0]
  BY <1>1 DEF Exec, Pcs
<1>5. Moves(e, y) /\ y.pc = "import" /\ y.run = exec[e].run /\ y.todo = exec[e].todo
  BY <1>1, <1>4 DEF MarkRunning, Moves, Exec
<1>6. \A r \in 1 .. nruns : r \in RunIds
  BY <1>1, TypeFacts
<1>7. Taking(e, y)'
  <2>1. \A r \in y.todo : r \in 1 .. nruns /\ r # exec[e].run /\ e \notin takers[r]
    BY <1>1, <1>5 DEF Framed, Taking
  <2>2. \A r \in y.todo : e \notin takers'[r]
    BY <1>3, <1>6, <2>1
  <2>3. e \in takers'[y.run]
    BY <1>1, <1>3, <1>5
  <2>4. e \in Drainers => /\ \A r \in y.todo : runs'[r].mode # "sync"
                          /\ runs'[y.run].mode # "sync"
    BY <1>1, <1>2, <1>5, <2>1 DEF Taking, RunsGrow
  <2> QED BY <1>5, <2>2, <2>3, <2>4 DEF Taking
<1>8. ASSUME NEW o \in Executors PROVE Taking(o, exec[o])'
  <2>1. CASE o = e
    BY <1>5, <1>7, <2>1, MoverTakes
  <2>2. CASE o # e
    <3>1. \A r \in 1 .. nruns : o \in takers'[r] <=> o \in takers[r]
      BY <1>1, <1>3, <1>6, <2>2
    <3> QED BY <1>2, <1>5, <2>2, <3>1, OthersTake
  <2> QED BY <2>1, <2>2
<1>9. ASSUME NEW r \in 1 .. nruns' PROVE Taken(r)'
  <2>1. r \in 1 .. nruns /\ r \in RunIds /\ Taken(r)
    BY <1>1, <1>6 DEF TakeInv
  <2>2. CASE r # exec[e].run
    <3>1. takers'[r] = takers[r] /\ runs'[r] = runs[r]
      BY <1>1, <1>3, <2>1, <2>2 DEF MarkRunning
    <3> QED BY <1>2, <2>1, <3>1, TakenStays
  <2>3. CASE r = exec[e].run
    <3>1. takers'[r] = takers[r] \cup {e} /\ runs'[r].status = "running" /\ runs'[r].mode = runs[r].mode
      BY <1>1, <1>3, <2>1, <2>3 DEF MarkRunning, Run
    <3>2. IsFiniteSet(takers'[r])
      BY <2>1, <3>1, FS_AddElement DEF Taken
    <3>3. runs'[r].mode = "sync" => takers'[r] \cap Drainers = {}
      BY <1>1, <2>1, <2>3, <3>1 DEF Taken, Taking
    <3> QED BY <3>1, <3>2, <3>3 DEF Taken, Terminal
  <2> QED BY <2>2, <2>3
<1>10. ASSUME NEW r \in RunIds, r > nruns' PROVE Fresh(r)'
  <2>1. r # exec[e].run /\ r > nruns
    BY <1>1, <1>10 DEF TypeOK
  <2> QED BY <1>1, <1>3, <1>10, <2>1 DEF TakeInv, Fresh
<1> QED BY <1>8, <1>9, <1>10 DEF TakeInv

LEMMA GoesOnTakes ==
  ASSUME WorkInv, TakeInv, NEW e \in Executors, GoesOn(e)
  PROVE  TakeInv'
<1>1. UNCHANGED <<nruns, takers>> /\ RunsGrow /\ Taking(e, exec[e]) /\ nruns \in Nat
  BY GoesOnEffects, StepWork, TypeFacts DEF Kept, WorkInv, TakeInv, GoesOn, Next, ProcessRun, Failure
<1>2. PICK y \in Exec : Continues(e, y)
  BY Continuing
<1>3. Framed(exec[e]) /\ exec[e].pc \in Own => exec[e].pc # "idle"
  BY DEF Own, InLoop
<1>4. Taking(e, y)
  BY <1>1, <1>2 DEF Continues, Taking, Own, InLoop
<1>5. Framed(exec[e])
  BY FrameFacts DEF Sound
<1>6. /\ \A r \in y.todo : r \in 1 .. nruns
      /\ y.pc # "idle" => y.run \in 1 .. nruns
  BY <1>2, <1>3, <1>5 DEF Continues, Framed
<1>7. Taking(e, y)'
  BY <1>1, <1>4, <1>6 DEF Taking, RunsGrow, Own, InLoop
<1>8. ASSUME NEW o \in Executors PROVE Taking(o, exec[o])'
  <2>1. CASE o = e
    BY <1>2, <1>7, <2>1, MoverTakes DEF Continues
  <2>2. CASE o # e
    BY <1>1, <1>2, <2>2, OthersTake DEF Continues
  <2> QED BY <2>1, <2>2
<1>9. ASSUME NEW r \in 1 .. nruns' PROVE Taken(r)'
  <2>1. r \in 1 .. nruns /\ Taken(r)
    BY <1>1 DEF TakeInv
  <2>2. CASE UNCHANGED runs
    BY <1>1, <2>1, <2>2, TakenStays
  <2>3. CASE Complete(e) \/ Fail(e)
    <3>1. exec[e].pc \in Own /\ exec[e].processed \in Nat /\ exec[e].failed \in Nat
      BY <2>3, FrameFacts DEF Complete, LoopEnded, Fail, Own, InLoop, Exec
    <3>2. e \in takers[exec[e].run]
      BY <1>1, <3>1 DEF Taking
    <3>3. r \in RunIds /\ runs \in [RunIds -> Run]
      BY <2>1, TypeFacts DEF WorkInv
    <3>4. CASE r # exec[e].run
      <4>1. runs'[r] = runs[r]
        BY <2>3, <3>3, <3>4 DEF Complete, Fail, Finished
      <4> QED BY <1>1, <2>1, <4>1, TakenStays
    <3>5. CASE r = exec[e].run
      <4>1. Outcome(exec[e].processed, exec[e].failed) \in Terminal
        BY <3>1 DEF Outcome, Terminal
      <4>2. runs'[r].status \in Terminal
        <5>1. runs[r] \in Run /\ "failed" \in Terminal
          BY <3>3 DEF Terminal
        <5>2. CASE Complete(e)
          BY <3>3, <3>5, <4>1, <5>1, <5>2 DEF Complete, Finished, Run
        <5>3. CASE Fail(e)
          BY <3>3, <3>5, <5>1, <5>3 DEF Fail, Finished, Run
        <5> QED BY <2>3, <5>2, <5>3
      <4> QED BY <1>1, <2>1, <3>2, <3>5, <4>2, TakenStays
    <3> QED BY <3>4, <3>5
  <2> QED BY <2>2, <2>3, GoesOnEffects
<1>10. ASSUME NEW r \in RunIds, r > nruns' PROVE Fresh(r)'
  <2>1. Fresh(r) /\ r > nruns
    BY <1>1, <1>10 DEF TakeInv
  <2>2. made'[r] = made[r]
    <3>1. CASE Generate(e)
      <4>1. exec[e].run \in 1 .. nruns
        BY <3>1, FrameFacts DEF Generate
      <4>2. made \in [RunIds -> Nat] /\ exec[e].run # r
        BY <1>1, <2>1, <4>1 DEF WorkInv, TypeOK
      <4> QED BY <1>10, <3>1, <4>2 DEF Generate
    <3> QED BY <3>1, GoesOnEffects
  <2> QED BY <1>1, <2>1, <2>2 DEF Fresh
<1> QED BY <1>8, <1>9, <1>10 DEF TakeInv

LEMMA InitTakes == Init => TakeInv
<1> SUFFICES ASSUME Init PROVE TakeInv
  OBVIOUS
<1>1. ASSUME NEW e \in Executors PROVE Taking(e, exec[e])
  BY DEF Init, Taking, Own, InLoop
<1>2. \A r \in RunIds : Fresh(r)
  BY DEF Init, Fresh
<1> QED BY <1>1, <1>2 DEF Init, TakeInv

LEMMA StepTakes == WorkInv /\ TakeInv /\ [Next]_vars => TakeInv'
<1> SUFFICES ASSUME WorkInv, TakeInv, [Next]_vars PROVE TakeInv'
  OBVIOUS
<1>1. CASE UNCHANGED vars
  BY <1>1 DEF vars, TakeInv, Taking, Taken, Fresh
<1>2. ASSUME NEW req \in Requests, SubmitAsync(req) PROVE TakeInv'
  BY <1>2, SubmitAsyncTakes
<1>3. ASSUME NEW req \in Requests, NEW h \in Handlers, SubmitSync(h, req) PROVE TakeInv'
  BY <1>3, SubmitSyncTakes
<1>4. ASSUME NEW d \in Drainers, ListQueued(d) \/ TakeNext(d) PROVE TakeInv'
  BY <1>4, DrainTakes
<1>5. ASSUME NEW e \in Executors, MarkRunning(e) \/ GoesOn(e) PROVE TakeInv'
  BY <1>5, MarkTakes, GoesOnTakes
<1> QED BY <1>1, <1>2, <1>3, <1>4, <1>5, StepCases

-----------------------------------------------------------------------------
(* What a run pays for.                                                      *)

\* Nothing is paid in a step, and who works on r has not gone back.
LEMMA PaysStays ==
  ASSUME WorkInv, TypeOK', RunsGrow, NEW r \in 1 .. nruns, NEW S, Pays(r, S), made'[r] = made[r],
         takers[r] \subseteq takers'[r],
         \A o \in Executors : Busy(exec'[o]) /\ exec'[o].run = r =>
           \/ o \notin takers[r]
           \/ Busy(exec[o]) /\ exec[o].run = r /\ Reach(exec[o]) <= Reach(exec'[o])
  PROVE  Pays(r, S)'
<1>1. Len(runs[r].leads) \in Nat /\ runs'[r].leads = runs[r].leads
  BY TypeFacts DEF WorkInv, RunsGrow
<1>2. S \subseteq ((1 .. Len(runs[r].leads)) \X takers[r])'
  BY <1>1 DEF Pays
<1>3. ASSUME NEW o \in Executors, Busy(exec'[o]), exec'[o].run = r,
             NEW j \in 1 .. Len(runs[r].leads), <<j, o>> \in S
      PROVE  j <= Reach(exec'[o])
  <2>1. o \in takers[r]
    BY <1>3 DEF Pays
  <2>2. Busy(exec[o]) /\ exec[o].run = r /\ Reach(exec[o]) <= Reach(exec'[o])
    BY <1>3, <2>1
  <2>3. j <= Reach(exec[o])
    BY <1>3, <2>2 DEF Pays
  <2>4. exec[o].i \in Nat /\ exec'[o].i \in Nat
    BY DEF WorkInv, TypeOK, Exec
  <2> QED BY <1>1, <1>3, <2>2, <2>3, <2>4 DEF Reach
<1> QED BY <1>1, <1>2, <1>3 DEF Pays

\* The email of a lead at hand stands for a pair that was not there yet.
LEMMA GeneratePays ==
  ASSUME WorkInv, TakeInv, WorkInv', RunsGrow, NEW e \in Executors, Generate(e),
         NEW r \in 1 .. nruns, r = exec[e].run, NEW S, Pays(r, S)
  PROVE  \E T : Pays(r, T)'
<1>1. /\ TypeOK /\ TypeOK' /\ exec[e] \in Exec /\ Sound(exec[e]) /\ exec[e].pc = "generating"
      /\ r \in RunIds /\ Taking(e, exec[e]) /\ Taken(r)
      /\ Len(runs[r].leads) \in Nat /\ UNCHANGED <<runs, takers>>
  BY FrameFacts, TypeFacts DEF Generate, TakeInv, WorkInv
<1>0. PICK n \in Nat : n = Len(runs[r].leads)
  BY <1>1
<1>00. PICK i \in Nat : i = exec[e].i
  BY <1>1 DEF Exec
<1> DEFINE T == S \cup {<<i, e>>}
<1>2. i \in 1 .. n /\ e \in takers[r]
  BY <1>0, <1>00, <1>1 DEF Sound, Framed, Taking, Own, InLoop, RunOf
<1>3. PICK y \in Exec : y = [exec[e] EXCEPT !.pc = "payload"]
  BY <1>1 DEF Exec, Pcs
<1>4. y.pc = "payload" /\ y.run = r /\ y.i = i
  BY <1>00, <1>1, <1>3 DEF Exec
<1>5. exec'[e] = y /\ \A o \in Executors \ {e} : exec'[o] = exec[o]
  BY <1>1, <1>3 DEF Generate, Goto, TypeOK
<1>6. CASE made'[r] = made[r]
  <2>1. \A o \in Executors : Busy(exec'[o]) /\ exec'[o].run = r =>
          Busy(exec[o]) /\ exec[o].run = r /\ Reach(exec[o]) <= Reach(exec'[o])
    <3> SUFFICES ASSUME NEW o \in Executors, Busy(exec'[o]), exec'[o].run = r
                 PROVE  Busy(exec[o]) /\ exec[o].run = r /\ Reach(exec[o]) <= Reach(exec'[o])
      OBVIOUS
    <3>1. exec[o].i \in Nat
      BY <1>1 DEF TypeOK, Exec
    <3>2. CASE o = e
      BY <1>00, <1>1, <1>4, <1>5, <3>1, <3>2 DEF Busy, InLoop, Reach
    <3>3. CASE o # e
      BY <1>5, <3>1, <3>3 DEF Reach
    <3> QED BY <3>2, <3>3
  <2>2. takers[r] \subseteq takers'[r]
    BY <1>1
  <2>3. Pays(r, S)'
    BY <1>1, <1>6, <2>1, <2>2, PaysStays
  <2> QED BY <2>3
<1>7. CASE made'[r] = made[r] + 1
  <2>1. IsFiniteSet(S)
    <3>1. IsFiniteSet(1 .. n) /\ IsFiniteSet(takers[r])
      BY <1>1, FS_Interval DEF Taken
    <3>2. IsFiniteSet((1 .. n) \X takers[r])
      BY <3>1, FS_Product
    <3> QED BY <1>0, <3>2, FS_Subset DEF Pays
  <2>2. <<i, e>> \notin S
    BY <1>0, <1>00, <1>1, <1>2 DEF Pays, Busy, InLoop, Reach
  <2>3. Cardinality(T) = made'[r]
    <3>1. Cardinality(T) = Cardinality(S) + 1
      BY <2>1, <2>2, FS_AddElement
    <3>2. Cardinality(S) = made[r]
      BY DEF Pays
    <3> HIDE DEF T
    <3> QED BY <1>7, <3>1, <3>2
  <2>4. T \subseteq (1 .. n) \X takers[r]
    BY <1>0, <1>2 DEF Pays
  <2>5. ASSUME NEW o \in Executors, Busy(exec'[o]), exec'[o].run = r,
               NEW j \in 1 .. n, <<j, o>> \in T
        PROVE  j <= Reach(exec'[o])
    <3>1. CASE o = e
      <4>1. Reach(exec'[o]) = i
        BY <1>4, <1>5, <3>1 DEF Reach
      <4>2. CASE <<j, o>> \in S
        <5>1. j <= Reach(exec[e])
          BY <1>0, <1>00, <1>1, <2>5, <3>1, <4>2 DEF Pays, Busy, InLoop
        <5> QED BY <1>00, <1>1, <1>2, <4>1, <5>1 DEF Reach
      <4>3. CASE <<j, o>> = <<i, e>>
        BY <1>2, <4>1, <4>3
      <4> QED BY <2>5, <4>2, <4>3
    <3>2. CASE o # e
      <4>1. <<j, o>> \in S /\ exec'[o] = exec[o]
        BY <1>5, <2>5, <3>2
      <4> QED BY <1>0, <2>5, <4>1 DEF Pays
    <3> QED BY <3>1, <3>2
  <2>6. Pays(r, T)'
    <3> HIDE DEF T
    <3>1. runs' = runs /\ takers' = takers
      BY <1>1
    <3>2. \A o \in Executors : Busy(exec'[o]) /\ exec'[o].run = r =>
            \A j \in 1 .. n : <<j, o>> \in T => j <= Reach(exec'[o])
      BY <2>5
    <3> QED BY <1>0, <2>3, <2>4, <3>1, <3>2 DEF Pays
  <2> QED BY <2>6
<1>8. made'[r] = made[r] \/ made'[r] = made[r] + 1
  BY <1>1 DEF Generate, TypeOK
<1> QED BY <1>6, <1>7, <1>8

LEMMA StepPays == WorkInv /\ TakeInv /\ PayInv /\ [Next]_vars => PayInv'
<1> SUFFICES ASSUME WorkInv, TakeInv, PayInv, [Next]_vars, NEW r \in 1 .. nruns'
             PROVE  \E S : Pays(r, S)'
  BY DEF PayInv
<1>1. Kept /\ WorkInv' /\ RunsGrow /\ TypeOK'
  BY StepWork DEF Kept, WorkInv
<1>2. /\ exec \in [Executors -> Exec] /\ nruns \in Nat /\ takers \in [RunIds -> SUBSET Executors]
      /\ \A q \in 1 .. nruns : q \in RunIds
  BY TypeFacts DEF WorkInv, TypeOK
<1>3. ASSUME r \in 1 .. nruns, made'[r] = made[r], takers' = takers,
             NEW e \in Executors, NEW y \in Exec, Moves(e, y),
             Busy(y) /\ y.run = r =>
               Busy(exec[e]) /\ exec[e].run = r /\ Reach(exec[e]) <= Reach(y)
      PROVE  \E S : Pays(r, S)'
  <2>1. PICK S : Pays(r, S)
    BY <1>3 DEF PayInv
  <2>2. ASSUME NEW o \in Executors, Busy(exec'[o]), exec'[o].run = r
        PROVE  Busy(exec[o]) /\ exec[o].run = r /\ Reach(exec[o]) <= Reach(exec'[o])
    <3>1. CASE o = e
      BY <1>2, <1>3, <2>2, <3>1 DEF Moves
    <3>2. CASE o # e
      <4>1. exec'[o] = exec[o] /\ exec[o].i \in Nat
        BY <1>2, <1>3, <3>2 DEF Moves, Exec
      <4> QED BY <2>2, <4>1 DEF Reach
    <3> QED BY <3>1, <3>2
  <2>3. takers[r] \subseteq takers'[r]
    BY <1>3
  <2>4. Pays(r, S)'
    BY <1>1, <1>3, <2>1, <2>2, <2>3, PaysStays
  <2> QED BY <2>4
<1>4. ASSUME r = nruns + 1, Fresh(r), UNCHANGED <<takers, made>> PROVE \E S : Pays(r, S)'
  <2>1. Pays(r, {})'
    BY <1>4, FS_EmptySet DEF Pays, Fresh
  <2> QED BY <2>1
<1>5. ASSUME nruns' = nruns + 1, nruns + 1 \in RunIds, UNCHANGED <<takers, made>>,
             r = nruns + 1
      PROVE  \E S : Pays(r, S)'
  BY <1>2, <1>4, <1>5 DEF TakeInv
<1>6. ASSUME NEW req \in Requests, SubmitAsync(req) PROVE \E S : Pays(r, S)'
  <2>1. nruns' = nruns + 1 /\ nruns + 1 \in RunIds /\ UNCHANGED <<exec, takers, made>>
    BY <1>2, <1>6, NewRow DEF SubmitAsync, db, WorkInv
  <2>2. CASE r = nruns + 1
    BY <1>5, <2>1, <2>2
  <2>3. CASE r \in 1 .. nruns
    <3>1. PICK S : Pays(r, S)
      BY <2>3 DEF PayInv
    <3>2. \A o \in Executors : exec[o].i \in Nat
      BY <1>2 DEF Exec
    <3>3. Pays(r, S)'
      BY <1>1, <2>1, <2>3, <3>1, <3>2, PaysStays DEF Reach
    <3> QED BY <3>3
  <2> QED BY <1>2, <2>1, <2>2, <2>3
<1>7. ASSUME NEW req \in Requests, NEW h \in Handlers, SubmitSync(h, req)
      PROVE  \E S : Pays(r, S)'
  <2>1. nruns' = nruns + 1 /\ nruns + 1 \in RunIds /\ UNCHANGED <<takers, made>>
    BY <1>2, <1>7, NewRow DEF SubmitSync, InitialStatus, db, WorkInv
  <2>2. CASE r = nruns + 1
    BY <1>5, <2>1, <2>2
  <2>3. CASE r \in 1 .. nruns
    <3>1. h \in Executors /\ nruns + 1 \in 0 .. MaxRuns
      BY <2>1 DEF Executors, RunIds
    <3>2. PICK y \in Exec : y = [exec[h] EXCEPT !.pc = "claim", !.run = nruns + 1]
      BY <1>2, <3>1 DEF Exec, Pcs
    <3>3. Moves(h, y) /\ y.pc = "claim"
      BY <1>2, <1>7, <3>1, <3>2 DEF SubmitSync, Moves, Exec
    <3> QED BY <1>3, <2>1, <2>3, <3>1, <3>3 DEF Busy, InLoop
  <2> QED BY <1>2, <2>1, <2>2, <2>3
<1>8. ASSUME NEW d \in Drainers, ListQueued(d) \/ TakeNext(d) PROVE \E S : Pays(r, S)'
  <2>1. d \in Executors /\ r \in 1 .. nruns /\ UNCHANGED <<takers, made>> /\ exec[d] \in Exec
    BY <1>2, <1>8 DEF Executors, ListQueued, TakeNext, db
  <2>2. exec[d].pc = "idle"
    BY <1>8 DEF ListQueued, TakeNext, Idle
  <2>3. PICK y \in Exec : y = exec'[d]
    BY <1>1, <2>1 DEF TypeOK
  <2>4. CASE ListQueued(d)
    <3>1. Moves(d, y)
      BY <1>2, <2>1, <2>3, <2>4 DEF ListQueued, Moves
    <3>2. y.pc = "idle"
      BY <1>2, <2>1, <2>2, <2>3, <2>4 DEF ListQueued, Exec
    <3> QED BY <1>3, <2>1, <3>1, <3>2 DEF Busy, InLoop
  <2>5. CASE TakeNext(d)
    <3>1. PICK q \in exec[d].todo :
            exec' = [exec EXCEPT ![d] = [exec[d] EXCEPT !.pc = "claim", !.run = q,
                                                        !.todo = exec[d].todo \ {q}]]
      BY <2>5 DEF TakeNext
    <3>2. Moves(d, y)
      BY <1>2, <2>1, <2>3, <3>1 DEF Moves
    <3>3. y.pc = "claim"
      BY <1>2, <2>1, <2>3, <3>1 DEF Exec
    <3> QED BY <1>3, <2>1, <3>2, <3>3 DEF Busy, InLoop
  <2> QED BY <1>8, <2>4, <2>5
<1>9. ASSUME NEW e \in Executors, MarkRunning(e) PROVE \E S : Pays(r, S)'
  <2>1. /\ r \in 1 .. nruns /\ r \in RunIds /\ UNCHANGED made /\ exec[e] \in Exec
        /\ exec[e].pc = "claim" /\ e \notin takers[exec[e].run]
        /\ takers' = [takers EXCEPT ![exec[e].run] = @ \cup {e}]
    BY <1>2, <1>9 DEF MarkRunning, db, TakeInv, Taking
  <2>2. PICK S : Pays(r, S)
    BY <2>1 DEF PayInv
  <2>3. takers[r] \subseteq takers'[r]
    BY <1>2, <2>1
  <2>4. ASSUME NEW o \in Executors, Busy(exec'[o]), exec'[o].run = r
        PROVE  \/ o \notin takers[r]
               \/ Busy(exec[o]) /\ exec[o].run = r /\ Reach(exec[o]) <= Reach(exec'[o])
    <3>1. CASE o = e
      <4>1. exec'[e].run = exec[e].run
        BY <1>2, <1>9, <2>1 DEF MarkRunning, Exec
      <4> QED BY <2>1, <2>4, <3>1, <4>1
    <3>2. CASE o # e
      <4>1. exec'[o] = exec[o] /\ exec[o].i \in Nat
        BY <1>2, <1>9, <3>2 DEF MarkRunning, Exec
      <4> QED BY <2>4, <4>1 DEF Reach
    <3> QED BY <3>1, <3>2
  <2>5. Pays(r, S)'
    BY <1>1, <2>1, <2>2, <2>3, <2>4, PaysStays
  <2> QED BY <2>5
<1>10. ASSUME NEW e \in Executors, GoesOn(e) PROVE \E S : Pays(r, S)'
  <2>1. UNCHANGED <<nruns, takers>> /\ r \in 1 .. nruns
    BY <1>10, GoesOnEffects
  <2>2. PICK y \in Exec : Continues(e, y)
    BY <1>10, Continuing
  <2>3. CASE made'[r] = made[r]
    BY <1>3, <2>1, <2>2, <2>3 DEF Continues
  <2>4. CASE made'[r] # made[r]
    <3>1. Generate(e) /\ exec[e].run = r
      <4>1. Generate(e)
        BY <1>10, <2>4, GoesOnEffects
      <4>2. made \in [RunIds -> Nat] /\ r \in RunIds
        BY <1>2, <2>1 DEF WorkInv, TypeOK
      <4> QED BY <2>4, <4>1, <4>2 DEF Generate
    <3>2. PICK S : Pays(r, S)
      BY <2>1 DEF PayInv
    <3> QED BY <1>1, <2>1, <3>1, <3>2, GeneratePays
  <2> QED BY <2>3, <2>4
<1>11. CASE UNCHANGED vars
  <2>1. PICK S : Pays(r, S)
    BY <1>11 DEF PayInv, vars
  <2>2. Pays(r, S)'
    BY <1>11, <2>1 DEF Pays, vars
  <2> QED BY <2>2
<1> QED BY <1>6, <1>7, <1>8, <1>9, <1>10, <1>11, StepCases

-----------------------------------------------------------------------------

LEMMA SyncIsNotDrained == TakeInv => SyncNotDrained
  BY DEF TakeInv, Taken, SyncNotDrained

LEMMA PaysOncePerTaker == WorkInv /\ TakeInv /\ PayInv => OncePerTaker
<1> SUFFICES ASSUME WorkInv, TakeInv, PayInv, NEW r \in 1 .. nruns
             PROVE  made[r] <= Len(runs[r].leads) * Cardinality(takers[r])
  BY DEF OncePerTaker
<1>1. PICK n \in Nat : n = Len(runs[r].leads)
  BY TypeFacts DEF WorkInv
<1>2. PICK S : Pays(r, S)
  BY DEF PayInv
<1>3. IsFiniteSet(1 .. n) /\ Cardinality(1 .. n) = n
  BY FS_Interval
<1>4. IsFiniteSet(takers[r])
  BY DEF TakeInv, Taken
<1>5. /\ IsFiniteSet((1 .. n) \X takers[r])
      /\ Cardinality((1 .. n) \X takers[r]) = n * Cardinality(takers[r])
  BY <1>3, <1>4, FS_Product
<1>6. S \in SUBSET ((1 .. n) \X takers[r])
  BY <1>1, <1>2 DEF Pays
<1>7. Cardinality(S) <= Cardinality((1 .. n) \X takers[r])
  BY <1>5, <1>6, FS_Subset
<1> QED BY <1>1, <1>2, <1>5, <1>7 DEF Pays

\* The two takers of a run that is reopened.
LEMMA SecondTaker ==
  ASSUME WorkInv, TakeInv, NEW e \in Executors, MarkRunning(e), NEW r \in 1 .. nruns,
         r = exec[e].run, runs[r].status \in Terminal
  PROVE  Cardinality(takers'[r]) > 1
<1>1. /\ IsFiniteSet(takers[r]) /\ takers[r] # {} /\ e \notin takers[r]
  BY DEF TakeInv, Taken, Taking, MarkRunning
<1>2. takers'[r] = takers[r] \cup {e}
  BY TypeFacts DEF MarkRunning, WorkInv, TypeOK
<1>3. Cardinality(takers[r]) \in Nat /\ Cardinality(takers[r]) # 0
  BY <1>1, FS_CardinalityType, FS_EmptySet
<1>4. Cardinality(takers'[r]) = Cardinality(takers[r]) + 1
  BY <1>1, <1>2, FS_AddElement
<1> QED BY <1>3, <1>4

LEMMA ReopenStep ==
  ASSUME WorkInv, TakeInv, [Next]_vars, NEW r \in 1 .. nruns,
         runs[r].status \in Terminal, runs'[r].status \notin Terminal
  PROVE  Cardinality(takers'[r]) > 1
<1>1. r \in RunIds /\ runs \in [RunIds -> Run] /\ TypeOK
  BY TypeFacts DEF WorkInv
<1>2. ASSUME NEW e \in Executors, MarkRunning(e) PROVE r = exec[e].run
  BY <1>1, <1>2 DEF MarkRunning
<1>3. ASSUME NEW e \in Executors, Complete(e) \/ Fail(e) PROVE FALSE
  <2>1. exec[e].processed \in Nat /\ exec[e].failed \in Nat
    BY <1>1, TypeFacts DEF Exec
  <2>2. Outcome(exec[e].processed, exec[e].failed) \in Terminal /\ "failed" \in Terminal
    BY <2>1 DEF Outcome, Terminal
  <2>3. runs[r] \in Run
    BY <1>1
  <2>4. CASE Complete(e)
    BY <1>1, <2>2, <2>3, <2>4 DEF Complete, Finished, Run
  <2>5. CASE Fail(e)
    BY <1>1, <2>2, <2>3, <2>5 DEF Fail, Finished, Run
  <2> QED BY <1>3, <2>4, <2>5
<1>4. ASSUME NEW e \in Executors, MarkRunning(e) \/ GoesOn(e)
      PROVE  Cardinality(takers'[r]) > 1
  BY <1>2, <1>3, <1>4, GoesOnEffects, SecondTaker
<1>5. ASSUME NEW req \in Requests, SubmitAsync(req) \/ \E h \in Handlers : SubmitSync(h, req)
      PROVE  FALSE
  <2>1. runs'[r] = runs[r]
    BY <1>1, <1>5, NewRow DEF SubmitAsync, SubmitSync, InitialStatus, db
  <2> QED BY <2>1
<1>6. ASSUME NEW d \in Drainers, ListQueued(d) \/ TakeNext(d) PROVE FALSE
  BY <1>6 DEF ListQueued, TakeNext
<1>7. CASE UNCHANGED vars
  BY <1>7 DEF vars
<1> QED BY <1>4, <1>5, <1>6, <1>7, StepCases

\* Exclusive: whatever the drainers do, sync runs are left to their request, a
\* run pays at most once per lead and taker, and a finished run is reopened only
\* by a second taker.
THEOREM ExclusiveCorrect == Spec => Exclusive
<1> DEFINE Stays == \A r \in 1 .. nruns :
                      runs[r].status \in Terminal /\ runs'[r].status \notin Terminal =>
                        Cardinality(takers'[r]) > 1
<1>1. Init => TakeInv /\ PayInv
  <2>1. Init => PayInv
    BY DEF Init, PayInv
  <2> QED BY <2>1, InitTakes
<1>2. WorkInv /\ TakeInv /\ PayInv /\ [Next]_vars => TakeInv' /\ PayInv'
  BY StepTakes, StepPays
<1>3. WorkInv /\ TakeInv /\ PayInv => SyncNotDrained /\ OncePerTaker
  BY SyncIsNotDrained, PaysOncePerTaker
<1>4. WorkInv /\ TakeInv /\ [Next]_vars => [Stays]_vars
  BY ReopenStep
<1>5. Spec => [](WorkInv /\ TakeInv /\ PayInv)
  BY <1>1, <1>2, WorkCorrect, PTL DEF Spec
<1>6. Spec => [](SyncNotDrained /\ OncePerTaker)
  BY <1>3, <1>5, PTL
<1>7. Spec => [][Stays]_vars
  BY <1>4, <1>5, PTL DEF Spec
<1> QED BY <1>6, <1>7 DEF Exclusive, NotReopened
=============================================================================
