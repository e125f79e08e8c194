------------------------------ MODULE Content ------------------------------
(***************************************************************************)
(* Generated content: versions of the copy written for a lead.             *)
(*                                                                         *)
(* A generator awaits the model and then inserts a row of its own; it never *)
(* touches older rows.  Its caller afterwards looks the new row up by id    *)
(* and points the row it replaces at it (superseded_by_id).  Pipeline,      *)
(* bulk regenerate, redo and push run as separate jobs: between a read and  *)
(* the write that relies on it another job, a prompt edit or a crash may    *)
(* come.  One action is one transaction, or a read and an insert with no    *)
(* await in between.                                                        *)
(*                                                                         *)
(* Ghost state (read by the properties only): off, lapsed, edits, the field *)
(* text of a row and the fields batch, done and edits of a job.             *)
(***************************************************************************)
EXTENDS Naturals, FiniteSets

CONSTANTS
  Leads,     \* lead ids
  NoLead,    \* the lead of a row not written, of a job not started
  Kinds,     \* content kinds with rows of their own
  Workers,   \* processes and requests that run jobs
  Ops,       \* the jobs that a worker may be started with
  Texts,     \* texts of the email prompt
  NoText,    \* no text: locals of a job that has none
  Given,     \* ratings an SDR may give
  Tiers,     \* tiers a score may have; "D" is the tier of a non-fit
  SendTiers, \* tiers at or above settings.send_min_tier
  Verified,  \* leads whose address a verifier accepts
  AllTiers,  \* generate_content_for_all_tiers
  MaxRows,   \* bound: rows written in a behaviour
  MaxEdits,  \* bound: prompt edits and toggles of a kind in a behaviour
  MaxFaults  \* bound: failed transactions and crashes in a behaviour

ASSUME ContentAssumption ==
  /\ NoLead \notin Leads
  /\ NoText \notin Texts
  /\ Given \subseteq {"up", "down", "feedback"}
  /\ "email" \in Kinds
  /\ Ops \in [Workers -> SUBSET {"direct", "rated", "redo", "refresh", "bulk",
                                 "pipeline", "cli", "push"}]
  /\ SendTiers \subseteq Tiers
  /\ "none" \notin Tiers
  /\ Verified \subseteq Leads
  /\ AllTiers \in BOOLEAN
  /\ MaxRows \in Nat
  /\ MaxEdits \in Nat
  /\ MaxFaults \in Nat

VARIABLES
  rows,     \* generated_contents by id
  nrows,    \* ids 1..nrows are written
  research, \* leads whose enrichment found no buyers (needs_review)
  tier,     \* scores.tier of a lead, "none" without a score row
  prompt,   \* the effective email prompt
  enabled,  \* content kinds the workspace generates
  job,      \* program counter and locals of every worker
  faults,   \* failed transactions and crashes so far
  off,      \* kinds that were disabled at some time
  lapsed,   \* keys for which a second active row was to be expected
  edits     \* prompt edits and toggles so far

vars == <<rows, nrows, research, tier, prompt, enabled, job, faults, off,
          lapsed, edits>>

-----------------------------------------------------------------------------
RowIds == 1 .. MaxRows

Ratings == {"none", "up", "down", "feedback"}

\* print: the prompt_fingerprint stamped on the row; text: the prompt it was
\* written with; marker: a row of a skip, not meant for anyone.
Row == [lead : Leads \cup {NoLead}, kind : Kinds, sup : 0 .. MaxRows,
        print : Texts \cup {NoText}, text : Texts \cup {NoText},
        marker : BOOLEAN, rating : Ratings,
        sent : BOOLEAN]

\* What has become of a generator: off: not asked for, none: it returned None.
Gens == {"off", "due", "asked", "made", "none", "failed"}

Pcs == {"idle", "next", "enrich", "score", "content", "generate", "deliver"}

AllOps == UNION {Ops[w] : w \in Workers}

Job == [pc : Pcs, op : AllOps \cup {"none"}, todo : SUBSET Leads,
        lead : Leads \cup {NoLead}, gen : [Kinds -> Gens], source : 0 .. MaxRows,
        print : Texts \cup {NoText}, text : Texts \cup {NoText}, force : BOOLEAN,
        done : SUBSET Leads, edits : 0 .. MaxEdits]

Keys == Leads \X Kinds

TypeOK ==
  /\ rows \in [RowIds -> Row]
  /\ nrows \in 0 .. MaxRows
  /\ research \subseteq Leads
  /\ tier \in [Leads -> Tiers \cup {"none"}]
  /\ prompt \in Texts
  /\ enabled \subseteq Kinds
  /\ job \in [Workers -> Job]
  /\ faults \in 0 .. MaxFaults
  /\ off \subseteq Kinds
  /\ lapsed \subseteq Keys
  /\ edits \in 0 .. MaxEdits

-----------------------------------------------------------------------------
(* Reads *)

ActiveRows(l, k) ==
  {r \in 1 .. nrows : rows[r].lead = l /\ rows[r].kind = k /\ rows[r].sup = 0}

Newest(ids) == IF ids = {} THEN 0 ELSE CHOOSE r \in ids : \A s \in ids : s <= r

\* The row the pages show: the newest one that nothing supersedes.
Head(l, k) == Newest(ActiveRows(l, k))

Written(l, k) == {r \in 1 .. nrows : rows[r].lead = l /\ rows[r].kind = k}

\* get_content_lead_ids: any row counts, superseded or not, but a marker, which
\* has no subject.
HasContent(l, k) == \E r \in Written(l, k) : ~ rows[r].marker

ShouldSend(l) == tier[l] \in SendTiers

Generating(w) == job[w].pc = "generate"

Pending(w) == {k \in Kinds : job[w].gen[k] \in {"due", "asked"}}

Ran(w) == {k \in Kinds : job[w].gen[k] # "off"}

NoGen == [k \in Kinds |-> "off"]

Only(k) == [NoGen EXCEPT ![k] = "due"]

\* A worker's next state, its other locals kept.
Set(w, new) == job' = [job EXCEPT ![w] = new]

NoJob == [pc |-> "idle", op |-> "none", todo |-> {}, lead |-> NoLead, gen |-> NoGen,
          source |-> 0, print |-> NoText, text |-> NoText, force |-> FALSE,
          done |-> {}, edits |-> 0]

\* The locals of a lead are dead when the job goes on to another state.
NoLocals(w) == [job[w] EXCEPT !.gen = NoGen, !.source = 0, !.text = NoText]

ToDeliver(w) == [NoLocals(w) EXCEPT !.pc = "deliver"]

ToNext(w) == [NoLocals(w) EXCEPT !.pc = "next", !.lead = NoLead]

Done(w) == [ToNext(w) EXCEPT !.done = @ \cup {job[w].lead}]

DB == <<rows, nrows, research, tier, prompt, enabled, faults, off, edits>>

Fault == faults < MaxFaults /\ faults' = faults + 1

\* Another job is about to write a row of the key (ghost).
Overlaps(w, l, k) ==
  \E v \in Workers \ {w} : Generating(v) /\ job[v].lead = l /\ k \in Ran(v)

\* A generator of the key starts: overlaps, and callers that do not supersede
\* what is there, are why a second active row may stay.
Lapses(w, l, kinds, plain) ==
  lapsed' = lapsed \cup
    {<<l, k>> : k \in {j \in kinds : Overlaps(w, l, j) \/ (plain /\ Head(l, j) # 0)}}

Start(w, op) == job[w].pc = "idle" /\ op \in Ops[w]

-----------------------------------------------------------------------------
(* The generators: generate_email, generate_call_script, generate_linkedin_msg *)

\* Mutant: the row is filed under a kind nobody reads.
Misfiled(l, k, print, text, marker) ==
  [lead |-> l, kind |-> "mail", sup |-> 0, print |-> print, text |-> text,
   marker |-> marker, rating |-> "none", sent |-> FALSE]

NewRow(l, k, print, text, marker) ==
  [lead |-> l, kind |-> k, sup |-> 0, print |-> print, text |-> text,
   marker |-> marker, rating |-> "none", sent |-> FALSE]

Insert(row) ==
  /\ nrows < MaxRows
  /\ nrows' = nrows + 1
  /\ rows' = [rows EXCEPT ![nrows + 1] = row]

Gen(w, k, outcome) == [job[w] EXCEPT !.gen[k] = outcome]

KindEnabled(k) == k \in enabled

\* generate_email writes a marker row, and asks no model, for a non-fit and for
\* a lead without buyers.
SkipsModel(l, k) == k = "email" /\ (tier[l] = "D" \/ l \in research)

GateClosed(w, k) ==
  /\ ~ KindEnabled(k)
  /\ Set(w, Gen(w, k, "none"))
  /\ UNCHANGED <<DB, lapsed>>

WriteMarker(w, k) ==
  /\ KindEnabled(k)
  /\ SkipsModel(job[w].lead, k)
  /\ Insert(NewRow(job[w].lead, k, prompt, prompt, TRUE))
  /\ Set(w, Gen(w, k, "made"))
  /\ UNCHANGED <<research, tier, prompt, enabled, faults, off, lapsed, edits>>

AskModel(w, k) ==
  /\ KindEnabled(k)
  /\ ~ SkipsModel(job[w].lead, k)
  /\ Set(w, [Gen(w, k, "asked") EXCEPT !.text = IF k = "email" THEN prompt ELSE @])
  /\ UNCHANGED <<DB, lapsed>>

Ask(w, k) ==
  /\ Generating(w)
  /\ job[w].gen[k] = "due"
  /\ GateClosed(w, k) \/ WriteMarker(w, k) \/ AskModel(w, k)

\* The answer: current_email_prompt_fingerprint is read for the insert.
WriteRow(w, k) ==
  /\ Generating(w)
  /\ job[w].gen[k] = "asked"
  /\ Insert(NewRow(job[w].lead, k, prompt, job[w].text, FALSE))
  /\ Set(w, Gen(w, k, "made"))
  /\ UNCHANGED <<research, tier, prompt, enabled, faults, off, lapsed, edits>>

\* Model error, timeout, missing lead: nothing is written.
GenerateFailed(w, k) ==
  /\ Generating(w)
  /\ job[w].gen[k] \in {"due", "asked"}
  /\ Set(w, Gen(w, k, "failed"))
  /\ UNCHANGED <<DB, lapsed>>

-----------------------------------------------------------------------------
(* Superseding: what a caller does after its generators *)

\* The newest active row beside the source.
Replacement(l, k, r) == Newest(ActiveRows(l, k) \ {r})

\* Mutant: the pointer is set on the wrong one of the two rows.
SupersedeNew(r, new) == rows' = [rows EXCEPT ![new].sup = r]

Supersede(r, new) == rows' = [rows EXCEPT ![r].sup = new]

Finished(w, op) == Generating(w) /\ Pending(w) = {} /\ job[w].op \in op

Kind(w) == CHOOSE k \in Kinds : k \in Ran(w)

Failed(w) == \E k \in Kinds : job[w].gen[k] = "failed"

\* Mutant: a lead whose generator failed is reported as done.
SettleDone(w, ok) == IF job[w].op = "bulk" THEN Done(w) ELSE NoJob

\* The lead of a list is settled: reported as done, or as failed.
Settle(w, ok) ==
  IF job[w].op = "bulk"
  THEN IF ok THEN Done(w) ELSE ToNext(w)
  ELSE NoJob

\* regenerate_direct, regenerate_with_feedback and _phase_bulk_regen: the new
\* row is the newest other active one; whether the source is still active is
\* not asked again.
SupersedeSource(w) ==
  /\ Finished(w, {"direct", "rated", "bulk"})
  /\ LET src == job[w].source
         new == Replacement(job[w].lead, Kind(w), src)
     IN IF Failed(w) THEN Set(w, Settle(w, FALSE)) /\ UNCHANGED rows
        ELSE IF src = 0 THEN Set(w, Settle(w, TRUE)) /\ UNCHANGED rows
        ELSE IF new = 0 THEN Set(w, Settle(w, FALSE)) /\ UNCHANGED rows
        ELSE Set(w, Settle(w, TRUE)) /\ Supersede(src, new)
  /\ UNCHANGED <<nrows, research, tier, prompt, enabled, faults, off, lapsed, edits>>

\* regenerate_email_sync: the pointer is set only if the old head is still one.
SupersedeHead(w) ==
  /\ Finished(w, {"redo", "refresh"})
  /\ Set(w, NoJob)
  /\ LET src == job[w].source
         new == Head(job[w].lead, "email")
     IN IF ~ Failed(w) /\ src \notin {0, new} /\ new # 0 /\ rows[src].sup = 0
        THEN Supersede(src, new) ELSE UNCHANGED rows
  /\ UNCHANGED <<nrows, research, tier, prompt, enabled, faults, off, lapsed, edits>>

\* _supersede_previous_active: <<the second newest active row, the newest>>.
Previous(l, k) ==
  LET new == Head(l, k)
      old == Replacement(l, k, new)
  IN IF old = 0 THEN <<0, 0>> ELSE <<old, new>>

\* After the gather of _phase_content: in force mode, for each kind that did not
\* fail, also one whose generator returned None.
SupersedePrevious(w) ==
  /\ Finished(w, {"pipeline"})
  /\ LET l == job[w].lead
         kinds == IF job[w].force
                  THEN {k \in Ran(w) : job[w].gen[k] # "failed"} ELSE {}
     IN rows' = [r \in RowIds |->
          IF \E k \in kinds : Previous(l, k)[1] = r
          THEN [rows[r] EXCEPT !.sup = Previous(l, rows[r].kind)[2]] ELSE rows[r]]
  /\ Set(w, ToDeliver(w))
  /\ UNCHANGED <<nrows, research, tier, prompt, enabled, faults, off, lapsed, edits>>

\* run_pipeline_for_lead supersedes nothing; a failed kind ends it.
AfterGather(w) ==
  /\ Finished(w, {"cli"})
  /\ Set(w, IF Failed(w) THEN ToNext(w) ELSE ToDeliver(w))
  /\ UNCHANGED <<DB, lapsed>>

\* The transaction of the pointer fails: only _phase_content goes on.
SupersedeFailed(w) ==
  /\ Generating(w)
  /\ Pending(w) = {}
  /\ Fault
  /\ Set(w, IF job[w].op = "pipeline" THEN ToDeliver(w) ELSE NoJob)
  /\ lapsed' = lapsed \cup {<<job[w].lead, k>> : k \in Ran(w)}
  /\ UNCHANGED <<rows, nrows, research, tier, prompt, enabled, off, edits>>

-----------------------------------------------------------------------------
(* regenerate_direct, regenerate_with_feedback, regenerate_email_sync *)

\* Mutant: a superseded source is not refused.
AnyRow(r) == TRUE

NotSuperseded(r) == rows[r].sup = 0

NewJob(op, l, k, source) ==
  [NoJob EXCEPT !.pc = "generate", !.op = op, !.lead = l, !.gen = Only(k),
                !.source = source]

Regenerate(w, op, r) ==
  /\ Start(w, op)
  /\ op \in {"direct", "rated"}
  /\ NotSuperseded(r)
  /\ op = "rated" => rows[r].rating = "feedback"
  /\ KindEnabled(rows[r].kind)
  /\ Set(w, NewJob(op, rows[r].lead, rows[r].kind, r))
  /\ Lapses(w, rows[r].lead, {rows[r].kind}, FALSE)
  /\ UNCHANGED DB

RedoEmail(w, l) ==
  /\ Start(w, "redo")
  /\ Set(w, NewJob("redo", l, "email", Head(l, "email")))
  /\ Lapses(w, l, {"email"}, FALSE)
  /\ UNCHANGED DB

\* record_rating: one rating per row.
RecordRating(r, rating) ==
  /\ rows[r].rating = "none"
  /\ rows' = [rows EXCEPT ![r].rating = rating]
  /\ UNCHANGED <<nrows, research, tier, prompt, enabled, job, faults, off, lapsed, edits>>

-----------------------------------------------------------------------------
(* _phase_bulk_regen *)

StartList(w, op, ls, force) ==
  /\ Start(w, op)
  /\ Set(w, [NoJob EXCEPT !.pc = "next", !.op = op, !.todo = ls, !.force = force,
               !.print = IF op = "bulk" THEN prompt ELSE NoText, !.edits = IF op = "bulk" THEN edits ELSE 0])
  /\ UNCHANGED <<DB, lapsed>>

StartBulk(w, ls, force) == StartList(w, "bulk", ls, force)

\* The head was written under the fingerprint: nothing to do for the lead.
HeadCurrent(l, print) ==
  Head(l, "email") # 0 /\ rows[Head(l, "email")].print = print

\* get_email_regen_unfinished_lead_ids: what the page counts as left to do.
Unfinished == {l \in Leads : ~ HeadCurrent(l, prompt)}

BulkSkip(w) ==
  /\ job[w].pc = "next" /\ job[w].op = "bulk"
  /\ ~ job[w].force
  /\ \E l \in job[w].todo :
       /\ HeadCurrent(l, job[w].print)
       /\ Set(w, [job[w] EXCEPT !.todo = @ \ {l}, !.done = @ \cup {l}])
  /\ UNCHANGED <<DB, lapsed>>

BulkGenerate(w) ==
  /\ job[w].pc = "next" /\ job[w].op = "bulk"
  /\ \E l \in job[w].todo :
       /\ job[w].force \/ ~ HeadCurrent(l, job[w].print)
       /\ Set(w, [job[w] EXCEPT !.pc = "generate", !.todo = @ \ {l}, !.lead = l,
                    !.gen = Only("email"), !.source = Head(l, "email")])
       /\ Lapses(w, l, {"email"}, FALSE)
  /\ UNCHANGED DB

-----------------------------------------------------------------------------
(* run_phased_pipeline, run_pipeline_for_all, full_refresh_sync: the phases of *)
(* one lead.                                                                   *)

StartPipeline(w, op, ls, force) ==
  op \in {"pipeline", "cli"} /\ StartList(w, op, ls, force)

StartRefresh(w, l) ==
  /\ Start(w, "refresh")
  /\ Set(w, [NoJob EXCEPT !.pc = "enrich", !.op = "refresh", !.lead = l])
  /\ UNCHANGED <<DB, lapsed>>

NextLead(w) ==
  /\ job[w].pc = "next" /\ job[w].op \in {"pipeline", "cli"}
  /\ \E l \in job[w].todo :
       Set(w, [job[w] EXCEPT !.pc = "enrich", !.lead = l, !.todo = @ \ {l}])
  /\ UNCHANGED <<DB, lapsed>>

Strict(w) == job[w].op # "pipeline"

\* Mutant: a failed phase is tried again for ever.
TryAgain(w) == job[w]

GiveUp(w) == IF job[w].op = "refresh" THEN NoJob ELSE ToNext(w)

\* Enrichment and hiring signal; a failure stops all but the phased pipeline.
PhaseEnrich(w) ==
  /\ job[w].pc = "enrich"
  /\ \/ \E found \in BOOLEAN :
          /\ research' = IF found THEN research \ {job[w].lead}
                         ELSE research \cup {job[w].lead}
          /\ Set(w, [job[w] EXCEPT !.pc = "score"])
     \/ /\ UNCHANGED research
        /\ Set(w, IF Strict(w) THEN GiveUp(w) ELSE [job[w] EXCEPT !.pc = "score"])
  /\ UNCHANGED <<rows, nrows, tier, prompt, enabled, faults, off, lapsed, edits>>

\* score_lead; the phased pipeline skips a scored lead unless forced.
PhaseScore(w) ==
  /\ job[w].pc = "score"
  /\ LET l == job[w].lead
         scored == [job[w] EXCEPT !.pc = "content"]
     IN \/ /\ Strict(w) \/ job[w].force \/ tier[l] = "none"
           /\ \E t \in Tiers : tier' = [tier EXCEPT ![l] = t]
           /\ Set(w, scored)
        \/ /\ UNCHANGED tier
           /\ Set(w, IF Strict(w) THEN GiveUp(w) ELSE scored)
  /\ UNCHANGED <<rows, nrows, research, prompt, enabled, faults, off, lapsed, edits>>

\* What _phase_content generates: enabled kinds, without those the lead has.
KindsToRun(w, l) == {k \in enabled : job[w].force \/ ~ HasContent(l, k)}

Due(kinds) == [k \in Kinds |-> IF k \in kinds THEN "due" ELSE "off"]

\* _send_eligible_lead_ids, then _phase_content.
PhaseContent(w) ==
  /\ job[w].pc = "content" /\ job[w].op = "pipeline"
  /\ LET l == job[w].lead
         kinds == KindsToRun(w, l)
     IN IF ~ ShouldSend(l)
        THEN Set(w, GiveUp(w)) /\ UNCHANGED lapsed
        ELSE IF kinds = {}
        THEN Set(w, ToDeliver(w)) /\ UNCHANGED lapsed
        ELSE /\ Set(w, [job[w] EXCEPT !.pc = "generate", !.gen = Due(kinds)])
             /\ Lapses(w, l, kinds, ~ job[w].force)
  /\ UNCHANGED DB

\* run_pipeline_for_lead: emails always, other kinds if enabled, no look at what
\* the lead has.
CliContent(w) ==
  /\ job[w].pc = "content" /\ job[w].op = "cli"
  /\ LET l == job[w].lead
         kinds == enabled \cup {"email"}
     IN IF ~ ShouldSend(l) /\ ~ AllTiers
        THEN Set(w, GiveUp(w)) /\ UNCHANGED lapsed
        ELSE /\ Set(w, [job[w] EXCEPT !.pc = "generate", !.gen = Due(kinds)])
             /\ Lapses(w, l, kinds, TRUE)
  /\ UNCHANGED DB

\* full_refresh_sync ends with regenerate_email_sync.
RefreshContent(w) ==
  /\ job[w].pc = "content" /\ job[w].op = "refresh"
  /\ LET l == job[w].lead IN
       /\ Set(w, NewJob("refresh", l, "email", Head(l, "email")))
       /\ Lapses(w, l, {"email"}, FALSE)
  /\ UNCHANGED DB

-----------------------------------------------------------------------------
(* deliver_email (its transactions: module Delivery) and run_bulk_push *)

LatestEmail(l) == Newest(Written(l, "email"))

\* Mutant: a dedupe on the newest row only.
LatestSent(l) == LatestEmail(l) # 0 /\ rows[LatestEmail(l)].sent

AlreadyDelivered(l) == \E r \in Written(l, "email") : rows[r].sent

Deliverable(l) ==
  /\ ShouldSend(l)
  /\ ~ AlreadyDelivered(l)
  /\ LatestEmail(l) # 0
  /\ ~ rows[LatestEmail(l)].marker
  /\ l \in Verified

\* The newest row goes out, superseded or not; or a guard, the configuration or
\* the request says no.
DeliverTo(l) ==
  \/ Deliverable(l) /\ rows' = [rows EXCEPT ![LatestEmail(l)].sent = TRUE]
  \/ UNCHANGED rows

\* _has_email_content_lead_ids: any email row will do, superseded or a marker.
HasEmail(l) == Written(l, "email") # {}

\* The phased pipeline asks for an email row, the other for the tier.
PhaseDeliver(w) ==
  /\ job[w].pc = "deliver"
  /\ IF job[w].op = "pipeline" /\ ~ HasEmail(job[w].lead)
     THEN UNCHANGED rows ELSE DeliverTo(job[w].lead)
  /\ Set(w, GiveUp(w))
  /\ UNCHANGED <<nrows, research, tier, prompt, enabled, faults, off, lapsed, edits>>

\* filter_eligible: the newest row alone tells whether a lead was sent to.
Eligible(l) ==
  /\ l \in Verified
  /\ ShouldSend(l)
  /\ LatestEmail(l) # 0
  /\ ~ rows[LatestEmail(l)].marker
  /\ ~ LatestSent(l)

\* run_bulk_push filters once, then delivers lead by lead.
StartPush(w, ls) == StartList(w, "push", {l \in ls : Eligible(l)}, FALSE)

PushNext(w) ==
  /\ job[w].pc = "next" /\ job[w].op = "push"
  /\ \E l \in job[w].todo :
       /\ DeliverTo(l)
       /\ Set(w, [job[w] EXCEPT !.todo = @ \ {l}])
  /\ UNCHANGED <<nrows, research, tier, prompt, enabled, faults, off, lapsed, edits>>

EndList(w) ==
  /\ job[w].pc = "next"
  /\ job[w].todo = {}
  /\ Set(w, NoJob)
  /\ UNCHANGED <<DB, lapsed>>

-----------------------------------------------------------------------------
\* The operator edits the email prompt.
EditPrompt(text) ==
  /\ edits < MaxEdits
  /\ edits' = edits + 1
  /\ prompt' = text
  /\ UNCHANGED <<rows, nrows, research, tier, enabled, job, faults, off, lapsed>>

\* The operator turns a kind on or off.
ToggleKind(k) ==
  /\ edits < MaxEdits
  /\ edits' = edits + 1
  /\ enabled' = IF k \in enabled THEN enabled \ {k} ELSE enabled \cup {k}
  /\ off' = off \cup {k}
  /\ UNCHANGED <<rows, nrows, research, tier, prompt, job, faults, lapsed>>

\* A worker dies: rows already inserted stay, without their pointers.
Crash(w) ==
  /\ job[w].pc # "idle"
  /\ Fault
  /\ Set(w, NoJob)
  /\ lapsed' = IF Generating(w)
               THEN lapsed \cup {<<job[w].lead, k>> : k \in Ran(w)} ELSE lapsed
  /\ UNCHANGED <<rows, nrows, research, tier, prompt, enabled, off, edits>>

Init ==
  /\ prompt \in Texts
  /\ rows = [r \in RowIds |->
       [lead |-> NoLead, kind |-> "email", sup |-> 0, print |-> NoText,
        text |-> NoText, marker |-> FALSE, rating |-> "none", sent |-> FALSE]]
  /\ nrows = 0
  /\ research = {}
  /\ tier = [l \in Leads |-> "none"]
  /\ enabled = Kinds
  /\ job = [w \in Workers |-> NoJob]
  /\ faults = 0
  /\ off = {}
  /\ lapsed = {}
  /\ edits = 0

Generate(w) == \E k \in Kinds : Ask(w, k) \/ WriteRow(w, k) \/ GenerateFailed(w, k)

Superseding(w) ==
  SupersedeSource(w) \/ SupersedeHead(w) \/ SupersedePrevious(w) \/ AfterGather(w)

Phase(w) ==
  \/ PhaseEnrich(w)
  \/ PhaseScore(w)
  \/ PhaseContent(w)
  \/ CliContent(w)
  \/ RefreshContent(w)
  \/ PhaseDeliver(w)

Loop(w) == BulkSkip(w) \/ BulkGenerate(w) \/ NextLead(w) \/ PushNext(w) \/ EndList(w)

JobStep(w) == Generate(w) \/ Superseding(w) \/ Phase(w) \/ Loop(w)

StartJob(w) ==
  \/ \E op \in Ops[w], r \in 1 .. nrows : Regenerate(w, op, r)
  \/ \E l \in Leads : RedoEmail(w, l) \/ StartRefresh(w, l)
  \/ \E ls \in SUBSET Leads \ {{}} :
       \/ StartPush(w, ls)
       \/ \E force \in BOOLEAN :
            \/ StartBulk(w, ls, force)
            \/ \E op \in Ops[w] : StartPipeline(w, op, ls, force)

Next ==
  \/ \E w \in Workers : StartJob(w) \/ JobStep(w) \/ SupersedeFailed(w) \/ Crash(w)
  \/ \E r \in 1 .. nrows, rating \in Given : RecordRating(r, rating)
  \/ \E text \in Texts \ {prompt} : EditPrompt(text)
  \/ \E k \in Kinds : ToggleKind(k)

Spec == Init /\ [][Next]_vars

\* A job's code runs on; every await ends (the model's client has a timeout).
Fairness == \A w \in Workers : WF_vars(JobStep(w))

FairSpec == Spec /\ Fairness
-----------------------------------------------------------------------------
(* Properties *)

\* Whatever jobs overlap, die or find their kind disabled, a lead that has
\* content of a kind shows one: superseding never retires the last active row.
HeadKept ==
  \A l \in Leads, k \in Kinds : Written(l, k) # {} => ActiveRows(l, k) # {}

\* superseded_by_id leads to a newer row of the same lead and kind, so that no
\* chain runs in a circle.  Without a row of its own to find (the kind was
\* disabled under way) a caller may point at an older leftover.
ForwardChains ==
  \A r \in 1 .. nrows :
    rows[r].sup # 0 =>
      /\ rows[rows[r].sup].lead = rows[r].lead
      /\ rows[rows[r].sup].kind = rows[r].kind
      /\ rows[r].kind \notin off => rows[r].sup > r

\* Between jobs a lead has one active row per kind, unless two jobs worked on it
\* at once, one died before the pointer, or a caller that sets none added a row.
OneHead ==
  \A l \in Leads, k \in Kinds :
    <<l, k>> \notin lapsed /\ (\A w \in Workers : ~ Generating(w) \/ job[w].lead # l) =>
      Cardinality(ActiveRows(l, k)) <= 1

\* The version chains of all leads and kinds are sound.
Chains == HeadKept /\ ForwardChains /\ OneHead

\* No lead that a bulk regenerate reports as done is counted as unfinished by
\* the page that offers to resume it: the lead shows an email of the prompt in
\* force, whatever other jobs did meanwhile, as long as nobody edited the prompt
\* or the toggles since the bulk job began and email was never turned off.
BulkCovers ==
  \A w \in Workers :
    job[w].op = "bulk" /\ job[w].edits = edits /\ "email" \notin off =>
      job[w].done \cap Unfinished = {}

\* An email goes out once for a lead, though each regeneration makes its newest
\* row look unsent to the push page; and what goes out, the newest row, is what
\* the pages show, the newest active row, though delivery ignores the pointers.
ShownAndSentOnce ==
  [][\A r \in 1 .. nrows :
       rows'[r].sent /\ ~ rows[r].sent =>
         /\ \A s \in Written(rows[r].lead, "email") : ~ rows[s].sent
         /\ "email" \notin off => r = Head(rows[r].lead, "email")]_vars

\* Readers of the chains see what CurrentCopy promises.
Copies == INSTANCE CurrentCopy WITH
  current <- [key \in Leads \X Kinds |-> Head(key[1], key[2])],
  written <- nrows

CopiesShown == Copies!Spec

\* Every job ends: lists run out, and no phase waits for another job.
JobsEnd == \A w \in Workers : job[w].pc # "idle" ~> job[w].pc = "idle"

=============================================================================
