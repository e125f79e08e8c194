------------------------------ MODULE Prompts ------------------------------
(***************************************************************************)
(* The stored email prompt of every workspace (src/prompts/loader.py), the *)
(* editor that rewrites it section by section (src/api/server.py) and the  *)
(* self-improvement loop that proposes, approves and takes back addenda    *)
(* (src/feedback/self_improvement.py).  An action is one transaction; a    *)
(* call that needs several keeps what it read in calls[k], and the other   *)
(* calls may commit in between.                                            *)
(***************************************************************************)
EXTENDS Integers, Sequences, SequencesExt

CONSTANTS
  Workspaces,        \* every workspace
  DefaultWorkspace,  \* the one that a call without a workspace means
  Diagnosed,         \* bound: the workspaces whose campaign is diagnosed
  Calls,             \* requests that run at the same time
  Reports,           \* bound: campaign figures that diagnose may be given
  Rewritten,         \* bound: the titles of sections an editor touches or adds
  MaxRecs,           \* bound: recommendations stored
  MaxEdits,          \* bound: saves of the editor
  MaxFaults          \* bound: failed reads, failed transactions and crashes

\* kpi_view and latest_send_info: sends, contacted leads, opens, unique opens (-1
\* when Instantly does not report them), replies, bounces, positive replies and
\* opportunities; the hours since every contact that Instantly knows of, and since
\* the latest local delivery (-1 without one).
Report == [sent : Nat, contacted : Nat, opens : Nat, unique : Nat \cup {-1}, replies : Nat,
           bounces : Nat, positive : Nat, opportunities : Nat,
           contacts : SUBSET Nat, local : Nat \cup {-1}]

ASSUME PromptsAssumption ==
  /\ DefaultWorkspace \in Workspaces /\ Diagnosed \subseteq Workspaces
  /\ "code" \notin Workspaces
  /\ Reports \subseteq Report
  /\ MaxRecs \in Nat /\ MaxEdits \in Nat /\ MaxFaults \in Nat

VARIABLES
  overlay,   \* overlay[w]: the stored prompt of w, <<>> without a row
  recs,      \* the rows of prompt_recommendations, by id
  calls,     \* what every call is doing
  edits,     \* saves of the editor so far
  faults,    \* faults so far
  applied,   \* history: the last approval of every row
  lost,      \* history: rows whose approval died before its prompt was saved
  borrowed   \* history: workspaces given the snapshot of an unapproved row

vars == <<overlay, recs, calls, edits, faults, applied, lost, borrowed>>

----------------------------------------------------------------------------
(* Prompts are sequences of titled sections.                               *)

Kinds == {"open_rate", "reply_rate"}
Header == "SELF IMPROVEMENT ADDENDUM"
Titles == Kinds \cup {Header, "EXAMPLE"} \cup Rewritten

\* from and edit tell apart texts: the code's own, or an editor's n-th save.
Section(title, from, edit) == [title |-> title, from |-> from, edit |-> edit]
Own(title) == Section(title, "code", 0)

Sections == [title : Titles, from : Workspaces \cup {"code"}, edit : 0..MaxEdits]
Prompt == Seq(Sections)

DefaultBody == <<Own("EXAMPLE")>>
Directive(kind) == <<Own(kind)>>

TitlesOf(prompt) == {prompt[i].title : i \in DOMAIN prompt}
HasOneOfEach(prompt) == \A i, j \in DOMAIN prompt : prompt[i].title = prompt[j].title => i = j

KeepFirst(kept, s) == IF s.title \in TitlesOf(kept) THEN kept ELSE Append(kept, s)

\* dedupe_email_sections: the first section of every title stays.
Dedupe(prompt) ==
  LET kept[n \in 0..Len(prompt)] == IF n = 0 THEN <<>> ELSE KeepFirst(kept[n - 1], prompt[n])
  IN  kept[Len(prompt)]

\* Mutant: the addendum is substituted for the prompt.
MergeReplacing(prompt, directive) == <<Own(Header)>> \o directive

\* merge_self_improvement_addendum: the directive's own headers end the
\* addendum section, so it comes to stand right behind that header.
Merge(prompt, directive) ==
  LET at == SelectInSeq(prompt, LAMBDA s : s.title = Header)
  IN  IF at = 0 THEN prompt \o <<Own(Header)>> \o directive
      ELSE Dedupe(SubSeq(prompt, 1, at) \o directive \o SubSeq(prompt, at + 1, Len(prompt)))

\* Mutant: what is sent is stored.
AsSent(prompt) == prompt

\* What save_overlay stores.
Stored(prompt) == Dedupe(prompt)

\* get_effective_prompt when the database answers.
Effective(w) == IF overlay[w] = <<>> THEN DefaultBody ELSE overlay[w]

\* compile_sections of what an operator makes of the sections of a prompt:
\* one rewritten, one removed, or one more, whose title may stand already.
EditsOf(prompt, w, n) ==
  LET touched == {i \in DOMAIN prompt : prompt[i].title \in Rewritten}
  IN  {[prompt EXCEPT ![i] = Section(prompt[i].title, w, n)] : i \in touched}
      \cup ({RemoveAt(prompt, i) : i \in touched} \ {<<>>})
      \cup {Append(prompt, Section(t, w, n)) : t \in Rewritten}

----------------------------------------------------------------------------
(* What diagnose makes of the figures of a campaign.                       *)

\* kpi_view: the rates against their targets.  unique is -1 when Instantly does
\* not report unique opens.
BounceHigh(report) == 100 * report.bounces > 3 * report.sent
OpenLow(report) ==
  IF report.unique >= 0 /\ report.contacted > 0
  THEN 10 * report.unique < 3 * report.contacted
  ELSE 10 * report.opens < 3 * report.sent
ReplyLow(report) == 100 * report.replies < 3 * report.sent
Positive(report) == report.positive > 0 \/ report.opportunities > 0

\* Mutant: the local delivery is taken when there is one.
LocalFirst(report) ==
  IF report.local >= 0 \/ report.contacts = {} THEN report.local ELSE Min(report.contacts)

\* latest_send_info: hours since the latest contact of a lead that Instantly
\* reports, or since the latest local delivery when it reports none; -1 if
\* there is none of these either.
HoursSince(report) == IF report.contacts = {} THEN report.local ELSE Min(report.contacts)

\* Mutant: 49 sends are taken for enough.
ConfidentAt49(sent) ==
  IF sent < 49 THEN "insufficient" ELSE IF sent < 200 THEN "low" ELSE "standard"

Confidence(sent) ==
  IF sent < 50 THEN "insufficient" ELSE IF sent < 200 THEN "low" ELSE "standard"

\* The status of a proposal that passed every other gate.
PromptChange(sent) ==
  IF Confidence(sent) = "insufficient" THEN "wait"
  ELSE IF Confidence(sent) = "low" THEN "draft" ELSE "ready_for_approval"

TooFresh(report, limit) == HoursSince(report) >= 0 /\ HoursSince(report) < limit

DiagnoseReplies(report) ==
  IF TooFresh(report, 24) THEN "wait"
  ELSE IF Positive(report) /\ (HoursSince(report) < 0 \/ TooFresh(report, 72)) THEN "wait"
  ELSE IF TooFresh(report, 48) THEN "diagnose_only"
  ELSE IF Confidence(report.sent) = "insufficient" THEN "wait"
  ELSE IF Positive(report) THEN "diagnose_only"
  ELSE PromptChange(report.sent)

Finding(kind, status) == [kind |-> kind, status |-> status]

Diagnosis(report) ==
  IF report.sent = 0 THEN Finding("none", "diagnose_only")
  ELSE IF BounceHigh(report) THEN Finding("bounce_rate", "diagnose_only")
  ELSE IF OpenLow(report) THEN Finding("open_rate", PromptChange(report.sent))
  ELSE IF ReplyLow(report) THEN Finding("reply_rate", DiagnoseReplies(report))
  ELSE Finding("none", "diagnose_only")

\* Mutant: every diagnosis is stored.
AnyDiagnosis(report) == TRUE

\* is_actionable_prompt_change
Actionable(report) == Diagnosis(report).status \in {"draft", "ready_for_approval"}

----------------------------------------------------------------------------
\* No operation tells draft, ready_for_approval, rejected and archived apart:
\* they are "open".  Diagnosis(report).status is the one a row starts with.
Statuses == {"open", "approved"}

Rec == [ws : Workspaces, kind : Kinds, report : Reports, status : Statuses, snapshot : Prompt]

\* History: read is the prompt that the last approval to commit has read, and
\* before the one that the last save found; faithful says that this save was
\* made from that prompt, and that the row holds it.
Approval == [state : {"proposed", "committed", "saved"}, read : Prompt, before : Prompt,
             faithful : BOOLEAN]
Proposed == [state |-> "proposed", read |-> <<>>, before |-> <<>>, faithful |-> FALSE]
Committed(text) == [Proposed EXCEPT !.state = "committed", !.read = text]

Call == [pc : {"idle", "saving", "approving", "applying", "restoring", "editing", "cleaning"},
         ws : Workspaces, rec : 0..MaxRecs, report : SUBSET Reports, text : Prompt,
         undoes : Approval]   \* undoes is history

Idle == [pc |-> "idle", ws |-> DefaultWorkspace, rec |-> 0, report |-> {}, text |-> <<>>,
         undoes |-> Proposed]

\* Duplicated headers are what older approvals left in the table.
Legacy == DefaultBody \o DefaultBody

Init ==
  /\ \E first \in {<<>>, Legacy} : overlay = [w \in Workspaces |-> first]
  /\ recs = <<>>
  /\ calls = [k \in Calls |-> Idle]
  /\ edits = 0 /\ faults = 0
  /\ applied = <<>> /\ lost = {} /\ borrowed = {}

Begin(k, job) == calls[k] = Idle /\ calls' = [calls EXCEPT ![k] = job]
End(k) == calls' = [calls EXCEPT ![k] = Idle]
Fault == faults < MaxFaults /\ faults' = faults + 1

Save(w, prompt) == overlay' = [overlay EXCEPT ![w] = Stored(prompt)]

----------------------------------------------------------------------------
(* diagnose and save_recommendation                                        *)

\* The snapshot is read without a workspace: it is the default one's prompt.
Diagnose(k) ==
  \E w \in Diagnosed, report \in Reports :
    /\ Len(recs) < MaxRecs
    /\ Actionable(report)
    /\ Begin(k, [Idle EXCEPT !.pc = "saving", !.ws = w, !.report = {report},
                             !.text = Effective(DefaultWorkspace)])
    /\ UNCHANGED <<overlay, recs, edits, faults, applied, lost, borrowed>>

SaveRecommendation(k) ==
  LET job == calls[k]
      report == CHOOSE r \in job.report : TRUE
  IN  /\ job.pc = "saving"
      /\ Len(recs) < MaxRecs
      /\ recs' = Append(recs, [ws |-> job.ws, kind |-> Diagnosis(report).kind, report |-> report,
                               status |-> "open", snapshot |-> job.text])
      /\ applied' = Append(applied, Proposed)
      /\ End(k)
      /\ UNCHANGED <<overlay, edits, faults, lost, borrowed>>

----------------------------------------------------------------------------
(* approve_recommendation: one transaction on the row, around a read of    *)
(* the prompt in a session of its own, then a transaction on the prompt.   *)

Approvable(r) == recs[r].status # "approved"

\* Mutant: the workspace of the row is not handed on.
DefaultPrevious(r) == Effective(DefaultWorkspace)

\* What the approval will append to.
Previous(r) == Effective(recs[r].ws)

ApproveRead(k, r, previous) ==
  /\ Approvable(r)
  /\ Begin(k, [Idle EXCEPT !.pc = "approving", !.rec = r, !.ws = recs[r].ws, !.text = previous])
  /\ UNCHANGED <<overlay, recs, edits, applied, lost, borrowed>>

Approve(k) == \E r \in DOMAIN recs : ApproveRead(k, r, Previous(r)) /\ UNCHANGED faults

\* _db_get answers None when its query fails, as it does without a row.
ApproveUnread(k) ==
  \E r \in DOMAIN recs : Previous(r) # DefaultBody /\ ApproveRead(k, r, DefaultBody) /\ Fault

\* Mutant: the row keeps the snapshot of its diagnosis.
CommitStatusOnly(k) ==
  LET job == calls[k]
  IN  /\ job.pc = "approving"
      /\ recs' = [recs EXCEPT ![job.rec].status = "approved"]
      /\ calls' = [calls EXCEPT ![k].pc = "applying"]
      /\ applied' = [applied EXCEPT ![job.rec] = Committed(job.text)]
      /\ UNCHANGED <<overlay, edits, faults, lost, borrowed>>

\* Mutant: a prompt that has not changed since the diagnosis is not saved.
CommitAndForget(k) ==
  LET job == calls[k]
  IN  /\ job.pc = "approving"
      /\ recs' = [recs EXCEPT ![job.rec].status = "approved", ![job.rec].snapshot = job.text]
      /\ calls' = [calls EXCEPT ![k] = IF recs[job.rec].snapshot = job.text THEN Idle
                                       ELSE [job EXCEPT !.pc = "applying"]]
      /\ applied' = [applied EXCEPT ![job.rec] = Committed(job.text)]
      /\ UNCHANGED <<overlay, edits, faults, lost, borrowed>>

ApproveCommit(k) ==
  LET job == calls[k]
  IN  /\ job.pc = "approving"
      /\ recs' = [recs EXCEPT ![job.rec].status = "approved", ![job.rec].snapshot = job.text]
      /\ calls' = [calls EXCEPT ![k].pc = "applying"]
      /\ applied' = [applied EXCEPT ![job.rec] = Committed(job.text)]
      /\ UNCHANGED <<overlay, edits, faults, lost, borrowed>>

ApproveSave(k) ==
  LET job == calls[k]
  IN  /\ job.pc = "applying"
      /\ Save(job.ws, Merge(job.text, Directive(recs[job.rec].kind)))
      /\ applied' = [applied EXCEPT
                       ![job.rec].state = "saved", ![job.rec].before = Effective(job.ws),
                       ![job.rec].faithful = Effective(job.ws) = job.text
                                               /\ applied[job.rec].read = job.text]
      /\ End(k)
      /\ UNCHANGED <<recs, edits, faults, lost, borrowed>>

----------------------------------------------------------------------------
(* rollback_recommendation: the row, then the prompt.  The status of the   *)
(* row is not looked at.                                                   *)

Rollback(k) ==
  \E r \in DOMAIN recs :
    /\ recs' = [recs EXCEPT ![r].status = "open"]
    /\ Begin(k, [Idle EXCEPT !.pc = "restoring", !.rec = r, !.ws = recs[r].ws,
                             !.text = recs[r].snapshot, !.undoes = applied[r]])
    /\ borrowed' = IF applied[r].state = "proposed" THEN borrowed \cup {recs[r].ws} ELSE borrowed
    /\ UNCHANGED <<overlay, edits, faults, applied, lost>>

RollbackSave(k) ==
  /\ calls[k].pc = "restoring"
  /\ Save(calls[k].ws, calls[k].text)
  /\ End(k)
  /\ UNCHANGED <<recs, edits, faults, applied, lost, borrowed>>

----------------------------------------------------------------------------
(* Changes of a row alone, whatever its status.                            *)

\* reject_recommendation, archive_recommendation and save_as_draft
Reopen(r) ==
  /\ recs' = [recs EXCEPT ![r].status = "open"]
  /\ UNCHANGED <<overlay, calls, edits, faults, applied, lost, borrowed>>

----------------------------------------------------------------------------
(* The editor, the cleaning button and the resets.                         *)

EditorLoad(k) ==
  \E w \in Workspaces :
    /\ edits < MaxEdits
    /\ Begin(k, [Idle EXCEPT !.pc = "editing", !.ws = w, !.text = Effective(w)])
    /\ UNCHANGED <<overlay, recs, edits, faults, applied, lost, borrowed>>

\* save_prompt_editor stores the whole prompt the browser sends back.
EditorSave(k) ==
  /\ calls[k].pc = "editing"
  /\ edits < MaxEdits
  /\ edits' = edits + 1
  /\ \E prompt \in EditsOf(calls[k].text, calls[k].ws, edits') : Save(calls[k].ws, prompt)
  /\ End(k)
  /\ UNCHANGED <<recs, faults, applied, lost, borrowed>>

EditorLeave(k) ==
  /\ calls[k].pc = "editing"
  /\ End(k)
  /\ UNCHANGED <<overlay, recs, edits, faults, applied, lost, borrowed>>

CleanRead(k) ==
  \E w \in Workspaces :
    /\ Dedupe(overlay[w]) # overlay[w]
    /\ Begin(k, [Idle EXCEPT !.pc = "cleaning", !.ws = w, !.text = overlay[w]])
    /\ UNCHANGED <<overlay, recs, edits, faults, applied, lost, borrowed>>

CleanSave(k) ==
  /\ calls[k].pc = "cleaning"
  /\ Save(calls[k].ws, calls[k].text)
  /\ End(k)
  /\ UNCHANGED <<recs, edits, faults, applied, lost, borrowed>>

\* reset_overlay, and reset_all_overlays with and without a workspace.
Reset(ws) ==
  /\ \E w \in ws : overlay[w] # <<>>
  /\ overlay' = [w \in Workspaces |-> IF w \in ws THEN <<>> ELSE overlay[w]]
  /\ UNCHANGED <<recs, calls, edits, faults, applied, lost, borrowed>>

----------------------------------------------------------------------------
\* A transaction fails or a process dies: the call ends where it stands.
Die(k) ==
  /\ calls[k].pc \notin {"idle", "editing"}
  /\ Fault
  /\ lost' = IF calls[k].pc = "applying" THEN lost \cup {calls[k].rec} ELSE lost
  /\ End(k)
  /\ UNCHANGED <<overlay, recs, edits, applied, borrowed>>

Continue(k) ==
  \/ SaveRecommendation(k) \/ ApproveCommit(k) \/ ApproveSave(k) \/ RollbackSave(k) \/ CleanSave(k)

Next ==
  \/ \E k \in Calls :
       \/ Diagnose(k) \/ Approve(k) \/ ApproveUnread(k) \/ Rollback(k)
       \/ EditorLoad(k) \/ EditorSave(k) \/ EditorLeave(k) \/ CleanRead(k)
       \/ Continue(k) \/ Die(k)
  \/ \E r \in DOMAIN recs : Reopen(r)
  \/ \E w \in Workspaces : Reset({w})
  \/ Reset(Workspaces)

Spec == Init /\ [][Next]_vars

----------------------------------------------------------------------------
(* Properties                                                              *)

\* The overlay of every workspace, the rows, the calls and the history are
\* well typed.
TypeOK ==
  /\ overlay \in [Workspaces -> Prompt]
  /\ recs \in Seq(Rec) /\ Len(recs) <= MaxRecs
  /\ calls \in [Calls -> Call]
  /\ \A k \in Calls : calls[k].rec \in 0..Len(recs)
  /\ edits \in 0..MaxEdits /\ faults \in 0..MaxFaults
  /\ applied \in Seq(Approval) /\ Len(applied) = Len(recs)
  /\ lost \subseteq DOMAIN recs /\ borrowed \subseteq Workspaces

\* The design contract of the loop (self_improvement.py:16-37): no row without
\* 50 sends, none ready without 200, none while bounces are high, and a reply
\* fix only with healthy opens, no reply or opportunity that is positive, and no
\* contact of the last 48 hours with any lead, as far as Instantly knows one.
ProposalsRipe ==
  \A r \in DOMAIN recs :
    LET report == recs[r].report
    IN  /\ report.sent >= 50 /\ ~BounceHigh(report)
        /\ recs[r].kind = "open_rate" <=> OpenLow(report)
        /\ recs[r].kind = "reply_rate" =>
             /\ ReplyLow(report)
             /\ report.positive = 0 /\ report.opportunities = 0
             /\ \A hours \in report.contacts : hours >= 48
             /\ report.contacts = {} => report.local \notin 0..47
        /\ Diagnosis(report).status = "ready_for_approval" => report.sent >= 200

\* A workspace's prompt is made of the code's texts and its own editor's,
\* unless a row that was never approved was rolled back: such a row carries
\* a snapshot of the default workspace.
OwnPrompts ==
  \A w \in Workspaces \ borrowed :
    \A i \in DOMAIN overlay[w] : overlay[w][i].from \in {w, "code"}

\* The step of call k is a save of a prompt, from pc.
Saves(k, pc) == calls[k].pc = pc /\ calls'[k] # calls[k] /\ overlay' # overlay

\* No save leaves a header twice (cleanup.py:13-16), whatever editors, merges
\* and snapshots of older prompts contain.
SavedOnce ==
  [][\A w \in Workspaces : overlay'[w] # overlay[w] => HasOneOfEach(overlay'[w])]_vars

LeaveOut(titles, left, s) == IF s.title \in titles THEN left ELSE Append(left, s)

\* What is left of a prompt without the sections of some titles.
Without(titles, prompt) ==
  LET left[n \in 0..Len(prompt)] ==
        IF n = 0 THEN <<>> ELSE LeaveOut(titles, left[n - 1], prompt[n])
  IN  left[Len(prompt)]

Keeps(old, new, kind) ==
  /\ {Header, kind} \subseteq TitlesOf(new)
  /\ Without({Header, kind}, new) = Without({Header, kind}, old)

\* An approval appends: what stands in the prompt stays, in its order, and the
\* addendum is there afterwards, unless the prompt changed or could not be
\* read between the approval's read and its save.
ApprovalAppends ==
  [][\A k \in Calls :
       Saves(k, "applying") /\ calls[k].text = Effective(calls[k].ws)
         => Keeps(Stored(calls[k].text), overlay'[calls[k].ws], recs[calls[k].rec].kind)]_vars

\* Rolling back a row whose approval appended to the prompt it had stored in
\* the row brings that prompt back, whatever was saved since (docstring of
\* approve_recommendation).
UndoRestores ==
  [][\A k \in Calls :
       Saves(k, "restoring") /\ calls[k].undoes.faithful
         => overlay'[calls[k].ws] = Dedupe(calls[k].undoes.before)]_vars

\* What a save may do to the prompt: no duplicates, no lost instructions, and
\* an undo that restores.
SavesSound == SavedOnce /\ ApprovalAppends /\ UndoRestores

\* The addendum of an approved row was saved, or the approval that committed
\* last is about to save it, or died before it did.
ApprovedIsApplied ==
  \A r \in DOMAIN recs :
    recs[r].status = "approved"
      => \/ applied[r].state = "saved" \/ r \in lost
         \/ \E k \in Calls : calls[k].pc = "applying" /\ calls[k].rec = r

\* Rows and prompts agree: what is approved is in force, and what is in force is
\* the workspace's own.
PromptsAccounted == OwnPrompts /\ ApprovedIsApplied

=============================================================================
