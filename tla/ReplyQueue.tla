----------------------------- MODULE ReplyQueue -----------------------------
(***************************************************************************)
(* The queue of inbound replies: reply_threads and everything that writes  *)
(* it.                                                                     *)
(*                                                                         *)
(* The webhook and the sync import replies, each with a model call between *)
(* its lookup and its write; archiving hides threads and the sync revives  *)
(* them; an operator edits drafts and sends them.  Nothing claims a thread *)
(* while it works on it.  A reply is named by its position in what its     *)
(* prospect has written.                                                   *)
(*                                                                         *)
(* Ghost state (read by the properties only): accepted, shared, unrefreshed*)
(***************************************************************************)
EXTENDS Naturals, Sequences, FiniteSets

CONSTANTS
  Prospects,   \* people with a reply or an opportunity status
  Campaigns,   \* campaigns a workspace may be set to
  Calls,       \* requests that may be at work at the same time
  NoProspect,  \* a call that works on nobody
  SyncIds,     \* ids that campaign leads carry: "lead" or none ("hash")
  HookIds,     \* ids that webhooks carry: "msg", "lead" or none ("hash")
  Judgements,  \* what the model may make of a reply
  Pasted,      \* replies an operator may paste into a draft of his own
  MaxReplies   \* bound: replies of one prospect

ASSUME ReplyQueueAssumption ==
  /\ NoProspect \notin Prospects
  /\ SyncIds \subseteq {"lead", "hash"}
  /\ HookIds \subseteq {"msg", "lead", "hash"}
  /\ Judgements \subseteq {"stop", "human", "dismiss", "review", "unclear"}
  /\ Pasted \subseteq 1 .. MaxReplies
  /\ MaxReplies \in Nat
  /\ IsFiniteSet(Calls)

VARIABLES
  said,        \* what each prospect has replied: opt-outs and other replies
  campaign,    \* the campaign the workspace is set to
  threads,     \* reply_threads by unique key
  call,        \* locals of every call
  accepted,    \* keys for which Instantly has accepted a draft
  shared,      \* keys that two calls have worked on at the same time
  unrefreshed  \* revived keys whose verdict and draft are of an earlier reply

vars == <<said, campaign, threads, call, accepted, shared, unrefreshed>>

-----------------------------------------------------------------------------
Replies == 1 .. MaxReplies

\* A draft is named by the reply it answers; 0 is the empty draft and Own a
\* text the operator has written.
Own == MaxReplies + 1
Drafts == 0 .. Own

\* classification and recommended_action, by what the code does with them.
Verdicts == {"stop", "human", "dismiss", "review", "unclear"}

Statuses == {"none", "needs_review", "approved", "sent", "skipped", "archived",
             "failed", "needs_human_review", "manual_send_required",
             "missing_reply_text"}

\* What raw_payload says of the lead: nothing, an opportunity, or neither.
Payloads == {"none", "opportunity", "plain"}

Thread == [status : Statuses, text : 0 .. MaxReplies, verdict : Verdicts,
           draft : Drafts, payload : Payloads]

\* The column defaults are needs_human_review and route_to_human, no draft.
NoThread == [status |-> "none", text |-> 0, verdict |-> "human", draft |-> 0,
             payload |-> "none"]

\* A key is a kind of id, a prospect, the reply hashed into it, and a campaign.
Keys == (((SyncIds \cup HookIds) \ {"hash"}) \X Prospects \X {0} \X Campaigns)
        \cup ({"hash"} \X Prospects \X (0 .. MaxReplies) \X Campaigns)

\* No text of a placeholder enters the hash of a sync; the other two kinds of
\* key do not depend on the text.
DedupKey(id, p, text, cid) == <<id, p, IF id = "hash" THEN text ELSE 0, cid>>

Idle == [pc |-> "idle", campaign |-> "none", todo |-> {}, who |-> NoProspect,
         key |-> <<>>, text |-> 0, payload |-> "none", draft |-> 0,
         outcome |-> "none", errors |-> FALSE]

Pcs == {"idle", "list", "next", "fetch", "classify", "hook", "post", "mark", "dead"}

Call == [pc : Pcs, campaign : Campaigns \cup {"none"}, todo : SUBSET Prospects,
         who : Prospects \cup {NoProspect}, key : Keys \cup {<<>>},
         text : 0 .. MaxReplies, payload : Payloads, draft : Drafts,
         outcome : Statuses, errors : BOOLEAN]

TypeOK ==
  /\ said \in [Prospects -> Seq({"opt_out", "other"})]
  /\ campaign \in Campaigns
  /\ threads \in [Keys -> Thread]
  /\ call \in [Calls -> Call]
  /\ accepted \subseteq Keys
  /\ shared \subseteq Keys
  /\ unrefreshed \subseteq Keys

-----------------------------------------------------------------------------
Exists(k) == threads[k].status # "none"

\* Mutant: an archived thread counts as known.
AnyThread(k) == Exists(k)

\* What the operator's queue may show.
Active(k) == Exists(k) /\ threads[k].status # "archived"

\* The unique key refuses a second thread.
Inserted(k, t) == IF Exists(k) THEN threads ELSE [threads EXCEPT ![k] = t]

Stop(c) == call' = [call EXCEPT ![c] = Idle]

\* Mutant: a candidate whose write failed is put back.
RetryCandidate(c, errors) ==
  call' = [call EXCEPT ![c] =
    [Idle EXCEPT !.pc = "next", !.campaign = call[c].campaign,
                 !.todo = call[c].todo \cup (IF errors THEN {call[c].who} ELSE {}),
                 !.errors = call[c].errors \/ errors]]

\* The sync lets go of its candidate and takes the next.
NextCandidate(c, errors) ==
  call' = [call EXCEPT ![c] = [Idle EXCEPT !.pc = "next",
                                           !.campaign = call[c].campaign,
                                           !.todo = call[c].todo,
                                           !.errors = call[c].errors \/ errors]]

\* A call works on a key from its lookup to its last write.
Holders(k) == {c \in Calls : call[c].key = k}

\* Every step notes the keys that two calls hold.
NoteShared ==
  shared' = shared \cup {k \in Keys : Cardinality(Holders(k)') > 1}

-----------------------------------------------------------------------------
(* Classification.                                                         *)

\* Mutant: the model decides on opt-outs too.
ModelAnswers(p, text) == [verdict : Judgements, draft : {0, text}]

\* classify_and_draft_reply: an opt-out phrase is decided without the model.
Answers(p, text) ==
  IF said[p][text] = "opt_out"
  THEN {[verdict |-> "stop", draft |-> text]}
  ELSE [verdict : Judgements, draft : {0, text}]

\* _classification_to_status
StatusOf(verdict) ==
  CASE verdict \in {"stop", "dismiss"} -> "skipped"
    [] verdict = "review"              -> "needs_review"
    [] OTHER                           -> "needs_human_review"

\* Mutant: only an empty draft blocks.
BlockedIfEmpty(t) == t.draft = 0

\* get_send_blocked_reason: the status of the thread is not looked at.
SendBlocked(t) == t.verdict \in {"stop", "human"} \/ t.draft = 0

\* Mutant: result.draft_body or row.draft_body
KeepingDraft(t, a) ==
  [t EXCEPT !.verdict = a.verdict, !.draft = IF a.draft = 0 THEN @ ELSE a.draft,
            !.status = StatusOf(a.verdict)]

Classified(t, a) ==
  [t EXCEPT !.verdict = a.verdict, !.draft = a.draft,
            !.status = StatusOf(a.verdict)]

-----------------------------------------------------------------------------
(* Archiving.  Each sweep is one transaction over all threads.             *)

\* Mutant: sent threads are swept too.
SweepAll(stale) ==
  threads' = [k \in Keys |-> IF k \in stale /\ Exists(k)
                             THEN [threads[k] EXCEPT !.status = "archived"]
                             ELSE threads[k]]

Sweep(stale) ==
  threads' = [k \in Keys |->
    IF k \in stale /\ Exists(k) /\ threads[k].status # "sent"
    THEN [threads[k] EXCEPT !.status = "archived"]
    ELSE threads[k]]

\* archive_stale_threads: no text, dismissed, or of none of these campaigns.
SweepStale(current) ==
  Sweep({k \in Keys : \/ threads[k].text = 0
                      \/ threads[k].status = "skipped"
                      \/ k[4] \notin current})

\* The campaign to keep is optional.
ArchiveStale ==
  /\ \E current \in {Campaigns, {campaign}} : SweepStale(current)
  /\ UNCHANGED <<said, campaign, call, accepted, unrefreshed>>

ArchivePlaceholders ==
  /\ Sweep({k \in Keys : \/ threads[k].text = 0
                         \/ threads[k].status = "missing_reply_text"})
  /\ UNCHANGED <<said, campaign, call, accepted, unrefreshed>>

ArchiveNonOpportunity ==
  /\ Sweep({k \in Keys : threads[k].payload = "plain"})
  /\ UNCHANGED <<said, campaign, call, accepted, unrefreshed>>

-----------------------------------------------------------------------------
(* sync_reply_queue                                                        *)

SyncStart(c) ==
  /\ call[c].pc = "idle"
  /\ SweepStale({campaign})
  /\ call' = [call EXCEPT ![c] = [Idle EXCEPT !.pc = "list", !.campaign = campaign]]
  /\ UNCHANGED <<said, campaign, accepted, unrefreshed>>

\* Opportunities of the campaign and locally replied leads, one per address;
\* or the listing fails and the sync with it.
SyncList(c) ==
  /\ call[c].pc = "list"
  /\ \/ \E ps \in SUBSET Prospects :
          call' = [call EXCEPT ![c].pc = "next", ![c].todo = ps]
     \/ Stop(c)
  /\ UNCHANGED <<said, campaign, threads, accepted, unrefreshed>>

\* A locally replied lead has an id and no payload.
Sources == [id : SyncIds, payload : {"opportunity"}]
           \cup [id : SyncIds \cap {"lead"}, payload : {"none"}]

Payload(new, old) == IF new = "none" THEN old ELSE new

\* The thread is looked up; an active one only gets the new payload.
SyncLookup(c, p, src) ==
  LET key == DedupKey(src.id, p, 0, call[c].campaign)
  IN /\ call[c].pc = "next"
     /\ p \in call[c].todo
     /\ \/ /\ Active(key)
           /\ threads' = [threads EXCEPT ![key].payload = Payload(src.payload, @)]
           /\ call' = [call EXCEPT ![c].todo = @ \ {p}]
        \/ /\ ~ Active(key)
           /\ call' = [call EXCEPT ![c].pc = "fetch", ![c].todo = @ \ {p},
                         ![c].who = p, ![c].key = key, ![c].payload = src.payload,
                         ![c].outcome = threads[key].status]
           /\ UNCHANGED threads
     /\ UNCHANGED <<said, campaign, accepted, unrefreshed>>

\* The replies among the emails of a lead, sorted by date: a date that does not
\* parse sorts last, so an older reply may come first.
EmailReplies(p) == 1 .. Len(said[p])

\* An error of the emails endpoint counts as no reply.
FromEmails(p) == {0} \cup EmailReplies(p)

\* The lead itself: its reply fields, or the newest message, hold the latest.
FromLead(p) == {0, Len(said[p])}

\* The lead is asked when the emails give no text.
Fetched(p) == (FromEmails(p) \ {0}) \cup FromLead(p)

\* Mutants: a status that no code knows, and one for every import.
ImportedUnknown(t, text, payload) ==
  [t EXCEPT !.status = IF text = 0 THEN "missing_text" ELSE "needs_review",
            !.text = text, !.payload = Payload(payload, @)]
ImportedForReview(t, text, payload) ==
  [t EXCEPT !.status = "needs_review", !.text = text,
            !.payload = Payload(payload, @)]

Imported(t, text, payload) ==
  [t EXCEPT !.status = IF text = 0 THEN "missing_reply_text" ELSE "needs_review",
            !.text = text, !.payload = Payload(payload, @)]

AfterImport(c, text) ==
  IF text = 0
  THEN NextCandidate(c, FALSE)
  ELSE call' = [call EXCEPT ![c].pc = "classify", ![c].text = text]

\* The thread was archived at the lookup: it is revived, whatever it is now,
\* and keeps the verdict and the draft it had.
SyncRevive(c, text) ==
  LET key == call[c].key
  IN /\ call[c].outcome = "archived"
     /\ threads' = [threads EXCEPT ![key] = Imported(@, text, call[c].payload)]
     /\ unrefreshed' = unrefreshed \cup {key}
     /\ AfterImport(c, text)
     /\ UNCHANGED <<said, campaign, accepted>>

\* There was no thread: one is inserted, unless another call was faster.
SyncCreate(c, text) ==
  LET key == call[c].key
  IN /\ call[c].outcome = "none"
     /\ threads' = Inserted(key, Imported(NoThread, text, call[c].payload))
     /\ IF Exists(key) THEN NextCandidate(c, FALSE) ELSE AfterImport(c, text)
     /\ UNCHANGED <<said, campaign, accepted, unrefreshed>>

\* Any other error of the write is counted and the candidate given up.
SyncWriteFailed(c) ==
  /\ call[c].pc = "fetch"
  /\ NextCandidate(c, TRUE)
  /\ UNCHANGED <<said, campaign, threads, accepted, unrefreshed>>

SyncClassified(c) ==
  LET key == call[c].key
  IN /\ call[c].pc = "classify"
     /\ \E a \in Answers(call[c].who, call[c].text) :
          threads' = [threads EXCEPT ![key] = Classified(@, a)]
     /\ unrefreshed' = unrefreshed \ {key}
     /\ NextCandidate(c, FALSE)
     /\ UNCHANGED <<said, campaign, accepted>>

\* The model or the write fails: the thread stays as it was imported.
SyncUnclassified(c) ==
  /\ call[c].pc = "classify"
  /\ NextCandidate(c, FALSE)
  /\ UNCHANGED <<said, campaign, threads, accepted, unrefreshed>>

SyncEnd(c) ==
  /\ call[c].pc = "next" /\ call[c].todo = {}
  /\ Stop(c)
  /\ UNCHANGED <<said, campaign, threads, accepted, unrefreshed>>

-----------------------------------------------------------------------------
(* handle_reply_webhook.  Instantly may deliver late, twice, out of order.  *)

\* The campaign is the payload's or the workspace's; the lead the request may
\* add is left out, no code here reads it.  A known key ends the request; so
\* does a missing body, after its placeholder is stored.
HookReceived(c, p, text, id, cid, hasBody) ==
  LET body == IF hasBody THEN text ELSE 0
      key == DedupKey(id, p, body, cid)
  IN /\ call[c].pc = "idle"
     /\ text \in DOMAIN said[p]
     /\ \/ /\ Exists(key)
           /\ UNCHANGED <<threads, call>>
        \/ /\ ~ Exists(key) /\ ~ hasBody
           /\ threads' = [threads EXCEPT ![key] = Imported(NoThread, 0, "plain")]
           /\ UNCHANGED call
        \/ /\ ~ Exists(key) /\ hasBody
           /\ call' = [call EXCEPT ![c] =
                [Idle EXCEPT !.pc = "hook", !.campaign = cid, !.who = p,
                             !.key = key, !.text = text, !.payload = "plain"]]
           /\ UNCHANGED threads
     /\ UNCHANGED <<said, campaign, accepted, unrefreshed>>

\* What is stored when the model fails; an opt-out does not need the model.
Unclassified(p, text) ==
  IF said[p][text] = "opt_out" THEN {} ELSE {[verdict |-> "human", draft |-> 0]}

\* Mutant: a reply the model cannot classify is not stored.
HookDropped(c) ==
  LET key == call[c].key
  IN /\ call[c].pc = "hook"
     /\ \/ UNCHANGED threads
        \/ \E a \in Answers(call[c].who, call[c].text) :
             threads' = Inserted(key, Classified(Imported(NoThread, call[c].text,
                                                          call[c].payload), a))
     /\ Stop(c)
     /\ UNCHANGED <<said, campaign, accepted, unrefreshed>>

HookStored(c) ==
  LET key == call[c].key
  IN /\ call[c].pc = "hook"
     /\ \E a \in Answers(call[c].who, call[c].text)
               \cup Unclassified(call[c].who, call[c].text) :
          threads' = Inserted(key, Classified(Imported(NoThread, call[c].text,
                                                       call[c].payload), a))
     /\ Stop(c)
     /\ UNCHANGED <<said, campaign, accepted, unrefreshed>>

-----------------------------------------------------------------------------
(* The operator.                                                           *)

\* create_draft_from_replied_lead: the campaign is read before the model is
\* called, the thread inserted after it, or left alone if it is there.
CreateDraft(p, text, cid) ==
  LET key == DedupKey("hash", p, text, cid)
  IN /\ text \in DOMAIN said[p]
     /\ \E a \in Answers(p, text) :
          threads' = Inserted(key, Classified(Imported(NoThread, text, "none"), a))
     /\ UNCHANGED <<said, campaign, call, accepted, unrefreshed>>

\* update_reply_thread: approve, dismiss, or rewrite the draft.
UpdateThread(k) ==
  /\ Exists(k)
  /\ \/ \E s \in {"approved", "skipped"} :
          threads' = [threads EXCEPT ![k].status = s]
     \/ threads' = [threads EXCEPT ![k].draft = Own]
  /\ UNCHANGED <<said, campaign, call, accepted, unrefreshed>>

\* try_send_reply up to its request: it sends what it has read here, or the
\* text the operator passes along.
SendStart(c, k) ==
  /\ call[c].pc = "idle"
  /\ Exists(k) /\ ~ SendBlocked(threads[k])
  /\ \E draft \in {threads[k].draft, Own} :
       call' = [call EXCEPT ![c] = [Idle EXCEPT !.pc = "post", !.key = k,
                                      !.who = k[2], !.draft = draft]]
  /\ UNCHANGED <<said, campaign, threads, accepted, unrefreshed>>

\* An error or a timeout may follow a request that Instantly has carried out.
SendAnswered(c) ==
  /\ call[c].pc = "post"
  /\ \E outcome \in {"sent", "manual_send_required", "failed"} :
       /\ call' = [call EXCEPT ![c].pc = "mark", ![c].outcome = outcome]
       /\ \/ /\ outcome \in {"sent", "failed"}
             /\ accepted' = accepted \cup {call[c].key}
          \/ /\ outcome # "sent"
             /\ UNCHANGED accepted
  /\ UNCHANGED <<said, campaign, threads, unrefreshed>>

\* Mutant: an error is taken for a lost answer.
MarkSent(c) ==
  /\ call[c].pc = "mark"
  /\ threads' = [threads EXCEPT ![call[c].key].status =
                   IF call[c].outcome = "failed" THEN "sent" ELSE call[c].outcome]
  /\ Stop(c)
  /\ UNCHANGED <<said, campaign, accepted, unrefreshed>>

\* _mark_thread
MarkThread(c) ==
  /\ call[c].pc = "mark"
  /\ threads' = [threads EXCEPT ![call[c].key].status = call[c].outcome]
  /\ Stop(c)
  /\ UNCHANGED <<said, campaign, accepted, unrefreshed>>

-----------------------------------------------------------------------------
(* Around the queue.                                                       *)

Reply(p) ==
  /\ Len(said[p]) < MaxReplies
  /\ \E s \in {"opt_out", "other"} : said' = [said EXCEPT ![p] = Append(@, s)]
  /\ UNCHANGED <<campaign, threads, call, accepted, unrefreshed>>

SetCampaign(cid) ==
  /\ campaign' = cid
  /\ UNCHANGED <<said, threads, call, accepted, unrefreshed>>

\* The process of a request dies.
Crash(c) ==
  /\ call[c].pc \notin {"idle", "dead"}
  /\ call' = [call EXCEPT ![c] = [Idle EXCEPT !.pc = "dead"]]
  /\ UNCHANGED <<said, campaign, threads, accepted, unrefreshed>>

-----------------------------------------------------------------------------
Init ==
  /\ said = [p \in Prospects |-> <<>>]
  /\ campaign \in Campaigns
  /\ threads = [k \in Keys |-> NoThread]
  /\ call = [c \in Calls |-> Idle]
  /\ accepted = {}
  /\ shared = {}
  /\ unrefreshed = {}

Sync(c) ==
  \/ SyncList(c)
  \/ \E p \in Prospects, src \in Sources : SyncLookup(c, p, src)
  \/ /\ call[c].pc = "fetch"
     /\ \E text \in Fetched(call[c].who) : SyncRevive(c, text) \/ SyncCreate(c, text)
  \/ SyncWriteFailed(c)
  \/ SyncClassified(c)
  \/ SyncUnclassified(c)
  \/ SyncEnd(c)

Send(c) == SendAnswered(c) \/ MarkThread(c)

\* The rest of a request that has begun.
CallStep(c) == Sync(c) \/ HookStored(c) \/ Send(c)

Step ==
  \/ \E c \in Calls : CallStep(c) \/ SyncStart(c) \/ Crash(c)
  \/ \E c \in Calls, p \in Prospects, text \in Replies, id \in HookIds,
        cid \in Campaigns, hasBody \in BOOLEAN :
       HookReceived(c, p, text, id, cid, hasBody)
  \/ \E c \in Calls, k \in Keys : SendStart(c, k)
  \/ \E k \in Keys : UpdateThread(k)
  \/ \E p \in Prospects, text \in Pasted, cid \in Campaigns : CreateDraft(p, text, cid)
  \/ ArchiveStale \/ ArchivePlaceholders \/ ArchiveNonOpportunity
  \/ \E p \in Prospects : Reply(p)
  \/ \E cid \in Campaigns : SetCampaign(cid)

Next == Step /\ NoteShared

Spec == Init /\ [][Next]_vars

\* A request that has begun runs on: the server's event loop resumes it, and
\* every outside call has a timeout.
FairSpec == Spec /\ \A c \in Calls : WF_vars(CallStep(c) /\ NoteShared)

-----------------------------------------------------------------------------
(* Properties.  A key in shared was worked on by two calls at once, and a   *)
(* key in unrefreshed was revived and not classified since: two windows the *)
(* code leaves open.                                                       *)

OptOuts(p) == {r \in DOMAIN said[p] : said[p][r] = "opt_out"}

\* No request to Instantly carries a draft that was made for an opt-out, even if
\* the thread was revived, reclassified or overtaken since it was drafted.
OptOutUnanswered ==
  \A c \in Calls :
    call[c].pc \in {"post", "mark"} => call[c].draft \notin OptOuts(call[c].who)

\* "Never marks as sent on failure": a thread is sent only if Instantly has
\* accepted a draft for it, whichever calls wrote its status since.
SentIsTrue == \A k \in Keys : threads[k].status = "sent" => k \in accepted

\* What goes out and what is called sent: no answer to an opt-out, no sent
\* mark without an acceptance.
SentRight == OptOutUnanswered /\ SentIsTrue

\* No placeholder record is in needs_review, outside shared keys.
ReviewHasText ==
  \A k \in Keys \ shared : threads[k].status = "needs_review" => threads[k].text # 0

\* Outside the windows an operator who opens a thread finds a draft that was
\* made for the reply the thread shows, or his own.
DraftAnswersText ==
  \A k \in Keys \ (shared \cup unrefreshed) :
    threads[k].draft \in Replies => threads[k].draft = threads[k].text

\* Outside the windows a thread that shows an opt-out cannot be sent.
OptOutBlocked ==
  \A k \in Keys \ (shared \cup unrefreshed) :
    threads[k].text \in OptOuts(k[2]) => SendBlocked(threads[k])

\* The reply, the draft and the class a thread shows belong together.
ThreadConsistent == ReviewHasText /\ DraftAnswersText /\ OptOutBlocked

\* "Sent records are ALWAYS preserved": outside shared keys no import and no
\* sweep takes a thread out of sent, only another send or an operator does.
SentSticks ==
  [][\A k \in Keys \ shared' :
       threads[k].status = "sent" /\ threads'[k].status # "sent" =>
         \/ UpdateThread(k)
         \/ \E c \in Calls : MarkThread(c) /\ call[c].key = k]_vars

\* "never drop inbound replies": a webhook with a body that ends without a
\* crash leaves a thread under its key, whatever the model answers.
InboundKept ==
  [][\A c \in Calls :
       call[c].pc = "hook" /\ call'[c].pc = "idle" =>
         threads'[call[c].key].status # "none"]_vars

\* The file forgets neither an answer sent nor a reply received.
NothingForgotten == SentSticks /\ InboundKept

\* A candidate of a sync gets an active thread, also when its own was archived
\* or its text cannot be fetched, unless a write fails or the process dies.
CandidatesQueued ==
  \A c \in Calls, p \in Prospects :
    p \in call[c].todo ~>
      \/ \E k \in Keys : k[2] = p /\ threads[k].status \notin {"none", "archived"}
      \/ call[c].errors
      \/ call[c].pc = "dead"

\* Every request ends.
CallsEnd == \A c \in Calls : call[c].pc # "idle" ~> call[c].pc \in {"idle", "dead"}

\* Requests end, and leave every candidate they found in the queue.
QueueFills == CandidatesQueued /\ CallsEnd
=============================================================================
