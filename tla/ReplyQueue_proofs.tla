------------------------- MODULE ReplyQueue_proofs -------------------------
(* Proofs about ReplyQueue: its types, and what a send may carry and mark.  *)
EXTENDS ReplyQueue, TLAPS, FiniteSetTheorems

-----------------------------------------------------------------------------
(* Keys, answers and threads *)

\* A key names a prospect, and the empty key of an idle call is none.
LEMMA KeyParts ==
  ASSUME NEW k \in Keys
  PROVE  k[2] \in Prospects
BY DEF Keys

LEMMA DedupKeyType ==
  ASSUME NEW id \in SyncIds \cup HookIds \cup {"hash"}, NEW p \in Prospects,
         NEW text \in 0 .. MaxReplies, NEW cid \in Campaigns
  PROVE  DedupKey(id, p, text, cid) \in Keys /\ DedupKey(id, p, text, cid)[2] = p
<1>1. CASE id = "hash"
  BY <1>1 DEF DedupKey, Keys
<1>2. CASE id # "hash"
  BY <1>2 DEF DedupKey, Keys
<1> QED BY <1>1, <1>2

Answer == [verdict : Verdicts, draft : Drafts]

LEMMA NoThreadType == NoThread \in Thread
BY ReplyQueueAssumption DEF NoThread, Thread, Statuses, Verdicts, Drafts, Own, Payloads

LEMMA PayloadType ==
  ASSUME NEW new \in Payloads, NEW old \in Payloads
  PROVE  Payload(new, old) \in Payloads
BY DEF Payload

LEMMA ImportedType ==
  ASSUME NEW t \in Thread, NEW text \in 0 .. MaxReplies, NEW payload \in Payloads
  PROVE  /\ Imported(t, text, payload) \in Thread
         /\ Imported(t, text, payload).draft = t.draft
         /\ Imported(t, text, payload).verdict = t.verdict
         /\ Imported(t, text, payload).status \in {"missing_reply_text", "needs_review"}
<1>1. Payload(payload, t.payload) \in Payloads
  BY PayloadType DEF Thread
<1> QED BY <1>1 DEF Imported, Thread, Statuses

LEMMA ClassifiedType ==
  ASSUME NEW t \in Thread, NEW a \in Answer
  PROVE  /\ Classified(t, a) \in Thread
         /\ Classified(t, a).draft = a.draft
         /\ Classified(t, a).verdict = a.verdict
         /\ Classified(t, a).status
              \in {"skipped", "needs_review", "needs_human_review"}
<1>1. StatusOf(a.verdict) \in {"skipped", "needs_review", "needs_human_review"}
  BY DEF StatusOf, Answer, Verdicts
<1> QED BY <1>1 DEF Classified, Thread, Statuses, Answer

\* An answer to an opt-out says so, and an answer drafts for its reply or not.
LEMMA AnswersType ==
  ASSUME NEW p, NEW text \in Replies, NEW a \in Answers(p, text) \cup Unclassified(p, text)
  PROVE  /\ a \in Answer
         /\ a.draft \in {0, text}
         /\ said[p][text] = "opt_out" => a.verdict = "stop"
<1>1. text \in Drafts /\ 0 \in Drafts /\ Judgements \subseteq Verdicts
  BY ReplyQueueAssumption DEF Drafts, Own, Replies, Verdicts
<1>2. CASE said[p][text] = "opt_out"
  <2>1. a = [verdict |-> "stop", draft |-> text]
    BY <1>2 DEF Answers, Unclassified
  <2> QED BY <1>1, <2>1 DEF Answer, Verdicts
<1>3. CASE said[p][text] # "opt_out"
  <2>1. CASE a \in [verdict : Judgements, draft : {0, text}]
    BY <1>1, <1>3, <2>1 DEF Answer
  <2>2. CASE a = [verdict |-> "human", draft |-> 0]
    BY <1>1, <1>3, <2>2 DEF Answer, Verdicts
  <2> QED BY <1>3, <2>1, <2>2 DEF Answers, Unclassified
<1> QED BY <1>2, <1>3

-----------------------------------------------------------------------------
(* Types.  TypeOK is not inductive: nothing in it says that a call at work   *)
(* has a campaign, a key and a reply, or that replies are bounded.          *)

Bounded == \A p \in Prospects : Len(said[p]) <= MaxReplies

\* What a call at work holds.
Framed(c) ==
  /\ c.pc \in {"list", "next", "fetch", "classify", "hook"} => c.campaign \in Campaigns
  /\ c.pc \in {"fetch", "classify", "hook", "post", "mark"} =>
       c.key \in Keys /\ c.who = c.key[2]
  /\ c.pc \in {"classify", "hook"} => c.text \in DOMAIN said[c.who]

TypeInv == TypeOK /\ Bounded /\ \A c \in Calls : Framed(call[c])

LEMMA IdleType == Idle \in Call /\ Framed(Idle)
BY ReplyQueueAssumption DEF Idle, Call, Pcs, Payloads, Drafts, Own, Statuses, Framed

LEMMA InitType == Init => TypeInv
<1> SUFFICES ASSUME Init PROVE TypeInv
  OBVIOUS
<1>1. call \in [Calls -> Call] /\ \A c \in Calls : Framed(call[c])
  BY IdleType DEF Init
<1>2. threads \in [Keys -> Thread]
  BY NoThreadType DEF Init
<1>3. said \in [Prospects -> Seq({"opt_out", "other"})] /\ Bounded
  BY ReplyQueueAssumption DEF Init, Bounded
<1> QED BY <1>1, <1>2, <1>3 DEF TypeInv, TypeOK, Init

\* The domain of what a prospect has said.
LEMMA SaidDomain ==
  ASSUME TypeInv, NEW p \in Prospects
  PROVE  /\ said[p] \in Seq({"opt_out", "other"})
         /\ Len(said[p]) \in 0 .. MaxReplies
         /\ DOMAIN said[p] = 1 .. Len(said[p])
         /\ DOMAIN said[p] \subseteq Replies
<1>1. said[p] \in Seq({"opt_out", "other"}) /\ Len(said[p]) <= MaxReplies
  BY DEF TypeInv, TypeOK, Bounded
<1>2. Len(said[p]) \in Nat /\ DOMAIN said[p] = 1 .. Len(said[p])
  BY <1>1
<1> QED BY <1>1, <1>2, ReplyQueueAssumption DEF Replies

\* What is fetched is a reply or no text.
LEMMA FetchedDomain ==
  ASSUME TypeInv, NEW p \in Prospects, NEW text \in Fetched(p)
  PROVE  text \in DOMAIN said[p] \cup {0}
<1>1. Len(said[p]) \in Nat /\ DOMAIN said[p] = 1 .. Len(said[p])
  BY SaidDomain
<1>2. text \in EmailReplies(p) \/ text \in {0, Len(said[p])}
  BY DEF Fetched, FromEmails, FromLead
<1>3. CASE text \in EmailReplies(p)
  BY <1>1, <1>3 DEF EmailReplies
<1>4. CASE text \in {0, Len(said[p])}
  <2> DEFINE n == Len(said[p])
  <2>1. n \in Nat /\ DOMAIN said[p] = 1 .. n /\ text \in {0, n}
    BY <1>1, <1>4
  <2> HIDE DEF n
  <2> QED BY <2>1
<1> QED BY <1>2, <1>3, <1>4

\* A step of one call: its new frame f decides.
LEMMA CallType ==
  ASSUME TypeInv, said' = said, NEW c \in Calls, NEW f \in Call, Framed(f),
         call' = [call EXCEPT ![c] = f]
  PROVE  call' \in [Calls -> Call] /\ \A d \in Calls : Framed(call[d])'
<1>1. call \in [Calls -> Call] /\ \A d \in Calls : Framed(call[d])
  BY DEF TypeInv, TypeOK
<1>2. call' \in [Calls -> Call]
  BY <1>1
<1>3. ASSUME NEW d \in Calls PROVE Framed(call'[d])
  <2>1. call'[d] = IF d = c THEN f ELSE call[d]
    BY <1>1
  <2> QED BY <2>1, <1>1
<1> QED BY <1>2, <1>3 DEF Framed

LEMMA StopType ==
  ASSUME TypeInv, said' = said, NEW c \in Calls, Stop(c)
  PROVE  call' \in [Calls -> Call] /\ \A d \in Calls : Framed(call[d])'
BY IdleType, CallType DEF Stop

LEMMA NextCandidateType ==
  ASSUME TypeInv, said' = said, NEW c \in Calls, NEW errors \in BOOLEAN,
         call[c].pc \in {"fetch", "classify"}, NextCandidate(c, errors)
  PROVE  call' \in [Calls -> Call] /\ \A d \in Calls : Framed(call[d])'
<1> DEFINE f == [Idle EXCEPT !.pc = "next", !.campaign = call[c].campaign,
                             !.todo = call[c].todo,
                             !.errors = call[c].errors \/ errors]
<1>1. call[c] \in Call /\ call[c].campaign \in Campaigns
  BY DEF TypeInv, TypeOK, Framed
<1>2. call[c].errors \/ errors \in BOOLEAN
  BY <1>1 DEF Call
<1>3. f \in Call /\ Framed(f)
  BY <1>1, <1>2, IdleType DEF Call, Pcs, Idle, Framed
<1>4. call' = [call EXCEPT ![c] = f]
  BY DEF NextCandidate
<1> HIDE DEF f
<1> QED BY <1>3, <1>4, CallType

LEMMA AfterImportType ==
  ASSUME TypeInv, said' = said, NEW c \in Calls, call[c].pc = "fetch",
         NEW text \in Fetched(call[c].who), AfterImport(c, text)
  PROVE  call' \in [Calls -> Call] /\ \A d \in Calls : Framed(call[d])'
<1>1. CASE text = 0
  BY <1>1, NextCandidateType DEF AfterImport
<1>2. CASE text # 0
  <2> DEFINE f == [call[c] EXCEPT !.pc = "classify", !.text = text]
  <2>1. call[c] \in Call /\ Framed(call[c])
    BY DEF TypeInv, TypeOK
  <2>2. call[c].who \in Prospects
    BY <2>1, KeyParts DEF Framed
  <2>3. text \in DOMAIN said[call[c].who] /\ text \in 0 .. MaxReplies
    BY <2>2, <1>2, SaidDomain, FetchedDomain, ReplyQueueAssumption DEF Replies
  <2>4. f \in Call /\ Framed(f)
    BY <2>1, <2>3 DEF Call, Pcs, Framed
  <2>5. call' = [call EXCEPT ![c] = f]
    BY <1>2, <2>1 DEF AfterImport, TypeInv, TypeOK
  <2> HIDE DEF f
  <2> QED BY <2>4, <2>5, CallType
<1> QED BY <1>1, <1>2

LEMMA FetchedType ==
  ASSUME TypeInv, NEW p \in Prospects, NEW text \in Fetched(p)
  PROVE  text \in 0 .. MaxReplies
BY SaidDomain, FetchedDomain, ReplyQueueAssumption DEF Replies

LEMMA InsertedType ==
  ASSUME TypeInv, NEW k \in Keys, NEW t \in Thread, threads' = Inserted(k, t)
  PROVE  threads' \in [Keys -> Thread]
BY DEF Inserted, TypeInv, TypeOK

LEMMA SweepType ==
  ASSUME TypeInv, NEW stale, Sweep(stale)
  PROVE  threads' \in [Keys -> Thread]
BY DEF Sweep, TypeInv, TypeOK, Thread, Statuses
-----------------------------------------------------------------------------
(* Every action keeps the types.  Rest is what TypeInv says of the variables *)
(* besides shared, which no action but NoteShared writes.                   *)

Rest ==
  /\ said \in [Prospects -> Seq({"opt_out", "other"})]
  /\ campaign \in Campaigns
  /\ threads \in [Keys -> Thread]
  /\ call \in [Calls -> Call]
  /\ accepted \subseteq Keys
  /\ unrefreshed \subseteq Keys
  /\ Bounded
  /\ \A c \in Calls : Framed(call[c])

\* An action that leaves replies and calls alone.
LEMMA ThreadsOnly ==
  ASSUME TypeInv, threads' \in [Keys -> Thread],
         UNCHANGED <<said, campaign, call, accepted, unrefreshed>>
  PROVE  Rest'
BY DEF TypeInv, TypeOK, Rest, Bounded, Framed

\* An action that leaves replies and campaign alone.
LEMMA ThreadsAndCalls ==
  ASSUME TypeInv, threads' \in [Keys -> Thread], call' \in [Calls -> Call],
         \A d \in Calls : Framed(call[d])',
         UNCHANGED <<said, campaign>>,
         accepted' \subseteq Keys, unrefreshed' \subseteq Keys
  PROVE  Rest'
BY DEF TypeInv, TypeOK, Rest, Bounded

LEMMA ArchiveType ==
  ASSUME TypeInv, ArchiveStale \/ ArchivePlaceholders \/ ArchiveNonOpportunity
  PROVE  Rest'
<1>1. \E stale : Sweep(stale)
  BY DEF ArchiveStale, ArchivePlaceholders, ArchiveNonOpportunity, SweepStale
<1>2. threads' \in [Keys -> Thread]
  BY <1>1, SweepType
<1> QED
  BY <1>2, ThreadsOnly DEF ArchiveStale, ArchivePlaceholders, ArchiveNonOpportunity

LEMMA SyncStartType ==
  ASSUME TypeInv, NEW c \in Calls, SyncStart(c)
  PROVE  Rest'
<1> DEFINE f == [Idle EXCEPT !.pc = "list", !.campaign = campaign]
<1>1. threads' \in [Keys -> Thread]
  BY SweepType DEF SyncStart, SweepStale
<1>2. f \in Call /\ Framed(f)
  BY IdleType DEF Call, Pcs, Idle, Framed, TypeInv, TypeOK
<1>3. call' = [call EXCEPT ![c] = f]
  BY DEF SyncStart
<1>4. UNCHANGED <<said, campaign, accepted, unrefreshed>>
  BY DEF SyncStart
<1> HIDE DEF f
<1>5. call' \in [Calls -> Call] /\ \A d \in Calls : Framed(call[d])'
  BY <1>2, <1>3, <1>4, CallType
<1> QED BY <1>1, <1>4, <1>5, ThreadsAndCalls DEF TypeInv, TypeOK

LEMMA SyncListType ==
  ASSUME TypeInv, NEW c \in Calls, SyncList(c)
  PROVE  Rest'
<1>1. UNCHANGED <<said, campaign, threads, accepted, unrefreshed>>
  BY DEF SyncList
<1>2. call' \in [Calls -> Call] /\ \A d \in Calls : Framed(call[d])'
  <2>1. CASE Stop(c)
    BY <1>1, <2>1, StopType
  <2>2. ASSUME NEW ps \in SUBSET Prospects,
               call' = [call EXCEPT ![c].pc = "next", ![c].todo = ps]
        PROVE  call' \in [Calls -> Call] /\ \A d \in Calls : Framed(call[d])'
    <3> DEFINE f == [call[c] EXCEPT !.pc = "next", !.todo = ps]
    <3>1. call[c] \in Call /\ Framed(call[c]) /\ call[c].pc = "list"
      BY DEF TypeInv, TypeOK, SyncList
    <3>2. f \in Call /\ Framed(f)
      BY <3>1 DEF Call, Pcs, Framed
    <3>3. call' = [call EXCEPT ![c] = f]
      BY <2>2, <3>1 DEF TypeInv, TypeOK
    <3> HIDE DEF f
    <3> QED BY <1>1, <3>2, <3>3, CallType
  <2> QED BY <2>1, <2>2 DEF SyncList
<1> QED BY <1>1, <1>2, ThreadsAndCalls DEF TypeInv, TypeOK

LEMMA SyncLookupType ==
  ASSUME TypeInv, NEW c \in Calls, NEW p \in Prospects, NEW src \in Sources,
         SyncLookup(c, p, src)
  PROVE  Rest'
<1> DEFINE key == DedupKey(src.id, p, 0, call[c].campaign)
           f == [call[c] EXCEPT !.todo = @ \ {p}]
           g == [call[c] EXCEPT !.pc = "fetch", !.todo = @ \ {p}, !.who = p,
                   !.key = key, !.payload = src.payload,
                   !.outcome = threads[key].status]
<1>1. UNCHANGED <<said, campaign, accepted, unrefreshed>> /\ call[c].pc = "next"
  BY DEF SyncLookup
<1>2. call[c] \in Call /\ Framed(call[c]) /\ call[c].campaign \in Campaigns
  BY <1>1 DEF TypeInv, TypeOK, Framed
<1>3. src.id \in SyncIds /\ src.payload \in Payloads
  BY DEF Sources, Payloads
<1>4. key \in Keys /\ key[2] = p
  <2>1. src.id \in SyncIds \cup HookIds \cup {"hash"} /\ 0 \in 0 .. MaxReplies
    BY <1>3, ReplyQueueAssumption
  <2> QED BY <1>2, <2>1, DedupKeyType
<1>5. threads[key] \in Thread
  BY <1>4 DEF TypeInv, TypeOK
<1>6. CASE /\ threads' = [threads EXCEPT ![key].payload = Payload(src.payload, @)]
           /\ call' = [call EXCEPT ![c].todo = @ \ {p}]
  <2>1. threads' \in [Keys -> Thread]
    <3>1. Payload(src.payload, threads[key].payload) \in Payloads
      BY <1>3, <1>5, PayloadType DEF Thread
    <3> DEFINE t == [threads[key] EXCEPT !.payload = Payload(src.payload, @)]
    <3>2. t \in Thread
      BY <1>5, <3>1 DEF Thread
    <3>3. threads' = [threads EXCEPT ![key] = t]
      BY <1>4, <1>6 DEF TypeInv, TypeOK
    <3> HIDE DEF t, key
    <3> QED BY <3>2, <3>3 DEF TypeInv, TypeOK
  <2>2. f \in Call /\ Framed(f)
    BY <1>2 DEF Call, Framed
  <2>3. call' = [call EXCEPT ![c] = f]
    BY <1>6 DEF TypeInv, TypeOK
  <2> HIDE DEF f
  <2>4. call' \in [Calls -> Call] /\ \A d \in Calls : Framed(call[d])'
    BY <1>1, <2>2, <2>3, CallType
  <2> QED BY <1>1, <2>1, <2>4, ThreadsAndCalls DEF TypeInv, TypeOK
<1>7. CASE /\ call' = [call EXCEPT ![c].pc = "fetch", ![c].todo = @ \ {p},
                         ![c].who = p, ![c].key = key, ![c].payload = src.payload,
                         ![c].outcome = threads[key].status]
           /\ UNCHANGED threads
  <2>1. threads[key].status \in Statuses
    BY <1>5 DEF Thread
  <2>2. call' = [call EXCEPT ![c] = g]
    BY <1>7 DEF TypeInv, TypeOK
  <2> HIDE DEF key
  <2>3. g \in Call /\ Framed(g)
    BY <1>2, <1>3, <1>4, <2>1 DEF Call, Pcs, Framed
  <2> HIDE DEF g
  <2>4. call' \in [Calls -> Call] /\ \A d \in Calls : Framed(call[d])'
    BY <1>1, <2>2, <2>3, CallType
  <2> QED BY <1>1, <1>7, <2>4, ThreadsAndCalls DEF TypeInv, TypeOK
<1> QED BY <1>6, <1>7 DEF SyncLookup

LEMMA SyncReviveType ==
  ASSUME TypeInv, NEW c \in Calls, call[c].pc = "fetch",
         NEW text \in Fetched(call[c].who), SyncRevive(c, text)
  PROVE  Rest'
<1>1. call[c] \in Call /\ call[c].key \in Keys /\ call[c].who \in Prospects
  BY KeyParts DEF TypeInv, TypeOK, Framed
<1>2. threads[call[c].key] \in Thread /\ call[c].payload \in Payloads
  BY <1>1 DEF TypeInv, TypeOK, Call
<1>3. Imported(threads[call[c].key], text, call[c].payload) \in Thread
  BY <1>1, <1>2, FetchedType, ImportedType
<1>4. threads' \in [Keys -> Thread]
  BY <1>3 DEF SyncRevive, TypeInv, TypeOK
<1>5. UNCHANGED <<said, campaign, accepted>> /\ unrefreshed' \subseteq Keys
  BY <1>1 DEF SyncRevive, TypeInv, TypeOK
<1>6. call' \in [Calls -> Call] /\ \A d \in Calls : Framed(call[d])'
  BY <1>5, AfterImportType DEF SyncRevive
<1> QED BY <1>4, <1>5, <1>6, ThreadsAndCalls DEF TypeInv, TypeOK

LEMMA SyncCreateType ==
  ASSUME TypeInv, NEW c \in Calls, call[c].pc = "fetch",
         NEW text \in Fetched(call[c].who), SyncCreate(c, text)
  PROVE  Rest'
<1>1. call[c] \in Call /\ call[c].key \in Keys /\ call[c].who \in Prospects
  BY KeyParts DEF TypeInv, TypeOK, Framed
<1>2. Imported(NoThread, text, call[c].payload) \in Thread
  BY <1>1, NoThreadType, FetchedType, ImportedType DEF Call
<1>3. threads' \in [Keys -> Thread]
  BY <1>1, <1>2, InsertedType DEF SyncCreate
<1>4. UNCHANGED <<said, campaign, accepted, unrefreshed>>
  BY DEF SyncCreate
<1>5. call' \in [Calls -> Call] /\ \A d \in Calls : Framed(call[d])'
  BY <1>4, AfterImportType, NextCandidateType DEF SyncCreate
<1> QED BY <1>3, <1>4, <1>5, ThreadsAndCalls DEF TypeInv, TypeOK

\* What a call stores or sends is typed by its frame.
LEMMA AnsweredType ==
  ASSUME TypeInv, NEW c \in Calls, call[c].pc \in {"classify", "hook"},
         NEW a \in Answers(call[c].who, call[c].text)
                   \cup Unclassified(call[c].who, call[c].text)
  PROVE  a \in Answer /\ call[c].key \in Keys /\ call[c].who = call[c].key[2]
         /\ call[c].text \in DOMAIN said[call[c].who] /\ call[c].text \in Replies
<1>1. /\ call[c].key \in Keys /\ call[c].who = call[c].key[2]
      /\ call[c].text \in DOMAIN said[call[c].who]
  BY DEF TypeInv, Framed
<1>2. call[c].text \in Replies
  BY <1>1, KeyParts, SaidDomain
<1> QED BY <1>1, <1>2, AnswersType

LEMMA SyncClassifiedType ==
  ASSUME TypeInv, NEW c \in Calls, SyncClassified(c)
  PROVE  Rest'
<1>1. PICK a \in Answers(call[c].who, call[c].text) :
        threads' = [threads EXCEPT ![call[c].key] = Classified(@, a)]
  BY DEF SyncClassified
<1>2. a \in Answer /\ call[c].key \in Keys
  BY AnsweredType DEF SyncClassified
<1>3. threads[call[c].key] \in Thread
  BY <1>2 DEF TypeInv, TypeOK
<1>4. threads' \in [Keys -> Thread]
  BY <1>1, <1>2, <1>3, ClassifiedType DEF TypeInv, TypeOK
<1>5. UNCHANGED <<said, campaign, accepted>> /\ unrefreshed' \subseteq Keys
  BY DEF SyncClassified, TypeInv, TypeOK
<1>6. call' \in [Calls -> Call] /\ \A d \in Calls : Framed(call[d])'
  BY <1>5, NextCandidateType DEF SyncClassified
<1> QED BY <1>4, <1>5, <1>6, ThreadsAndCalls DEF TypeInv, TypeOK

\* The steps of a sync that write no thread.
LEMMA SyncPassType ==
  ASSUME TypeInv, NEW c \in Calls,
         SyncWriteFailed(c) \/ SyncUnclassified(c) \/ SyncEnd(c)
  PROVE  Rest'
<1>1. UNCHANGED <<said, campaign, threads, accepted, unrefreshed>>
  BY DEF SyncWriteFailed, SyncUnclassified, SyncEnd
<1>2. call' \in [Calls -> Call] /\ \A d \in Calls : Framed(call[d])'
  BY <1>1, NextCandidateType, StopType DEF SyncWriteFailed, SyncUnclassified, SyncEnd
<1> QED BY <1>1, <1>2, ThreadsAndCalls DEF TypeInv, TypeOK

LEMMA HookReceivedType ==
  ASSUME TypeInv, NEW c \in Calls, NEW p \in Prospects, NEW text \in Replies,
         NEW id \in HookIds, NEW cid \in Campaigns, NEW hasBody \in BOOLEAN,
         HookReceived(c, p, text, id, cid, hasBody)
  PROVE  Rest'
<1> DEFINE body == IF hasBody THEN text ELSE 0
           key == DedupKey(id, p, body, cid)
           f == [Idle EXCEPT !.pc = "hook", !.campaign = cid, !.who = p,
                             !.key = key, !.text = text, !.payload = "plain"]
<1>1. UNCHANGED <<said, campaign, accepted, unrefreshed>> /\ text \in DOMAIN said[p]
  BY DEF HookReceived
<1>2. body \in 0 .. MaxReplies /\ text \in 0 .. MaxReplies
  BY ReplyQueueAssumption DEF Replies
<1>3. key \in Keys /\ key[2] = p
  BY <1>2, DedupKeyType, ReplyQueueAssumption
<1>4. CASE UNCHANGED <<threads, call>>
  BY <1>1, <1>4, ThreadsOnly DEF TypeInv, TypeOK
<1>5. CASE /\ threads' = [threads EXCEPT ![key] = Imported(NoThread, 0, "plain")]
           /\ UNCHANGED call
  <2>1. Imported(NoThread, 0, "plain") \in Thread
    <3>1. 0 \in 0 .. MaxReplies /\ "plain" \in Payloads
      BY ReplyQueueAssumption DEF Payloads
    <3> QED BY <3>1, NoThreadType, ImportedType
  <2> HIDE DEF key
  <2>2. threads' \in [Keys -> Thread]
    BY <1>5, <2>1 DEF TypeInv, TypeOK
  <2> QED BY <1>1, <1>5, <2>2, ThreadsOnly
<1>6. CASE call' = [call EXCEPT ![c] = f] /\ UNCHANGED threads
  <2> HIDE DEF key
  <2>1. f \in Call /\ Framed(f)
    BY <1>1, <1>2, <1>3, IdleType DEF Call, Pcs, Idle, Framed, Payloads
  <2> HIDE DEF f
  <2>2. call' \in [Calls -> Call] /\ \A d \in Calls : Framed(call[d])'
    BY <1>1, <1>6, <2>1, CallType
  <2> QED BY <1>1, <1>6, <2>2, ThreadsAndCalls DEF TypeInv, TypeOK
<1> QED BY <1>4, <1>5, <1>6 DEF HookReceived

LEMMA HookStoredType ==
  ASSUME TypeInv, NEW c \in Calls, HookStored(c)
  PROVE  Rest'
<1>1. PICK a \in Answers(call[c].who, call[c].text)
                 \cup Unclassified(call[c].who, call[c].text) :
        threads' = Inserted(call[c].key,
                     Classified(Imported(NoThread, call[c].text, call[c].payload), a))
  BY DEF HookStored
<1>2. a \in Answer /\ call[c].key \in Keys
  BY AnsweredType DEF HookStored
<1>3. call[c].text \in 0 .. MaxReplies /\ call[c].payload \in Payloads
  BY DEF TypeInv, TypeOK, Call
<1>4. Classified(Imported(NoThread, call[c].text, call[c].payload), a) \in Thread
  BY <1>2, <1>3, NoThreadType, ImportedType, ClassifiedType
<1>5. threads' \in [Keys -> Thread]
  BY <1>1, <1>2, <1>4, InsertedType
<1>6. UNCHANGED <<said, campaign, accepted, unrefreshed>>
  BY DEF HookStored
<1>7. call' \in [Calls -> Call] /\ \A d \in Calls : Framed(call[d])'
  BY <1>6, StopType DEF HookStored
<1> QED BY <1>5, <1>6, <1>7, ThreadsAndCalls DEF TypeInv, TypeOK

LEMMA CreateDraftType ==
  ASSUME TypeInv, NEW p \in Prospects, NEW text \in Replies, NEW cid \in Campaigns,
         CreateDraft(p, text, cid)
  PROVE  Rest'
<1> DEFINE key == DedupKey("hash", p, text, cid)
<1>1. PICK a \in Answers(p, text) :
        threads' = Inserted(key, Classified(Imported(NoThread, text, "none"), a))
  BY DEF CreateDraft
<1>2. text \in 0 .. MaxReplies /\ "none" \in Payloads /\ a \in Answer
  BY ReplyQueueAssumption, AnswersType DEF Replies, Payloads
<1>3. key \in Keys
  BY <1>2, DedupKeyType
<1>4. Classified(Imported(NoThread, text, "none"), a) \in Thread
  BY <1>2, NoThreadType, ImportedType, ClassifiedType
<1> HIDE DEF key
<1>5. threads' \in [Keys -> Thread]
  BY <1>1, <1>3, <1>4, InsertedType
<1> QED BY <1>5, ThreadsOnly DEF CreateDraft

LEMMA UpdateThreadType ==
  ASSUME TypeInv, NEW k \in Keys, UpdateThread(k)
  PROVE  Rest'
<1>1. threads[k] \in Thread /\ Own \in Drafts
  BY ReplyQueueAssumption DEF TypeInv, TypeOK, Drafts, Own
<1>2. ASSUME NEW s \in {"approved", "skipped"}
      PROVE  [threads[k] EXCEPT !.status = s] \in Thread
  BY <1>1 DEF Thread, Statuses
<1>3. [threads[k] EXCEPT !.draft = Own] \in Thread
  BY <1>1 DEF Thread
<1>4. \E t \in Thread : threads' = [threads EXCEPT ![k] = t]
  <2>1. ASSUME NEW s \in {"approved", "skipped"},
               threads' = [threads EXCEPT ![k].status = s]
        PROVE  threads' = [threads EXCEPT ![k] = [threads[k] EXCEPT !.status = s]]
    BY <2>1 DEF TypeInv, TypeOK
  <2>2. ASSUME threads' = [threads EXCEPT ![k].draft = Own]
        PROVE  threads' = [threads EXCEPT ![k] = [threads[k] EXCEPT !.draft = Own]]
    BY <2>2 DEF TypeInv, TypeOK
  <2> QED BY <1>2, <1>3, <2>1, <2>2 DEF UpdateThread
<1>5. threads' \in [Keys -> Thread]
  BY <1>4 DEF TypeInv, TypeOK
<1> QED BY <1>5, ThreadsOnly DEF UpdateThread

LEMMA SendStartType ==
  ASSUME TypeInv, NEW c \in Calls, NEW k \in Keys, SendStart(c, k)
  PROVE  Rest'
<1>1. UNCHANGED <<said, campaign, threads, accepted, unrefreshed>>
  BY DEF SendStart
<1>2. PICK draft \in {threads[k].draft, Own} :
        call' = [call EXCEPT ![c] = [Idle EXCEPT !.pc = "post", !.key = k,
                                       !.who = k[2], !.draft = draft]]
  BY DEF SendStart
<1>3. draft \in Drafts
  BY ReplyQueueAssumption DEF TypeInv, TypeOK, Thread, Drafts, Own
<1> DEFINE f == [Idle EXCEPT !.pc = "post", !.key = k, !.who = k[2], !.draft = draft]
<1>4. f \in Call /\ Framed(f)
  BY <1>3, KeyParts, IdleType DEF Call, Pcs, Idle, Framed
<1>5. call' = [call EXCEPT ![c] = f]
  BY <1>2
<1> HIDE DEF f
<1>6. call' \in [Calls -> Call] /\ \A d \in Calls : Framed(call[d])'
  BY <1>1, <1>4, <1>5, CallType
<1> QED BY <1>1, <1>6, ThreadsAndCalls DEF TypeInv, TypeOK

LEMMA SendAnsweredType ==
  ASSUME TypeInv, NEW c \in Calls, SendAnswered(c)
  PROVE  Rest'
<1>1. UNCHANGED <<said, campaign, threads, unrefreshed>> /\ call[c].pc = "post"
  BY DEF SendAnswered
<1>2. call[c] \in Call /\ Framed(call[c]) /\ call[c].key \in Keys
  BY <1>1 DEF TypeInv, TypeOK, Framed
<1>3. accepted' \subseteq Keys
  BY <1>2 DEF SendAnswered, TypeInv, TypeOK
<1>4. PICK outcome \in {"sent", "manual_send_required", "failed"} :
        call' = [call EXCEPT ![c].pc = "mark", ![c].outcome = outcome]
  BY DEF SendAnswered
<1> DEFINE f == [call[c] EXCEPT !.pc = "mark", !.outcome = outcome]
<1>5. f \in Call /\ Framed(f)
  BY <1>1, <1>2 DEF Call, Pcs, Framed, Statuses
<1>6. call' = [call EXCEPT ![c] = f]
  BY <1>4 DEF TypeInv, TypeOK
<1> HIDE DEF f
<1>7. call' \in [Calls -> Call] /\ \A d \in Calls : Framed(call[d])'
  BY <1>1, <1>5, <1>6, CallType
<1> QED BY <1>1, <1>3, <1>7, ThreadsAndCalls DEF TypeInv, TypeOK

LEMMA MarkThreadType ==
  ASSUME TypeInv, NEW c \in Calls, MarkThread(c)
  PROVE  Rest'
<1> DEFINE k == call[c].key
           t == [threads[k] EXCEPT !.status = call[c].outcome]
<1>1. UNCHANGED <<said, campaign, accepted, unrefreshed>> /\ call[c].pc = "mark"
  BY DEF MarkThread
<1>2. call[c] \in Call /\ k \in Keys
  BY <1>1 DEF TypeInv, TypeOK, Framed
<1>3. t \in Thread
  <2>1. threads[k] \in Thread /\ call[c].outcome \in Statuses
    BY <1>2 DEF TypeInv, TypeOK, Call
  <2> QED BY <2>1 DEF Thread
<1>4. threads' = [threads EXCEPT ![k] = t]
  BY <1>2 DEF MarkThread, TypeInv, TypeOK
<1> HIDE DEF t
<1>5. threads' \in [Keys -> Thread]
  BY <1>2, <1>3, <1>4 DEF TypeInv, TypeOK
<1>6. call' \in [Calls -> Call] /\ \A d \in Calls : Framed(call[d])'
  BY <1>1, StopType DEF MarkThread
<1> QED BY <1>1, <1>5, <1>6, ThreadsAndCalls DEF TypeInv, TypeOK

LEMMA ReplyType ==
  ASSUME TypeInv, NEW p \in Prospects, Reply(p)
  PROVE  Rest'
<1>1. PICK s \in {"opt_out", "other"} : said' = [said EXCEPT ![p] = Append(@, s)]
  BY DEF Reply
<1>2. UNCHANGED <<campaign, threads, call, accepted, unrefreshed>>
      /\ Len(said[p]) < MaxReplies
  BY DEF Reply
<1>3. said[p] \in Seq({"opt_out", "other"})
  BY DEF TypeInv, TypeOK
<1>4. /\ Append(said[p], s) \in Seq({"opt_out", "other"})
      /\ Len(Append(said[p], s)) = Len(said[p]) + 1
      /\ DOMAIN said[p] \subseteq DOMAIN Append(said[p], s)
  BY <1>3
<1>5. said' \in [Prospects -> Seq({"opt_out", "other"})]
  BY <1>1, <1>4 DEF TypeInv, TypeOK
<1>6. ASSUME NEW q \in Prospects
      PROVE  /\ Len(said'[q]) <= MaxReplies
             /\ DOMAIN said[q] \subseteq DOMAIN said'[q]
  <2>1. CASE q = p
    <3>1. said'[p] = Append(said[p], s)
      BY <1>1 DEF TypeInv, TypeOK
    <3>2. Len(said[p]) \in Nat
      BY <1>3
    <3> QED BY <1>2, <1>4, <2>1, <3>1, <3>2, ReplyQueueAssumption
  <2>2. CASE q # p
    <3>1. said'[q] = said[q]
      BY <1>1, <2>2 DEF TypeInv, TypeOK
    <3> QED BY <3>1 DEF TypeInv, Bounded
  <2> QED BY <2>1, <2>2
<1>7. Bounded'
  BY <1>6 DEF Bounded
<1>8. ASSUME NEW d \in Calls PROVE Framed(call[d])'
  <2>1. Framed(call[d])
    BY DEF TypeInv
  <2>2. call[d].pc \in {"classify", "hook"} => call[d].who \in Prospects
    BY <2>1, KeyParts DEF Framed
  <2> QED BY <1>2, <1>6, <2>1, <2>2 DEF Framed
<1> QED BY <1>2, <1>5, <1>7, <1>8 DEF Rest, TypeInv, TypeOK

LEMMA SetCampaignType ==
  ASSUME TypeInv, NEW cid \in Campaigns, SetCampaign(cid)
  PROVE  Rest'
BY DEF SetCampaign, Rest, TypeInv, TypeOK, Bounded, Framed

LEMMA CrashType ==
  ASSUME TypeInv, NEW c \in Calls, Crash(c)
  PROVE  Rest'
<1> DEFINE f == [Idle EXCEPT !.pc = "dead"]
<1>1. UNCHANGED <<said, campaign, threads, accepted, unrefreshed>>
      /\ call' = [call EXCEPT ![c] = f]
  BY DEF Crash
<1>2. f \in Call /\ Framed(f)
  BY IdleType DEF Call, Pcs, Idle, Framed
<1> HIDE DEF f
<1>3. call' \in [Calls -> Call] /\ \A d \in Calls : Framed(call[d])'
  BY <1>1, <1>2, CallType
<1> QED BY <1>1, <1>3, ThreadsAndCalls DEF TypeInv, TypeOK

LEMMA StepType == TypeInv /\ [Next]_vars => TypeInv'
<1> SUFFICES ASSUME TypeInv, [Next]_vars PROVE TypeInv'
  OBVIOUS
<1>1. CASE UNCHANGED vars
  BY <1>1 DEF vars, TypeInv, TypeOK, Bounded, Framed
<1>2. ASSUME Step PROVE Rest'
  <2>1. ASSUME NEW c \in Calls, CallStep(c) PROVE Rest'
    <3>1. ASSUME Sync(c) PROVE Rest'
      <4>1. ASSUME NEW text \in Fetched(call[c].who), call[c].pc = "fetch",
                   SyncRevive(c, text) \/ SyncCreate(c, text)
            PROVE  Rest'
        BY <4>1, SyncReviveType, SyncCreateType
      <4>2. ASSUME NEW p \in Prospects, NEW src \in Sources, SyncLookup(c, p, src)
            PROVE  Rest'
        BY <4>2, SyncLookupType
      <4>3. ASSUME SyncWriteFailed(c) \/ SyncUnclassified(c) \/ SyncEnd(c)
            PROVE  Rest'
        BY <4>3, SyncPassType
      <4> QED BY <3>1, <4>1, <4>2, <4>3, SyncListType, SyncClassifiedType DEF Sync
    <3> QED BY <2>1, <3>1, HookStoredType, SendAnsweredType, MarkThreadType
            DEF CallStep, Send
  <2>2. ASSUME NEW c \in Calls, NEW p \in Prospects, NEW text \in Replies,
               NEW id \in HookIds, NEW cid \in Campaigns, NEW hasBody \in BOOLEAN,
               HookReceived(c, p, text, id, cid, hasBody)
        PROVE  Rest'
    BY <2>2, HookReceivedType
  <2>3. ASSUME NEW p \in Prospects, NEW text \in Pasted, NEW cid \in Campaigns,
               CreateDraft(p, text, cid)
        PROVE  Rest'
    <3>1. text \in Replies
      BY ReplyQueueAssumption DEF Replies
    <3> QED BY <2>3, <3>1, CreateDraftType
  <2> QED BY <1>2, <2>1, <2>2, <2>3, SyncStartType, CrashType, SendStartType,
             UpdateThreadType, ArchiveType, ReplyType, SetCampaignType DEF Step
<1>3. CASE Next
  <2>1. shared' \subseteq Keys
    BY <1>3 DEF Next, NoteShared, TypeInv, TypeOK
  <2>2. Rest'
    BY <1>2, <1>3 DEF Next
  <2> QED BY <2>1, <2>2 DEF Rest, TypeInv, TypeOK
<1> QED BY <1>1, <1>3

\* Every state of the queue has its types, and every call at work has the
\* campaign, the key and the reply its code works on.
THEOREM TypesCorrect == Spec => []TypeInv
BY InitType, StepType, PTL DEF Spec

\* reply_threads and the locals of every call keep their types.
THEOREM TypeCorrect == Spec => []TypeOK
<1>1. TypeInv => TypeOK
  BY DEF TypeInv
<1> QED BY <1>1, TypesCorrect, PTL

-----------------------------------------------------------------------------
(* What a step may do to one thread.  The safety proofs below argue about    *)
(* these seven changes and not about the actions.                           *)

SameContent(k) ==
  /\ threads'[k].text = threads[k].text
  /\ threads'[k].draft = threads[k].draft
  /\ threads'[k].verdict = threads[k].verdict

Untouched(k) == SameContent(k) /\ threads'[k].status = threads[k].status

Archived(k) ==
  /\ SameContent(k)
  /\ threads[k].status \notin {"none", "sent"}
  /\ threads'[k].status = "archived"

Revived(k) ==
  /\ k \in unrefreshed'
  /\ threads'[k].draft = threads[k].draft
  /\ threads'[k].verdict = threads[k].verdict

Created(k) ==
  /\ ~ Exists(k)
  /\ threads'[k].draft = 0
  /\ threads'[k].verdict = "human"

ImportedBy(c, k) ==
  /\ call[c].pc = "fetch" /\ call[c].key = k
  /\ threads'[k].text \in Fetched(k[2])
  /\ threads'[k].status = IF threads'[k].text = 0 THEN "missing_reply_text"
                                                  ELSE "needs_review"
  /\ Created(k) \/ (Revived(k) /\ call[c].outcome = "archived")

GivenAnswer(k, a) ==
  /\ threads'[k].draft = a.draft
  /\ threads'[k].verdict = a.verdict
  /\ threads'[k].status = StatusOf(a.verdict)

ClassifiedBy(c, k) ==
  /\ call[c].pc = "classify" /\ call[c].key = k
  /\ threads'[k].text = threads[k].text
  /\ \E a \in Answers(k[2], call[c].text) : GivenAnswer(k, a)

InsertedFor(k) ==
  /\ ~ Exists(k)
  /\ \/ /\ threads'[k].text = 0 /\ threads'[k].status = "missing_reply_text"
        /\ threads'[k].draft = 0 /\ threads'[k].verdict = "human"
     \/ /\ threads'[k].text \in DOMAIN said[k[2]]
        /\ \E a \in Answers(k[2], threads'[k].text)
                    \cup Unclassified(k[2], threads'[k].text) : GivenAnswer(k, a)

MarkedBy(c, k) == MarkThread(c) /\ call[c].key = k

ThreadStep(k) ==
  \/ Untouched(k)
  \/ Archived(k)
  \/ \E c \in Calls : ImportedBy(c, k) \/ ClassifiedBy(c, k) \/ MarkedBy(c, k)
  \/ InsertedFor(k)
  \/ UpdateThread(k)

\* Only a classification makes a revived thread consistent again.
Refreshes(k) ==
  k \in unrefreshed \ unrefreshed' => \E c \in Calls : ClassifiedBy(c, k)

Steps == \A k \in Keys : ThreadStep(k) /\ Refreshes(k)

LEMMA NoThreadChange ==
  ASSUME UNCHANGED <<threads, unrefreshed>>
  PROVE  Steps
BY DEF Steps, ThreadStep, Refreshes, Untouched, SameContent

\* One thread is written, the others stay.
LEMMA OneThreadChange ==
  ASSUME TypeInv, NEW k \in Keys, NEW t, threads' = [threads EXCEPT ![k] = t],
         threads'[k] = t => ThreadStep(k),
         \A j \in Keys \ {k} : j \in unrefreshed => j \in unrefreshed',
         threads'[k] = t => Refreshes(k)
  PROVE  Steps
<1>1. threads'[k] = t /\ \A j \in Keys \ {k} : threads'[j] = threads[j]
  BY DEF TypeInv, TypeOK
<1>2. ASSUME NEW j \in Keys \ {k} PROVE ThreadStep(j) /\ Refreshes(j)
  BY <1>1 DEF ThreadStep, Refreshes, Untouched, SameContent
<1> QED BY <1>1, <1>2 DEF Steps

LEMMA InsertSteps ==
  ASSUME TypeInv, NEW k \in Keys, NEW t, threads' = Inserted(k, t),
         UNCHANGED unrefreshed,
         ~ Exists(k) /\ threads'[k] = t => ThreadStep(k)
  PROVE  Steps
<1>1. CASE Exists(k)
  BY <1>1, NoThreadChange DEF Inserted
<1>2. CASE ~ Exists(k)
  BY <1>2, OneThreadChange DEF Inserted, Refreshes
<1> QED BY <1>1, <1>2

LEMMA ArchiveSteps ==
  ASSUME TypeInv, NEW stale, Sweep(stale), UNCHANGED unrefreshed
  PROVE  Steps
<1>1. ASSUME NEW k \in Keys PROVE ThreadStep(k) /\ Refreshes(k)
  <2>1. threads[k] \in Thread
    BY DEF TypeInv, TypeOK
  <2>2. threads'[k] = IF k \in stale /\ Exists(k) /\ threads[k].status # "sent"
                      THEN [threads[k] EXCEPT !.status = "archived"]
                      ELSE threads[k]
    BY DEF Sweep
  <2>3. CASE k \in stale /\ Exists(k) /\ threads[k].status # "sent"
    <3>1. Archived(k)
      BY <2>1, <2>2, <2>3 DEF Archived, SameContent, Exists, Thread
    <3> QED BY <3>1 DEF ThreadStep, Refreshes
  <2>4. CASE ~ (k \in stale /\ Exists(k) /\ threads[k].status # "sent")
    BY <2>2, <2>4 DEF ThreadStep, Refreshes, Untouched, SameContent
  <2> QED BY <2>3, <2>4
<1> QED BY <1>1 DEF Steps

LEMMA SyncLookupSteps ==
  ASSUME TypeInv, NEW c \in Calls, NEW p \in Prospects, NEW src \in Sources,
         SyncLookup(c, p, src)
  PROVE  Steps
<1> DEFINE key == DedupKey(src.id, p, 0, call[c].campaign)
           t == [threads[key] EXCEPT !.payload = Payload(src.payload, @)]
<1>1. CASE UNCHANGED threads
  BY <1>1, NoThreadChange DEF SyncLookup
<1>2. CASE threads' = [threads EXCEPT ![key].payload = Payload(src.payload, @)]
  <2>1. call[c].campaign \in Campaigns
    BY DEF SyncLookup, TypeInv, Framed
  <2>2. src.id \in SyncIds \cup HookIds \cup {"hash"} /\ 0 \in 0 .. MaxReplies
    BY ReplyQueueAssumption DEF Sources
  <2>3. key \in Keys
    BY <2>1, <2>2, DedupKeyType
  <2>4. threads' = [threads EXCEPT ![key] = t] /\ threads[key] \in Thread
    BY <1>2, <2>3 DEF TypeInv, TypeOK
  <2>5. /\ t.text = threads[key].text /\ t.draft = threads[key].draft
        /\ t.verdict = threads[key].verdict /\ t.status = threads[key].status
    BY <2>4 DEF Thread
  <2>6. UNCHANGED unrefreshed
    BY DEF SyncLookup
  <2> HIDE DEF key, t
  <2>7. threads'[key] = t => ThreadStep(key)
    BY <2>5 DEF ThreadStep, Untouched, SameContent
  <2> QED BY <2>3, <2>4, <2>6, <2>7, OneThreadChange DEF Refreshes
<1> QED BY <1>1, <1>2 DEF SyncLookup

LEMMA SyncReviveSteps ==
  ASSUME TypeInv, NEW c \in Calls, call[c].pc = "fetch",
         NEW text \in Fetched(call[c].who), SyncRevive(c, text)
  PROVE  Steps
<1> DEFINE key == call[c].key
           t == Imported(threads[key], text, call[c].payload)
<1>1. key \in Keys /\ call[c].who = key[2] /\ call[c] \in Call
  BY DEF TypeInv, TypeOK, Framed
<1>2. text \in 0 .. MaxReplies
  BY <1>1, KeyParts, FetchedType
<1>3. /\ t.draft = threads[key].draft /\ t.verdict = threads[key].verdict
      /\ t.text = text
      /\ t.status = IF text = 0 THEN "missing_reply_text" ELSE "needs_review"
  <2>1. threads[key] \in Thread
    BY <1>1 DEF TypeInv, TypeOK
  <2> QED BY <2>1 DEF Imported, Thread
<1>4. /\ threads' = [threads EXCEPT ![key] = t] /\ unrefreshed' = unrefreshed \cup {key}
      /\ call[c].outcome = "archived"
  BY DEF SyncRevive
<1> HIDE DEF t
<1>5. threads'[key] = t => ImportedBy(c, key)
  BY <1>1, <1>3, <1>4 DEF ImportedBy, Revived
<1>6. threads'[key] = t => ThreadStep(key)
  BY <1>5 DEF ThreadStep
<1> QED BY <1>1, <1>4, <1>6, OneThreadChange DEF Refreshes

LEMMA SyncCreateSteps ==
  ASSUME TypeInv, NEW c \in Calls, call[c].pc = "fetch",
         NEW text \in Fetched(call[c].who), SyncCreate(c, text)
  PROVE  Steps
<1> DEFINE key == call[c].key
           t == Imported(NoThread, text, call[c].payload)
<1>1. key \in Keys /\ call[c].who = key[2]
  BY DEF TypeInv, Framed
<1>2. /\ t.draft = 0 /\ t.verdict = "human" /\ t.text = text
      /\ t.status = IF text = 0 THEN "missing_reply_text" ELSE "needs_review"
  BY DEF Imported, NoThread
<1>3. threads' = Inserted(key, t) /\ UNCHANGED unrefreshed
  BY DEF SyncCreate
<1> HIDE DEF t
<1>4. ~ Exists(key) /\ threads'[key] = t => ImportedBy(c, key)
  BY <1>1, <1>2 DEF ImportedBy, Created
<1>5. ~ Exists(key) /\ threads'[key] = t => ThreadStep(key)
  BY <1>4 DEF ThreadStep
<1> HIDE DEF key
<1> QED BY <1>1, <1>3, <1>5, InsertSteps

LEMMA SyncClassifiedSteps ==
  ASSUME TypeInv, NEW c \in Calls, SyncClassified(c)
  PROVE  Steps
<1> DEFINE key == call[c].key
<1>1. PICK a \in Answers(call[c].who, call[c].text) :
        threads' = [threads EXCEPT ![key] = Classified(@, a)]
  BY DEF SyncClassified
<1>2. call[c].pc = "classify" /\ unrefreshed' = unrefreshed \ {key}
  BY DEF SyncClassified
<1>3. key \in Keys /\ call[c].who = key[2] /\ threads[key] \in Thread
  BY <1>2 DEF TypeInv, TypeOK, Framed
<1> DEFINE t == Classified(threads[key], a)
<1>4. /\ t.draft = a.draft /\ t.verdict = a.verdict /\ t.text = threads[key].text
      /\ t.status = StatusOf(a.verdict)
  BY <1>3 DEF Classified, Thread
<1>5. threads' = [threads EXCEPT ![key] = t]
  BY <1>1
<1> HIDE DEF t
<1>6. threads'[key] = t => ClassifiedBy(c, key)
  BY <1>1, <1>2, <1>3, <1>4 DEF ClassifiedBy, GivenAnswer
<1>7. threads'[key] = t => ThreadStep(key) /\ Refreshes(key)
  BY <1>6 DEF ThreadStep, Refreshes
<1> QED BY <1>2, <1>3, <1>5, <1>7, OneThreadChange

\* A thread stored with its answer.
LEMMA StoredParts ==
  ASSUME NEW text, NEW payload, NEW a
  PROVE  LET t == Classified(Imported(NoThread, text, payload), a)
         IN /\ t.text = text /\ t.draft = a.draft /\ t.verdict = a.verdict
            /\ t.status = StatusOf(a.verdict)
BY DEF Classified, Imported, NoThread

LEMMA HookReceivedSteps ==
  ASSUME TypeInv, NEW c \in Calls, NEW p \in Prospects, NEW text \in Replies,
         NEW id \in HookIds, NEW cid \in Campaigns, NEW hasBody \in BOOLEAN,
         HookReceived(c, p, text, id, cid, hasBody)
  PROVE  Steps
<1> DEFINE key == DedupKey(id, p, IF hasBody THEN text ELSE 0, cid)
           t == Imported(NoThread, 0, "plain")
<1>1. CASE UNCHANGED threads
  BY <1>1, NoThreadChange DEF HookReceived
<1>2. CASE ~ Exists(key) /\ threads' = [threads EXCEPT ![key] = t]
  <2>1. (IF hasBody THEN text ELSE 0) \in 0 .. MaxReplies
    BY ReplyQueueAssumption DEF Replies
  <2>2. key \in Keys
    BY <2>1, DedupKeyType
  <2>3. /\ t.text = 0 /\ t.draft = 0 /\ t.verdict = "human"
        /\ t.status = "missing_reply_text"
    BY DEF Imported, NoThread
  <2>4. UNCHANGED unrefreshed
    BY DEF HookReceived
  <2> HIDE DEF key, t
  <2>5. threads'[key] = t => InsertedFor(key)
    BY <1>2, <2>3 DEF InsertedFor
  <2>6. threads'[key] = t => ThreadStep(key)
    BY <2>5 DEF ThreadStep
  <2> QED BY <1>2, <2>2, <2>4, <2>6, OneThreadChange DEF Refreshes
<1> QED BY <1>1, <1>2 DEF HookReceived

LEMMA HookStoredSteps ==
  ASSUME TypeInv, NEW c \in Calls, HookStored(c)
  PROVE  Steps
<1> DEFINE key == call[c].key
<1>1. PICK a \in Answers(call[c].who, call[c].text)
                 \cup Unclassified(call[c].who, call[c].text) :
        threads' = Inserted(key,
                     Classified(Imported(NoThread, call[c].text, call[c].payload), a))
  BY DEF HookStored
<1>2. UNCHANGED unrefreshed /\ call[c].pc = "hook"
  BY DEF HookStored
<1>3. key \in Keys /\ call[c].who = key[2] /\ call[c].text \in DOMAIN said[key[2]]
  BY <1>2 DEF TypeInv, Framed
<1> DEFINE t == Classified(Imported(NoThread, call[c].text, call[c].payload), a)
<1>4. /\ t.text = call[c].text /\ t.draft = a.draft /\ t.verdict = a.verdict
      /\ t.status = StatusOf(a.verdict)
  BY StoredParts
<1>5. threads' = Inserted(key, t)
  BY <1>1
<1> HIDE DEF t
<1>6. ~ Exists(key) /\ threads'[key] = t => InsertedFor(key)
  BY <1>3, <1>4 DEF InsertedFor, GivenAnswer
<1>7. ~ Exists(key) /\ threads'[key] = t => ThreadStep(key)
  BY <1>6 DEF ThreadStep
<1> HIDE DEF key
<1> QED BY <1>2, <1>3, <1>5, <1>7, InsertSteps

LEMMA CreateDraftSteps ==
  ASSUME TypeInv, NEW p \in Prospects, NEW text \in Replies, NEW cid \in Campaigns,
         CreateDraft(p, text, cid)
  PROVE  Steps
<1> DEFINE key == DedupKey("hash", p, text, cid)
<1>1. PICK a \in Answers(p, text) :
        threads' = Inserted(key, Classified(Imported(NoThread, text, "none"), a))
  BY DEF CreateDraft
<1>2. UNCHANGED unrefreshed /\ text \in DOMAIN said[p]
  BY DEF CreateDraft
<1>3. key \in Keys /\ key[2] = p
  <2>1. text \in 0 .. MaxReplies
    BY ReplyQueueAssumption DEF Replies
  <2> QED BY <2>1, DedupKeyType
<1> DEFINE t == Classified(Imported(NoThread, text, "none"), a)
<1>4. /\ t.text = text /\ t.draft = a.draft /\ t.verdict = a.verdict
      /\ t.status = StatusOf(a.verdict)
  BY StoredParts
<1>5. threads' = Inserted(key, t)
  BY <1>1
<1> HIDE DEF t, key
<1>6. ~ Exists(key) /\ threads'[key] = t => InsertedFor(key)
  BY <1>2, <1>3, <1>4 DEF InsertedFor, GivenAnswer
<1>7. ~ Exists(key) /\ threads'[key] = t => ThreadStep(key)
  BY <1>6 DEF ThreadStep
<1> QED BY <1>2, <1>3, <1>5, <1>7, InsertSteps

LEMMA UpdateThreadSteps ==
  ASSUME TypeInv, NEW k \in Keys, UpdateThread(k)
  PROVE  Steps
<1>1. \A j \in Keys \ {k} : threads'[j] = threads[j]
  BY DEF UpdateThread, TypeInv, TypeOK
<1>2. UNCHANGED unrefreshed
  BY DEF UpdateThread
<1>3. ASSUME NEW j \in Keys PROVE ThreadStep(j) /\ Refreshes(j)
  BY <1>1, <1>2, <1>3 DEF ThreadStep, Refreshes, Untouched, SameContent
<1> QED BY <1>3 DEF Steps

LEMMA MarkThreadSteps ==
  ASSUME TypeInv, NEW c \in Calls, MarkThread(c)
  PROVE  Steps
<1>1. \A j \in Keys \ {call[c].key} : threads'[j] = threads[j]
  BY DEF MarkThread, TypeInv, TypeOK
<1>2. UNCHANGED unrefreshed
  BY DEF MarkThread
<1>3. ASSUME NEW j \in Keys PROVE ThreadStep(j) /\ Refreshes(j)
  <2>1. CASE j = call[c].key
    BY <1>2, <2>1 DEF ThreadStep, Refreshes, MarkedBy
  <2>2. CASE j # call[c].key
    BY <1>1, <1>2, <2>2 DEF ThreadStep, Refreshes, Untouched, SameContent
  <2> QED BY <2>1, <2>2
<1> QED BY <1>3 DEF Steps

-----------------------------------------------------------------------------
(* What a step may do to one call.                                         *)

\* A sync has looked a thread up and found none or an archived one.
LookedUp(c) ==
  LET key == call'[c].key
  IN /\ call'[c].pc = "fetch"
     /\ key \in Keys
     /\ ~ Active(key)
     /\ call'[c].outcome = threads[key].status
     /\ UNCHANGED threads

\* It has imported a text and will have it classified.
WillClassify(c) ==
  LET key == call'[c].key
  IN /\ call'[c].pc = "classify"
     /\ call[c].pc = "fetch" /\ key = call[c].key
     /\ call'[c].text = threads'[key].text
     /\ threads'[key].status = "needs_review"

CallChange(c) ==
  \/ call'[c] = call[c]
  \/ call'[c].pc \notin {"fetch", "classify", "post", "mark"}
  \/ LookedUp(c)
  \/ WillClassify(c)
  \/ \E k \in Keys : SendStart(c, k)
  \/ SendAnswered(c)

CallChanges == \A c \in Calls : CallChange(c)

\* One call moves, the others stay.
LEMMA OneCallChange ==
  ASSUME TypeInv, NEW c \in Calls, NEW f, call' = [call EXCEPT ![c] = f],
         call'[c] = f => CallChange(c)
  PROVE  CallChanges
<1>1. call'[c] = f /\ \A d \in Calls \ {c} : call'[d] = call[d]
  BY DEF TypeInv, TypeOK
<1> QED BY <1>1 DEF CallChanges, CallChange

\* A call moves to where it holds nothing a property is about.
LEMMA QuietChange ==
  ASSUME TypeInv, NEW c \in Calls, NEW f, call' = [call EXCEPT ![c] = f],
         f.pc \notin {"fetch", "classify", "post", "mark"}
  PROVE  CallChanges
BY OneCallChange DEF CallChange

LEMMA StopChange ==
  ASSUME TypeInv, NEW c \in Calls, Stop(c)
  PROVE  CallChanges
<1>1. Idle.pc \notin {"fetch", "classify", "post", "mark"}
  BY DEF Idle
<1> QED BY <1>1, QuietChange DEF Stop

LEMMA NextCandidateChange ==
  ASSUME TypeInv, NEW c \in Calls, NEW errors, NextCandidate(c, errors)
  PROVE  CallChanges
<1> DEFINE f == [Idle EXCEPT !.pc = "next", !.campaign = call[c].campaign,
                             !.todo = call[c].todo,
                             !.errors = call[c].errors \/ errors]
<1>1. f.pc = "next" /\ call' = [call EXCEPT ![c] = f]
  BY DEF NextCandidate, Idle
<1> HIDE DEF f
<1> QED BY <1>1, QuietChange

LEMMA NoCallChange ==
  ASSUME UNCHANGED call
  PROVE  CallChanges
BY DEF CallChanges, CallChange

LEMMA SyncChange ==
  ASSUME TypeInv, NEW c \in Calls,
         \/ SyncStart(c) \/ SyncList(c) \/ SyncWriteFailed(c) \/ SyncClassified(c)
         \/ SyncUnclassified(c) \/ SyncEnd(c) \/ HookStored(c) \/ MarkThread(c)
         \/ Crash(c)
  PROVE  CallChanges
<1>1. CASE SyncStart(c)
  <2> DEFINE f == [Idle EXCEPT !.pc = "list", !.campaign = campaign]
  <2>1. f.pc = "list" /\ call' = [call EXCEPT ![c] = f]
    BY <1>1 DEF SyncStart, Idle
  <2> HIDE DEF f
  <2> QED BY <2>1, QuietChange
<1>2. CASE SyncList(c)
  <2>1. ASSUME NEW ps \in SUBSET Prospects,
               call' = [call EXCEPT ![c].pc = "next", ![c].todo = ps]
        PROVE  CallChanges
    <3> DEFINE f == [call[c] EXCEPT !.pc = "next", !.todo = ps]
    <3>1. call' = [call EXCEPT ![c] = f]
      BY <2>1 DEF TypeInv, TypeOK
    <3>2. f.pc = "next"
      BY DEF TypeInv, TypeOK, Call
    <3> HIDE DEF f
    <3> QED BY <3>1, <3>2, OneCallChange DEF CallChange
  <2> QED BY <1>2, <2>1, StopChange DEF SyncList
<1>3. CASE SyncWriteFailed(c) \/ SyncClassified(c) \/ SyncUnclassified(c)
  BY <1>3, NextCandidateChange DEF SyncWriteFailed, SyncClassified, SyncUnclassified
<1>4. CASE SyncEnd(c) \/ HookStored(c) \/ MarkThread(c)
  BY <1>4, StopChange DEF SyncEnd, HookStored, MarkThread
<1>5. CASE Crash(c)
  <2> DEFINE f == [Idle EXCEPT !.pc = "dead"]
  <2>1. f.pc = "dead" /\ call' = [call EXCEPT ![c] = f]
    BY <1>5 DEF Crash, Idle
  <2> HIDE DEF f
  <2> QED BY <2>1, QuietChange
<1> QED BY <1>1, <1>2, <1>3, <1>4, <1>5

LEMMA SyncLookupChange ==
  ASSUME TypeInv, NEW c \in Calls, NEW p \in Prospects, NEW src \in Sources,
         SyncLookup(c, p, src)
  PROVE  CallChanges
<1> DEFINE key == DedupKey(src.id, p, 0, call[c].campaign)
           f == [call[c] EXCEPT !.todo = @ \ {p}]
           g == [call[c] EXCEPT !.pc = "fetch", !.todo = @ \ {p}, !.who = p,
                   !.key = key, !.payload = src.payload,
                   !.outcome = threads[key].status]
<1>1. call[c] \in Call /\ call[c].pc = "next" /\ call[c].campaign \in Campaigns
  BY DEF SyncLookup, TypeInv, TypeOK, Framed
<1>2. key \in Keys
  <2>1. src.id \in SyncIds \cup HookIds \cup {"hash"} /\ 0 \in 0 .. MaxReplies
    BY ReplyQueueAssumption DEF Sources
  <2> QED BY <1>1, <2>1, DedupKeyType
<1>3. CASE call' = [call EXCEPT ![c].todo = @ \ {p}]
  <2>1. call' = [call EXCEPT ![c] = f]
    BY <1>3 DEF TypeInv, TypeOK
  <2>2. f.pc = "next"
    BY <1>1 DEF Call
  <2> HIDE DEF f
  <2> QED BY <2>1, <2>2, OneCallChange DEF CallChange
<1>4. CASE /\ ~ Active(key)
           /\ call' = [call EXCEPT ![c].pc = "fetch", ![c].todo = @ \ {p},
                         ![c].who = p, ![c].key = key, ![c].payload = src.payload,
                         ![c].outcome = threads[key].status]
           /\ UNCHANGED threads
  <2>1. call' = [call EXCEPT ![c] = g]
    BY <1>4 DEF TypeInv, TypeOK
  <2> HIDE DEF key
  <2>2. g.pc = "fetch" /\ g.key = key /\ g.outcome = threads[key].status
    BY <1>1 DEF Call
  <2> HIDE DEF g
  <2>3. call'[c] = g => LookedUp(c)
    BY <1>2, <1>4, <2>2 DEF LookedUp
  <2> QED BY <2>1, <2>3, OneCallChange DEF CallChange
<1> QED BY <1>3, <1>4 DEF SyncLookup

LEMMA ImportChange ==
  ASSUME TypeInv, NEW c \in Calls, call[c].pc = "fetch",
         NEW text \in Fetched(call[c].who), SyncRevive(c, text) \/ SyncCreate(c, text)
  PROVE  CallChanges
<1> DEFINE key == call[c].key
           f == [call[c] EXCEPT !.pc = "classify", !.text = text]
<1>1. ASSUME NEW errors, NextCandidate(c, errors) PROVE CallChanges
  BY <1>1, NextCandidateChange
<1>2. ASSUME text # 0, call' = [call EXCEPT ![c].pc = "classify", ![c].text = text],
             threads'[key].text = text, threads'[key].status = "needs_review"
      PROVE  CallChanges
  <2>1. call' = [call EXCEPT ![c] = f] /\ call[c] \in Call
    BY <1>2 DEF TypeInv, TypeOK
  <2>2. f.pc = "classify" /\ f.text = text /\ f.key = key
    BY <2>1 DEF Call
  <2> HIDE DEF f
  <2>3. call'[c] = f => WillClassify(c)
    BY <1>2, <2>2 DEF WillClassify
  <2> QED BY <2>1, <2>3, OneCallChange DEF CallChange
<1>3. key \in Keys /\ threads[key] \in Thread
  BY DEF TypeInv, TypeOK, Framed
<1>4. ASSUME text # 0, NEW t \in {threads[key], NoThread},
             threads'[key] = Imported(t, text, call[c].payload)
      PROVE  threads'[key].text = text /\ threads'[key].status = "needs_review"
  BY <1>3, <1>4, NoThreadType DEF Imported, Thread
<1>5. CASE SyncRevive(c, text)
  <2>1. threads'[key] = Imported(threads[key], text, call[c].payload)
    BY <1>3, <1>5 DEF SyncRevive, TypeInv, TypeOK
  <2> QED BY <1>1, <1>2, <1>4, <1>5, <2>1 DEF SyncRevive, AfterImport
<1>6. CASE SyncCreate(c, text) /\ Exists(key)
  BY <1>1, <1>6 DEF SyncCreate
<1>7. CASE SyncCreate(c, text) /\ ~ Exists(key)
  <2>1. threads'[key] = Imported(NoThread, text, call[c].payload)
    BY <1>3, <1>7 DEF SyncCreate, Inserted, TypeInv, TypeOK
  <2> QED BY <1>1, <1>2, <1>4, <1>7, <2>1 DEF SyncCreate, AfterImport
<1> QED BY <1>5, <1>6, <1>7

LEMMA HookReceivedChange ==
  ASSUME TypeInv, NEW c \in Calls, NEW p \in Prospects, NEW text \in Replies,
         NEW id \in HookIds, NEW cid \in Campaigns, NEW hasBody \in BOOLEAN,
         HookReceived(c, p, text, id, cid, hasBody)
  PROVE  CallChanges
<1> DEFINE f == [Idle EXCEPT !.pc = "hook", !.campaign = cid, !.who = p,
                   !.key = DedupKey(id, p, IF hasBody THEN text ELSE 0, cid),
                   !.text = text, !.payload = "plain"]
<1>1. CASE UNCHANGED call
  BY <1>1, NoCallChange
<1>2. CASE call' = [call EXCEPT ![c] = f]
  <2>1. f.pc = "hook"
    BY DEF Idle
  <2> HIDE DEF f
  <2> QED BY <1>2, <2>1, OneCallChange DEF CallChange
<1> QED BY <1>1, <1>2 DEF HookReceived

LEMMA SendChange ==
  ASSUME TypeInv, NEW c \in Calls, SendAnswered(c) \/ (\E k \in Keys : SendStart(c, k))
  PROVE  CallChanges
<1>1. \A d \in Calls \ {c} : call'[d] = call[d]
  BY DEF SendAnswered, SendStart, TypeInv, TypeOK
<1> QED BY <1>1 DEF CallChanges, CallChange

-----------------------------------------------------------------------------
(* A step, seen as changes of threads and calls *)

LEMMA StepEffects ==
  ASSUME TypeInv, Step
  PROVE  Steps /\ CallChanges
<1>1. ASSUME NEW c \in Calls, Sync(c) PROVE Steps /\ CallChanges
  <2>1. ASSUME NEW text \in Fetched(call[c].who), call[c].pc = "fetch",
               SyncRevive(c, text) \/ SyncCreate(c, text)
        PROVE  Steps /\ CallChanges
    BY <2>1, SyncReviveSteps, SyncCreateSteps, ImportChange
  <2>2. ASSUME NEW p \in Prospects, NEW src \in Sources, SyncLookup(c, p, src)
        PROVE  Steps /\ CallChanges
    BY <2>2, SyncLookupSteps, SyncLookupChange
  <2>3. ASSUME SyncList(c) \/ SyncWriteFailed(c) \/ SyncUnclassified(c) \/ SyncEnd(c)
        PROVE  Steps /\ CallChanges
    <3>1. UNCHANGED <<threads, unrefreshed>>
      BY <2>3 DEF SyncList, SyncWriteFailed, SyncUnclassified, SyncEnd
    <3> QED BY <2>3, <3>1, NoThreadChange, SyncChange
  <2>4. ASSUME SyncClassified(c) PROVE Steps /\ CallChanges
    BY <2>4, SyncClassifiedSteps, SyncChange
  <2> QED BY <1>1, <2>1, <2>2, <2>3, <2>4 DEF Sync
<1>2. ASSUME NEW c \in Calls, HookStored(c) \/ MarkThread(c)
      PROVE  Steps /\ CallChanges
  BY <1>2, HookStoredSteps, MarkThreadSteps, SyncChange
<1>3. ASSUME NEW c \in Calls, SendAnswered(c) \/ Crash(c)
      PROVE  Steps /\ CallChanges
  <2>1. UNCHANGED <<threads, unrefreshed>>
    BY <1>3 DEF SendAnswered, Crash
  <2> QED BY <1>3, <2>1, NoThreadChange, SyncChange, SendChange
<1>4. ASSUME NEW c \in Calls, SyncStart(c) PROVE Steps /\ CallChanges
  BY <1>4, ArchiveSteps, SyncChange DEF SyncStart, SweepStale
<1>5. ASSUME NEW c \in Calls, NEW p \in Prospects, NEW text \in Replies,
             NEW id \in HookIds, NEW cid \in Campaigns, NEW hasBody \in BOOLEAN,
             HookReceived(c, p, text, id, cid, hasBody)
      PROVE  Steps /\ CallChanges
  BY <1>5, HookReceivedSteps, HookReceivedChange
<1>6. ASSUME NEW c \in Calls, NEW k \in Keys, SendStart(c, k)
      PROVE  Steps /\ CallChanges
  <2>1. UNCHANGED <<threads, unrefreshed>>
    BY <1>6 DEF SendStart
  <2> QED BY <1>6, <2>1, NoThreadChange, SendChange
<1>7. ASSUME NEW k \in Keys, UpdateThread(k) PROVE Steps /\ CallChanges
  BY <1>7, UpdateThreadSteps, NoCallChange DEF UpdateThread
<1>8. ASSUME NEW p \in Prospects, NEW text \in Pasted, NEW cid \in Campaigns,
             CreateDraft(p, text, cid)
      PROVE  Steps /\ CallChanges
  <2>1. text \in Replies
    BY ReplyQueueAssumption DEF Replies
  <2> QED BY <1>8, <2>1, CreateDraftSteps, NoCallChange DEF CreateDraft
<1>9. ASSUME ArchiveStale \/ ArchivePlaceholders \/ ArchiveNonOpportunity
      PROVE  Steps /\ CallChanges
  <2>1. \E stale : Sweep(stale)
    BY <1>9 DEF ArchiveStale, ArchivePlaceholders, ArchiveNonOpportunity, SweepStale
  <2>2. UNCHANGED <<call, unrefreshed>>
    BY <1>9 DEF ArchiveStale, ArchivePlaceholders, ArchiveNonOpportunity
  <2> QED BY <2>1, <2>2, ArchiveSteps, NoCallChange
<1>10. ASSUME (\E p \in Prospects : Reply(p)) \/ (\E cid \in Campaigns : SetCampaign(cid))
       PROVE  Steps /\ CallChanges
  BY <1>10, NoThreadChange, NoCallChange DEF Reply, SetCampaign
<1>11. ASSUME NEW c \in Calls, CallStep(c) PROVE Steps /\ CallChanges
  BY <1>1, <1>2, <1>3, <1>11 DEF CallStep, Send
<1> QED BY <1>3, <1>4, <1>5, <1>6, <1>7, <1>8, <1>9, <1>10, <1>11 DEF Step

\* Instantly takes nothing back, and only a prospect replies.
LEMMA CallKeeps ==
  ASSUME NEW c \in Calls, CallStep(c)
  PROVE  accepted \subseteq accepted' /\ said' = said
<1>1. CASE Sync(c)
  <2>1. ASSUME NEW text, SyncRevive(c, text) \/ SyncCreate(c, text)
        PROVE  UNCHANGED <<accepted, said>>
    BY <2>1 DEF SyncRevive, SyncCreate
  <2>2. ASSUME NEW p, NEW src, SyncLookup(c, p, src)
        PROVE  UNCHANGED <<accepted, said>>
    BY <2>2 DEF SyncLookup
  <2>3. ASSUME \/ SyncList(c) \/ SyncWriteFailed(c) \/ SyncClassified(c)
               \/ SyncUnclassified(c) \/ SyncEnd(c)
        PROVE  UNCHANGED <<accepted, said>>
    BY <2>3 DEF SyncList, SyncWriteFailed, SyncClassified, SyncUnclassified, SyncEnd
  <2>4. UNCHANGED <<accepted, said>>
    BY <1>1, <2>1, <2>2, <2>3 DEF Sync
  <2> QED BY <2>4
<1>2. CASE HookStored(c) \/ MarkThread(c)
  BY <1>2 DEF HookStored, MarkThread
<1>3. CASE SendAnswered(c)
  BY <1>3 DEF SendAnswered
<1> QED BY <1>1, <1>2, <1>3 DEF CallStep, Send

LEMMA OtherKeeps ==
  ASSUME Step
  PROVE  /\ accepted \subseteq accepted'
         /\ said' = said \/ \E p \in Prospects : Reply(p)
<1> DEFINE Goal == /\ accepted \subseteq accepted'
                   /\ said' = said \/ \E p \in Prospects : Reply(p)
<1>1. ASSUME NEW c \in Calls, CallStep(c) \/ SyncStart(c) \/ Crash(c) PROVE Goal
  BY <1>1, CallKeeps DEF SyncStart, Crash
<1>2. ASSUME NEW c, NEW p, NEW text, NEW id, NEW cid, NEW hasBody,
             HookReceived(c, p, text, id, cid, hasBody)
      PROVE  Goal
  BY <1>2 DEF HookReceived
<1>3. ASSUME NEW c, NEW k, SendStart(c, k) PROVE Goal
  BY <1>3 DEF SendStart
<1>4. ASSUME NEW k, UpdateThread(k) PROVE Goal
  BY <1>4 DEF UpdateThread
<1>5. ASSUME NEW p, NEW text, NEW cid, CreateDraft(p, text, cid) PROVE Goal
  BY <1>5 DEF CreateDraft
<1>6. ASSUME ArchiveStale \/ ArchivePlaceholders \/ ArchiveNonOpportunity PROVE Goal
  BY <1>6 DEF ArchiveStale, ArchivePlaceholders, ArchiveNonOpportunity
<1>7. ASSUME NEW p \in Prospects, Reply(p) PROVE Goal
  BY <1>7 DEF Reply
<1>8. ASSUME NEW cid, SetCampaign(cid) PROVE Goal
  BY <1>8 DEF SetCampaign
<1> HIDE DEF Goal
<1>9. Goal
  BY <1>1, <1>2, <1>3, <1>4, <1>5, <1>6, <1>7, <1>8 DEF Step
<1> QED BY <1>9 DEF Goal

\* A draft or a text that is known stays what it is.
Words(p) == DOMAIN said[p] \cup {0, Own}

LEMMA OldWords ==
  ASSUME TypeInv, Step
  PROVE  \A p \in Prospects : \A x \in Words(p) :
           /\ x \in DOMAIN said[p] => x \in DOMAIN said'[p]
           /\ x \in {r \in DOMAIN said'[p] : said'[p][r] = "opt_out"}
                <=> x \in {r \in DOMAIN said[p] : said[p][r] = "opt_out"}
<1>1. CASE said' = said
  BY <1>1
<1>2. ASSUME NEW q \in Prospects, Reply(q), NEW p \in Prospects, NEW x \in Words(p)
      PROVE  /\ x \in DOMAIN said[p] => x \in DOMAIN said'[p]
             /\ x \in {r \in DOMAIN said'[p] : said'[p][r] = "opt_out"}
                  <=> x \in {r \in DOMAIN said[p] : said[p][r] = "opt_out"}
  <2>1. CASE p # q
    <3>1. said'[p] = said[p]
      BY <1>2, <2>1 DEF Reply, TypeInv, TypeOK
    <3> QED BY <3>1
  <2>2. CASE p = q
    <3>1. PICK s \in {"opt_out", "other"} : said'[p] = Append(said[p], s)
      BY <1>2, <2>2 DEF Reply, TypeInv, TypeOK
    <3>2. said[p] \in Seq({"opt_out", "other"}) /\ DOMAIN said[p] = 1 .. Len(said[p])
      BY SaidDomain
    <3>3. /\ DOMAIN said'[p] = 1 .. (Len(said[p]) + 1)
          /\ \A r \in DOMAIN said[p] : said'[p][r] = said[p][r]
      BY <3>1, <3>2
    <3>4. Len(said[p]) \in Nat /\ Len(said[p]) < MaxReplies
      BY <1>2, <2>2, <3>2 DEF Reply
    <3>5. CASE x \in DOMAIN said[p]
      BY <3>2, <3>3, <3>4, <3>5
    <3>6. CASE x \in {0, Own}
      <4>1. x \notin DOMAIN said[p] /\ x \notin DOMAIN said'[p]
        BY <3>2, <3>3, <3>4, <3>6, ReplyQueueAssumption DEF Own
      <4> QED BY <4>1
    <3> QED BY <3>5, <3>6 DEF Words
  <2> QED BY <2>1, <2>2
<1> QED BY <1>1, <1>2, OtherKeeps

-----------------------------------------------------------------------------
(* What is sent and what is marked.  A draft for an opt-out never leaves a   *)
(* thread because its thread says stop, which no later write of the draft's  *)
(* thread undoes without replacing the draft; a request under way carries    *)
(* what it has read.                                                        *)

Grounded(k) ==
  /\ threads[k].text \in DOMAIN said[k[2]] \cup {0}
  /\ threads[k].draft \in Words(k[2])
  /\ threads[k].draft \in OptOuts(k[2]) => threads[k].verdict = "stop"
  /\ threads[k].status = "sent" => k \in accepted

Carries(c) ==
  /\ c.pc \in {"post", "mark"} =>
       c.draft \in Words(c.who) /\ c.draft \notin OptOuts(c.who)
  /\ c.pc = "mark" =>
       /\ c.outcome \in {"sent", "manual_send_required", "failed"}
       /\ c.outcome = "sent" => c.key \in accepted

SendInv ==
  /\ \A k \in Keys : Grounded(k)
  /\ \A c \in Calls : Carries(call[c])

LEMMA InitSend == Init => SendInv
<1> SUFFICES ASSUME Init PROVE SendInv
  OBVIOUS
<1>1. ASSUME NEW k \in Keys PROVE Grounded(k)
  <2>1. said[k[2]] = <<>>
    BY KeyParts DEF Init
  <2>2. threads[k] = NoThread
    BY DEF Init
  <2> QED BY <2>1, <2>2 DEF Grounded, NoThread, OptOuts, Words
<1>2. ASSUME NEW c \in Calls PROVE Carries(call[c])
  BY DEF Init, Idle, Carries
<1> QED BY <1>1, <1>2 DEF SendInv

\* An answer given to a thread keeps it grounded.
LEMMA AnswerGrounded ==
  ASSUME TypeInv, NEW k \in Keys, NEW text \in DOMAIN said[k[2]],
         NEW a \in Answers(k[2], text) \cup Unclassified(k[2], text)
  PROVE  /\ a.draft \in Words(k[2])
         /\ a.draft \in OptOuts(k[2]) => a.verdict = "stop"
         /\ StatusOf(a.verdict) \in {"skipped", "needs_review", "needs_human_review"}
<1>1. text \in Replies
  BY KeyParts, SaidDomain
<1>2. /\ a \in Answer /\ a.draft \in {0, text}
      /\ said[k[2]][text] = "opt_out" => a.verdict = "stop"
  BY <1>1, AnswersType
<1>3. StatusOf(a.verdict) \in {"skipped", "needs_review", "needs_human_review"}
  BY <1>2 DEF StatusOf, Answer, Verdicts
<1>4. 0 \notin DOMAIN said[k[2]]
  BY KeyParts, SaidDomain
<1> QED BY <1>2, <1>3, <1>4 DEF Words, OptOuts

\* The parts of Grounded after a step, in the words known before it.
LEMMA ThreadGrounded ==
  ASSUME TypeInv, SendInv, Step, NEW k \in Keys
  PROVE  /\ threads'[k].text \in DOMAIN said[k[2]] \cup {0}
         /\ threads'[k].draft \in Words(k[2])
         /\ threads'[k].draft \in OptOuts(k[2]) => threads'[k].verdict = "stop"
         /\ threads'[k].status = "sent" => k \in accepted
<1> DEFINE Goal == /\ threads'[k].text \in DOMAIN said[k[2]] \cup {0}
                   /\ threads'[k].draft \in Words(k[2])
                   /\ threads'[k].draft \in OptOuts(k[2]) => threads'[k].verdict = "stop"
                   /\ threads'[k].status = "sent" => k \in accepted
<1>0. Grounded(k) /\ k[2] \in Prospects /\ 0 \notin OptOuts(k[2])
  BY KeyParts, SaidDomain DEF SendInv, OptOuts
<1>1. ASSUME Untouched(k) PROVE Goal
  BY <1>0, <1>1 DEF Untouched, SameContent, Grounded
<1>2. ASSUME Archived(k) PROVE Goal
  BY <1>0, <1>2 DEF Archived, SameContent, Grounded
<1>3. ASSUME NEW c \in Calls, ImportedBy(c, k) PROVE Goal
  <2>1. threads'[k].text \in DOMAIN said[k[2]] \cup {0}
    BY <1>0, <1>3, FetchedDomain DEF ImportedBy
  <2>2. threads'[k].status # "sent"
    BY <1>3 DEF ImportedBy
  <2>3. CASE Created(k)
    BY <1>0, <2>1, <2>2, <2>3 DEF Created, Words
  <2>4. CASE Revived(k)
    BY <1>0, <2>1, <2>2, <2>4 DEF Revived, Grounded
  <2> QED BY <1>3, <2>3, <2>4 DEF ImportedBy
<1>4. ASSUME NEW c \in Calls, ClassifiedBy(c, k) PROVE Goal
  <2>1. call[c].text \in DOMAIN said[k[2]]
    BY <1>4 DEF ClassifiedBy, TypeInv, Framed
  <2>2. PICK a \in Answers(k[2], call[c].text) : GivenAnswer(k, a)
    BY <1>4 DEF ClassifiedBy
  <2>3. threads'[k].text = threads[k].text
    BY <1>4 DEF ClassifiedBy
  <2> QED BY <1>0, <2>1, <2>2, <2>3, AnswerGrounded DEF GivenAnswer, Grounded
<1>5. ASSUME InsertedFor(k) PROVE Goal
  <2>1. CASE threads'[k].text = 0 /\ threads'[k].draft = 0
             /\ threads'[k].status = "missing_reply_text"
    BY <1>0, <2>1 DEF Words
  <2>2. ASSUME threads'[k].text \in DOMAIN said[k[2]],
               NEW a \in Answers(k[2], threads'[k].text)
                         \cup Unclassified(k[2], threads'[k].text),
               GivenAnswer(k, a)
        PROVE  Goal
    BY <2>2, AnswerGrounded DEF GivenAnswer
  <2> QED BY <1>5, <2>1, <2>2 DEF InsertedFor
<1>6. ASSUME UpdateThread(k) PROVE Goal
  <2>1. threads[k] \in Thread
    BY DEF TypeInv, TypeOK
  <2>2. /\ threads'[k].text = threads[k].text /\ threads'[k].verdict = threads[k].verdict
        /\ threads'[k].draft \in {threads[k].draft, Own}
        /\ threads'[k].status \in {threads[k].status, "approved", "skipped"}
    BY <1>6, <2>1 DEF UpdateThread, TypeInv, TypeOK, Thread
  <2>3. Own \notin OptOuts(k[2])
    BY <1>0, SaidDomain, ReplyQueueAssumption DEF OptOuts, Own
  <2> QED BY <1>0, <2>2, <2>3 DEF Grounded, Words
<1>7. ASSUME NEW c \in Calls, MarkedBy(c, k) PROVE Goal
  <2>1. threads[k] \in Thread
    BY DEF TypeInv, TypeOK
  <2>2. SameContent(k) /\ threads'[k].status = call[c].outcome
    BY <1>7, <2>1 DEF MarkedBy, MarkThread, SameContent, TypeInv, TypeOK, Thread
  <2>3. call[c].outcome = "sent" => k \in accepted
    BY <1>7 DEF MarkedBy, MarkThread, SendInv, Carries
  <2> QED BY <1>0, <2>2, <2>3 DEF SameContent, Grounded
<1>8. ThreadStep(k)
  BY StepEffects DEF Steps
<1> HIDE DEF Goal
<1>9. Goal
  BY <1>1, <1>2, <1>3, <1>4, <1>5, <1>6, <1>7, <1>8 DEF ThreadStep
<1> QED BY <1>9 DEF Goal

LEMMA CallCarries ==
  ASSUME TypeInv, SendInv, Step, NEW c \in Calls
  PROVE  /\ call'[c].pc \in {"post", "mark"} =>
              /\ call'[c].who \in Prospects
              /\ call'[c].draft \in Words(call'[c].who)
              /\ call'[c].draft \notin OptOuts(call'[c].who)
         /\ call'[c].pc = "mark" =>
              /\ call'[c].outcome \in {"sent", "manual_send_required", "failed"}
              /\ call'[c].outcome = "sent" => call'[c].key \in accepted'
<1> DEFINE Goal ==
      /\ call'[c].pc \in {"post", "mark"} =>
           /\ call'[c].who \in Prospects
           /\ call'[c].draft \in Words(call'[c].who)
           /\ call'[c].draft \notin OptOuts(call'[c].who)
      /\ call'[c].pc = "mark" =>
           /\ call'[c].outcome \in {"sent", "manual_send_required", "failed"}
           /\ call'[c].outcome = "sent" => call'[c].key \in accepted'
<1>1. call[c] \in Call /\ Framed(call[c]) /\ Carries(call[c])
  BY DEF TypeInv, TypeOK, SendInv
<1>2. call[c].pc \in {"post", "mark"} => call[c].who \in Prospects
  BY <1>1, KeyParts DEF Framed
<1>3. ASSUME call'[c] = call[c] PROVE Goal
  BY <1>1, <1>2, <1>3, OtherKeeps DEF Carries
<1>4. ASSUME call'[c].pc \notin {"post", "mark"} PROVE Goal
  BY <1>4
<1>5. ASSUME NEW k \in Keys, SendStart(c, k) PROVE Goal
  <2>1. PICK draft \in {threads[k].draft, Own} :
          call' = [call EXCEPT ![c] = [Idle EXCEPT !.pc = "post", !.key = k,
                                         !.who = k[2], !.draft = draft]]
    BY <1>5 DEF SendStart
  <2>2. ~ SendBlocked(threads[k])
    BY <1>5 DEF SendStart
  <2>3. call'[c] = [Idle EXCEPT !.pc = "post", !.key = k, !.who = k[2], !.draft = draft]
    BY <2>1 DEF TypeInv, TypeOK
  <2>4. call'[c].pc = "post" /\ call'[c].who = k[2] /\ call'[c].draft = draft
    BY <2>3 DEF Idle
  <2>5. k[2] \in Prospects /\ Own \notin OptOuts(k[2])
    BY KeyParts, SaidDomain, ReplyQueueAssumption DEF OptOuts, Own
  <2>6. draft \in Words(k[2]) /\ draft \notin OptOuts(k[2])
    BY <2>1, <2>2, <2>5 DEF SendInv, Grounded, SendBlocked, Words
  <2> QED BY <2>4, <2>5, <2>6
<1>6. ASSUME SendAnswered(c) PROVE Goal
  <2>1. PICK outcome \in {"sent", "manual_send_required", "failed"} :
          /\ call' = [call EXCEPT ![c].pc = "mark", ![c].outcome = outcome]
          /\ \/ /\ outcome \in {"sent", "failed"}
                /\ accepted' = accepted \cup {call[c].key}
             \/ /\ outcome # "sent"
                /\ UNCHANGED accepted
    BY <1>6 DEF SendAnswered
  <2>2. /\ call'[c].who = call[c].who /\ call'[c].draft = call[c].draft
        /\ call'[c].key = call[c].key /\ call'[c].outcome = outcome
    BY <1>1, <2>1 DEF TypeInv, TypeOK, Call
  <2>3. call[c].pc = "post"
    BY <1>6 DEF SendAnswered
  <2> QED BY <1>1, <1>2, <2>1, <2>2, <2>3 DEF Carries
<1>7. CallChange(c)
  BY StepEffects DEF CallChanges
<1>8. Goal
  <2> HIDE DEF Goal
  <2> QED BY <1>3, <1>4, <1>5, <1>6, <1>7 DEF CallChange, LookedUp, WillClassify
<1> QED BY <1>8

LEMMA StepSend == TypeInv /\ SendInv /\ [Next]_vars => SendInv'
<1> SUFFICES ASSUME TypeInv, SendInv, [Next]_vars PROVE SendInv'
  OBVIOUS
<1>1. CASE UNCHANGED vars
  BY <1>1 DEF vars, SendInv, Grounded, Carries, Words, OptOuts
<1>2. CASE Step
  <2>1. accepted \subseteq accepted'
    BY <1>2, OtherKeeps
  <2>2. ASSUME NEW k \in Keys PROVE Grounded(k)'
    <3>1. k[2] \in Prospects
      BY KeyParts
    <3>2. /\ threads'[k].text \in DOMAIN said[k[2]] \cup {0}
          /\ threads'[k].draft \in Words(k[2])
          /\ threads'[k].draft \in OptOuts(k[2]) => threads'[k].verdict = "stop"
          /\ threads'[k].status = "sent" => k \in accepted
      BY <1>2, ThreadGrounded
    <3>3. threads'[k].text \in DOMAIN said'[k[2]] \cup {0}
      BY <1>2, <3>1, <3>2, OldWords DEF Words
    <3>4. threads'[k].draft \in DOMAIN said'[k[2]] \cup {0, Own}
      BY <1>2, <3>1, <3>2, OldWords DEF Words
    <3>5. threads'[k].draft \in {r \in DOMAIN said'[k[2]] : said'[k[2]][r] = "opt_out"}
            => threads'[k].verdict = "stop"
      BY <1>2, <3>1, <3>2, OldWords DEF OptOuts
    <3> QED BY <2>1, <3>2, <3>3, <3>4, <3>5 DEF Grounded, Words, OptOuts
  <2>3. ASSUME NEW c \in Calls PROVE Carries(call[c])'
    <3> DEFINE w == call'[c].who
               d == call'[c].draft
    <3>1. call'[c].pc \in {"post", "mark"} =>
            w \in Prospects /\ d \in Words(w) /\ d \notin OptOuts(w)
      BY <1>2, CallCarries
    <3>2. call'[c].pc = "mark" =>
            /\ call'[c].outcome \in {"sent", "manual_send_required", "failed"}
            /\ call'[c].outcome = "sent" => call'[c].key \in accepted'
      BY <1>2, CallCarries
    <3>3. call'[c].pc \in {"post", "mark"} =>
            /\ d \in DOMAIN said'[w] \cup {0, Own}
            /\ d \notin {r \in DOMAIN said'[w] : said'[w][r] = "opt_out"}
      BY <1>2, <3>1, OldWords DEF Words, OptOuts
    <3> QED BY <3>2, <3>3 DEF Carries, Words, OptOuts
  <2> QED BY <2>2, <2>3 DEF SendInv
<1> QED BY <1>1, <1>2 DEF Next

\* Drafts, texts and requests under way are of replies that were made, and no
\* draft for an opt-out can be sent.
THEOREM SendsCorrect == Spec => []SendInv
BY InitSend, StepSend, TypesCorrect, PTL DEF Spec

\* No request to Instantly carries a draft that was made for an opt-out, however
\* threads were archived, revived and reclassified since.
THEOREM OptOutUnansweredCorrect == Spec => []OptOutUnanswered
<1>1. SendInv => OptOutUnanswered
  BY DEF SendInv, Carries, OptOutUnanswered
<1> QED BY <1>1, SendsCorrect, PTL

\* A thread is marked as sent only if Instantly has accepted a draft for it.
THEOREM SentIsTrueCorrect == Spec => []SentIsTrue
<1>1. SendInv => SentIsTrue
  BY DEF SendInv, Grounded, SentIsTrue
<1> QED BY <1>1, SendsCorrect, PTL

-----------------------------------------------------------------------------
(* The two windows.  Outside shared no two calls hold a key, so what a call   *)
(* has seen of its thread still holds when it writes.                       *)

NotedShared ==
  \A c, d \in Calls :
    c # d /\ call[c].key = call[d].key /\ call[c].key \in Keys => call[c].key \in shared

\* What a sync relies on while it awaits a text or an answer.
Foreseen(c) ==
  /\ c.pc = "fetch" /\ c.outcome = "archived" /\ c.key \notin shared =>
       threads[c.key].status # "sent"
  /\ c.pc = "classify" /\ c.key \notin shared =>
       /\ threads[c.key].status \notin {"none", "sent"}
       /\ threads[c.key].text = c.text

Settled(k) ==
  k \notin shared =>
    /\ threads[k].status = "needs_review" => threads[k].text # 0
    /\ k \notin unrefreshed =>
         /\ threads[k].draft \in Replies => threads[k].draft = threads[k].text
         /\ threads[k].text \in OptOuts(k[2]) => threads[k].verdict \in {"stop", "human"}

WindowInv ==
  /\ NotedShared
  /\ \A c \in Calls : Foreseen(call[c])
  /\ \A k \in Keys : Settled(k)

LEMMA InitWindow == Init => WindowInv
<1> SUFFICES ASSUME Init PROVE WindowInv
  OBVIOUS
<1>1. NotedShared
  <2>1. <<>> \notin Keys
    BY DEF Keys
  <2> QED BY <2>1 DEF Init, Idle, NotedShared
<1>2. \A c \in Calls : Foreseen(call[c])
  BY DEF Init, Idle, Foreseen
<1>3. \A k \in Keys : Settled(k)
  BY DEF Init, NoThread, Settled, Replies
<1> QED BY <1>1, <1>2, <1>3 DEF WindowInv

LEMMA SharedNoted ==
  ASSUME TypeInv, NoteShared
  PROVE  NotedShared' /\ shared \subseteq shared'
<1>1. ASSUME NEW c \in Calls, NEW d \in Calls, c # d, call'[c].key = call'[d].key,
             call'[c].key \in Keys
      PROVE  call'[c].key \in shared'
  <2> DEFINE H == {e \in Calls : call'[e].key = call'[c].key}
  <2>1. IsFiniteSet(H)
    BY ReplyQueueAssumption, FS_Subset
  <2>2. c \in H /\ d \in H
    BY <1>1
  <2> HIDE DEF H
  <2>3. H # {} /\ ~ \E x : H = {x}
    BY <1>1, <2>2
  <2>4. Cardinality(H) \in Nat /\ Cardinality(H) # 0 /\ Cardinality(H) # 1
    BY <2>1, <2>3, FS_CardinalityType, FS_EmptySet, FS_Singleton
  <2>5. Cardinality(H) > 1
    BY <2>4
  <2> QED BY <1>1, <2>5 DEF NoteShared, Holders, H
<1> QED BY <1>1 DEF NotedShared, NoteShared

\* What happens to a thread's status and text, and by whom.
LEMMA ThreadMoves ==
  ASSUME TypeInv, SendInv, Step, NEW k \in Keys
  PROVE  /\ threads'[k].status = "sent" =>
              threads[k].status = "sent" \/ \E c \in Calls : MarkedBy(c, k)
         /\ threads'[k].status = "none" => threads[k].status = "none"
         /\ threads'[k].text # threads[k].text =>
              ~ Exists(k) \/ \E c \in Calls : ImportedBy(c, k)
         /\ threads[k].status = "sent" /\ threads'[k].status # "sent" =>
              \/ UpdateThread(k)
              \/ \E c \in Calls : MarkedBy(c, k) \/ ImportedBy(c, k) \/ ClassifiedBy(c, k)
<1> DEFINE Goal ==
      /\ threads'[k].status = "sent" =>
           threads[k].status = "sent" \/ \E c \in Calls : MarkedBy(c, k)
      /\ threads'[k].status = "none" => threads[k].status = "none"
      /\ threads'[k].text # threads[k].text =>
           ~ Exists(k) \/ \E c \in Calls : ImportedBy(c, k)
      /\ threads[k].status = "sent" /\ threads'[k].status # "sent" =>
           \/ UpdateThread(k)
           \/ \E c \in Calls : MarkedBy(c, k) \/ ImportedBy(c, k) \/ ClassifiedBy(c, k)
<1>1. ASSUME Untouched(k) \/ Archived(k) PROVE Goal
  BY <1>1 DEF Untouched, Archived, SameContent
<1>2. ASSUME NEW c \in Calls, ImportedBy(c, k) PROVE Goal
  <2>1. threads'[k].status \in {"missing_reply_text", "needs_review"}
    BY <1>2 DEF ImportedBy
  <2> QED BY <1>2, <2>1
<1>3. ASSUME NEW c \in Calls, ClassifiedBy(c, k) PROVE Goal
  <2>1. call[c].text \in DOMAIN said[k[2]] /\ threads'[k].text = threads[k].text
    BY <1>3 DEF ClassifiedBy, TypeInv, Framed
  <2>2. threads'[k].status \in {"skipped", "needs_review", "needs_human_review"}
    BY <1>3, <2>1, AnswerGrounded DEF ClassifiedBy, GivenAnswer
  <2> QED BY <1>3, <2>1, <2>2
<1>4. ASSUME InsertedFor(k) PROVE Goal
  <2>1. threads'[k].status
          \in {"missing_reply_text", "skipped", "needs_review", "needs_human_review"}
    BY <1>4, AnswerGrounded DEF InsertedFor, GivenAnswer
  <2>2. ~ Exists(k) /\ threads[k].status # "sent"
    BY <1>4 DEF InsertedFor, Exists
  <2> QED BY <2>1, <2>2
<1>5. ASSUME UpdateThread(k) PROVE Goal
  <2>1. threads[k] \in Thread
    BY DEF TypeInv, TypeOK
  <2>2. /\ threads'[k].text = threads[k].text
        /\ threads'[k].status \in {threads[k].status, "approved", "skipped"}
    BY <1>5, <2>1 DEF UpdateThread, TypeInv, TypeOK, Thread
  <2> QED BY <1>5, <2>2
<1>6. ASSUME NEW c \in Calls, MarkedBy(c, k) PROVE Goal
  <2>1. threads[k] \in Thread
    BY DEF TypeInv, TypeOK
  <2>2. threads'[k].text = threads[k].text /\ threads'[k].status = call[c].outcome
    BY <1>6, <2>1 DEF MarkedBy, MarkThread, TypeInv, TypeOK, Thread
  <2>3. call[c].outcome # "none"
    BY <1>6 DEF MarkedBy, MarkThread, SendInv, Carries
  <2> QED BY <1>6, <2>2, <2>3
<1>7. ThreadStep(k)
  BY StepEffects DEF Steps
<1>8. Goal
  <2> HIDE DEF Goal
  <2> QED BY <1>1, <1>2, <1>3, <1>4, <1>5, <1>6, <1>7 DEF ThreadStep
<1> QED BY <1>8

\* Two calls with one key outside shared are one call.
LEMMA Alone ==
  ASSUME NotedShared, NEW k \in Keys, k \notin shared,
         NEW c \in Calls, NEW d \in Calls, call[c].key = k, call[d].key = k
  PROVE  c = d
BY DEF NotedShared

LEMMA StepForeseen ==
  ASSUME TypeInv, SendInv, WindowInv, Step, shared \subseteq shared', NEW c \in Calls
  PROVE  Foreseen(call[c])'
<1> DEFINE k == call'[c].key
<1>1. CASE call'[c] = call[c]
  <2>1. call[c].pc \in {"fetch", "classify"} => k \in Keys
    BY <1>1 DEF TypeInv, Framed
  <2>2. Foreseen(call[c]) /\ NotedShared
    BY DEF WindowInv
  <2>3. ASSUME k \in Keys, k \notin shared, call[c].pc \in {"fetch", "classify"},
               threads[k].status # "sent"
        PROVE  threads'[k].status # "sent"
    <3>1. ASSUME NEW d \in Calls, MarkedBy(d, k) PROVE FALSE
      BY <1>1, <2>2, <2>3, <3>1, Alone DEF MarkedBy, MarkThread
    <3>2. threads'[k].status = "sent" =>
            threads[k].status = "sent" \/ \E d \in Calls : MarkedBy(d, k)
      BY <2>3, ThreadMoves
    <3> QED BY <2>3, <3>1, <3>2
  <2>4. ASSUME k \in Keys, k \notin shared, call[c].pc = "classify",
               threads[k].status # "none"
        PROVE  threads'[k].text = threads[k].text /\ threads'[k].status # "none"
    <3>1. ASSUME NEW d \in Calls, ImportedBy(d, k) PROVE FALSE
      BY <1>1, <2>2, <2>4, <3>1, Alone DEF ImportedBy
    <3>2. /\ threads'[k].status = "none" => threads[k].status = "none"
          /\ threads'[k].text # threads[k].text =>
               ~ Exists(k) \/ \E d \in Calls : ImportedBy(d, k)
      BY <2>4, ThreadMoves
    <3> QED BY <2>4, <3>1, <3>2 DEF Exists
  <2> QED BY <1>1, <2>1, <2>2, <2>3, <2>4 DEF Foreseen
<1>2. CASE call'[c].pc \notin {"fetch", "classify"}
  BY <1>2 DEF Foreseen
<1>3. CASE LookedUp(c)
  BY <1>3 DEF LookedUp, Active, Exists, Foreseen
<1>4. CASE WillClassify(c)
  BY <1>4 DEF WillClassify, Foreseen
<1>5. CASE SendAnswered(c) \/ \E j \in Keys : SendStart(c, j)
  <2>1. ASSUME SendAnswered(c) PROVE call'[c].pc = "mark"
    BY <2>1 DEF SendAnswered, TypeInv, TypeOK, Call
  <2>2. ASSUME NEW j \in Keys, SendStart(c, j) PROVE call'[c].pc = "post"
    BY <2>2 DEF SendStart, Idle, TypeInv, TypeOK
  <2> QED BY <1>5, <2>1, <2>2 DEF Foreseen
<1>6. CallChange(c)
  BY StepEffects DEF CallChanges
<1> QED BY <1>1, <1>2, <1>3, <1>4, <1>5, <1>6 DEF CallChange

\* The parts of Settled after a step, in the words known before it.
LEMMA ThreadSettled ==
  ASSUME TypeInv, SendInv, WindowInv, Step, NEW k \in Keys, k \notin shared
  PROVE  /\ threads'[k].status = "needs_review" => threads'[k].text # 0
         /\ k \notin unrefreshed' =>
              /\ threads'[k].draft \in Replies => threads'[k].draft = threads'[k].text
              /\ threads'[k].text \in OptOuts(k[2]) =>
                   threads'[k].verdict \in {"stop", "human"}
<1> DEFINE Goal ==
      /\ threads'[k].status = "needs_review" => threads'[k].text # 0
      /\ k \notin unrefreshed' =>
           /\ threads'[k].draft \in Replies => threads'[k].draft = threads'[k].text
           /\ threads'[k].text \in OptOuts(k[2]) =>
                threads'[k].verdict \in {"stop", "human"}
<1>1. /\ threads[k].status = "needs_review" => threads[k].text # 0
      /\ k \notin unrefreshed =>
           /\ threads[k].draft \in Replies => threads[k].draft = threads[k].text
           /\ threads[k].text \in OptOuts(k[2]) =>
                threads[k].verdict \in {"stop", "human"}
  BY DEF WindowInv, Settled
<1>2. /\ k[2] \in Prospects /\ 0 \notin Replies /\ 0 \notin OptOuts(k[2])
      /\ Own \notin Replies /\ DOMAIN said[k[2]] \subseteq Replies
  BY KeyParts, SaidDomain, ReplyQueueAssumption DEF OptOuts, Replies, Own
<1>3. ASSUME NEW text \in DOMAIN said[k[2]],
             NEW a \in Answers(k[2], text) \cup Unclassified(k[2], text),
             GivenAnswer(k, a), threads'[k].text = text
      PROVE  Goal
  <2>1. a.draft \in {0, text} /\ (said[k[2]][text] = "opt_out" => a.verdict = "stop")
    BY <1>2, <1>3, AnswersType
  <2>2. text \in OptOuts(k[2]) => said[k[2]][text] = "opt_out"
    BY DEF OptOuts
  <2>3. text # 0
    BY <1>2
  <2> QED BY <1>2, <1>3, <2>1, <2>2, <2>3 DEF GivenAnswer
<1>4. ASSUME NEW c \in Calls, ClassifiedBy(c, k) PROVE Goal
  <2>1. Foreseen(call[c])
    BY DEF WindowInv
  <2>2. call[c].text \in DOMAIN said[k[2]] /\ threads'[k].text = call[c].text
    BY <1>4, <2>1 DEF ClassifiedBy, TypeInv, Framed, Foreseen
  <2> QED BY <1>3, <1>4, <2>2 DEF ClassifiedBy
<1>5. ASSUME NEW c \in Calls, ImportedBy(c, k) PROVE Goal
  BY <1>2, <1>5 DEF ImportedBy, Created, Revived
<1>6. ASSUME InsertedFor(k) PROVE Goal
  BY <1>2, <1>3, <1>6 DEF InsertedFor
<1>7. ASSUME k \in unrefreshed, k \notin unrefreshed' PROVE Goal
  <2>1. Refreshes(k)
    BY StepEffects DEF Steps
  <2> HIDE DEF Goal
  <2> QED BY <1>4, <1>7, <2>1 DEF Refreshes
<1>8. ASSUME k \notin unrefreshed \/ k \in unrefreshed',
             threads'[k].text = threads[k].text,
             threads'[k].verdict = threads[k].verdict,
             threads'[k].draft \in {threads[k].draft, Own},
             threads'[k].status = "needs_review" => threads[k].status = "needs_review"
      PROVE  Goal
  BY <1>1, <1>2, <1>8
<1>9. ASSUME UpdateThread(k) PROVE Goal
  <2>1. threads[k] \in Thread
    BY DEF TypeInv, TypeOK
  <2>2. /\ threads'[k].text = threads[k].text /\ threads'[k].verdict = threads[k].verdict
        /\ threads'[k].draft \in {threads[k].draft, Own}
        /\ threads'[k].status \in {threads[k].status, "approved", "skipped"}
    BY <1>9, <2>1 DEF UpdateThread, TypeInv, TypeOK, Thread
  <2> HIDE DEF Goal
  <2> QED BY <1>7, <1>8, <2>2
<1>10. ASSUME NEW c \in Calls, MarkedBy(c, k) PROVE Goal
  <2>1. threads[k] \in Thread
    BY DEF TypeInv, TypeOK
  <2>2. SameContent(k) /\ threads'[k].status = call[c].outcome
    BY <1>10, <2>1 DEF MarkedBy, MarkThread, SameContent, TypeInv, TypeOK, Thread
  <2>3. call[c].outcome # "needs_review"
    BY <1>10 DEF MarkedBy, MarkThread, SendInv, Carries
  <2> HIDE DEF Goal
  <2> QED BY <1>7, <1>8, <2>2, <2>3 DEF SameContent
<1>11. ASSUME Untouched(k) \/ Archived(k) PROVE Goal
  <2> HIDE DEF Goal
  <2> QED BY <1>7, <1>8, <1>11 DEF Untouched, Archived, SameContent
<1>12. ThreadStep(k)
  BY StepEffects DEF Steps
<1>13. Goal
  <2> HIDE DEF Goal
  <2> QED BY <1>4, <1>5, <1>6, <1>9, <1>10, <1>11, <1>12 DEF ThreadStep
<1> QED BY <1>13

LEMMA StepWindow == TypeInv /\ SendInv /\ WindowInv /\ [Next]_vars => WindowInv'
<1> SUFFICES ASSUME TypeInv, SendInv, WindowInv, [Next]_vars PROVE WindowInv'
  OBVIOUS
<1>1. CASE UNCHANGED vars
  BY <1>1 DEF vars, WindowInv, NotedShared, Foreseen, Settled, OptOuts
<1>2. CASE Step /\ NoteShared
  <2>1. NotedShared' /\ shared \subseteq shared'
    BY <1>2, SharedNoted
  <2>2. ASSUME NEW c \in Calls PROVE Foreseen(call[c])'
    BY <1>2, <2>1, StepForeseen
  <2>3. ASSUME NEW k \in Keys PROVE Settled(k)'
    <3>1. CASE k \in shared
      BY <2>1, <3>1 DEF Settled
    <3>2. CASE k \notin shared
      <4>1. /\ threads'[k].status = "needs_review" => threads'[k].text # 0
            /\ k \notin unrefreshed' =>
                 /\ threads'[k].draft \in Replies => threads'[k].draft = threads'[k].text
                 /\ threads'[k].text \in OptOuts(k[2]) =>
                      threads'[k].verdict \in {"stop", "human"}
        BY <1>2, <3>2, ThreadSettled
      <4>2. threads'[k].text \in Words(k[2]) /\ k[2] \in Prospects
        BY <1>2, KeyParts, ThreadGrounded DEF Words
      <4>3. threads'[k].text \in {r \in DOMAIN said'[k[2]] : said'[k[2]][r] = "opt_out"}
              => threads'[k].text \in OptOuts(k[2])
        BY <1>2, <4>2, OldWords DEF OptOuts
      <4> QED BY <4>1, <4>3 DEF Settled, OptOuts
    <3> QED BY <3>1, <3>2
  <2> QED BY <2>1, <2>2, <2>3 DEF WindowInv
<1> QED BY <1>1, <1>2 DEF Next

\* Outside the windows what a call has seen of its thread holds until it writes,
\* and text, draft, verdict and status of a thread belong together.
THEOREM WindowsCorrect == Spec => []WindowInv
BY InitWindow, StepWindow, TypesCorrect, SendsCorrect, PTL DEF Spec

\* No placeholder is in needs_review, outside keys that two calls have shared.
THEOREM ReviewHasTextCorrect == Spec => []ReviewHasText
<1>1. WindowInv => ReviewHasText
  BY DEF WindowInv, Settled, ReviewHasText
<1> QED BY <1>1, WindowsCorrect, PTL

\* Outside the windows the draft of a thread answers the reply it shows.
THEOREM DraftAnswersTextCorrect == Spec => []DraftAnswersText
<1>1. WindowInv => DraftAnswersText
  BY DEF WindowInv, Settled, DraftAnswersText
<1> QED BY <1>1, WindowsCorrect, PTL

\* Outside the windows a thread that shows an opt-out cannot be sent.
THEOREM OptOutBlockedCorrect == Spec => []OptOutBlocked
<1>1. WindowInv => OptOutBlocked
  BY DEF WindowInv, Settled, OptOutBlocked, SendBlocked
<1> QED BY <1>1, WindowsCorrect, PTL

\* Outside shared keys no import and no sweep takes a thread out of sent.
THEOREM SentSticksCorrect == Spec => SentSticks
<1> DEFINE Kept == \A k \in Keys \ shared' :
             threads[k].status = "sent" /\ threads'[k].status # "sent" =>
               \/ UpdateThread(k)
               \/ \E c \in Calls : MarkThread(c) /\ call[c].key = k
<1>1. TypeInv /\ SendInv /\ WindowInv /\ [Next]_vars => [Kept]_vars
  <2> SUFFICES ASSUME TypeInv, SendInv, WindowInv, Step, NoteShared,
                      NEW k \in Keys \ shared', threads[k].status = "sent",
                      threads'[k].status # "sent"
               PROVE  \/ UpdateThread(k)
                      \/ \E c \in Calls : MarkThread(c) /\ call[c].key = k
    BY DEF Next
  <2>1. k \notin shared
    BY SharedNoted
  <2>2. ASSUME NEW c \in Calls, ImportedBy(c, k) \/ ClassifiedBy(c, k) PROVE FALSE
    BY <2>1, <2>2 DEF WindowInv, Foreseen, ImportedBy, ClassifiedBy, Created, Exists
  <2>3. \/ UpdateThread(k)
        \/ \E c \in Calls : MarkedBy(c, k) \/ ImportedBy(c, k) \/ ClassifiedBy(c, k)
    BY ThreadMoves
  <2> QED BY <2>2, <2>3 DEF MarkedBy
<1> QED BY <1>1, TypesCorrect, SendsCorrect, WindowsCorrect, PTL DEF Spec, SentSticks

\* Only HookStored ends a webhook without a crash.
LEMMA HookEnds ==
  ASSUME TypeInv, Step, NEW c \in Calls, call[c].pc = "hook", call'[c].pc = "idle"
  PROVE  HookStored(c)
<1>1. call \in [Calls -> Call]
  BY DEF TypeInv, TypeOK
<1>2. ASSUME NEW d \in Calls, d # c, NEW f, call' = [call EXCEPT ![d] = f] PROVE FALSE
  BY <1>1, <1>2
<1>3. ASSUME UNCHANGED call PROVE FALSE
  BY <1>3
<1>4. ASSUME NEW d \in Calls, CallStep(d) PROVE HookStored(c)
  <2>1. CASE d = c
    BY <1>4, <2>1
       DEF CallStep, Sync, Send, SyncList, SyncLookup, SyncWriteFailed, SyncClassified,
           SyncUnclassified, SyncEnd, SendAnswered, MarkThread
  <2>2. CASE d # c
    <3>1. call'[c] = call[c]
      <4>1. ASSUME Stop(d) \/ \E errors \in BOOLEAN : NextCandidate(d, errors)
            PROVE  call'[c] = call[c]
        BY <1>1, <2>2, <4>1 DEF Stop, NextCandidate
      <4>2. ASSUME NEW text, AfterImport(d, text) PROVE call'[c] = call[c]
        BY <1>1, <2>2, <4>1, <4>2 DEF AfterImport
      <4>3. ASSUME NEW text, SyncRevive(d, text) \/ SyncCreate(d, text)
            PROVE  call'[c] = call[c]
        BY <4>1, <4>2, <4>3 DEF SyncRevive, SyncCreate
      <4>4. ASSUME NEW p, NEW src, SyncLookup(d, p, src) PROVE call'[c] = call[c]
        BY <1>1, <2>2, <4>4 DEF SyncLookup
      <4>5. ASSUME SyncList(d) PROVE call'[c] = call[c]
        BY <1>1, <2>2, <4>1, <4>5 DEF SyncList
      <4>6. ASSUME \/ SyncWriteFailed(d) \/ SyncClassified(d) \/ SyncUnclassified(d)
                   \/ SyncEnd(d) \/ HookStored(d) \/ MarkThread(d)
            PROVE  call'[c] = call[c]
        BY <4>1, <4>6 DEF SyncWriteFailed, SyncClassified, SyncUnclassified, SyncEnd,
                          HookStored, MarkThread
      <4>7. ASSUME SendAnswered(d) PROVE call'[c] = call[c]
        BY <1>1, <2>2, <4>7 DEF SendAnswered
      <4> QED BY <1>4, <4>3, <4>4, <4>5, <4>6, <4>7 DEF CallStep, Sync, Send
    <3> QED BY <3>1
  <2> QED BY <2>1, <2>2
<1>5. ASSUME NEW d \in Calls, SyncStart(d) \/ Crash(d) PROVE FALSE
  <2>1. CASE d = c
    BY <1>1, <1>5, <2>1 DEF SyncStart, Crash, Idle
  <2>2. CASE d # c
    BY <1>1, <1>5, <2>2 DEF SyncStart, Crash
  <2> QED BY <2>1, <2>2
<1>6. ASSUME NEW d \in Calls, NEW p, NEW text, NEW id, NEW cid, NEW hasBody,
             HookReceived(d, p, text, id, cid, hasBody)
      PROVE  FALSE
  <2>1. call[d].pc = "idle" /\ d # c
    BY <1>6 DEF HookReceived
  <2> QED BY <1>1, <1>6, <2>1 DEF HookReceived
<1>7. ASSUME NEW d \in Calls, NEW k, SendStart(d, k) PROVE FALSE
  <2>1. call[d].pc = "idle" /\ d # c
    BY <1>7 DEF SendStart
  <2> QED BY <1>1, <1>7, <2>1 DEF SendStart
<1>8. ASSUME NEW k, UpdateThread(k) PROVE FALSE
  BY <1>3, <1>8 DEF UpdateThread
<1>9. ASSUME NEW p, NEW text, NEW cid, CreateDraft(p, text, cid) PROVE FALSE
  BY <1>3, <1>9 DEF CreateDraft
<1>10. ASSUME ArchiveStale \/ ArchivePlaceholders \/ ArchiveNonOpportunity PROVE FALSE
  BY <1>3, <1>10 DEF ArchiveStale, ArchivePlaceholders, ArchiveNonOpportunity
<1>11. ASSUME (\E p \in Prospects : Reply(p)) \/ (\E cid \in Campaigns : SetCampaign(cid))
       PROVE  FALSE
  BY <1>3, <1>11 DEF Reply, SetCampaign
<1> QED BY <1>4, <1>5, <1>6, <1>7, <1>8, <1>9, <1>10, <1>11 DEF Step

\* A webhook with a body that ends without a crash leaves a thread under its
\* key, whatever the model answers and whoever has inserted it meanwhile.
THEOREM InboundKeptCorrect == Spec => InboundKept
<1> DEFINE Kept == \A c \in Calls :
             call[c].pc = "hook" /\ call'[c].pc = "idle" =>
               threads'[call[c].key].status # "none"
<1>1. TypeInv /\ SendInv /\ [Next]_vars => [Kept]_vars
  <2> SUFFICES ASSUME TypeInv, SendInv, Step, NEW c \in Calls, call[c].pc = "hook",
                      call'[c].pc = "idle"
               PROVE  threads'[call[c].key].status # "none"
    BY DEF Next
  <2> DEFINE k == call[c].key
  <2>1. k \in Keys
    BY DEF TypeInv, Framed
  <2>2. PICK a \in Answers(call[c].who, call[c].text)
                   \cup Unclassified(call[c].who, call[c].text) :
          threads' = Inserted(k,
                       Classified(Imported(NoThread, call[c].text, call[c].payload), a))
    BY HookEnds DEF HookStored
  <2>3. CASE Exists(k)
    BY <2>2, <2>3 DEF Inserted, Exists
  <2>4. CASE ~ Exists(k)
    <3> DEFINE t == Classified(Imported(NoThread, call[c].text, call[c].payload), a)
    <3>1. call[c].who = k[2] /\ call[c].text \in DOMAIN said[k[2]]
      BY DEF TypeInv, Framed
    <3>2. t.status = StatusOf(a.verdict)
      BY StoredParts
    <3>3. StatusOf(a.verdict) # "none"
      BY <2>1, <3>1, AnswerGrounded
    <3>4. threads' = [threads EXCEPT ![k] = t]
      BY <2>2, <2>4 DEF Inserted
    <3> HIDE DEF t, k
    <3>5. threads'[k] = t
      BY <2>1, <3>4 DEF TypeInv, TypeOK
    <3> QED BY <3>2, <3>3, <3>5 DEF k
  <2> QED BY <2>3, <2>4
<1> QED BY <1>1, TypesCorrect, SendsCorrect, PTL DEF Spec, InboundKept

\* What goes out and what is called sent is right: no answer to an opt-out, and
\* no sent mark without an acceptance, inside the windows too.
THEOREM SentRightCorrect == Spec => []SentRight
<1>1. OptOutUnanswered /\ SentIsTrue => SentRight
  BY DEF SentRight
<1> QED BY <1>1, OptOutUnansweredCorrect, SentIsTrueCorrect, PTL

\* Outside the windows the reply, the draft and the class of a thread belong
\* together.
THEOREM ThreadConsistentCorrect == Spec => []ThreadConsistent
<1>1. ReviewHasText /\ DraftAnswersText /\ OptOutBlocked => ThreadConsistent
  BY DEF ThreadConsistent
<1> QED BY <1>1, ReviewHasTextCorrect, DraftAnswersTextCorrect, OptOutBlockedCorrect, PTL

\* Neither an answer sent nor a reply received is forgotten.
THEOREM NothingForgottenCorrect == Spec => NothingForgotten
BY SentSticksCorrect, InboundKeptCorrect DEF NothingForgotten
=============================================================================
