------------------------------ MODULE Learning ------------------------------
(***************************************************************************)
(* The example libraries that the prompts of the generators quote: winners *)
(* and negatives, two JSON files that scripts and pages read, change and   *)
(* write back, and the table the winners are copied to at startup.         *)
(*                                                                         *)
(* Nothing locks a file.  A script truncates it and then writes it, so     *)
(* that another call may read it empty, write over it, or replace it       *)
(* under the script's hands; a page replaces it in one step.  A file that  *)
(* cannot be read counts as empty.  Every action is one file operation or  *)
(* one transaction.                                                        *)
(*                                                                         *)
(* Contents stand for rated or answered copies of one kind; the library    *)
(* has room for MaxLibrary entries.                                        *)
(*                                                                         *)
(* Ghost state (read by the properties only): answered, demoted, wiped and *)
(* the field old of a call.                                                *)
(***************************************************************************)
EXTENDS Naturals, Sequences, FiniteSets, SequencesExt

CONSTANTS
  Contents,    \* ids of generated content
  Seeds,       \* ids of the entries the operator has put into the winners
  Delivered,   \* contents that sync_engagement finds in the campaign
  OldReplies,  \* contents promoted before entries had a winner_reason
  Processes,   \* processes of the scripts and requests of the pages
  Given,       \* pairs of a content and a rating that an SDR may give it: up, down,
               \* or feedback (down, with a reason)
  Jobs,        \* scripts that are run
  Metrics,     \* what Instantly may say of a content: sets of "replied", "positive"
  MaxLibrary,  \* MAX_LIBRARY_SIZE
  Quota,       \* examples a prompt quotes
  MaxRuns,     \* bound: calls started in a behaviour
  MaxFailures  \* bound: failed transactions and deaths in a behaviour

\* The tables are finite. The library in the repository holds 3 seeds, and what the
\* promotion added to it was trimmed to 25 entries.
ASSUME LearningAssumption ==
  /\ IsFiniteSet(Contents) /\ IsFiniteSet(Seeds)
  /\ Cardinality(Seeds) + Cardinality(OldReplies) <= MaxLibrary
  /\ Seeds \cap Contents = {}
  /\ OldReplies \subseteq Contents
  /\ Delivered \subseteq Contents
  /\ Given \subseteq Contents \X {"up", "down", "feedback"}
  /\ Jobs \subseteq {"pull", "ratings", "cleanup"}
  /\ Metrics \subseteq SUBSET {"replied", "positive"}
  /\ MaxLibrary \in Nat \ {0}
  /\ Quota \in Nat \ {0}
  /\ MaxRuns \in Nat
  /\ MaxFailures \in Nat

VARIABLES
  file,     \* the two libraries on disk
  shelf,    \* winning_examples rows of the default workspace, in id order
  ratings,  \* content_ratings rows, in id order
  metrics,  \* engagements row of a content
  call,     \* program counter and locals of every call
  runs,     \* calls started so far
  failures, \* failed transactions and deaths so far
  answered, \* contents that Instantly reported as replied at some time
  demoted,  \* winners (source and content) that are off in the library as a page last
            \* wrote it
  wiped     \* a script has taken an unreadable winners file for an empty one

libraryVars == <<file, shelf, ratings, metrics, call, runs, failures, answered,
                 demoted, wiped>>

-----------------------------------------------------------------------------
Files == {"winners", "negatives"}

\* reason: winner_reason is valid, missing, or the mark of an unconfirmed entry.
\* stamp: added_at of a negative, the number of the roll-up that added it.
Entry == [source : {"seed", "rating", "reply"}, of : Seeds \cup Contents,
          reason : {"valid", "missing", "unconfirmed"}, active : BOOLEAN,
          stamp : 0 .. MaxRuns]

Scripts == [pull    |-> <<"sync", "ratings", "promote">>,
            ratings |-> <<"ratings">>,
            cleanup |-> <<"cleanup">>]

Pcs == {"idle", "begin", "negatives", "db", "open", "write", "replace", "copy"}

\* fate: what has become of a file since the call truncated it.
Process == [pc : Pcs, todo : Seq({"sync", "ratings", "promote", "cleanup"}),
            lib : [Files -> Seq(Entry)], out : Seq(Files),
            fate : {"mine", "written", "replaced"}, old : BOOLEAN]

NoLib == [f \in Files |-> <<>>]

AtRest == [pc |-> "idle", todo |-> <<>>, lib |-> NoLib, out |-> <<>>,
           fate |-> "mine", old |-> FALSE]

LibraryTyped ==
  /\ file \in [Files -> [whole : BOOLEAN, items : Seq(Entry)]]
  /\ \A f \in Files : Len(file[f].items) <= MaxLibrary
  /\ shelf \in Seq(Entry)
  /\ ratings \in Seq([of : Contents, rating : {"up", "down", "feedback"}])
  /\ metrics \in [Contents -> SUBSET {"replied", "positive"}]
  /\ call \in [Processes -> Process]
  /\ runs \in 0 .. MaxRuns
  /\ failures \in 0 .. MaxFailures
  /\ answered \subseteq Contents
  /\ demoted \subseteq {"rating", "reply"} \X Contents
  /\ wiped \in BOOLEAN

-----------------------------------------------------------------------------
(* The entries *)

NewEntry(source, c, stamp) ==
  [source |-> source, of |-> c, reason |-> "valid", active |-> TRUE, stamp |-> stamp]

Has(items, source, c) == \E i \in DOMAIN items : items[i].source = source /\ items[i].of = c

\* The entries at the positions in the set at, in their order.
Picked(items, at) ==
  LET picked[n \in 0 .. Len(items)] ==
        IF n = 0 THEN <<>>
        ELSE IF n \in at THEN Append(picked[n - 1], items[n]) ELSE picked[n - 1]
  IN picked[Len(items)]

SeedsAt(items) == {n \in DOMAIN items : items[n].source = "seed"}

\* Mutant: ascending order.
RankedUp(items) ==
  Picked(items, DOMAIN items \ SeedsAt(items)) \o Picked(items, SeedsAt(items))

\* list.sort is stable, also in reverse. Seeds are flagged; all others score 1.0.
Ranked(items) ==
  Picked(items, SeedsAt(items)) \o Picked(items, DOMAIN items \ SeedsAt(items))

StampedAt(items, n) == {i \in DOMAIN items : items[i].stamp = n}

NewestFirst(items) ==
  LET newest[n \in 0 .. runs] ==
        LET batch == Picked(items, StampedAt(items, n))
        IN IF n = 0 THEN batch ELSE batch \o newest[n - 1]
  IN newest[runs]

First(n, items) == SubSeq(items, 1, IF Len(items) < n THEN Len(items) ELSE n)

\* Mutant: off by one.
TrimmedLate(items) == First(MaxLibrary + 1, items)

Trimmed(items) == First(MaxLibrary, items)

\* Mutant: what is there is not looked up.
RatedAnew(items, rating, stamp) ==
  LET due == Picked(ratings, {n \in DOMAIN ratings : ratings[n].rating = rating})
  IN [i \in DOMAIN due |-> NewEntry("rating", due[i].of, stamp)]

\* process_ratings: entries for the ratings not yet in the library.
Rated(items, rating, stamp) ==
  LET due == Picked(ratings, {n \in DOMAIN ratings :
                       ratings[n].rating = rating /\ ~ Has(items, "rating", ratings[n].of)})
  IN [i \in DOMAIN due |-> NewEntry("rating", due[i].of, stamp)]

Repliers(items) == {c \in Contents : "replied" \in metrics[c] /\ ~ Has(items, "reply", c)}

\* _load_json_array: a missing, truncated or mixed up file reads as no entries.
Loaded(f) == IF file[f].whole THEN file[f].items ELSE <<>>

Valid(e) == e.source # "reply" \/ e.reason = "valid"

\* Mutant: the flag of the page is not looked at.
AnyQuotable(e) == Valid(e)

Quotable(e) == e.active /\ Valid(e)

\* load_top_winners_for: what the prompts of the default workspace quote. Once
\* the table has rows, it is neither the file nor its flags that count.
Examples ==
  LET library == Loaded("winners")
  IN First(Quota, IF shelf # <<>> THEN shelf
                  ELSE Ranked(Picked(library, {n \in DOMAIN library : Quotable(library[n])})))

\* _has_positive_engagement_signal; a check that fails answers no.
Confirmed(e, failed) == "positive" \in metrics[e.of] /\ ~ failed

\* cleanup_invalid_winners, one entry.
Cleaned(e, failed) ==
  CASE e.source = "seed" -> [e EXCEPT !.reason = "valid", !.active = TRUE]
    [] e.source = "rating" \/ (e.source = "reply" /\ e.reason = "valid") ->
         [e EXCEPT !.reason = "valid"]
    [] OTHER -> [e EXCEPT !.reason = IF Confirmed(e, failed) THEN "valid" ELSE "unconfirmed",
                          !.active = Confirmed(e, failed)]

-----------------------------------------------------------------------------
(* The scripts *)

Failure == failures < MaxFailures /\ failures' = failures + 1

DB == <<shelf, ratings, metrics, answered>>

Idles(k) == call[k].pc = "idle" /\ runs < MaxRuns /\ runs' = runs + 1

At(k, pc, job) == call[k].pc = pc /\ Head(call[k].todo) = job

\* The next job of a script, or the end of the call.
Next1(c) ==
  IF Len(c.todo) <= 1 THEN AtRest ELSE [AtRest EXCEPT !.pc = "begin", !.todo = Tail(c.todo)]

StartScript(k, script) ==
  /\ Idles(k)
  /\ call' = [call EXCEPT ![k] = [AtRest EXCEPT !.pc = "begin", !.todo = Scripts[script]]]
  /\ UNCHANGED <<file, DB, failures, demoted, wiped>>

\* sync_engagement: every lead of the campaign in a transaction of its own.
SyncLead(k, c) ==
  /\ At(k, "begin", "sync")
  /\ \E m \in Metrics :
       /\ metrics' = [metrics EXCEPT ![c] = m]
       /\ answered' = IF "replied" \in m THEN answered \cup {c} ELSE answered
  /\ UNCHANGED <<file, shelf, ratings, call, runs, failures, demoted, wiped>>

SyncEnd(k) ==
  /\ At(k, "begin", "sync")
  /\ call' = [call EXCEPT ![k] = Next1(@)]
  /\ UNCHANGED <<file, DB, runs, failures, demoted, wiped>>

LoadWinners(k) ==
  /\ call[k].pc = "begin" /\ Head(call[k].todo) # "sync"
  /\ call' = [call EXCEPT ![k].lib["winners"] = Loaded("winners"),
                          ![k].pc = IF Head(call[k].todo) = "ratings" THEN "negatives"
                                    ELSE "db"]
  /\ wiped' = (wiped \/ ~ file["winners"].whole)
  /\ UNCHANGED <<file, DB, runs, failures, demoted>>

LoadNegatives(k) ==
  /\ call[k].pc = "negatives"
  /\ call' = [call EXCEPT ![k].lib["negatives"] = Loaded("negatives"), ![k].pc = "db"]
  /\ UNCHANGED <<file, DB, runs, failures, demoted, wiped>>

\* The libraries a job has made up are written one after the other.
Prepare(k, lib, out) ==
  /\ call' = [call EXCEPT ![k].lib = lib, ![k].out = out, ![k].pc = "open"]
  /\ UNCHANGED <<file, DB, runs, demoted, wiped>>

Extended(items, new) == Trimmed(Ranked(items \o new))

ProcessRatings(k) ==
  LET win == call[k].lib["winners"]
      neg == call[k].lib["negatives"]
  IN /\ At(k, "db", "ratings")
     /\ Prepare(k, [winners |-> Extended(win, Rated(win, "up", 0)),
                    negatives |-> Trimmed(NewestFirst(neg \o Rated(neg, "feedback", runs)))],
                <<"winners", "negatives">>)
     /\ UNCHANGED failures

\* The query of promote_winners has no order.
PromoteWinners(k) ==
  LET win == call[k].lib["winners"]
  IN /\ At(k, "db", "promote")
     /\ \E new \in SetToSeqs(Repliers(win)) :
          Prepare(k, [NoLib EXCEPT !["winners"] =
                        Extended(win, [i \in DOMAIN new |-> NewEntry("reply", new[i], 0)])],
                  <<"winners">>)
     /\ UNCHANGED failures

CleanupWinners(k, failed) ==
  LET win == call[k].lib["winners"]
  IN /\ At(k, "db", "cleanup")
     /\ Prepare(k, [NoLib EXCEPT !["winners"] = [i \in DOMAIN win |-> Cleaned(win[i], failed)]],
                <<"winners">>)
     /\ IF failed THEN Failure ELSE UNCHANGED failures

\* _save_json_array, first half: the file is opened for writing and truncated.
Open(k) ==
  LET f == Head(call[k].out)
  IN /\ call[k].pc = "open"
     /\ file' = [file EXCEPT ![f] = [whole |-> FALSE, items |-> <<>>]]
     /\ call' = [call EXCEPT ![k].pc = "write", ![k].fate = "mine"]
     /\ UNCHANGED <<DB, runs, failures, demoted, wiped>>

Writing(k, f) == call[k].pc = "write" /\ Head(call[k].out) = f

\* What the others that have the file open will find: calls as they are, with
\* the fate of the file for those that write to it.
Fates(calls, k, f, fate) ==
  [j \in Processes |-> IF j # k /\ Writing(j, f) THEN [calls[j] EXCEPT !.fate = fate]
                       ELSE calls[j]]

Marked(items, active) ==
  {<<items[i].source, items[i].of>> :
     i \in {j \in DOMAIN items : items[j].source # "seed" /\ items[j].active = active}}

\* _save_json_array, second half. Over another's text the shorter one leaves the
\* other's end; a file that was replaced is written to no one's eyes.
Write(k) ==
  LET f == Head(call[k].out)
      c == call[k]
      rest == IF Len(c.out) > 1 THEN [c EXCEPT !.pc = "open", !.out = Tail(@), !.fate = "mine"]
              ELSE Next1(c)
  IN /\ c.pc = "write"
     /\ IF c.fate = "replaced" THEN UNCHANGED file
        ELSE \E whole \in IF c.fate = "mine" THEN {TRUE} ELSE BOOLEAN :
               file' = [file EXCEPT ![f] = [whole |-> whole,
                                            items |-> IF whole THEN c.lib[f] ELSE <<>>]]
     /\ call' = Fates([call EXCEPT ![k] = rest], k, f, "written")
     /\ demoted' = IF f = "winners" /\ c.old /\ c.fate # "replaced"
                   THEN demoted \cap Marked(c.lib[f], FALSE)
                   ELSE demoted
     /\ UNCHANGED <<DB, runs, failures, wiped>>

\* A transaction fails, or the process dies; what it had open stays truncated.
ProcessDies(k) ==
  /\ call[k].pc # "idle"
  /\ Failure
  /\ call' = [call EXCEPT ![k] = AtRest]
  /\ UNCHANGED <<file, DB, runs, demoted, wiped>>

-----------------------------------------------------------------------------
(* The pages and the server *)

\* record_rating: one rating for a content.
RecordRating(c, rating) ==
  /\ \A i \in DOMAIN ratings : ratings[i].of # c
  /\ ratings' = Append(ratings, [of |-> c, rating |-> rating])
  /\ UNCHANGED <<file, shelf, metrics, call, runs, failures, answered, demoted, wiped>>

\* _set_entry_active: read the file; an entry missing or in that state ends it.
ReadEntry(k, f, i, active) ==
  LET items == Loaded(f)
  IN /\ Idles(k)
     /\ i \in DOMAIN items
     /\ items[i].active # active
     /\ call' = [call EXCEPT ![k] =
                   [AtRest EXCEPT !.pc = "replace", !.out = <<f>>,
                                !.lib[f] = [items EXCEPT ![i].active = active]]]
     /\ UNCHANGED <<file, DB, failures, demoted, wiped>>

\* A call that has read the winners and may write them.
Holding(c) == c.pc \in {"negatives", "db", "open", "write", "replace"}

\* _set_entry_active: os.replace.
ReplaceEntry(k) ==
  LET f == Head(call[k].out)
      items == call[k].lib[f]
      after == Fates([call EXCEPT ![k] = AtRest], k, f, "replaced")
  IN /\ call[k].pc = "replace"
     /\ file' = [file EXCEPT ![f] = [whole |-> TRUE, items |-> items]]
     /\ IF f = "winners"
        THEN /\ demoted' = Marked(items, FALSE)
             /\ call' = [j \in Processes |-> [after[j] EXCEPT !.old = @ \/ Holding(after[j])]]
        ELSE UNCHANGED demoted /\ call' = after
     /\ UNCHANGED <<DB, runs, failures, wiped>>

\* migrate_json_winners_to_osp_db, called by init_db: the count in one
\* transaction, the copy in the next.
CheckShelf(k) ==
  /\ Idles(k)
  /\ shelf = <<>>
  /\ call' = [call EXCEPT ![k] = [AtRest EXCEPT !.pc = "copy"]]
  /\ UNCHANGED <<file, DB, failures, demoted, wiped>>

CopyToShelf(k) ==
  /\ call[k].pc = "copy"
  /\ shelf' = shelf \o Loaded("winners")
  /\ call' = [call EXCEPT ![k] = AtRest]
  /\ UNCHANGED <<file, ratings, metrics, answered, runs, failures, demoted, wiped>>

-----------------------------------------------------------------------------
\* The libraries as they are in the repository, and after its migration of the
\* entries that promote_winners wrote before they had a reason.
LibraryInit ==
  /\ \E seeds \in SetToSeqs(Seeds), legacy \in SetToSeqs(OldReplies) :
       file = [f \in Files |->
         [whole |-> TRUE,
          items |-> IF f = "negatives" THEN <<>>
                    ELSE [i \in DOMAIN seeds |-> NewEntry("seed", seeds[i], 0)]
                      \o [i \in DOMAIN legacy |->
                           [NewEntry("reply", legacy[i], 0) EXCEPT !.reason = "missing"]]]]
  /\ shelf = <<>>
  /\ ratings = <<>>
  /\ \E m \in [OldReplies -> Metrics] :
       metrics = [c \in Contents |-> IF c \in OldReplies THEN m[c] ELSE {}]
  /\ call = [k \in Processes |-> AtRest]
  /\ runs = 0
  /\ failures = 0
  /\ answered = OldReplies
  /\ demoted = {}
  /\ wiped = FALSE

Script(k) ==
  \/ \E script \in Jobs : StartScript(k, script)
  \/ \E c \in Delivered : SyncLead(k, c)
  \/ SyncEnd(k)
  \/ LoadWinners(k)
  \/ LoadNegatives(k)
  \/ ProcessRatings(k)
  \/ PromoteWinners(k)
  \/ \E failed \in BOOLEAN : CleanupWinners(k, failed)
  \/ Open(k)
  \/ Write(k)

Page(k) ==
  \/ \E f \in Files, i \in 1 .. MaxLibrary, active \in BOOLEAN : ReadEntry(k, f, i, active)
  \/ ReplaceEntry(k)

Startup(k) == CheckShelf(k) \/ CopyToShelf(k)

LibraryNext ==
  \/ \E k \in Processes : Script(k) \/ Page(k) \/ Startup(k) \/ ProcessDies(k)
  \/ \E given \in Given : RecordRating(given[1], given[2])

LibrarySpec == LibraryInit /\ [][LibraryNext]_libraryVars

-----------------------------------------------------------------------------
(* Properties *)

Unique(items) ==
  \A i, j \in DOMAIN items :
    items[i].source = items[j].source /\ items[i].of = items[j].of => i = j

\* What an entry rests on: the operator, a rating, or a reply.
Backed(e, rating) ==
  \/ e.source = "seed" /\ e.of \in Seeds
  \/ e.source = "rating" /\ \E i \in DOMAIN ratings :
                              ratings[i].of = e.of /\ ratings[i].rating = rating
  \/ e.source = "reply" /\ e.of \in answered

\* However scripts, pages and deaths interleave, a library that can be read names
\* no copy twice for one reason, and every example, in the files or in a prompt,
\* rests on a rating of its own kind, a reply that came in, or the operator.
LibraryTrue ==
  /\ \A f \in Files : Unique(file[f].items)
  /\ \A i \in DOMAIN file["winners"].items : Backed(file["winners"].items[i], "up")
  /\ \A i \in DOMAIN file["negatives"].items :
       file["negatives"].items[i].source = "rating" /\ Backed(file["negatives"].items[i], "feedback")
  /\ \A i \in DOMAIN Examples : Backed(Examples[i], "up")

\* The operator's seeds are never pushed out of the library, however full it is,
\* nor lost in a race, unless a script takes a library for empty that another
\* call has open or has left truncated.
SeedsSurvive ==
  file["winners"].whole /\ ~ wiped => \A s \in Seeds : Has(file["winners"].items, "seed", s)

\* A winner turned off on the page is not quoted again unless somebody turns it
\* on or writes back a library read before: later roll-ups do not add it anew. A
\* cleanup may bring back a winner of old whose reply proves positive; and once
\* they quote from the table, the prompts ignore the page altogether.
DemotionSticks ==
  shelf = <<>> /\ ~ wiped =>
    \A i \in DOMAIN Examples :
      LET e == Examples[i]
      IN (e.source = "reply" /\ e.of \in OldReplies) \/ <<e.source, e.of>> \notin demoted

\* What the operator put into the library stays, what he turned off stays off.
CurationKept == SeedsSurvive /\ DemotionSticks
=============================================================================
