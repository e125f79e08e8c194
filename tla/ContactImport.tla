---------------------------- MODULE ContactImport ----------------------------
(***************************************************************************)
(* How contacts become leads: imports from the lead source (and from API   *)
(* runs), uploads of CSV files, and leads a reply webhook creates.         *)
(*                                                                         *)
(* An import works contact by contact: in one transaction it looks for a   *)
(* lead by external id, email, LinkedIn link and name, in this order, and  *)
(* fills the lead's empty fields or inserts a lead.  Others write between  *)
(* its query and its commit.  An upload looks by email only and overwrites.*)
(*                                                                         *)
(* Ghost state (read by the properties only): maker, done, blurred,     *)
(* replaced.                                                               *)
(***************************************************************************)
EXTENDS Naturals, Sequences, FiniteSets, SequencesExt

CONSTANTS
  Workspaces,
  DefaultWorkspace, \* of uploads without a workspace
  Importers,    \* import_contacts, each one batch at a time
  Emails,
  Sources,      \* external_source: the lead source, callers of the API
  Ids,          \* ids a source gives its contacts
  Links,        \* LinkedIn URLs
  Names,        \* a company's domain with a full name
  None,         \* an empty field
  Batches,      \* what an import may be given
  Files,        \* what may be uploaded: rows with an email, a link and a name
  MaxImports,   \* bound: imports started
  MaxEdits,     \* bound: uploads, webhooks and verifications
  MaxFaults     \* bound: failed transactions and crashes

Contact == [id : Ids \cup {None}, email : Emails \cup {None},
            link : Links \cup {None}, name : Names \cup {None},
            verified : BOOLEAN]

FileRow == [email : Emails \cup {None}, link : Links \cup {None},
            name : Names \cup {None}]

ASSUME ContactImportAssumption ==
  /\ DefaultWorkspace \in Workspaces
  /\ None \notin Emails \cup Sources \cup Ids \cup Links \cup Names
  /\ Batches \subseteq Seq(Contact)
  /\ Files \subseteq Seq(FileRow)
  /\ {MaxImports, MaxEdits, MaxFaults} \subseteq Nat

VARIABLES
  leads,      \* the fields of every lead, by workspace and email
  imports,    \* program counter, locals and counters of every import
  started,    \* imports started so far
  edits,      \* uploads, webhooks and verifications so far
  faults,     \* failed transactions and crashes so far
  maker,      \* who created a lead
  done,       \* contacts that were created or matched, by workspace
  blurred,    \* workspaces with overlapping imports, or an id under another source
  replaced    \* workspaces where an upload has replaced a link or a name

vars == <<leads, imports, started, edits, faults, maker, done, blurred, replaced>>

-----------------------------------------------------------------------------
\* uq_leads_email_workspace: the key of a lead.
Keys == Workspaces \X Emails

\* What an import may fill.
Fields == {"src", "ext", "link", "name", "status", "raw"}

Lead == [src : Sources \cup {None}, ext : Ids \cup {None}, link : Links \cup {None}, name : Names \cup {None},
         status : {"verified", "invalid", None}, raw : {"payload", None}]

NewLead == [f \in Fields |-> None]

Counter == {"fetched", "created", "updated", "skipped", "errors"}

NoCounts == [k \in Counter |-> 0]

NoKey == <<None, None>>

Import == [pc : {"idle", "next", "insert", "update"}, ws : Workspaces,
           source : Sources \cup {None},
           todo : Seq(Contact), found : Keys \cup {NoKey}, snap : Lead,
           counts : [Counter -> Nat], ids : Seq(Keys \cup {NoKey}),
           failed : Nat, log : {"none", "running", "completed"}]

NoImport == [pc |-> "idle", ws |-> DefaultWorkspace, source |-> None, todo |-> <<>>,
             found |-> NoKey, snap |-> NewLead, counts |-> NoCounts, ids |-> <<>>, failed |-> 0,
             log |-> "none"]

TypeOK ==
  /\ DOMAIN leads \subseteq Keys
  /\ \A l \in DOMAIN leads : leads[l] \in Lead
  /\ imports \in [Importers -> Import]
  /\ started \in 0 .. MaxImports
  /\ edits \in 0 .. MaxEdits
  /\ faults \in 0 .. MaxFaults
  /\ DOMAIN maker = DOMAIN leads
  /\ \A l \in DOMAIN maker : maker[l] \in Importers \cup {None}
  /\ done \subseteq Workspaces \X Contact
  /\ blurred \subseteq Workspaces
  /\ replaced \subseteq Workspaces

Fault == faults < MaxFaults /\ faults' = faults + 1

Edit == edits < MaxEdits /\ edits' = edits + 1

\* A table with the given rows in place of those it had under their keys.
Put(rows, table) ==
  [l \in DOMAIN rows \cup DOMAIN table |->
     IF l \in DOMAIN rows THEN rows[l] ELSE table[l]]

OneRow(l, row) == [k \in {l} |-> row]

-----------------------------------------------------------------------------
(* mapper.map_contact and _find_existing *)

\* What a contact has for each field of a lead.
Mapped(c, source) ==
  [src |-> source, ext |-> c.id, link |-> c.link, name |-> c.name,
   status |-> IF c.verified THEN "verified" ELSE None, raw |-> "payload"]

HasIdentity(c) == c.email # None \/ c.link # None \/ c.name # None

\* Mutant: a contact with any anchor may become a lead.
AnyAnchor(c) == HasIdentity(c)

\* Lead.email is never empty.
Creatable(c) == c.email # None

\* Mutant: the email is tried before the external id.
EmailFirst == <<"email", "ext", "link", "name">>

Priority == <<"ext", "email", "link", "name">>

\* Mutant: the leads of all workspaces are searched.
Anywhere(ws, source, c, key) ==
  {l \in DOMAIN leads :
     CASE key = "ext"   -> c.id # None /\ leads[l].src = source /\ leads[l].ext = c.id
       [] key = "email" -> c.email # None /\ l[2] = c.email
       [] key = "link"  -> c.link # None /\ leads[l].link = c.link
       [] key = "name"  -> c.name # None /\ leads[l].name = c.name}

\* One of the four queries.
ByKey(ws, source, c, key) ==
  {l \in DOMAIN leads :
     /\ l[1] = ws
     /\ CASE key = "ext"   -> c.id # None /\ leads[l].src = source /\ leads[l].ext = c.id
          [] key = "email" -> c.email # None /\ l[2] = c.email
          [] key = "link"  -> c.link # None /\ leads[l].link = c.link
          [] key = "name"  -> c.name # None /\ leads[l].name = c.name}

\* The answer of the first query that has one; several leads raise.
Existing(ws, source, c) ==
  LET answers == {k \in DOMAIN Priority : ByKey(ws, source, c, Priority[k]) # {}}
  IN IF answers = {} THEN {}
     ELSE ByKey(ws, source, c, Priority[CHOOSE k \in answers : \A j \in answers : k <= j])

-----------------------------------------------------------------------------
(* import_contacts *)

Current(i) == Head(imports[i].todo)

MappedBy(i) == Mapped(Current(i), imports[i].source)

Answer(i) == Existing(imports[i].ws, imports[i].source, Current(i))

Counted(counts, k) == [counts EXCEPT ![k] = @ + 1]

\* The contact is dealt with, and counted under k.
Passed(i, k) == [imports[i] EXCEPT !.pc = "next", !.todo = Tail(@),
                                   !.counts = Counted(imports[i].counts, k), !.found = NoKey,
                                   !.snap = NewLead]

Become(i, r) == imports' = [imports EXCEPT ![i] = r]

Finished(i) == done' = done \cup {<<imports[i].ws, Current(i)>>}

Writing(i) == imports[i].pc \in {"insert", "update"}

\* start_import_log, then the loop; the batch was fetched by run_import or comes
\* with the request of an API run.
StartImport(i, ws, source, batch) ==
  /\ imports[i].pc = "idle"
  /\ started < MaxImports
  /\ started' = started + 1
  /\ Become(i, [NoImport EXCEPT !.pc = "next", !.ws = ws, !.source = source,
                                !.todo = batch,
                                !.counts = [NoCounts EXCEPT !.fetched = Len(batch)],
                                !.log = "running"])
  /\ UNCHANGED <<leads, edits, faults, maker, done, blurred, replaced>>

\* No anchor, or no lead and no email to create one under.
SkipContact(i) ==
  /\ imports[i].pc = "next"
  /\ imports[i].todo # <<>>
  /\ \/ ~ HasIdentity(Current(i))
     \/ Answer(i) = {} /\ ~ Creatable(Current(i))
  /\ Become(i, Passed(i, "skipped"))
  /\ UNCHANGED <<leads, started, edits, faults, maker, done, blurred, replaced>>

\* The queries of the transaction: a lead to fill, or none and an insert.
FindExisting(i) ==
  LET r == imports[i]
      found == Answer(i)
  IN /\ r.pc = "next"
     /\ r.todo # <<>>
     /\ HasIdentity(Current(i))
     /\ \/ /\ found = {}
           /\ Creatable(Current(i))
           /\ Become(i, [r EXCEPT !.pc = "insert"])
        \/ \E l \in found :
             /\ Cardinality(found) = 1
             /\ Become(i, [r EXCEPT !.pc = "update", !.found = l, !.snap = leads[l]])
     /\ blurred' = IF \E j \in Importers \ {i} : Writing(j) /\ imports[j].ws = r.ws
                      THEN blurred \cup {r.ws} ELSE blurred
     /\ UNCHANGED <<leads, started, edits, faults, maker, done, replaced>>

\* scalar_one_or_none finds several, or a query fails: an error of this row only.
FindFailure(i) ==
  /\ imports[i].pc = "next"
  /\ imports[i].todo # <<>>
  /\ HasIdentity(Current(i))
  /\ \/ Cardinality(Answer(i)) > 1 /\ UNCHANGED faults
     \/ Fault
  /\ Become(i, Passed(i, "errors"))
  /\ UNCHANGED <<leads, started, edits, maker, done, blurred, replaced>>

\* Mutant: whatever the contact has is written, as an upload does.
AnyOffered(i) == {f \in Fields : MappedBy(i)[f] # None}

\* _update_missing_fields: empty when the lead was read, and the contact has it.
Missing(i) ==
  {f \in Fields : imports[i].snap[f] = None /\ MappedBy(i)[f] # None}

\* The UPDATE names the columns that were missing, whatever they hold by now.
Filled(i) ==
  [f \in Fields |-> IF f \in Missing(i) THEN MappedBy(i)[f]
                    ELSE leads[imports[i].found][f]]

\* SKIP_DUPLICATE when there was nothing to fill.
Outcome(i) == IF Missing(i) = {} THEN "skipped" ELSE "updated"

\* Id and source are filled one by one: an id may come under another source.
OtherSource(i) == "ext" \in Missing(i) /\ Filled(i).src # imports[i].source

UpdateLead(i) ==
  /\ imports[i].pc = "update"
  /\ leads' = [leads EXCEPT ![imports[i].found] = Filled(i)]
  /\ Become(i, Passed(i, Outcome(i)))
  /\ Finished(i)
  /\ blurred' = IF OtherSource(i) THEN blurred \cup {imports[i].ws} ELSE blurred
  /\ UNCHANGED <<started, edits, faults, maker, replaced>>

\* The commit fails when the contact is counted already: it counts twice.
UpdateFailure(i) ==
  /\ imports[i].pc = "update"
  /\ Fault
  /\ LET r == Passed(i, Outcome(i))
     IN Become(i, [r EXCEPT !.counts = Counted(r.counts, "errors"), !.failed = @ + 1])
  /\ UNCHANGED <<leads, started, edits, maker, done, blurred, replaced>>

InsertKey(i) == <<imports[i].ws, Current(i).email>>

\* Mutant: a lead somebody else has inserted since is taken for one's own.
TakenOver(i) ==
  /\ imports[i].pc = "insert"
  /\ LET r == Passed(i, "created")
     IN Become(i, [r EXCEPT !.ids = Append(@, InsertKey(i))])
  /\ leads' = Put(OneRow(InsertKey(i), MappedBy(i)), leads)
  /\ maker' = IF InsertKey(i) \in DOMAIN leads THEN maker
              ELSE Put(OneRow(InsertKey(i), i), maker)
  /\ Finished(i)
  /\ UNCHANGED <<started, edits, faults, blurred, replaced>>

\* flush and commit: the id is put on the list of created leads.
InsertLead(i) ==
  /\ imports[i].pc = "insert"
  /\ InsertKey(i) \notin DOMAIN leads
  /\ LET r == Passed(i, "created")
     IN Become(i, [r EXCEPT !.ids = Append(@, InsertKey(i))])
  /\ leads' = Put(OneRow(InsertKey(i), MappedBy(i)), leads)
  /\ maker' = Put(OneRow(InsertKey(i), i), maker)
  /\ Finished(i)
  /\ UNCHANGED <<started, edits, faults, blurred, replaced>>

\* The unique constraint refuses the row at the flush; or the commit fails after
\* it, when the contact is counted and the id, soon void, is on the list.
InsertFailure(i) ==
  /\ imports[i].pc = "insert"
  /\ \/ /\ InsertKey(i) \in DOMAIN leads
        /\ Become(i, Passed(i, "errors"))
        /\ UNCHANGED faults
     \/ /\ InsertKey(i) \notin DOMAIN leads
        /\ Fault
        /\ LET r == Passed(i, "created")
           IN Become(i, [r EXCEPT !.counts = Counted(r.counts, "errors"),
                                  !.ids = Append(@, NoKey), !.failed = @ + 1])
  /\ UNCHANGED <<leads, started, edits, maker, done, blurred, replaced>>

\* _finish_import; its failure is swallowed.
FinishImport(i) ==
  /\ imports[i].pc = "next"
  /\ imports[i].todo = <<>>
  /\ \/ /\ Become(i, [imports[i] EXCEPT !.pc = "idle", !.log = "completed"])
        /\ UNCHANGED faults
     \/ /\ Become(i, [imports[i] EXCEPT !.pc = "idle"])
        /\ Fault
  /\ UNCHANGED <<leads, started, edits, maker, done, blurred, replaced>>

\* The process dies; an open transaction is rolled back.
Crash(i) ==
  /\ imports[i].pc # "idle"
  /\ Fault
  /\ Become(i, [imports[i] EXCEPT !.pc = "idle", !.todo = <<>>, !.found = NoKey,
                                  !.snap = NewLead])
  /\ UNCHANGED <<leads, started, edits, maker, done, blurred, replaced>>

-----------------------------------------------------------------------------
(* ingest_writer: an upload is one transaction with a savepoint per row *)

Columns == {"email", "link", "name"}

Populated(row) == Cardinality({f \in Columns : row[f] # None})

\* _merge_rows: the gaps of the winner are filled from the loser.
MergeRows(winner, loser) ==
  [f \in Columns |-> IF winner[f] = None THEN loser[f] ELSE winner[f]]

\* The fuller row wins, the later one of two equally full ones.
Collide(row, seen) ==
  IF Populated(row) >= Populated(seen) THEN MergeRows(row, seen) ELSE MergeRows(seen, row)

\* A bucket without a row yet; it loses against any row and fills no gap.
NoRow == [f \in Columns |-> None]

\* A row of the file goes to the bucket of its own email only.
Bucketed(seen, row, email) == IF row.email = email THEN Collide(row, seen) ELSE seen

\* dedupe_within_file, for one email: what its rows of the file come to, from
\* the first one on.
Deduped(file, email) ==
  LET seen[n \in 0..Len(file)] ==
        IF n = 0 THEN NoRow ELSE Bucketed(seen[n - 1], file[n], email)
  IN  seen[Len(file)]

EmailsOf(file) == {file[n].email : n \in DOMAIN file} \ {None}

\* Mutant: an empty column of the file empties the field.
Blanks(lead, row) == [lead EXCEPT !.link = row.link, !.name = row.name]

\* _upsert_one on a lead: what the row has is written over what the lead has.
Overwritten(lead, row) ==
  [lead EXCEPT !.link = IF row.link = None THEN @ ELSE row.link,
               !.name = IF row.name = None THEN @ ELSE row.name]

\* The leads one_or_none is asked for: of one workspace, or of all without one.
Targets(ws, email) ==
  {l \in DOMAIN leads : l[2] = email /\ (ws = None \/ l[1] = ws)}

\* Where the row of an email goes: to its lead, to a new one, or nowhere when
\* there are several.
Target(ws, email) ==
  LET home == IF ws = None THEN DefaultWorkspace ELSE ws
      targets == Targets(ws, email)
  IN IF targets = {} THEN {<<home, email>>}
     ELSE {l \in targets : Cardinality(targets) = 1}

\* ingest_rows and the commit.  Rows without an email are skipped.
Upload(ws, file) ==
  LET landed == UNION {Target(ws, e) : e \in EmailsOf(file)}
      new == [l \in landed |->
                Overwritten(IF l \in DOMAIN leads THEN leads[l] ELSE NewLead,
                            Deduped(file, l[2]))]
      replacing == {l \in landed \cap DOMAIN leads :
                      \E f \in {"link", "name"} :
                        leads[l][f] # None /\ new[l][f] # leads[l][f]}
  IN /\ Edit
     /\ leads' = Put(new, leads)
     /\ maker' = Put([l \in landed \ DOMAIN leads |-> None], maker)
     /\ replaced' = replaced \cup {l[1] : l \in replacing}
     /\ UNCHANGED <<imports, started, faults, done, blurred>>

-----------------------------------------------------------------------------
(* The rest of the program *)

\* The webhook's _find_or_create_lead: a minimal lead, if there is none; when
\* another transaction is faster, its lead is taken.
FindOrCreateLead(ws, email) ==
  /\ Edit
  /\ <<ws, email>> \notin DOMAIN leads
  /\ leads' = Put(OneRow(<<ws, email>>, NewLead), leads)
  /\ maker' = Put(OneRow(<<ws, email>>, None), maker)
  /\ UNCHANGED <<imports, started, faults, done, blurred, replaced>>

\* verify_email, before a push, caches its verdict on the lead.
CacheVerdict(l, status) ==
  /\ Edit
  /\ leads[l].status = None
  /\ leads' = [leads EXCEPT ![l].status = status]
  /\ UNCHANGED <<imports, started, faults, maker, done, blurred, replaced>>

-----------------------------------------------------------------------------
Init ==
  /\ leads = [l \in {} |-> NewLead]
  /\ imports = [i \in Importers |-> NoImport]
  /\ started = 0
  /\ edits = 0
  /\ faults = 0
  /\ maker = [l \in {} |-> None]
  /\ done = {}
  /\ blurred = {}
  /\ replaced = {}

ImportStep(i) ==
  \/ SkipContact(i)
  \/ FindExisting(i)
  \/ FindFailure(i)
  \/ UpdateLead(i)
  \/ UpdateFailure(i)
  \/ InsertLead(i)
  \/ InsertFailure(i)
  \/ FinishImport(i)
  \/ Crash(i)

Others ==
  \/ \E ws \in Workspaces \cup {None}, file \in Files : Upload(ws, file)
  \/ \E ws \in Workspaces, email \in Emails : FindOrCreateLead(ws, email)
  \/ \E l \in DOMAIN leads, status \in {"verified", "invalid"} : CacheVerdict(l, status)

Next ==
  \/ \E i \in Importers, ws \in Workspaces, source \in Sources, batch \in Batches :
       StartImport(i, ws, source, batch)
  \/ \E i \in Importers : ImportStep(i)
  \/ Others

Spec == Init /\ [][Next]_vars

-----------------------------------------------------------------------------
(* Properties *)

\* The contact that import i deals with in this step, if any.
Deals(i) == imports[i].todo # <<>> /\ imports'[i].todo # imports[i].todo

\* An import never overwrites a populated field (ingest.py:5), unless somebody
\* wrote to the lead between its query and its UPDATE, and writes to leads of its
\* own workspace only.  No writer, uploads included, ever empties a field.
FieldsKept ==
  [][/\ \A l \in DOMAIN leads, f \in Fields :
          leads[l][f] # None => leads'[l][f] # None
     /\ \A i \in Importers : Deals(i) =>
          \A l \in DOMAIN leads : leads'[l] # leads[l] =>
            /\ l[1] = imports[i].ws
            /\ \/ imports[i].snap # leads[l]
               \/ \A f \in Fields : leads[l][f] \in {None, leads'[l][f]}]_vars

SameId(l, m) ==
  leads[l].ext # None /\ <<leads[l].src, leads[l].ext>> = <<leads[m].src, leads[m].ext>>

Recognizes(l, c) ==
  \/ c.email # None /\ l[2] = c.email
  \/ c.id # None /\ leads[l].ext = c.id
  \/ c.link # None /\ leads[l].link = c.link
  \/ c.name # None /\ leads[l].name = c.name

\* An external id stands for one lead of a workspace, whichever keys the contact
\* has changed in the source or shares with others; and a contact once imported is
\* recognized again, not created anew.  Overlapping imports may break both, an id
\* filled in under another source the former, an upload that replaces a link or a
\* name the latter.
KeysTell ==
  \A ws \in Workspaces \ blurred :
    /\ \A l, m \in DOMAIN leads :
         l[1] = ws /\ m[1] = ws /\ SameId(l, m) => l = m
    /\ ws \notin replaced =>
         \A d \in done : d[1] = ws =>
           \E l \in DOMAIN leads : l[1] = ws /\ Recognizes(l, d[2])

Dealt(i) ==
  LET n == imports[i].counts IN n.created + n.updated + n.skipped + n.errors

\* However imports overlap, the list of created leads, which are then scored and
\* written to, names leads this import has inserted, each once: no lead is on two
\* lists.  The counts of the import log add up to the contacts fetched; only a
\* contact whose commit failed counts twice.
ListsAndCountsTrue ==
  \A i \in Importers :
    LET r == imports[i] IN
    /\ \A n \in DOMAIN r.ids : r.ids[n] # NoKey =>
         /\ maker[r.ids[n]] = i
         /\ \A m \in DOMAIN r.ids : r.ids[m] = r.ids[n] => m = n
    /\ r.pc # "idle" \/ r.log = "completed" =>
         Dealt(i) + Len(r.todo) \in r.counts.fetched .. r.counts.fetched + r.failed
=============================================================================
