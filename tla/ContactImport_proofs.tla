------------------------ MODULE ContactImport_proofs ------------------------
(* Proofs about ContactImport: what the lists and counts of an import say,   *)
(* which fields its writes keep, what the keys of a contact tell, and types. *)
EXTENDS ContactImport, TLAPS, SequenceTheorems, WellFoundedInduction

\* What the counters add up to.
Tally(n) == n.created + n.updated + n.skipped + n.errors

-----------------------------------------------------------------------------
(* Types, as far as lists and keys need them.  What the fields of a lead     *)
(* hold is added at the end, where the rows of an upload are followed.       *)

ImportFields == {"pc", "ws", "source", "todo", "found", "snap", "counts", "ids",
                 "failed", "log"}

Framed(r) ==
  /\ DOMAIN r = ImportFields
  /\ r.pc \in {"idle", "next", "insert", "update"}
  /\ r.ws \in Workspaces
  /\ r.todo \in Seq(Contact)
  /\ r.counts \in [Counter -> Nat]
  /\ r.ids \in Seq(Keys \cup {NoKey})
  /\ r.failed \in Nat

\* An import at work has a source and an open log; its transaction has a contact,
\* which may become a lead if none is found.
AtWork(r, table) ==
  /\ r.pc # "idle" => r.source \in Sources /\ r.log = "running"
  /\ r.pc \in {"insert", "update"} => r.todo # <<>>
  /\ r.pc = "insert" => Head(r.todo).email \in Emails
  /\ r.pc = "update" => r.found \in DOMAIN table /\ r.found[1] = r.ws

Tables ==
  /\ DOMAIN leads \subseteq Keys
  /\ \A l \in DOMAIN leads : DOMAIN leads[l] = Fields
  /\ DOMAIN maker = DOMAIN leads

Typed ==
  /\ Tables
  /\ DOMAIN imports = Importers
  /\ \A i \in Importers : Framed(imports[i]) /\ AtWork(imports[i], leads)

\* Import i is the only one that moves, and this is what has become of it.
LEMMA Becomes ==
  ASSUME Typed, NEW i \in Importers, NEW r, Become(i, r)
  PROVE  /\ DOMAIN imports' = Importers
         /\ imports'[i] = r
         /\ \A j \in Importers : j # i => imports'[j] = imports[j]
BY DEF Typed, Become

LEMMA Stays ==
  ASSUME Typed, UNCHANGED imports
  PROVE  /\ DOMAIN imports' = Importers
         /\ \A j \in Importers : imports'[j] = imports[j]
BY DEF Typed

\* The next contact has been dealt with; n is 1 if its commit failed.
Passes(r, q, n) ==
  /\ DOMAIN q = ImportFields
  /\ q.pc = "next"
  /\ q.ws = r.ws
  /\ q.source = r.source
  /\ q.todo = Tail(r.todo)
  /\ q.found = NoKey
  /\ q.counts \in [Counter -> Nat]
  /\ q.counts.fetched = r.counts.fetched
  /\ Tally(q.counts) = Tally(r.counts) + 1 + n
  /\ q.failed = r.failed + n
  /\ q.log = r.log

LEMMA CountedOne ==
  ASSUME NEW counts \in [Counter -> Nat], NEW k \in Counter \ {"fetched"}
  PROVE  /\ Counted(counts, k) \in [Counter -> Nat]
         /\ Counted(counts, k).fetched = counts.fetched
         /\ Tally(Counted(counts, k)) = Tally(counts) + 1
         /\ Tally(counts) \in Nat
<1> DEFINE new == Counted(counts, k)
<1>1. new = [counts EXCEPT ![k] = counts[k] + 1] /\ k \in Counter
  BY DEF Counted
<1>2. new \in [Counter -> Nat]
  BY <1>1
<1>3. \A m \in Counter : new[m] = IF m = k THEN counts[k] + 1 ELSE counts[m]
  BY <1>1
<1>4. \A m \in Counter : counts[m] \in Nat
  OBVIOUS
<1> HIDE DEF new
<1>5. Counter = {"fetched", "created", "updated", "skipped", "errors"}
  BY DEF Counter
<1>6. /\ "fetched" \in Counter /\ "created" \in Counter /\ "updated" \in Counter
      /\ "skipped" \in Counter /\ "errors" \in Counter
  BY <1>5
<1>7. new.fetched = counts.fetched
  BY <1>3, <1>6
<1>8. Tally(new) = Tally(counts) + 1 /\ Tally(counts) \in Nat
  <2>1. k \in {"created", "updated", "skipped", "errors"}
    BY <1>5
  <2>2. /\ new.created = (IF k = "created" THEN counts.created + 1 ELSE counts.created)
        /\ new.updated = (IF k = "updated" THEN counts.updated + 1 ELSE counts.updated)
        /\ new.skipped = (IF k = "skipped" THEN counts.skipped + 1 ELSE counts.skipped)
        /\ new.errors = (IF k = "errors" THEN counts.errors + 1 ELSE counts.errors)
    BY <1>3, <1>6
  <2>3. /\ counts.created \in Nat /\ counts.updated \in Nat
        /\ counts.skipped \in Nat /\ counts.errors \in Nat
    BY <1>4, <1>6
  <2> QED BY <2>1, <2>2, <2>3 DEF Tally
<1> QED BY <1>2, <1>7, <1>8 DEF new

LEMMA PassedOnce ==
  ASSUME Typed, NEW i \in Importers, NEW k \in Counter \ {"fetched"}
  PROVE  Passes(imports[i], Passed(i, k), 0) /\ Passed(i, k).ids = imports[i].ids
<1> DEFINE r == imports[i]
           q == Passed(i, k)
<1>1. DOMAIN r = ImportFields /\ r.counts \in [Counter -> Nat] /\ r.failed \in Nat
  BY DEF Typed, Framed
<1>2. /\ Counted(r.counts, k) \in [Counter -> Nat]
      /\ Counted(r.counts, k).fetched = r.counts.fetched
      /\ Tally(Counted(r.counts, k)) = Tally(r.counts) + 1
      /\ Tally(r.counts) \in Nat
  BY <1>1, CountedOne
<1>3. q = [r EXCEPT !.pc = "next", !.todo = Tail(r.todo), !.counts = Counted(r.counts, k),
                    !.found = NoKey, !.snap = NewLead]
  BY DEF Passed
<1>4. /\ DOMAIN q = ImportFields
      /\ q.pc = "next" /\ q.ws = r.ws /\ q.source = r.source /\ q.todo = Tail(r.todo)
      /\ q.counts = Counted(r.counts, k) /\ q.ids = r.ids
      /\ q.failed = r.failed /\ q.log = r.log /\ q.found = NoKey
  BY <1>1, <1>3 DEF ImportFields
<1> HIDE DEF q, r
<1> QED BY <1>1, <1>2, <1>4 DEF Passes, q, r

\* The contact is counted again as an error.
FailedToo(p, q) ==
  /\ DOMAIN q = DOMAIN p
  /\ \A f \in ImportFields \ {"counts", "failed", "ids"} : q[f] = p[f]
  /\ q.counts = Counted(p.counts, "errors")
  /\ q.failed = p.failed + 1

LEMMA PassedTwice ==
  ASSUME Typed, NEW i \in Importers, NEW k \in Counter \ {"fetched"}, NEW q,
         FailedToo(Passed(i, k), q)
  PROVE  Passes(imports[i], q, 1)
<1> DEFINE r == imports[i]
           p == Passed(i, k)
<1>1. r.failed \in Nat /\ r.counts \in [Counter -> Nat]
  BY DEF Typed, Framed
<1>2. Passes(r, p, 0) /\ p.ids = r.ids
  BY PassedOnce
<1> HIDE DEF p
<1>3. /\ q.pc = p.pc /\ q.ws = p.ws /\ q.source = p.source /\ q.todo = p.todo
      /\ q.counts = Counted(p.counts, "errors")
      /\ q.failed = p.failed + 1 /\ q.log = p.log /\ q.found = p.found
      /\ DOMAIN q = ImportFields
  BY <1>2 DEF FailedToo, Passes, ImportFields, p
<1>4. "errors" \in Counter \ {"fetched"}
  BY DEF Counter
<1>5. /\ p.counts \in [Counter -> Nat]
      /\ Tally(p.counts) = Tally(r.counts) + 1
      /\ p.counts.fetched = r.counts.fetched
      /\ p.failed = r.failed
  <2>1. Tally(r.counts) \in Nat
    BY <1>1, <1>4, CountedOne
  <2> QED BY <1>1, <1>2, <2>1 DEF Passes
<1>6. /\ Counted(p.counts, "errors") \in [Counter -> Nat]
      /\ Counted(p.counts, "errors").fetched = p.counts.fetched
      /\ Tally(Counted(p.counts, "errors")) = Tally(p.counts) + 1
      /\ Tally(p.counts) \in Nat
  BY <1>4, <1>5, CountedOne
<1>7. Tally(r.counts) \in Nat
  BY <1>1, <1>4, CountedOne
<1> HIDE DEF r
<1>8. Tally(q.counts) = Tally(r.counts) + 1 + 1 /\ q.counts.fetched = r.counts.fetched
      /\ q.counts \in [Counter -> Nat] /\ q.failed = r.failed + 1
  BY <1>3, <1>5, <1>6, <1>7
<1> QED BY <1>2, <1>3, <1>8 DEF Passes, r

-----------------------------------------------------------------------------
(* Tables only grow *)

\* Rows are inserted under the given keys.
Grown(keys) ==
  /\ keys \subseteq Keys
  /\ DOMAIN leads' = DOMAIN leads \cup keys
  /\ DOMAIN maker' = DOMAIN leads'
  /\ \A l \in DOMAIN leads : maker'[l] = maker[l]
  /\ \A l \in DOMAIN leads' : DOMAIN leads'[l] = Fields

LEMMA SameGrown ==
  ASSUME Typed, UNCHANGED <<leads, maker>>
  PROVE  Grown({})
BY DEF Typed, Tables, Grown

LEMMA MappedFields ==
  ASSUME NEW c, NEW source
  PROVE  DOMAIN Mapped(c, source) = Fields
BY DEF Mapped, Fields

LEMMA NewLeadFields == DOMAIN NewLead = Fields
BY DEF NewLead

LEMMA InsertGrown ==
  ASSUME Typed, NEW key \in Keys, key \notin DOMAIN leads,
         NEW row, DOMAIN row = Fields, NEW who,
         leads' = Put(OneRow(key, row), leads), maker' = Put(OneRow(key, who), maker)
  PROVE  Grown({key})
<1>1. /\ DOMAIN leads' = {key} \cup DOMAIN leads /\ leads'[key] = row
      /\ \A l \in DOMAIN leads : leads'[l] = leads[l]
  BY DEF Put, OneRow
<1>2. /\ DOMAIN maker' = {key} \cup DOMAIN leads
      /\ \A l \in DOMAIN leads : maker'[l] = maker[l]
  BY DEF Put, OneRow, Typed, Tables
<1> QED BY <1>1, <1>2 DEF Typed, Tables, Grown

LEMMA FillGrown ==
  ASSUME Typed, NEW key, NEW row, DOMAIN row = Fields,
         leads' = [leads EXCEPT ![key] = row], UNCHANGED maker
  PROVE  Grown({})
BY DEF Typed, Tables, Grown

LEMMA UpdateGrown ==
  ASSUME Typed, NEW i \in Importers, UpdateLead(i)
  PROVE  Grown({})
<1>1. DOMAIN Filled(i) = Fields
  BY DEF Filled
<1> QED BY <1>1, FillGrown DEF UpdateLead

LEMMA InsertLeadGrown ==
  ASSUME Typed, NEW i \in Importers, InsertLead(i)
  PROVE  InsertKey(i) \in Keys /\ Grown({InsertKey(i)})
<1>1. InsertKey(i) \in Keys /\ InsertKey(i) \notin DOMAIN leads
  BY DEF InsertLead, InsertKey, Current, Typed, Framed, AtWork, Keys
<1>2. DOMAIN MappedBy(i) = Fields
  BY MappedFields DEF MappedBy
<1> QED BY <1>1, <1>2, InsertGrown DEF InsertLead

\* Where the rows of an upload land.
LEMMA Landing ==
  ASSUME Typed, NEW ws \in Workspaces \cup {None}, NEW file \in Files,
         NEW l \in UNION {Target(ws, e) : e \in EmailsOf(file)}
  PROVE  l \in Keys
<1>1. PICK e \in EmailsOf(file) : l \in Target(ws, e)
  OBVIOUS
<1>2. e \in Emails
  <2>1. file \in Seq(FileRow)
    BY ContactImportAssumption
  <2>2. \A n \in DOMAIN file : file[n] \in FileRow
    BY <2>1
  <2> QED BY <1>1, <2>2 DEF EmailsOf, FileRow
<1>3. DefaultWorkspace \in Workspaces
  BY ContactImportAssumption
<1> QED BY <1>1, <1>2, <1>3 DEF Target, Targets, Typed, Tables, Keys

LEMMA OverwrittenFields ==
  ASSUME NEW lead, NEW row, DOMAIN lead = Fields
  PROVE  /\ DOMAIN Overwritten(lead, row) = Fields
         /\ \A f \in Fields \ {"link", "name"} : Overwritten(lead, row)[f] = lead[f]
         /\ \A f \in {"link", "name"} :
              \/ Overwritten(lead, row)[f] = lead[f]
              \/ Overwritten(lead, row)[f] # None
BY DEF Overwritten, Fields

\* An upload keeps all but the links and the names of the leads there are.
LEMMA UploadEffect ==
  ASSUME Typed, NEW ws \in Workspaces \cup {None}, NEW file \in Files, Upload(ws, file)
  PROVE  /\ \E keys \in SUBSET Keys : Grown(keys)
         /\ \A l \in DOMAIN leads :
              /\ \A f \in Fields \ {"link", "name"} : leads'[l][f] = leads[l][f]
              /\ \A f \in {"link", "name"} :
                   \/ leads'[l][f] = leads[l][f]
                   \/ /\ leads'[l][f] # None
                      /\ leads[l][f] # None => l[1] \in replaced'
         /\ \A l \in DOMAIN leads' \ DOMAIN leads : leads'[l].ext = None
         /\ replaced \subseteq replaced'
         /\ UNCHANGED <<imports, done, blurred>>
<1> DEFINE landed == UNION {Target(ws, e) : e \in EmailsOf(file)}
           old(l) == IF l \in DOMAIN leads THEN leads[l] ELSE NewLead
           new == [l \in landed |-> Overwritten(old(l), Deduped(file, l[2]))]
           none == [l \in landed \ DOMAIN leads |-> None]
           replacing == {l \in landed \cap DOMAIN leads :
                           \E f \in {"link", "name"} :
                             leads[l][f] # None /\ new[l][f] # leads[l][f]}
<1>1. /\ leads' = Put(new, leads) /\ maker' = Put(none, maker)
      /\ replaced' = replaced \cup {l[1] : l \in replacing}
      /\ UNCHANGED <<imports, done, blurred>>
  BY DEF Upload
<1>2. landed \subseteq Keys
  BY Landing
<1>3. DOMAIN new = landed /\ DOMAIN none = landed \ DOMAIN leads
  OBVIOUS
<1>4. ASSUME NEW l \in landed
      PROVE  /\ DOMAIN new[l] = Fields
             /\ \A f \in Fields \ {"link", "name"} : new[l][f] = old(l)[f]
             /\ \A f \in {"link", "name"} : new[l][f] = old(l)[f] \/ new[l][f] # None
  <2>1. DOMAIN old(l) = Fields
    BY NewLeadFields DEF Typed, Tables
  <2>2. new[l] = Overwritten(old(l), Deduped(file, l[2]))
    OBVIOUS
  <2> HIDE DEF old, new
  <2> QED BY <2>1, <2>2, OverwrittenFields
<1>old. \A l : l \in DOMAIN leads => old(l) = leads[l]
  OBVIOUS
<1>older. \A l : l \notin DOMAIN leads => old(l) = NewLead
  OBVIOUS
<1>rep. \A l \in landed \cap DOMAIN leads, f \in {"link", "name"} :
          leads[l][f] # None /\ new[l][f] # leads[l][f] => l[1] \in replaced'
  <2> SUFFICES ASSUME NEW l \in landed \cap DOMAIN leads, NEW f \in {"link", "name"},
                      leads[l][f] # None, new[l][f] # leads[l][f]
               PROVE  l[1] \in replaced'
    OBVIOUS
  <2>1. l \in replacing
    OBVIOUS
  <2> HIDE DEF replacing
  <2> QED BY <2>1, <1>1
<1>sub. replaced \subseteq replaced'
  BY <1>1
<1> HIDE DEF new, none, landed, old, replacing
<1>5. /\ DOMAIN leads' = landed \cup DOMAIN leads
      /\ \A l \in landed : leads'[l] = new[l]
      /\ \A l \in DOMAIN leads : l \notin landed => leads'[l] = leads[l]
  BY <1>1, <1>3 DEF Put
<1>6. /\ DOMAIN maker' = landed \cup DOMAIN leads
      /\ \A l \in DOMAIN leads : maker'[l] = maker[l]
  BY <1>1, <1>3 DEF Put, Typed, Tables
<1>7. Grown(landed)
  BY <1>2, <1>4, <1>5, <1>6 DEF Typed, Tables, Grown
<1>8. ASSUME NEW l \in DOMAIN leads
      PROVE  /\ \A f \in Fields \ {"link", "name"} : leads'[l][f] = leads[l][f]
             /\ \A f \in {"link", "name"} :
                  \/ leads'[l][f] = leads[l][f]
                  \/ /\ leads'[l][f] # None
                     /\ leads[l][f] # None => l[1] \in replaced'
  <2>1. CASE l \notin landed
    BY <2>1, <1>5
  <2>2. CASE l \in landed
    BY <2>2, <1>4, <1>5, <1>old, <1>rep
  <2> QED BY <2>1, <2>2
<1>9. ASSUME NEW l \in DOMAIN leads' \ DOMAIN leads
      PROVE  leads'[l].ext = None
  <2>1. "ext" \in Fields \ {"link", "name"} /\ NewLead["ext"] = None
    BY DEF Fields, NewLead
  <2> QED BY <2>1, <1>4, <1>5, <1>older
<1> QED BY <1>1, <1>2, <1>7, <1>8, <1>9, <1>sub

-----------------------------------------------------------------------------
(* Lists and counts *)

\* The ids on the list of an import; who has made the leads.
Listing(i, r, who) ==
  \A n \in DOMAIN r.ids : r.ids[n] # NoKey =>
    /\ r.ids[n] \in DOMAIN who
    /\ who[r.ids[n]] = i
    /\ \A m \in DOMAIN r.ids : r.ids[m] = r.ids[n] => m = n

\* What is counted and what is still to do.
Counting(r) ==
  r.pc # "idle" \/ r.log = "completed" =>
    Tally(r.counts) + Len(r.todo) \in r.counts.fetched .. r.counts.fetched + r.failed

Sound(i, r, table, who) ==
  /\ Framed(r)
  /\ AtWork(r, table)
  /\ Counting(r)
  /\ Listing(i, r, who)

ListsInv ==
  /\ Tables
  /\ DOMAIN imports = Importers
  /\ \A i \in Importers : Sound(i, imports[i], leads, maker)

LEMMA ListsTyped == ASSUME ListsInv PROVE Typed
BY DEF ListsInv, Sound, Typed

\* What is sound stays so while the tables grow.
LEMMA SoundStays ==
  ASSUME Typed, NEW i \in Importers, NEW r, Sound(i, r, leads, maker),
         NEW keys, Grown(keys)
  PROVE  Sound(i, r, leads', maker')
<1>1. AtWork(r, leads')
  BY DEF Sound, AtWork, Grown
<1>2. Listing(i, r, maker')
  BY DEF Sound, Listing, Grown, Typed, Tables
<1> QED BY <1>1, <1>2 DEF Sound

LEMMA SameIds ==
  ASSUME NEW i \in Importers, NEW r, NEW who, Listing(i, r, who), NEW q, q.ids = r.ids
  PROVE  Listing(i, q, who)
BY DEF Listing

LEMMA PassesFramed ==
  ASSUME NEW r, Framed(r), r.todo # <<>>, NEW q, NEW n \in {0, 1}, Passes(r, q, n),
         q.ids \in Seq(Keys \cup {NoKey})
  PROVE  Framed(q)
<1>1. Tail(r.todo) \in Seq(Contact)
  BY HeadTailProperties DEF Framed
<1> QED BY <1>1 DEF Framed, Passes

LEMMA PassesCounting ==
  ASSUME NEW r, Framed(r), r.todo # <<>>, r.pc # "idle", Counting(r),
         NEW q, NEW n \in {0, 1}, Passes(r, q, n)
  PROVE  Counting(q)
<1>1. Len(Tail(r.todo)) = Len(r.todo) - 1 /\ Len(r.todo) \in Nat
  BY LenProperties, HeadTailProperties DEF Framed
<1>2. Tally(r.counts) \in Nat /\ r.counts.fetched \in Nat /\ r.failed \in Nat
  <2>1. "created" \in Counter \ {"fetched"} /\ "fetched" \in Counter
    BY DEF Counter
  <2> QED BY <2>1, CountedOne DEF Framed
<1>3. /\ Tally(r.counts) + Len(r.todo) >= r.counts.fetched
      /\ Tally(r.counts) + Len(r.todo) <= r.counts.fetched + r.failed
  BY <1>1, <1>2 DEF Counting
<1>4. /\ Tally(q.counts) = Tally(r.counts) + 1 + n
      /\ q.counts.fetched = r.counts.fetched
      /\ q.failed = r.failed + n
      /\ q.todo = Tail(r.todo)
  BY DEF Passes
<1> DEFINE x == Tally(r.counts)
           y == Len(r.todo)
           z == r.counts.fetched
           w == r.failed
<1>5. /\ x \in Nat /\ y \in Nat /\ z \in Nat /\ w \in Nat
      /\ z <= x + y /\ x + y <= z + w
  BY <1>1, <1>2, <1>3
<1>6. /\ Tally(q.counts) = x + 1 + n /\ Len(q.todo) = y - 1
      /\ q.counts.fetched = z /\ q.failed = w + n
  BY <1>1, <1>4
<1> HIDE DEF x, y, z, w
<1>7. (x + 1 + n) + (y - 1) \in z .. z + (w + n)
  BY <1>5
<1> QED BY <1>6, <1>7 DEF Counting

LEMMA PassesSound ==
  ASSUME NEW i \in Importers, NEW r, NEW table, NEW who,
         Framed(r), AtWork(r, table), Counting(r), r.todo # <<>>, r.pc # "idle",
         NEW q, NEW n \in {0, 1}, Passes(r, q, n),
         q.ids \in Seq(Keys \cup {NoKey}), Listing(i, q, who)
  PROVE  Sound(i, q, table, who)
<1>1. Framed(q)
  BY PassesFramed
<1>2. Counting(q)
  BY PassesCounting
<1>3. AtWork(q, table)
  BY DEF AtWork, Passes
<1> QED BY <1>1, <1>2, <1>3 DEF Sound

\* A contact is passed, and no lead is put on the list.
LEMMA PassSound ==
  ASSUME ListsInv, NEW i \in Importers, imports[i].todo # <<>>, imports[i].pc # "idle",
         NEW q, NEW n \in {0, 1}, Passes(imports[i], q, n), q.ids = imports[i].ids
  PROVE  Sound(i, q, leads, maker)
<1>1. Sound(i, imports[i], leads, maker)
  BY DEF ListsInv
<1>2. Listing(i, q, maker)
  BY <1>1, SameIds DEF Sound
<1>3. q.ids \in Seq(Keys \cup {NoKey})
  BY <1>1 DEF Sound, Framed
<1> QED BY <1>1, <1>2, <1>3, PassesSound DEF Sound

\* Import i becomes r, which is sound, and the tables grow.
LEMMA ListsBecome ==
  ASSUME ListsInv, NEW i \in Importers, NEW r, Become(i, r), NEW keys, Grown(keys),
         Sound(i, r, leads', maker')
  PROVE  ListsInv'
<1>1. Typed
  BY ListsTyped
<1>2. /\ DOMAIN imports' = Importers
      /\ imports'[i] = r
      /\ \A j \in Importers : j # i => imports'[j] = imports[j]
  BY <1>1, Becomes
<1>3. \A j \in Importers : Sound(j, imports[j], leads, maker)
  BY DEF ListsInv
<1>4. \A j \in Importers : Sound(j, imports[j], leads', maker')
  BY <1>1, <1>3, SoundStays
<1>5. \A j \in Importers : Sound(j, imports'[j], leads', maker')
  BY <1>2, <1>4
<1>6. Tables'
  BY <1>1 DEF Grown, Tables, Typed
<1> QED BY <1>2, <1>5, <1>6 DEF ListsInv

\* Nothing but the import moves.
LEMMA ListsMove ==
  ASSUME ListsInv, NEW i \in Importers, NEW r, Become(i, r), Sound(i, r, leads, maker),
         UNCHANGED <<leads, maker>>
  PROVE  ListsInv'
<1>1. Grown({})
  BY ListsTyped, SameGrown
<1>2. Sound(i, r, leads', maker')
  BY ListsTyped, <1>1, SoundStays
<1> QED BY <1>1, <1>2, ListsBecome

\* No import moves.
LEMMA ListsRest ==
  ASSUME ListsInv, UNCHANGED imports, NEW keys, Grown(keys)
  PROVE  ListsInv'
<1>1. Typed
  BY ListsTyped
<1>2. \A j \in Importers : Sound(j, imports[j], leads', maker')
  BY <1>1, SoundStays DEF ListsInv
<1>3. Tables'
  BY <1>1 DEF Grown, Tables, Typed
<1> QED BY <1>2, <1>3, Stays, <1>1 DEF ListsInv

\* The row of an import that begins.
Begun(ws, source, batch) ==
  [NoImport EXCEPT !.pc = "next", !.ws = ws, !.source = source, !.todo = batch,
                   !.counts = [NoCounts EXCEPT !.fetched = Len(batch)],
                   !.log = "running"]

LEMMA StartMove ==
  ASSUME NEW i \in Importers, NEW ws, NEW source, NEW batch,
         StartImport(i, ws, source, batch)
  PROVE  Become(i, Begun(ws, source, batch)) /\ UNCHANGED <<leads, maker>>
BY DEF StartImport, Begun

LEMMA BegunSound ==
  ASSUME NEW i \in Importers, NEW ws \in Workspaces, NEW source \in Sources,
         NEW batch \in Batches, NEW table, NEW who
  PROVE  Sound(i, Begun(ws, source, batch), table, who)
<1> DEFINE n == [NoCounts EXCEPT !.fetched = Len(batch)]
           q == Begun(ws, source, batch)
<1>1. batch \in Seq(Contact) /\ Len(batch) \in Nat
  BY ContactImportAssumption, LenProperties
<1>2. /\ n \in [Counter -> Nat] /\ n.fetched = Len(batch)
      /\ n.created = 0 /\ n.updated = 0 /\ n.skipped = 0 /\ n.errors = 0
  BY <1>1 DEF NoCounts, Counter
<1>3. q = [NoImport EXCEPT !.pc = "next", !.ws = ws, !.source = source, !.todo = batch,
                           !.counts = n, !.log = "running"]
  BY DEF Begun
<1> HIDE DEF n, q
<1>4. DOMAIN q = ImportFields
  BY <1>3 DEF NoImport, ImportFields
<1>5. /\ q.pc = "next" /\ q.ws = ws /\ q.source = source /\ q.todo = batch
      /\ q.counts = n /\ q.ids = <<>> /\ q.failed = 0 /\ q.log = "running"
  BY <1>3 DEF NoImport
<1>6. Framed(q)
  BY <1>1, <1>2, <1>4, <1>5 DEF Framed
<1>7. AtWork(q, table)
  BY <1>5 DEF AtWork
<1>8. Counting(q)
  <2>1. Tally(q.counts) = 0
    <3>1. Tally(n) = 0
      BY <1>2 DEF Tally
    <3> QED BY <1>5, <3>1
  <2>2. 0 + Len(batch) \in Len(batch) .. Len(batch) + 0
    BY <1>1
  <2>3. q.counts.fetched = Len(batch) /\ q.failed = 0 /\ q.todo = batch
    BY <1>2, <1>5
  <2>4. Tally(q.counts) + Len(q.todo) \in
             q.counts.fetched .. q.counts.fetched + q.failed
    BY <2>1, <2>2, <2>3
  <2> QED BY <2>4 DEF Counting
<1>9. Listing(i, q, who)
  BY <1>5 DEF Listing
<1> QED BY <1>6, <1>7, <1>8, <1>9 DEF Sound, q

LEMMA StartLists ==
  ASSUME ListsInv, NEW i \in Importers, NEW ws \in Workspaces, NEW source \in Sources,
         NEW batch \in Batches, StartImport(i, ws, source, batch)
  PROVE  ListsInv'
BY StartMove, BegunSound, ListsMove

LEMMA SkipLists ==
  ASSUME ListsInv, NEW i \in Importers, SkipContact(i)
  PROVE  ListsInv'
<1>1. /\ imports[i].pc = "next" /\ imports[i].todo # <<>>
      /\ Become(i, Passed(i, "skipped")) /\ UNCHANGED <<leads, maker>>
  BY DEF SkipContact
<1>2. "skipped" \in Counter \ {"fetched"}
  BY DEF Counter
<1>3. Sound(i, Passed(i, "skipped"), leads, maker)
  BY <1>1, <1>2, ListsTyped, PassedOnce, PassSound
<1> QED BY <1>1, <1>3, ListsMove

LEMMA FindFailureLists ==
  ASSUME ListsInv, NEW i \in Importers, FindFailure(i)
  PROVE  ListsInv'
<1>1. /\ imports[i].pc = "next" /\ imports[i].todo # <<>>
      /\ Become(i, Passed(i, "errors")) /\ UNCHANGED <<leads, maker>>
  BY DEF FindFailure
<1>2. "errors" \in Counter \ {"fetched"}
  BY DEF Counter
<1>3. Sound(i, Passed(i, "errors"), leads, maker)
  BY <1>1, <1>2, ListsTyped, PassedOnce, PassSound
<1> QED BY <1>1, <1>3, ListsMove

\* The queries find no lead, or one that is then read.
LEMMA FindMove ==
  ASSUME Typed, NEW i \in Importers, FindExisting(i)
  PROVE  \E q :
           /\ Become(i, q) /\ UNCHANGED <<leads, maker>>
           /\ DOMAIN q = ImportFields
           /\ q.ws = imports[i].ws /\ q.source = imports[i].source
           /\ q.todo = imports[i].todo /\ q.counts = imports[i].counts
           /\ q.ids = imports[i].ids /\ q.failed = imports[i].failed
           /\ q.log = imports[i].log
           /\ \/ q.pc = "insert" /\ Answer(i) = {} /\ Creatable(Current(i))
              \/ /\ q.pc = "update" /\ q.found \in Answer(i)
                 /\ q.snap = leads[q.found]
<1> DEFINE r == imports[i]
           insert == [r EXCEPT !.pc = "insert"]
           update(l) == [r EXCEPT !.pc = "update", !.found = l, !.snap = leads[l]]
<1>1. DOMAIN r = ImportFields
  BY DEF Typed, Framed
<1>2. /\ UNCHANGED <<leads, maker>>
      /\ \/ Answer(i) = {} /\ Creatable(Current(i)) /\ Become(i, insert)
         \/ \E l \in Answer(i) : Become(i, update(l))
  BY DEF FindExisting
<1>3. CASE Answer(i) = {} /\ Creatable(Current(i)) /\ Become(i, insert)
  <2>1. /\ DOMAIN insert = ImportFields /\ insert.pc = "insert"
        /\ insert.ws = r.ws /\ insert.source = r.source /\ insert.todo = r.todo
        /\ insert.counts = r.counts /\ insert.ids = r.ids /\ insert.failed = r.failed
        /\ insert.log = r.log
    BY <1>1 DEF ImportFields
  <2> HIDE DEF insert
  <2> QED BY <1>2, <1>3, <2>1
<1>4. CASE \E l \in Answer(i) : Become(i, update(l))
  <2>1. PICK l \in Answer(i) : Become(i, update(l))
    BY <1>4
  <2>2. /\ DOMAIN update(l) = ImportFields /\ update(l).pc = "update"
        /\ update(l).ws = r.ws /\ update(l).source = r.source /\ update(l).todo = r.todo
        /\ update(l).counts = r.counts /\ update(l).ids = r.ids
        /\ update(l).failed = r.failed /\ update(l).log = r.log
        /\ update(l).found = l /\ update(l).snap = leads[l]
    BY <1>1 DEF ImportFields
  <2> HIDE DEF update
  <2> QED BY <1>2, <2>1, <2>2
<1> QED BY <1>2, <1>3, <1>4

LEMMA ExistingIs ==
  ASSUME NEW ws, NEW source, NEW c, NEW l \in Existing(ws, source, c)
  PROVE  l \in DOMAIN leads /\ l[1] = ws
<1>1. \A key : \A m \in ByKey(ws, source, c, key) : m \in DOMAIN leads /\ m[1] = ws
  BY DEF ByKey
<1>2. \E key : l \in ByKey(ws, source, c, key)
  BY DEF Existing
<1> QED BY <1>1, <1>2

LEMMA FirstContact ==
  ASSUME Typed, NEW i \in Importers, imports[i].todo # <<>>
  PROVE  /\ Head(imports[i].todo) \in Contact
         /\ Creatable(Current(i)) => Head(imports[i].todo).email \in Emails
<1>1. Head(imports[i].todo) \in Contact
  BY HeadTailProperties DEF Typed, Framed
<1> QED BY <1>1 DEF Contact, Creatable, Current

LEMMA FindLists ==
  ASSUME ListsInv, NEW i \in Importers, FindExisting(i)
  PROVE  ListsInv'
<1> DEFINE r == imports[i]
<1>1. Typed /\ Sound(i, r, leads, maker)
  BY ListsTyped DEF ListsInv
<1>2. r.pc = "next" /\ r.todo # <<>>
  BY DEF FindExisting
<1>3. PICK q :
        /\ Become(i, q) /\ UNCHANGED <<leads, maker>>
        /\ DOMAIN q = ImportFields
        /\ q.ws = r.ws /\ q.source = r.source /\ q.todo = r.todo /\ q.counts = r.counts
        /\ q.ids = r.ids /\ q.failed = r.failed /\ q.log = r.log
        /\ \/ q.pc = "insert" /\ Answer(i) = {} /\ Creatable(Current(i))
           \/ q.pc = "update" /\ q.found \in Answer(i) /\ q.snap = leads[q.found]
  BY <1>1, FindMove
<1> HIDE DEF r
<1>4. Framed(q)
  BY <1>1, <1>3 DEF Sound, Framed
<1>5. AtWork(q, leads)
  <2>1. q.source \in Sources /\ q.todo # <<>> /\ q.log = "running"
    BY <1>1, <1>2, <1>3 DEF Sound, AtWork
  <2>2. CASE q.pc = "insert" /\ Creatable(Current(i))
    BY <1>1, <1>2, <1>3, <2>1, <2>2, FirstContact DEF AtWork, r
  <2>3. CASE q.pc = "update" /\ q.found \in Answer(i)
    <3>1. q.found \in DOMAIN leads /\ q.found[1] = q.ws
      BY <1>3, <2>3, ExistingIs DEF Answer, r
    <3> QED BY <2>1, <2>3, <3>1 DEF AtWork
  <2> QED BY <1>3, <2>2, <2>3
<1>6. Counting(q)
  BY <1>1, <1>2, <1>3 DEF Sound, Counting
<1>7. Listing(i, q, maker)
  BY <1>1, <1>3, SameIds DEF Sound
<1> QED BY <1>3, <1>4, <1>5, <1>6, <1>7, ListsMove DEF Sound

LEMMA OutcomeCounter ==
  ASSUME NEW i
  PROVE  Outcome(i) \in Counter \ {"fetched"}
BY DEF Outcome, Counter

LEMMA UpdateLists ==
  ASSUME ListsInv, NEW i \in Importers, UpdateLead(i)
  PROVE  ListsInv'
<1>1. Typed /\ imports[i].pc = "update" /\ imports[i].todo # <<>>
  BY ListsTyped DEF ListsInv, Sound, AtWork, UpdateLead
<1>2. Sound(i, Passed(i, Outcome(i)), leads, maker)
  BY <1>1, OutcomeCounter, PassedOnce, PassSound
<1>3. Grown({})
  BY <1>1, UpdateGrown
<1>4. Sound(i, Passed(i, Outcome(i)), leads', maker')
  BY <1>1, <1>2, <1>3, SoundStays
<1> QED BY <1>3, <1>4, ListsBecome DEF UpdateLead

LEMMA UpdateFailureLists ==
  ASSUME ListsInv, NEW i \in Importers, UpdateFailure(i)
  PROVE  ListsInv'
<1> DEFINE p == Passed(i, Outcome(i))
           q == [p EXCEPT !.counts = Counted(p.counts, "errors"), !.failed = @ + 1]
<1>1. Typed /\ imports[i].pc = "update" /\ imports[i].todo # <<>>
  BY ListsTyped DEF ListsInv, Sound, AtWork, UpdateFailure
<1>2. Become(i, q) /\ UNCHANGED <<leads, maker>>
  BY DEF UpdateFailure
<1>3. DOMAIN p = ImportFields /\ p.ids = imports[i].ids
  BY <1>1, OutcomeCounter, PassedOnce DEF Passes
<1> HIDE DEF p
<1>4. FailedToo(p, q) /\ q.ids = p.ids
  BY <1>3 DEF FailedToo, ImportFields
<1> HIDE DEF q
<1>5. Passes(imports[i], q, 1)
  BY <1>1, <1>4, OutcomeCounter, PassedTwice DEF p
<1>6. Sound(i, q, leads, maker)
  BY <1>1, <1>3, <1>4, <1>5, PassSound
<1> QED BY <1>2, <1>6, ListsMove

\* The id of a new lead is on no list.
LEMMA ListingAppends ==
  ASSUME NEW i \in Importers, NEW r, NEW q, NEW key, r.ids \in Seq(Keys \cup {NoKey}),
         q.ids = Append(r.ids, key), NEW who, Listing(i, r, who),
         key # NoKey => /\ key \in DOMAIN who /\ who[key] = i
                        /\ \A n \in DOMAIN r.ids : r.ids[n] # key
  PROVE  Listing(i, q, who)
<1>1. /\ DOMAIN q.ids = 1 .. Len(r.ids) + 1 /\ DOMAIN r.ids = 1 .. Len(r.ids)
      /\ Len(r.ids) \in Nat
      /\ q.ids[Len(r.ids) + 1] = key
      /\ \A n \in 1 .. Len(r.ids) : q.ids[n] = r.ids[n]
  BY LenProperties
<1> SUFFICES ASSUME NEW n \in DOMAIN q.ids, q.ids[n] # NoKey
             PROVE  /\ q.ids[n] \in DOMAIN who /\ who[q.ids[n]] = i
                    /\ \A m \in DOMAIN q.ids : q.ids[m] = q.ids[n] => m = n
  BY DEF Listing
<1>2. CASE n = Len(r.ids) + 1
  BY <1>1, <1>2
<1>3. CASE n \in DOMAIN r.ids
  <2>1. /\ r.ids[n] \in DOMAIN who /\ who[r.ids[n]] = i
        /\ \A m \in DOMAIN r.ids : r.ids[m] = r.ids[n] => m = n
        /\ q.ids[n] = r.ids[n]
    BY <1>1, <1>3 DEF Listing
  <2> QED BY <1>1, <1>3, <2>1
<1> QED BY <1>1, <1>2, <1>3

\* What an insert becomes before its commit, with an id on the list.
LEMMA PassedListed ==
  ASSUME Typed, NEW i \in Importers, NEW key, NEW q,
         q = [Passed(i, "created") EXCEPT !.ids = Append(@, key)]
  PROVE  Passes(imports[i], q, 0) /\ q.ids = Append(imports[i].ids, key)
<1> DEFINE p == Passed(i, "created")
<1>1. "created" \in Counter \ {"fetched"}
  BY DEF Counter
<1>2. Passes(imports[i], p, 0) /\ p.ids = imports[i].ids
  BY <1>1, PassedOnce
<1> HIDE DEF p
<1>3. /\ DOMAIN q = ImportFields
      /\ q.pc = p.pc /\ q.ws = p.ws /\ q.source = p.source /\ q.todo = p.todo
      /\ q.counts = p.counts /\ q.failed = p.failed /\ q.log = p.log /\ q.found = p.found
      /\ q.ids = Append(p.ids, key)
  BY <1>2 DEF Passes, ImportFields, p
<1> QED BY <1>2, <1>3 DEF Passes

LEMMA InsertLists ==
  ASSUME ListsInv, NEW i \in Importers, InsertLead(i)
  PROVE  ListsInv'
<1> DEFINE key == InsertKey(i)
           r == imports[i]
           q == [Passed(i, "created") EXCEPT !.ids = Append(@, key)]
<1>1. Typed /\ Sound(i, r, leads, maker)
  BY ListsTyped DEF ListsInv
<1>2. r.pc = "insert" /\ key \notin DOMAIN leads /\ Become(i, q)
      /\ maker' = Put(OneRow(key, i), maker)
  BY DEF InsertLead
<1>3. key \in Keys /\ Grown({key})
  BY <1>1, InsertLeadGrown
<1>4. Passes(r, q, 0) /\ q.ids = Append(r.ids, key)
  BY <1>1, PassedListed
<1>5. Sound(i, r, leads', maker')
  BY <1>1, <1>3, SoundStays
<1>6. key \in DOMAIN maker' /\ maker'[key] = i
  BY <1>2 DEF Put, OneRow
<1> HIDE DEF q, key, r
<1>7. r.ids \in Seq(Keys \cup {NoKey}) /\ r.todo # <<>>
  BY <1>1, <1>2 DEF Sound, Framed, AtWork
<1>8. \A n \in DOMAIN r.ids : r.ids[n] # NoKey => r.ids[n] # key
  BY <1>1, <1>2 DEF Sound, Listing, Typed, Tables
<1>9. Listing(i, q, maker')
  BY <1>4, <1>5, <1>6, <1>7, <1>8, ListingAppends DEF Sound
<1>10. q.ids \in Seq(Keys \cup {NoKey})
  BY <1>3, <1>4, <1>7
<1>11. Sound(i, q, leads', maker')
  BY <1>2, <1>4, <1>5, <1>7, <1>9, <1>10, PassesSound DEF Sound
<1> QED BY <1>2, <1>3, <1>11, ListsBecome

LEMMA InsertFailureLists ==
  ASSUME ListsInv, NEW i \in Importers, InsertFailure(i)
  PROVE  ListsInv'
<1> DEFINE r == imports[i]
           p == Passed(i, "created")
           q == [p EXCEPT !.counts = Counted(p.counts, "errors"),
                          !.ids = Append(@, NoKey), !.failed = @ + 1]
<1>1. Typed /\ Sound(i, r, leads, maker)
  BY ListsTyped DEF ListsInv
<1>2. r.pc = "insert" /\ UNCHANGED <<leads, maker>>
      /\ (Become(i, Passed(i, "errors")) \/ Become(i, q))
  BY DEF InsertFailure
<1>3. r.todo # <<>> /\ r.ids \in Seq(Keys \cup {NoKey})
  BY <1>1, <1>2 DEF Sound, Framed, AtWork
<1>4. {"created", "errors"} \subseteq Counter \ {"fetched"}
  BY DEF Counter
<1>5. CASE Become(i, Passed(i, "errors"))
  <2>1. Sound(i, Passed(i, "errors"), leads, maker)
    BY <1>1, <1>2, <1>3, <1>4, PassedOnce, PassSound
  <2> QED BY <1>2, <1>5, <2>1, ListsMove
<1>6. CASE Become(i, q)
  <2>1. DOMAIN p = ImportFields /\ p.ids = r.ids
    BY <1>1, <1>4, PassedOnce DEF Passes
  <2> HIDE DEF p
  <2>2. FailedToo(p, q) /\ q.ids = Append(p.ids, NoKey)
    BY <2>1 DEF FailedToo, ImportFields
  <2> HIDE DEF q
  <2>3. Passes(r, q, 1)
    BY <1>1, <1>4, <2>2, PassedTwice DEF p
  <2>4. q.ids = Append(r.ids, NoKey) /\ NoKey \in Keys \cup {NoKey}
    BY <2>1, <2>2
  <2>5. Listing(i, q, maker)
    BY <1>1, <1>3, <2>4, ListingAppends DEF Sound
  <2>6. q.ids \in Seq(Keys \cup {NoKey})
    BY <1>3, <2>4
  <2>7. Sound(i, q, leads, maker)
    BY <1>1, <1>2, <1>3, <2>3, <2>5, <2>6, PassesSound DEF Sound
  <2> QED BY <1>2, <1>6, <2>7, ListsMove
<1> QED BY <1>2, <1>5, <1>6

\* An import that ends, as it should or not, keeps what it has counted and listed.
LEMMA EndsSound ==
  ASSUME ListsInv, NEW i \in Importers, NEW q, DOMAIN q = ImportFields,
         q.pc = "idle", q.ws = imports[i].ws, q.todo = imports[i].todo \/ q.todo = <<>>,
         q.counts = imports[i].counts, q.ids = imports[i].ids,
         q.failed = imports[i].failed,
         Counting(q)
  PROVE  Sound(i, q, leads, maker)
<1>1. Sound(i, imports[i], leads, maker)
  BY DEF ListsInv
<1>2. <<>> \in Seq(Contact)
  OBVIOUS
<1>3. Framed(q)
  BY <1>1, <1>2 DEF Sound, Framed
<1>4. AtWork(q, leads)
  BY DEF AtWork
<1>5. Listing(i, q, maker)
  BY <1>1, SameIds DEF Sound
<1> QED BY <1>3, <1>4, <1>5 DEF Sound

LEMMA FinishLists ==
  ASSUME ListsInv, NEW i \in Importers, FinishImport(i)
  PROVE  ListsInv'
<1> DEFINE r == imports[i]
<1>1. Typed /\ Sound(i, r, leads, maker) /\ DOMAIN r = ImportFields
  BY ListsTyped DEF ListsInv, Sound, Framed
<1>2. PICK q :
        /\ Become(i, q) /\ UNCHANGED <<leads, maker>>
        /\ \/ q = [r EXCEPT !.pc = "idle", !.log = "completed"]
           \/ q = [r EXCEPT !.pc = "idle"]
  BY DEF FinishImport
<1>3. /\ DOMAIN q = ImportFields /\ q.pc = "idle" /\ q.ws = r.ws /\ q.todo = r.todo
      /\ q.counts = r.counts /\ q.ids = r.ids /\ q.failed = r.failed
  BY <1>1, <1>2 DEF ImportFields
<1>4. r.pc # "idle"
  BY DEF FinishImport
<1> HIDE DEF r
<1>5. Counting(q)
  BY <1>1, <1>3, <1>4 DEF Sound, Counting
<1>6. Sound(i, q, leads, maker)
  BY <1>3, <1>5, EndsSound DEF r
<1> QED BY <1>2, <1>6, ListsMove

LEMMA CrashLists ==
  ASSUME ListsInv, NEW i \in Importers, Crash(i)
  PROVE  ListsInv'
<1> DEFINE r == imports[i]
           q == [r EXCEPT !.pc = "idle", !.todo = <<>>, !.found = NoKey, !.snap = NewLead]
<1>1. Sound(i, r, leads, maker) /\ DOMAIN r = ImportFields
  BY DEF ListsInv, Sound, Framed
<1>2. Become(i, q) /\ UNCHANGED <<leads, maker>> /\ r.pc # "idle"
  BY DEF Crash
<1>3. /\ DOMAIN q = ImportFields /\ q.pc = "idle" /\ q.ws = r.ws /\ q.todo = <<>>
      /\ q.counts = r.counts /\ q.ids = r.ids /\ q.failed = r.failed /\ q.log = r.log
  BY <1>1 DEF ImportFields
<1> HIDE DEF r, q
<1>4. Counting(q)
  BY <1>1, <1>2, <1>3 DEF Sound, AtWork, Counting
<1>5. Sound(i, q, leads, maker)
  BY <1>3, <1>4, EndsSound DEF r
<1> QED BY <1>2, <1>5, ListsMove

LEMMA ImportLists ==
  ASSUME ListsInv, NEW i \in Importers, ImportStep(i)
  PROVE  ListsInv'
<1>1. CASE SkipContact(i)
  BY <1>1, SkipLists
<1>2. CASE FindExisting(i)
  BY <1>2, FindLists
<1>3. CASE FindFailure(i)
  BY <1>3, FindFailureLists
<1>4. CASE UpdateLead(i)
  BY <1>4, UpdateLists
<1>5. CASE UpdateFailure(i)
  BY <1>5, UpdateFailureLists
<1>6. CASE InsertLead(i)
  BY <1>6, InsertLists
<1>7. CASE InsertFailure(i)
  BY <1>7, InsertFailureLists
<1>8. CASE FinishImport(i)
  BY <1>8, FinishLists
<1>9. CASE Crash(i)
  BY <1>9, CrashLists
<1> QED BY <1>1, <1>2, <1>3, <1>4, <1>5, <1>6, <1>7, <1>8, <1>9 DEF ImportStep

LEMMA WebhookGrown ==
  ASSUME Typed, NEW ws \in Workspaces, NEW email \in Emails, FindOrCreateLead(ws, email)
  PROVE  Grown({<<ws, email>>})
<1>1. <<ws, email>> \in Keys /\ <<ws, email>> \notin DOMAIN leads
  BY DEF FindOrCreateLead, Keys
<1> QED BY <1>1, NewLeadFields, InsertGrown DEF FindOrCreateLead

\* A verdict is written to one field.
LEMMA VerdictEffect ==
  ASSUME Typed, NEW l \in DOMAIN leads, NEW status, CacheVerdict(l, status)
  PROVE  /\ Grown({})
         /\ leads[l].status = None
         /\ \A m \in DOMAIN leads, f \in Fields :
              f # "status" \/ m # l => leads'[m][f] = leads[m][f]
         /\ UNCHANGED <<imports, done, blurred, replaced>>
<1> DEFINE row == [leads[l] EXCEPT !.status = status]
<1>1. DOMAIN row = Fields /\ \A f \in Fields : f # "status" => row[f] = leads[l][f]
  BY DEF Typed, Tables
<1>2. leads' = [leads EXCEPT ![l] = row] /\ UNCHANGED maker
  BY DEF CacheVerdict
<1> HIDE DEF row
<1>3. Grown({})
  BY <1>1, <1>2, FillGrown
<1> QED BY <1>1, <1>2, <1>3 DEF CacheVerdict

LEMMA OthersLists ==
  ASSUME ListsInv, Others
  PROVE  ListsInv'
<1>1. Typed
  BY ListsTyped
<1>2. ASSUME NEW ws \in Workspaces \cup {None}, NEW file \in Files, Upload(ws, file)
      PROVE  ListsInv'
  BY <1>1, <1>2, UploadEffect, ListsRest
<1>3. ASSUME NEW ws \in Workspaces, NEW email \in Emails, FindOrCreateLead(ws, email)
      PROVE  ListsInv'
  BY <1>1, <1>3, WebhookGrown, ListsRest DEF FindOrCreateLead
<1>4. ASSUME NEW l \in DOMAIN leads, NEW status, CacheVerdict(l, status)
      PROVE  ListsInv'
  BY <1>1, <1>4, VerdictEffect, ListsRest
<1> QED BY <1>2, <1>3, <1>4 DEF Others

LEMMA ListsInit == Init => ListsInv
<1> SUFFICES ASSUME Init PROVE ListsInv
  OBVIOUS
<1>1. DefaultWorkspace \in Workspaces
  BY ContactImportAssumption
<1>2. Tables
  BY DEF Init, Tables
<1>3. ASSUME NEW i \in Importers
      PROVE  Sound(i, imports[i], leads, maker)
  <2>1. imports[i] = NoImport
    BY DEF Init
  <2>2. <<>> \in Seq(Contact) /\ <<>> \in Seq(Keys \cup {NoKey})
    OBVIOUS
  <2>3. DOMAIN NoImport = ImportFields /\ NoCounts \in [Counter -> Nat]
    BY DEF NoImport, ImportFields, NoCounts
  <2>4. Framed(NoImport)
    BY <1>1, <2>2, <2>3 DEF Framed, NoImport
  <2> QED BY <2>1, <2>4 DEF Sound, AtWork, Counting, Listing, NoImport
<1> QED BY <1>2, <1>3 DEF Init, ListsInv

LEMMA ListsNext == ListsInv /\ [Next]_vars => ListsInv'
<1> SUFFICES ASSUME ListsInv, [Next]_vars PROVE ListsInv'
  OBVIOUS
<1>1. CASE UNCHANGED vars
  <2>1. Grown({})
    BY <1>1, ListsTyped, SameGrown DEF vars
  <2> QED BY <1>1, <2>1, ListsRest DEF vars
<1>2. ASSUME NEW i \in Importers, NEW ws \in Workspaces, NEW source \in Sources,
             NEW batch \in Batches, StartImport(i, ws, source, batch)
      PROVE  ListsInv'
  BY <1>2, StartLists
<1>3. ASSUME NEW i \in Importers, ImportStep(i)
      PROVE  ListsInv'
  BY <1>3, ImportLists
<1>4. CASE Others
  BY <1>4, OthersLists
<1> QED BY <1>1, <1>2, <1>3, <1>4 DEF Next

LEMMA ListsTrue == ListsInv => ListsAndCountsTrue
<1> SUFFICES ASSUME ListsInv, NEW i \in Importers
             PROVE  LET r == imports[i] IN
                    /\ \A n \in DOMAIN r.ids : r.ids[n] # NoKey =>
                         /\ maker[r.ids[n]] = i
                         /\ \A m \in DOMAIN r.ids : r.ids[m] = r.ids[n] => m = n
                    /\ r.pc # "idle" \/ r.log = "completed" =>
                         Dealt(i) + Len(r.todo) \in
                           r.counts.fetched .. r.counts.fetched + r.failed
  BY DEF ListsAndCountsTrue
<1>1. Listing(i, imports[i], maker) /\ Counting(imports[i])
  BY DEF ListsInv, Sound
<1>2. Dealt(i) = Tally(imports[i].counts)
  BY DEF Dealt, Tally
<1> QED BY <1>1, <1>2 DEF Listing, Counting

\* However imports overlap, fail or die, the list of created leads names leads that
\* this import has inserted, each once, and the counters of a log that is open or
\* completed add up to the contacts fetched, but for failed commits.
THEOREM ListsAndCountsCorrect == Spec => []ListsAndCountsTrue
<1>1. ListsInv /\ [Next]_vars => ListsInv'
  BY ListsNext
<1> QED BY <1>1, ListsInit, ListsTrue, PTL DEF Spec

-----------------------------------------------------------------------------
(* Fields *)

LEMMA UpdateEffect ==
  ASSUME Typed, NEW i \in Importers, UpdateLead(i)
  PROVE  /\ imports[i].found \in DOMAIN leads /\ imports[i].found[1] = imports[i].ws
         /\ DOMAIN leads' = DOMAIN leads
         /\ \A l \in DOMAIN leads : l # imports[i].found => leads'[l] = leads[l]
         /\ \A f \in Missing(i) :
              /\ leads'[imports[i].found][f] = MappedBy(i)[f]
              /\ imports[i].snap[f] = None /\ MappedBy(i)[f] # None
         /\ \A f \in Fields \ Missing(i) :
              leads'[imports[i].found][f] = leads[imports[i].found][f]
<1> DEFINE l == imports[i].found
<1>1. l \in DOMAIN leads /\ l[1] = imports[i].ws
  BY DEF UpdateLead, Typed, AtWork
<1>2. leads' = [leads EXCEPT ![l] = Filled(i)]
  BY DEF UpdateLead
<1>3. \A f \in Fields : Filled(i)[f] = IF f \in Missing(i) THEN MappedBy(i)[f]
                                       ELSE leads[l][f]
  BY DEF Filled
<1>4. \A f \in Missing(i) : /\ f \in Fields /\ imports[i].snap[f] = None
                            /\ MappedBy(i)[f] # None
  BY DEF Missing
<1> HIDE DEF l
<1>5. DOMAIN leads' = DOMAIN leads /\ leads'[l] = Filled(i)
      /\ \A m \in DOMAIN leads : m # l => leads'[m] = leads[m]
  BY <1>1, <1>2
<1> QED BY <1>1, <1>3, <1>4, <1>5 DEF l

LEMMA InsertEffect ==
  ASSUME Typed, NEW i \in Importers, InsertLead(i)
  PROVE  /\ InsertKey(i) \notin DOMAIN leads
         /\ DOMAIN leads' = DOMAIN leads \cup {InsertKey(i)}
         /\ leads'[InsertKey(i)] = MappedBy(i)
         /\ \A l \in DOMAIN leads : leads'[l] = leads[l]
BY DEF InsertLead, Put, OneRow

LEMMA WebhookEffect ==
  ASSUME Typed, NEW ws \in Workspaces, NEW email \in Emails, FindOrCreateLead(ws, email)
  PROVE  /\ <<ws, email>> \notin DOMAIN leads
         /\ DOMAIN leads' = DOMAIN leads \cup {<<ws, email>>}
         /\ leads'[<<ws, email>>] = NewLead
         /\ \A l \in DOMAIN leads : leads'[l] = leads[l]
         /\ UNCHANGED <<imports, done, blurred, replaced>>
BY DEF FindOrCreateLead, Put, OneRow

\* What FieldsKept says of one step.
NoneEmptied ==
  \A l \in DOMAIN leads, f \in Fields : leads[l][f] # None => leads'[l][f] # None

ImportsFill ==
  \A i \in Importers : Deals(i) =>
    \A l \in DOMAIN leads : leads'[l] # leads[l] =>
      /\ l[1] = imports[i].ws
      /\ \/ imports[i].snap # leads[l]
         \/ \A f \in Fields : leads[l][f] \in {None, leads'[l][f]}

LEMMA SameFields ==
  ASSUME \A l \in DOMAIN leads : leads'[l] = leads[l]
  PROVE  NoneEmptied /\ ImportsFill
BY DEF NoneEmptied, ImportsFill

LEMMA UpdateFields ==
  ASSUME Typed, NEW i \in Importers, UpdateLead(i)
  PROVE  NoneEmptied /\ ImportsFill
<1> DEFINE k == imports[i].found
<1>1. /\ k \in DOMAIN leads /\ k[1] = imports[i].ws
      /\ \A l \in DOMAIN leads : l # k => leads'[l] = leads[l]
      /\ \A f \in Missing(i) : leads'[k][f] # None /\ imports[i].snap[f] = None
      /\ \A f \in Fields \ Missing(i) : leads'[k][f] = leads[k][f]
  BY UpdateEffect
<1> HIDE DEF k
<1>2. NoneEmptied
  <2> SUFFICES ASSUME NEW l \in DOMAIN leads, NEW f \in Fields, leads[l][f] # None
               PROVE  leads'[l][f] # None
    BY DEF NoneEmptied
  <2>1. CASE l # k
    BY <1>1, <2>1
  <2>2. CASE l = k
    BY <1>1, <2>2
  <2> QED BY <2>1, <2>2
<1>3. \A j \in Importers : j # i => ~ Deals(j)
  BY Becomes DEF UpdateLead, Deals
<1>4. ASSUME NEW l \in DOMAIN leads, leads'[l] # leads[l], imports[i].snap = leads[l]
      PROVE  \A f \in Fields : leads[l][f] \in {None, leads'[l][f]}
  <2>1. l = k
    BY <1>1, <1>4
  <2> SUFFICES ASSUME NEW f \in Fields
               PROVE  leads[k][f] = None \/ leads[k][f] = leads'[k][f]
    BY <2>1
  <2>2. CASE f \in Missing(i)
    BY <1>1, <1>4, <2>1, <2>2
  <2>3. CASE f \notin Missing(i)
    BY <1>1, <2>3
  <2> QED BY <2>2, <2>3
<1>5. ImportsFill
  <2> SUFFICES ASSUME NEW j \in Importers, Deals(j),
                      NEW l \in DOMAIN leads, leads'[l] # leads[l]
               PROVE  /\ l[1] = imports[j].ws
                      /\ \/ imports[j].snap # leads[l]
                         \/ \A f \in Fields : leads[l][f] \in {None, leads'[l][f]}
    BY DEF ImportsFill
  <2>1. j = i
    BY <1>3
  <2>2. l = k
    BY <1>1
  <2>3. l[1] = imports[j].ws
    BY <1>1, <2>1, <2>2
  <2> QED BY <1>4, <2>1, <2>3
<1> QED BY <1>2, <1>5

LEMMA UnmovedFill ==
  ASSUME UNCHANGED imports
  PROVE  ImportsFill
BY DEF ImportsFill, Deals

LEMMA FieldsNext == Typed /\ [Next]_vars => NoneEmptied /\ ImportsFill
<1> SUFFICES ASSUME Typed, [Next]_vars PROVE NoneEmptied /\ ImportsFill
  OBVIOUS
<1>1. CASE UNCHANGED leads
  BY <1>1, SameFields
<1>2. ASSUME NEW i \in Importers, UpdateLead(i)
      PROVE  NoneEmptied /\ ImportsFill
  BY <1>2, UpdateFields
<1>3. ASSUME NEW i \in Importers, InsertLead(i)
      PROVE  NoneEmptied /\ ImportsFill
  BY <1>3, InsertEffect, SameFields
<1>4. ASSUME NEW ws \in Workspaces \cup {None}, NEW file \in Files, Upload(ws, file)
      PROVE  NoneEmptied /\ ImportsFill
  <2>1. UNCHANGED imports
    BY <1>4 DEF Upload
  <2>2. \A l \in DOMAIN leads :
          /\ \A f \in Fields \ {"link", "name"} : leads'[l][f] = leads[l][f]
          /\ \A f \in {"link", "name"} : leads'[l][f] = leads[l][f] \/ leads'[l][f] # None
    BY <1>4, UploadEffect
  <2>3. NoneEmptied
    BY <2>2 DEF NoneEmptied
  <2> QED BY <2>1, <2>3, UnmovedFill
<1>5. ASSUME NEW ws \in Workspaces, NEW email \in Emails, FindOrCreateLead(ws, email)
      PROVE  NoneEmptied /\ ImportsFill
  BY <1>5, WebhookEffect, SameFields
<1>6. ASSUME NEW l \in DOMAIN leads, NEW status, CacheVerdict(l, status)
      PROVE  NoneEmptied /\ ImportsFill
  <2>1. /\ UNCHANGED imports /\ leads[l].status = None
        /\ \A m \in DOMAIN leads, f \in Fields :
             f # "status" \/ m # l => leads'[m][f] = leads[m][f]
    BY <1>6, VerdictEffect
  <2>2. NoneEmptied
    BY <2>1 DEF NoneEmptied
  <2> QED BY <2>1, <2>2, UnmovedFill
<1>7. ASSUME NEW i \in Importers, ImportStep(i)
      PROVE  UNCHANGED leads \/ UpdateLead(i) \/ InsertLead(i)
  BY <1>7 DEF ImportStep, SkipContact, FindExisting, FindFailure, UpdateFailure,
              InsertFailure, FinishImport, Crash
<1>8. ASSUME NEW i \in Importers, NEW ws, NEW source, NEW batch,
             StartImport(i, ws, source, batch)
      PROVE  UNCHANGED leads
  BY <1>8 DEF StartImport
<1>9. CASE Others
  BY <1>4, <1>5, <1>6, <1>9 DEF Others
<1>10. CASE UNCHANGED vars
  BY <1>1, <1>10 DEF vars
<1> QED BY <1>1, <1>2, <1>3, <1>7, <1>8, <1>9, <1>10 DEF Next

\* No writer ever empties a field, and an import writes to leads of its workspace
\* only and to no field that had a value, unless somebody wrote to the lead between
\* its query and its UPDATE.
THEOREM FieldsKeptCorrect == Spec => FieldsKept
<1>1. ListsInv /\ [Next]_vars => ListsInv'
  BY ListsNext
<1>2. ListsInv /\ [Next]_vars => [NoneEmptied /\ ImportsFill]_vars
  BY ListsTyped, FieldsNext
<1>3. Spec => [][NoneEmptied /\ ImportsFill]_vars
  BY <1>1, <1>2, ListsInit, PTL DEF Spec
<1> QED BY <1>3, PTL DEF FieldsKept, NoneEmptied, ImportsFill

-----------------------------------------------------------------------------
(* Keys *)

\* Without overlaps one transaction at a time is at work in a workspace.
Alone ==
  \A i, j \in Importers :
    /\ Writing(i) /\ Writing(j)
    /\ imports[i].ws = imports[j].ws
    /\ imports[i].ws \notin blurred
    => i = j

\* Who has an id has a source.
Sourced == \A l \in DOMAIN leads : leads[l].ext # None => leads[l].src # None

OneId(ws) ==
  \A l, m \in DOMAIN leads :
    l[1] = ws /\ m[1] = ws /\ SameId(l, m) => l = m

\* No lead of the workspace has this id of this source.
Fresh(ws, source, id) ==
  id # None =>
    \A l \in DOMAIN leads :
      l[1] = ws /\ leads[l].ext = id => leads[l].src # source

\* A contact is told by the lead with this key and these fields.
Told(l, row, c) ==
  \/ c.email # None /\ l[2] = c.email
  \/ c.id # None /\ row.ext = c.id
  \/ c.link # None /\ row.link = c.link
  \/ c.name # None /\ row.name = c.name

\* A lead, as a transaction has read it if it is the one it fills.
Row(r, l) == IF l = r.found THEN r.snap ELSE leads[l]

KnownTo(ws, c) == \E l \in DOMAIN leads : l[1] = ws /\ Told(l, leads[l], c)

\* Some lead tells the contact, whatever the transaction is about to write.
KnownBefore(r, c) == \E l \in DOMAIN leads : l[1] = r.ws /\ Told(l, Row(r, l), c)

\* The transaction is about to write the id of its contact.
Identifies(r) ==
  \/ r.pc = "insert"
  \/ r.pc = "update" /\ r.snap.ext = None

\* What holds of a transaction while nobody else is at work in its workspace: the
\* id it may write is free, the lead it fills has the id and the source it has read
\* and is told by the keys it has read; until an upload replaces a value, the lead
\* also has the link and the name, and what was known stays known.
Reads(r) ==
  r.pc = "update" =>
    /\ r.snap.src # None => leads[r.found].src # None
    /\ Told(r.found, r.snap, Head(r.todo))

IdsClear(r) ==
  r.ws \notin blurred =>
    /\ Identifies(r) => Fresh(r.ws, r.source, Head(r.todo).id)
    /\ r.pc = "update" => /\ leads[r.found].src = r.snap.src
                          /\ leads[r.found].ext = r.snap.ext

ValuesClear(r) ==
  r.ws \notin blurred /\ r.ws \notin replaced /\ r.pc = "update" =>
    /\ r.snap.link # None => leads[r.found].link = r.snap.link
    /\ r.snap.name # None => leads[r.found].name = r.snap.name
    /\ \A d \in done : d[1] = r.ws => KnownBefore(r, d[2])

Clear(r) == Reads(r) /\ IdsClear(r) /\ ValuesClear(r)

\* What KeysTell says of a workspace.
Tells(ws) ==
  ws \notin blurred =>
    /\ OneId(ws)
    /\ ws \notin replaced => \A d \in done : d[1] = ws => KnownTo(ws, d[2])

KeysInv ==
  /\ ListsInv
  /\ Alone
  /\ Sourced
  /\ \A ws \in Workspaces : Tells(ws)
  /\ \A i \in Importers : \A r \in {imports[i]} : Clear(r)

\* What a step that writes to other workspaces, or none that overlaps, may do to
\* this one: no lead gets an id, and a link or a name is replaced openly.
Kept(l) ==
  /\ leads'[l].src = leads[l].src /\ leads'[l].ext = leads[l].ext
  /\ \A f \in {"link", "name"} :
       \/ leads'[l][f] = leads[l][f]
       \/ /\ leads'[l][f] # None
          /\ leads[l][f] # None => l[1] \in replaced'

Aside(ws) ==
  ws \notin blurred' =>
    /\ ws \notin blurred
    /\ ws \in replaced => ws \in replaced'
    /\ \A l \in DOMAIN leads : l[1] = ws => Kept(l)
    /\ \A l \in DOMAIN leads' \ DOMAIN leads : l[1] = ws => leads'[l].ext = None
    /\ \A d \in done' : d[1] = ws => d \in done

\* Leads stay, and with a source once they have one.
Stay ==
  /\ DOMAIN leads \subseteq DOMAIN leads'
  /\ \A l \in DOMAIN leads : leads[l].src # None => leads'[l].src # None

LEMMA ToldStays ==
  ASSUME NEW l \in DOMAIN leads, l[1] \notin replaced', Kept(l), NEW c,
         Told(l, leads[l], c)
  PROVE  Told(l, leads'[l], c)
<1>1. /\ leads'[l].ext = leads[l].ext
      /\ leads[l].link # None => leads'[l].link = leads[l].link
      /\ leads[l].name # None => leads'[l].name = leads[l].name
  BY DEF Kept
<1> QED BY <1>1 DEF Told

LEMMA OneIdStays ==
  ASSUME NEW ws, ws \notin blurred', OneId(ws), Aside(ws)
  PROVE  OneId(ws)'
<1> SUFFICES ASSUME NEW l \in DOMAIN leads', NEW m \in DOMAIN leads',
                    l[1] = ws, m[1] = ws, SameId(l, m)'
             PROVE  l = m
  BY DEF OneId
<1>1. /\ leads'[l].ext # None /\ leads'[l].ext = leads'[m].ext
      /\ leads'[l].src = leads'[m].src
  BY DEF SameId
<1>2. l \in DOMAIN leads /\ m \in DOMAIN leads
  BY <1>1 DEF Aside
<1>3. Kept(l) /\ Kept(m)
  BY <1>2 DEF Aside
<1>4. SameId(l, m)
  BY <1>1, <1>3 DEF SameId, Kept
<1> QED BY <1>2, <1>4 DEF OneId

LEMMA KnownStays ==
  ASSUME NEW ws, ws \notin blurred', ws \notin replaced', Aside(ws), Stay,
         NEW c, KnownTo(ws, c)
  PROVE  KnownTo(ws, c)'
<1>1. PICK l \in DOMAIN leads : l[1] = ws /\ Told(l, leads[l], c)
  BY DEF KnownTo
<1>2. Kept(l)
  BY <1>1 DEF Aside
<1>3. Told(l, leads'[l], c)
  BY <1>1, <1>2, ToldStays
<1> QED BY <1>1, <1>3 DEF KnownTo, Stay

LEMMA TellsStays ==
  ASSUME NEW ws, Tells(ws), Aside(ws), Stay
  PROVE  Tells(ws)'
<1> SUFFICES ASSUME ws \notin blurred'
             PROVE  /\ OneId(ws)'
                    /\ ws \notin replaced' => \A d \in done' : d[1] = ws => KnownTo(ws, d[2])'
  BY DEF Tells
<1>1. ws \notin blurred /\ OneId(ws)
  BY DEF Aside, Tells
<1>2. OneId(ws)'
  BY <1>1, OneIdStays
<1>3. ASSUME ws \notin replaced', NEW d \in done', d[1] = ws
      PROVE  KnownTo(ws, d[2])'
  <2>1. d \in done /\ ws \notin replaced
    BY <1>3 DEF Aside
  <2>2. KnownTo(ws, d[2])
    BY <1>1, <1>3, <2>1 DEF Tells
  <2> QED BY <1>3, <2>2, KnownStays
<1> QED BY <1>2, <1>3

LEMMA ReadsStays ==
  ASSUME NEW r, AtWork(r, leads), Reads(r), Stay
  PROVE  Reads(r)'
BY DEF AtWork, Reads, Stay

LEMMA IdsStays ==
  ASSUME NEW r, AtWork(r, leads), IdsClear(r), Aside(r.ws)
  PROVE  IdsClear(r)'
<1> SUFFICES ASSUME r.ws \notin blurred'
             PROVE  /\ Identifies(r) => Fresh(r.ws, r.source, Head(r.todo).id)'
                    /\ r.pc = "update" => /\ leads'[r.found].src = r.snap.src
                                          /\ leads'[r.found].ext = r.snap.ext
  BY DEF IdsClear, Identifies
<1>1. r.ws \notin blurred
  BY DEF Aside
<1>2. ASSUME r.pc = "update"
      PROVE  leads'[r.found].src = r.snap.src /\ leads'[r.found].ext = r.snap.ext
  <2>1. r.found \in DOMAIN leads /\ Kept(r.found)
    BY <1>2 DEF AtWork, Aside
  <2> QED BY <1>1, <1>2, <2>1 DEF IdsClear, Kept
<1> DEFINE id == Head(r.todo).id
           fresh == Fresh(r.ws, r.source, id)
<1>3. ASSUME Identifies(r)
      PROVE  Fresh(r.ws, r.source, Head(r.todo).id)'
  <2>1. fresh
    BY <1>1, <1>3 DEF IdsClear
  <2> HIDE DEF id
  <2> SUFFICES ASSUME id # None, NEW l \in DOMAIN leads', l[1] = r.ws, leads'[l].ext = id
               PROVE  leads'[l].src # r.source
    BY DEF Fresh, id
  <2>2. l \in DOMAIN leads
    BY DEF Aside
  <2>3. Kept(l)
    BY <2>2 DEF Aside
  <2> QED BY <2>1, <2>2, <2>3 DEF Fresh, Kept
<1> QED BY <1>2, <1>3

LEMMA ValuesStays ==
  ASSUME NEW r, AtWork(r, leads), ValuesClear(r), Aside(r.ws), Stay
  PROVE  ValuesClear(r)'
<1> SUFFICES ASSUME r.ws \notin blurred', r.ws \notin replaced', r.pc = "update"
             PROVE  /\ r.snap.link # None => leads'[r.found].link = r.snap.link
                    /\ r.snap.name # None => leads'[r.found].name = r.snap.name
                    /\ \A d \in done' : d[1] = r.ws => KnownBefore(r, d[2])'
  BY DEF ValuesClear
<1>1. r.ws \notin blurred /\ r.ws \notin replaced
  BY DEF Aside
<1>2. r.found \in DOMAIN leads /\ r.found[1] = r.ws /\ Kept(r.found)
  BY <1>1 DEF AtWork, Aside
<1>3. /\ r.snap.link # None => leads'[r.found].link = r.snap.link
      /\ r.snap.name # None => leads'[r.found].name = r.snap.name
  BY <1>1, <1>2 DEF ValuesClear, Kept
<1>4. ASSUME NEW d \in done', d[1] = r.ws
      PROVE  KnownBefore(r, d[2])'
  <2>1. d \in done
    BY <1>4 DEF Aside
  <2>2. PICK l \in DOMAIN leads : l[1] = r.ws /\ Told(l, Row(r, l), d[2])
    BY <1>1, <1>4, <2>1 DEF ValuesClear, KnownBefore
  <2>3. Told(l, Row(r, l)', d[2])
    <3>1. CASE l = r.found
      BY <2>2, <3>1 DEF Row
    <3>2. CASE l # r.found
      <4>1. Kept(l) /\ Told(l, leads[l], d[2])
        BY <2>2, <3>2 DEF Aside, Row
      <4>2. Told(l, leads'[l], d[2])
        BY <2>2, <4>1, ToldStays
      <4> QED BY <3>2, <4>2 DEF Row
    <3> QED BY <3>1, <3>2
  <2>4. l \in DOMAIN leads'
    BY DEF Stay
  <2> QED BY <2>2, <2>3, <2>4 DEF KnownBefore
<1> QED BY <1>3, <1>4

LEMMA ClearStays ==
  ASSUME NEW r, AtWork(r, leads), Clear(r), Aside(r.ws), Stay
  PROVE  Clear(r)'
BY ReadsStays, IdsStays, ValuesStays DEF Clear

LEMMA Idle ==
  ASSUME NEW r, r.pc \notin {"insert", "update"}
  PROVE  Clear(r)'
BY DEF Clear, Reads, IdsClear, ValuesClear, Identifies

LEMMA AloneStays ==
  ASSUME Alone, blurred \subseteq blurred',
         \A j \in Importers : \/ imports'[j] = imports[j]
                              \/ imports'[j].pc \notin {"insert", "update"}
  PROVE  Alone'
<1> SUFFICES ASSUME NEW i \in Importers, NEW j \in Importers, Writing(i)', Writing(j)',
                    imports'[i].ws = imports'[j].ws, imports'[i].ws \notin blurred'
             PROVE  i = j
  BY DEF Alone
<1>1. imports'[i] = imports[i] /\ imports'[j] = imports[j]
  BY DEF Writing
<1> QED BY <1>1 DEF Alone, Writing

\* No import moves.
LEMMA KeysRest ==
  ASSUME KeysInv, ListsInv', UNCHANGED <<imports, blurred>>,
         \A ws \in Workspaces : Aside(ws), Stay, Sourced'
  PROVE  KeysInv'
<1>1. Typed
  BY ListsTyped DEF KeysInv
<1>2. Alone'
  BY <1>1, AloneStays DEF KeysInv
<1>3. \A ws \in Workspaces : Tells(ws)'
  BY TellsStays DEF KeysInv
<1>4. ASSUME NEW i \in Importers, NEW r \in {imports'[i]}
      PROVE  Clear(r)'
  <2>1. r = imports[i]
    OBVIOUS
  <2>2. AtWork(r, leads) /\ r.ws \in Workspaces /\ Clear(r)
    BY <1>1, <2>1 DEF Typed, Framed, KeysInv
  <2> QED BY <2>2, ClearStays
<1> QED BY <1>2, <1>3, <1>4 DEF KeysInv

\* Import i moves and its transaction, if it had one, is over; in its workspace or
\* elsewhere, it has put the others aside.
LEMMA KeysMove ==
  ASSUME KeysInv, ListsInv', NEW i \in Importers, NEW q, Become(i, q),
         q.pc \notin {"insert", "update"}, blurred \subseteq blurred', Stay, Sourced',
         \A ws \in Workspaces : Tells(ws)',
         \A j \in Importers \ {i} : Writing(j) => Aside(imports[j].ws)
  PROVE  KeysInv'
<1>1. Typed
  BY ListsTyped DEF KeysInv
<1>2. imports'[i] = q /\ \A j \in Importers : j # i => imports'[j] = imports[j]
  BY <1>1, Becomes
<1>3. Alone'
  <2>1. \A j \in Importers : \/ imports'[j] = imports[j]
                             \/ imports'[j].pc \notin {"insert", "update"}
    BY <1>2
  <2> QED BY <2>1, AloneStays DEF KeysInv
<1>4. ASSUME NEW j \in Importers, NEW r \in {imports'[j]}
      PROVE  Clear(r)'
  <2>1. CASE r.pc \notin {"insert", "update"}
    BY <2>1, Idle
  <2>2. CASE r.pc \in {"insert", "update"}
    <3>1. j # i
      BY <1>2, <2>2
    <3>2. r = imports[j]
      BY <1>2, <3>1
    <3>3. Writing(j)
      BY <2>2, <3>2 DEF Writing
    <3>4. AtWork(r, leads) /\ Aside(r.ws) /\ Clear(r)
      BY <1>1, <3>1, <3>2, <3>3 DEF Typed, KeysInv
    <3> QED BY <3>4, ClearStays
  <2> QED BY <2>1, <2>2
<1> QED BY <1>3, <1>4 DEF KeysInv

LEMMA SameAside ==
  ASSUME UNCHANGED <<leads, done, replaced>>, blurred \subseteq blurred', NEW ws
  PROVE  Aside(ws)
BY DEF Aside, Kept

LEMMA SameStays ==
  ASSUME UNCHANGED leads, Sourced
  PROVE  Stay /\ Sourced'
BY DEF Stay, Sourced

LEMMA KeysQuiet ==
  ASSUME KeysInv, ListsInv', NEW i \in Importers, NEW q, Become(i, q),
         q.pc \notin {"insert", "update"}, UNCHANGED <<leads, done, blurred, replaced>>
  PROVE  KeysInv'
<1>1. \A ws : Aside(ws)
  BY SameAside
<1>2. Stay /\ Sourced'
  BY SameStays DEF KeysInv
<1>3. \A ws \in Workspaces : Tells(ws)'
  BY <1>1, <1>2, TellsStays DEF KeysInv
<1> QED BY <1>1, <1>2, <1>3, KeysMove

LEMMA PassedPc ==
  ASSUME Typed, NEW i \in Importers, NEW k
  PROVE  Passed(i, k).pc = "next" /\ DOMAIN Passed(i, k) = ImportFields
BY DEF Passed, Typed, Framed, ImportFields

LEMMA QuietKeys ==
  ASSUME KeysInv, ListsInv', NEW i \in Importers,
         \/ SkipContact(i) \/ FindFailure(i) \/ UpdateFailure(i)
         \/ InsertFailure(i) \/ FinishImport(i) \/ Crash(i)
  PROVE  KeysInv'
<1>1. Typed
  BY ListsTyped DEF KeysInv
<1>2. \A k : Passed(i, k).pc = "next" /\ DOMAIN Passed(i, k) = ImportFields
  BY <1>1, PassedPc
<1>3. DOMAIN imports[i] = ImportFields
  BY <1>1 DEF Typed, Framed
<1>4. UNCHANGED <<leads, done, blurred, replaced>>
  BY DEF SkipContact, FindFailure, UpdateFailure, InsertFailure, FinishImport, Crash
<1>5. \E q : Become(i, q) /\ q.pc \in {"next", "idle"}
  <2>1. CASE SkipContact(i)
    BY <1>2, <2>1 DEF SkipContact
  <2>2. CASE FindFailure(i)
    BY <1>2, <2>2 DEF FindFailure
  <2>3. CASE UpdateFailure(i)
    <3> DEFINE p == Passed(i, Outcome(i))
               q == [p EXCEPT !.counts = Counted(p.counts, "errors"), !.failed = @ + 1]
    <3>1. Become(i, q)
      BY <2>3 DEF UpdateFailure
    <3>2. p.pc = "next" /\ DOMAIN p = ImportFields
      BY <1>2
    <3> HIDE DEF p
    <3>3. q.pc = "next"
      BY <3>2 DEF ImportFields
    <3> QED BY <3>1, <3>3
  <2>4. CASE InsertFailure(i)
    <3> DEFINE p == Passed(i, "created")
               q == [p EXCEPT !.counts = Counted(p.counts, "errors"),
                              !.ids = Append(@, NoKey), !.failed = @ + 1]
    <3>1. Become(i, Passed(i, "errors")) \/ Become(i, q)
      BY <2>4 DEF InsertFailure
    <3>2. p.pc = "next" /\ DOMAIN p = ImportFields
      BY <1>2
    <3> HIDE DEF p
    <3>3. q.pc = "next"
      BY <3>2 DEF ImportFields
    <3> QED BY <1>2, <3>1, <3>3
  <2>5. CASE FinishImport(i)
    <3> DEFINE good == [imports[i] EXCEPT !.pc = "idle", !.log = "completed"]
               bad == [imports[i] EXCEPT !.pc = "idle"]
    <3>1. Become(i, good) \/ Become(i, bad)
      BY <2>5 DEF FinishImport
    <3>2. good.pc = "idle" /\ bad.pc = "idle"
      BY <1>3 DEF ImportFields
    <3> HIDE DEF good, bad
    <3> QED BY <3>1, <3>2
  <2>6. CASE Crash(i)
    <3> DEFINE q == [imports[i] EXCEPT !.pc = "idle", !.todo = <<>>, !.found = NoKey,
                                       !.snap = NewLead]
    <3>1. Become(i, q)
      BY <2>6 DEF Crash
    <3>2. q.pc = "idle"
      BY <1>3 DEF ImportFields
    <3> HIDE DEF q
    <3> QED BY <3>1, <3>2
  <2> QED BY <2>1, <2>2, <2>3, <2>4, <2>5, <2>6
<1> QED BY <1>4, <1>5, KeysQuiet

LEMMA StartKeys ==
  ASSUME KeysInv, ListsInv', NEW i \in Importers, NEW ws, NEW source, NEW batch,
         StartImport(i, ws, source, batch)
  PROVE  KeysInv'
<1>1. Become(i, Begun(ws, source, batch)) /\ UNCHANGED <<leads, done, blurred, replaced>>
  BY DEF StartImport, Begun
<1>2. Begun(ws, source, batch).pc = "next"
  BY DEF Begun, NoImport
<1> QED BY <1>1, <1>2, KeysQuiet

\* The four queries.
LEMMA ByKeyIs ==
  ASSUME NEW ws, NEW source, NEW c, NEW l
  PROVE  /\ l \in ByKey(ws, source, c, "ext") <=>
              /\ l \in DOMAIN leads /\ l[1] = ws
              /\ c.id # None /\ leads[l].src = source /\ leads[l].ext = c.id
         /\ l \in ByKey(ws, source, c, "email") =>
              l \in DOMAIN leads /\ c.email # None /\ l[2] = c.email
         /\ l \in ByKey(ws, source, c, "link") =>
              l \in DOMAIN leads /\ c.link # None /\ leads[l].link = c.link
         /\ l \in ByKey(ws, source, c, "name") =>
              l \in DOMAIN leads /\ c.name # None /\ leads[l].name = c.name
BY DEF ByKey

LEMMA NoIdFresh ==
  ASSUME NEW ws, NEW source, NEW c, ByKey(ws, source, c, "ext") = {}
  PROVE  Fresh(ws, source, c.id)
BY ByKeyIs DEF Fresh

LEMMA PriorityIs ==
  /\ DOMAIN Priority = 1 .. 4 /\ Priority[1] = "ext" /\ Priority[2] = "email"
  /\ Priority[3] = "link" /\ Priority[4] = "name"
BY DEF Priority

LEMMA FirstOfFour ==
  ASSUME NEW S, S \subseteq 1 .. 4, S # {}
  PROVE  /\ (CHOOSE k \in S : \A j \in S : k <= j) \in S
         /\ 1 \in S => (CHOOSE k \in S : \A j \in S : k <= j) = 1
<1>1. \E k \in S : \A j \in S : k <= j
  <2>1. CASE 1 \in S
    <3>1. \A j \in S : 1 <= j
      OBVIOUS
    <3> QED BY <2>1, <3>1
  <2>2. CASE 1 \notin S /\ 2 \in S
    <3>1. \A j \in S : 2 <= j
      BY <2>2
    <3> QED BY <2>2, <3>1
  <2>3. CASE 1 \notin S /\ 2 \notin S /\ 3 \in S
    <3>1. \A j \in S : 3 <= j
      BY <2>3
    <3> QED BY <2>3, <3>1
  <2>4. CASE 1 \notin S /\ 2 \notin S /\ 3 \notin S
    <3>1. \A j \in S : j = 4
      BY <2>4
    <3>2. 4 \in S
      BY <3>1
    <3> QED BY <3>1, <3>2
  <2> QED BY <2>1, <2>2, <2>3, <2>4
<1> DEFINE first == CHOOSE k \in S : \A j \in S : k <= j
<1>2. first \in S /\ \A j \in S : first <= j
  BY <1>1
<1> HIDE DEF first
<1>3. 1 \in S => first = 1
  BY <1>2
<1> QED BY <1>2, <1>3 DEF first

\* A lead that is found is told by its key; if any lead has the id, it is that one.
LEMMA FirstQuery ==
  ASSUME NEW ws, NEW source, NEW c
  PROVE  /\ Existing(ws, source, c) = {} => ByKey(ws, source, c, "ext") = {}
         /\ \A l \in Existing(ws, source, c) :
              /\ Told(l, leads[l], c)
              /\ ByKey(ws, source, c, "ext") # {} => l \in ByKey(ws, source, c, "ext")
<1> DEFINE answers == {k \in DOMAIN Priority : ByKey(ws, source, c, Priority[k]) # {}}
           first == CHOOSE k \in answers : \A j \in answers : k <= j
<1>1. answers \subseteq 1 .. 4
  BY PriorityIs
<1>2. 1 \in answers <=> ByKey(ws, source, c, "ext") # {}
  BY PriorityIs
<1>3. Existing(ws, source, c) = IF answers = {} THEN {}
                                ELSE ByKey(ws, source, c, Priority[first])
  BY DEF Existing
<1>4. \A k \in answers : ByKey(ws, source, c, Priority[k]) # {}
  OBVIOUS
<1>5. answers # {} => first \in answers /\ (1 \in answers => first = 1)
  BY <1>1, FirstOfFour
<1> HIDE DEF answers, first
<1>6. ASSUME NEW l \in Existing(ws, source, c)
      PROVE  /\ Told(l, leads[l], c)
             /\ ByKey(ws, source, c, "ext") # {} => l \in ByKey(ws, source, c, "ext")
  <2>1. answers # {} /\ l \in ByKey(ws, source, c, Priority[first]) /\ first \in 1 .. 4
    BY <1>1, <1>3, <1>5, <1>6
  <2>2. Priority[first] \in {"ext", "email", "link", "name"}
    BY <2>1, PriorityIs
  <2>3. Told(l, leads[l], c)
    BY <2>1, <2>2, ByKeyIs DEF Told
  <2>4. ByKey(ws, source, c, "ext") # {} => first = 1
    BY <1>2, <1>5
  <2> QED BY <2>1, <2>3, <2>4, PriorityIs
<1>7. Existing(ws, source, c) = {} => ByKey(ws, source, c, "ext") = {}
  BY <1>2, <1>3, <1>4, <1>5
<1> QED BY <1>6, <1>7

\* What the queries find is read as it is.
LEMMA FindClear ==
  ASSUME KeysInv, NEW i \in Importers, NEW q,
         UNCHANGED <<leads, done, replaced>>, blurred \subseteq blurred',
         q.ws = imports[i].ws, q.source = imports[i].source, q.todo = imports[i].todo,
         \/ q.pc = "insert" /\ Answer(i) = {}
         \/ q.pc = "update" /\ q.found \in Answer(i) /\ q.snap = leads[q.found]
  PROVE  Clear(q)'
<1> DEFINE c == Head(q.todo)
<1>1. Answer(i) = Existing(q.ws, q.source, c)
  BY DEF Answer, Current
<1>2. q.ws \in Workspaces
  BY ListsTyped DEF KeysInv, Typed, Framed
<1> HIDE DEF c
<1>3. ASSUME Identifies(q)
      PROVE  Fresh(q.ws, q.source, c.id)
  <2>1. CASE q.pc = "insert"
    <3>1. ByKey(q.ws, q.source, c, "ext") = {}
      BY <1>1, <2>1, FirstQuery
    <3> QED BY <3>1, NoIdFresh
  <2>2. CASE q.pc = "update" /\ q.snap.ext = None
    <3>1. q.found \in Existing(q.ws, q.source, c) /\ leads[q.found].ext = None
      BY <1>1, <2>2
    <3>2. q.found \notin ByKey(q.ws, q.source, c, "ext")
      BY <3>1, ByKeyIs
    <3>3. ByKey(q.ws, q.source, c, "ext") = {}
      BY <3>1, <3>2, FirstQuery
    <3> QED BY <3>3, NoIdFresh
  <2> QED BY <1>3, <2>1, <2>2 DEF Identifies
<1>4. q.pc = "update" => Told(q.found, leads[q.found], c) /\ q.snap = leads[q.found]
  BY <1>1, FirstQuery
<1>5. Reads(q)'
  BY <1>4 DEF Reads, c
<1>6. IdsClear(q)'
  <2>1. Identifies(q) => Fresh(q.ws, q.source, c.id)'
    BY <1>3 DEF Fresh
  <2> QED BY <1>4, <2>1 DEF IdsClear, Identifies, c
<1>7. ValuesClear(q)'
  <2> SUFFICES ASSUME q.ws \notin blurred', q.ws \notin replaced', q.pc = "update"
               PROVE  /\ q.snap.link # None => leads'[q.found].link = q.snap.link
                      /\ q.snap.name # None => leads'[q.found].name = q.snap.name
                      /\ \A d \in done' : d[1] = q.ws => KnownBefore(q, d[2])'
    BY DEF ValuesClear
  <2>1. Tells(q.ws) /\ q.ws \notin blurred
    BY <1>2 DEF KeysInv
  <2>2. ASSUME NEW d \in done, d[1] = q.ws
        PROVE  KnownBefore(q, d[2])'
    <3>1. PICK l \in DOMAIN leads : l[1] = q.ws /\ Told(l, leads[l], d[2])
      BY <2>1, <2>2 DEF Tells, KnownTo
    <3>2. Row(q, l)' = leads[l]
      BY <1>4 DEF Row
    <3> QED BY <3>1, <3>2 DEF KnownBefore
  <2> QED BY <1>4, <2>2
<1> QED BY <1>5, <1>6, <1>7 DEF Clear

LEMMA FindKeys ==
  ASSUME KeysInv, ListsInv', NEW i \in Importers, FindExisting(i)
  PROVE  KeysInv'
<1>1. Typed
  BY ListsTyped DEF KeysInv
<1>2. PICK q :
        /\ Become(i, q) /\ UNCHANGED leads
        /\ q.ws = imports[i].ws /\ q.source = imports[i].source
        /\ q.todo = imports[i].todo
        /\ \/ q.pc = "insert" /\ Answer(i) = {}
           \/ q.pc = "update" /\ q.found \in Answer(i) /\ q.snap = leads[q.found]
  BY <1>1, FindMove
<1>3. /\ UNCHANGED <<done, replaced>> /\ blurred \subseteq blurred'
      /\ \A j \in Importers \ {i} : Writing(j) /\ imports[j].ws = q.ws => q.ws \in blurred'
  BY <1>2 DEF FindExisting
<1>4. imports'[i] = q /\ \A j \in Importers : j # i => imports'[j] = imports[j]
  BY <1>1, <1>2, Becomes
<1>5. Alone'
  <2> SUFFICES ASSUME NEW j \in Importers, NEW k \in Importers, Writing(j)', Writing(k)',
                      imports'[j].ws = imports'[k].ws, imports'[j].ws \notin blurred'
               PROVE  j = k
    BY DEF Alone
  <2>1. CASE j # i /\ k # i
    BY <1>3, <1>4, <2>1 DEF KeysInv, Alone, Writing
  <2>2. CASE j = i /\ k # i
    BY <1>3, <1>4, <2>2 DEF Writing
  <2>3. CASE j # i /\ k = i
    BY <1>3, <1>4, <2>3 DEF Writing
  <2> QED BY <2>1, <2>2, <2>3
<1>6. \A ws : Aside(ws)
  BY <1>2, <1>3, SameAside
<1>7. Stay /\ Sourced'
  BY <1>2, SameStays DEF KeysInv
<1>8. \A ws \in Workspaces : Tells(ws)'
  BY <1>6, <1>7, TellsStays DEF KeysInv
<1>9. ASSUME NEW j \in Importers, NEW r \in {imports'[j]}
      PROVE  Clear(r)'
  <2>1. CASE j = i
    <3>1. r = q
      BY <1>4, <2>1
    <3>2. Clear(q)'
      BY <1>2, <1>3, FindClear
    <3> QED BY <3>1, <3>2
  <2>2. CASE j # i
    <3>1. r = imports[j]
      BY <1>4, <2>2
    <3>2. AtWork(r, leads) /\ Clear(r)
      BY <1>1, <3>1 DEF Typed, KeysInv
    <3> QED BY <1>6, <1>7, <3>2, ClearStays
  <2> QED BY <2>1, <2>2
<1> QED BY <1>5, <1>7, <1>8, <1>9 DEF KeysInv

\* A transaction puts those of other workspaces aside, and whoever is at work in its
\* own has blurred it.
LEMMA OtherAside ==
  ASSUME KeysInv, NEW i \in Importers, Writing(i), NEW j \in Importers \ {i}, Writing(j),
         blurred \subseteq blurred', replaced' = replaced,
         DOMAIN leads' \subseteq DOMAIN leads \cup {l \in Keys : l[1] = imports[i].ws},
         \A l \in DOMAIN leads : l[1] # imports[i].ws => leads'[l] = leads[l],
         done' = done \cup {<<imports[i].ws, Current(i)>>}
  PROVE  Aside(imports[j].ws)
<1>1. CASE imports[j].ws = imports[i].ws
  <2>1. imports[i].ws \in blurred
    BY <1>1 DEF KeysInv, Alone
  <2> QED BY <1>1, <2>1 DEF Aside
<1>2. CASE imports[j].ws # imports[i].ws
  BY <1>2 DEF Aside, Kept
<1> QED BY <1>1, <1>2

LEMMA ElsewhereAside ==
  ASSUME NEW i \in Importers, NEW ws, ws # imports[i].ws,
         blurred \subseteq blurred', replaced' = replaced,
         DOMAIN leads' \subseteq DOMAIN leads \cup {l \in Keys : l[1] = imports[i].ws},
         \A l \in DOMAIN leads : l[1] # imports[i].ws => leads'[l] = leads[l],
         done' = done \cup {<<imports[i].ws, Current(i)>>}
  PROVE  Aside(ws)
BY DEF Aside, Kept

LEMMA FieldNames == {"src", "ext", "link", "name", "status", "raw"} = Fields
BY DEF Fields

LEMMA MappedIs ==
  ASSUME NEW i
  PROVE  /\ MappedBy(i).src = imports[i].source /\ MappedBy(i).ext = Current(i).id
         /\ MappedBy(i).link = Current(i).link /\ MappedBy(i).name = Current(i).name
BY DEF MappedBy, Mapped

\* The lead that is filled, in a workspace without overlaps.
LEMMA FilledTells ==
  ASSUME KeysInv, NEW i \in Importers, UpdateLead(i), NEW ws, ws = imports[i].ws
  PROVE  Tells(ws)'
<1> DEFINE r == imports[i]
           k == r.found
           c == Head(r.todo)
           known(d) == Told(k, r.snap, d)
<1>1. /\ Typed /\ r.pc = "update" /\ r.source \in Sources
      /\ ws \in Workspaces /\ ws = r.ws
      /\ r.source # None
  <2>1. Typed /\ r.pc = "update"
    BY ListsTyped DEF KeysInv, UpdateLead
  <2> QED BY <2>1, ContactImportAssumption DEF Typed, AtWork, Framed
<1>2. /\ k \in DOMAIN leads /\ k[1] = ws /\ DOMAIN leads' = DOMAIN leads
      /\ \A l \in DOMAIN leads : l # k => leads'[l] = leads[l]
      /\ \A f \in Missing(i) : leads'[k][f] = MappedBy(i)[f] /\ r.snap[f] = None
      /\ \A f \in Fields \ Missing(i) : leads'[k][f] = leads[k][f]
  BY <1>1, UpdateEffect
<1>3. /\ MappedBy(i).src = r.source /\ MappedBy(i).ext = c.id
      /\ MappedBy(i).link = c.link /\ MappedBy(i).name = c.name
  BY MappedIs DEF Current
<1>4. {"src", "ext", "link", "name"} \subseteq Fields
  BY FieldNames
<1> SUFFICES ASSUME ws \notin blurred'
             PROVE  /\ OneId(ws)'
                    /\ ws \notin replaced' => \A d \in done' : d[1] = ws => KnownTo(ws, d[2])'
  BY DEF Tells
<1>5. /\ ws \notin blurred /\ ~ OtherSource(i)
      /\ done' = done \cup {<<ws, c>>} /\ replaced' = replaced
  BY DEF UpdateLead, Finished, Current
<1>6. Tells(ws) /\ Clear(r)
  BY <1>1 DEF KeysInv
<1>7. /\ leads[k].src = r.snap.src /\ leads[k].ext = r.snap.ext
      /\ r.snap.ext = None => Fresh(ws, r.source, c.id)
      /\ Told(k, r.snap, c)
  BY <1>1, <1>5, <1>6 DEF Clear, IdsClear, Identifies, Reads
<1>8. "ext" \in Missing(i) => /\ leads'[k].src = r.source /\ leads'[k].ext = c.id
                              /\ c.id # None /\ r.snap.ext = None
  <2> SUFFICES ASSUME "ext" \in Missing(i)
               PROVE  /\ leads'[k].src = r.source /\ leads'[k].ext = c.id
                      /\ c.id # None /\ r.snap.ext = None
    OBVIOUS
  <2>1. Filled(i).src = r.source
    BY <1>5 DEF OtherSource
  <2>2. leads'[k] = Filled(i)
    BY <1>2 DEF UpdateLead
  <2> QED BY <1>2, <1>3, <2>1, <2>2 DEF Missing
<1>9. "ext" \notin Missing(i) => /\ leads'[k].ext = leads[k].ext
                                 /\ leads[k].ext # None => leads'[k].src = leads[k].src
  <2> SUFFICES ASSUME "ext" \notin Missing(i)
               PROVE  /\ leads'[k].ext = leads[k].ext
                      /\ leads[k].ext # None => leads'[k].src = leads[k].src
    OBVIOUS
  <2>1. leads'[k].ext = leads[k].ext
    BY <1>2, <1>4
  <2>2. ASSUME leads[k].ext # None
        PROVE  leads'[k].src = leads[k].src
    <3>1. leads[k].src # None
      BY <1>2, <2>2 DEF KeysInv, Sourced
    <3>2. "src" \notin Missing(i)
      BY <1>2, <1>7, <3>1
    <3> QED BY <1>2, <1>4, <3>2
  <2> QED BY <2>1, <2>2
<1>known. ws \notin replaced =>
            /\ r.snap.link # None => leads[k].link = r.snap.link
            /\ r.snap.name # None => leads[k].name = r.snap.name
            /\ \A d \in done : d[1] = ws => KnownBefore(r, d[2])
  BY <1>1, <1>5, <1>6 DEF Clear, ValuesClear
<1>told. ASSUME NEW d, known(d), ws \notin replaced
         PROVE  Told(k, leads'[k], d)
  <2>1. r.snap.ext # None => leads'[k].ext = r.snap.ext
    BY <1>2, <1>4, <1>7
  <2>2. r.snap.link # None => leads'[k].link = r.snap.link
    BY <1>2, <1>4, <1>known, <1>told
  <2>3. r.snap.name # None => leads'[k].name = r.snap.name
    BY <1>2, <1>4, <1>known, <1>told
  <2> QED BY <2>1, <2>2, <2>3, <1>told DEF Told
<1> HIDE DEF r, k, c, known
<1>10. ASSUME NEW l \in DOMAIN leads, l # k, l[1] = ws,
              leads'[k].ext # None, leads'[k].ext = leads'[l].ext,
              leads'[k].src = leads'[l].src
       PROVE  FALSE
  <2>1. leads'[l] = leads[l]
    BY <1>2, <1>10
  <2>2. CASE "ext" \in Missing(i)
    BY <1>7, <1>8, <1>10, <2>1, <2>2 DEF Fresh
  <2>3. CASE "ext" \notin Missing(i)
    <3>1. SameId(k, l)
      BY <1>9, <1>10, <2>1, <2>3 DEF SameId
    <3>2. OneId(ws)
      BY <1>5, <1>6 DEF Tells
    <3> QED BY <1>2, <1>10, <3>1, <3>2 DEF OneId
  <2> QED BY <2>2, <2>3
<1>11. OneId(ws)'
  <2> SUFFICES ASSUME NEW l \in DOMAIN leads, NEW m \in DOMAIN leads,
                      l[1] = ws, m[1] = ws, SameId(l, m)'
               PROVE  l = m
    BY <1>2 DEF OneId
  <2>1. /\ leads'[l].ext # None /\ leads'[l].ext = leads'[m].ext
        /\ leads'[l].src = leads'[m].src
    BY DEF SameId
  <2>2. CASE l # k /\ m # k
    <3>1. SameId(l, m)
      BY <1>2, <2>1, <2>2 DEF SameId
    <3>2. OneId(ws)
      BY <1>5, <1>6 DEF Tells
    <3> QED BY <3>1, <3>2 DEF OneId
  <2>3. CASE l = k /\ m # k
    BY <1>10, <2>1, <2>3
  <2>4. CASE l # k /\ m = k
    BY <1>10, <2>1, <2>4
  <2> QED BY <2>2, <2>3, <2>4
<1>12. ASSUME ws \notin replaced', NEW d \in done', d[1] = ws
       PROVE  KnownTo(ws, d[2])'
  <2>1. CASE d = <<ws, c>>
    <3>1. d[2] = c /\ known(c)
      BY <1>7, <2>1 DEF known
    <3>2. Told(k, leads'[k], d[2])
      BY <1>5, <1>12, <1>told, <3>1 DEF r
    <3> QED BY <1>2, <3>2 DEF KnownTo
  <2>2. CASE d \in done
    <3>1. KnownBefore(r, d[2])
      BY <1>5, <1>12, <1>known, <2>2 DEF r
    <3>2. PICK l \in DOMAIN leads : l[1] = ws /\ Told(l, Row(r, l), d[2])
      BY <1>1, <3>1 DEF KnownBefore
    <3>3. Told(l, leads'[l], d[2])
      <4>1. CASE l = k
        <5>1. known(d[2])
          BY <3>2, <4>1 DEF Row, known, k
        <5> QED BY <1>5, <1>12, <1>told, <4>1, <5>1 DEF r
      <4>2. CASE l # k
        BY <1>2, <3>2, <4>2 DEF Row, k
      <4> QED BY <4>1, <4>2
    <3> QED BY <1>2, <3>2, <3>3 DEF KnownTo
  <2> QED BY <1>5, <1>12, <2>1, <2>2
<1> QED BY <1>11, <1>12

\* A source that has been read is not taken away, an id never comes without one.
LEMMA UpdateSourced ==
  ASSUME KeysInv, NEW i \in Importers, UpdateLead(i)
  PROVE  Stay /\ Sourced'
<1> DEFINE r == imports[i]
           k == r.found
<1>1. Typed /\ r.pc = "update" /\ r.source # None
  <2>1. Typed /\ r.pc = "update"
    BY ListsTyped DEF KeysInv, UpdateLead
  <2> QED BY <2>1, ContactImportAssumption DEF Typed, AtWork
<1>2. /\ k \in DOMAIN leads /\ DOMAIN leads' = DOMAIN leads
      /\ \A l \in DOMAIN leads : l # k => leads'[l] = leads[l]
      /\ \A f \in Missing(i) : leads'[k][f] = MappedBy(i)[f] /\ MappedBy(i)[f] # None
      /\ \A f \in Fields \ Missing(i) : leads'[k][f] = leads[k][f]
  BY <1>1, UpdateEffect
<1>3. {"src", "ext"} \subseteq Fields
  BY FieldNames
<1>4. "src" \in Missing(i) <=> r.snap.src = None
  BY <1>1, <1>3, MappedIs DEF Missing
<1>5. r.snap.src # None => leads[k].src # None
  BY <1>1 DEF KeysInv, Clear, Reads
<1> HIDE DEF r, k
<1>6. leads'[k].src # None
  BY <1>2, <1>3, <1>4, <1>5
<1>7. Stay
  BY <1>2, <1>6 DEF Stay
<1>8. Sourced'
  BY <1>2, <1>6 DEF KeysInv, Sourced
<1> QED BY <1>7, <1>8

LEMMA UpdateKeys ==
  ASSUME KeysInv, ListsInv', NEW i \in Importers, UpdateLead(i)
  PROVE  KeysInv'
<1>1. Typed /\ imports[i].ws \in Workspaces
  BY ListsTyped DEF KeysInv, Typed, Framed
<1>2. /\ Become(i, Passed(i, Outcome(i))) /\ blurred \subseteq blurred' /\ replaced' = replaced
      /\ done' = done \cup {<<imports[i].ws, Current(i)>>} /\ Writing(i)
  BY DEF UpdateLead, Finished, Writing
<1>3. /\ DOMAIN leads' \subseteq DOMAIN leads \cup {l \in Keys : l[1] = imports[i].ws}
      /\ \A l \in DOMAIN leads : l[1] # imports[i].ws => leads'[l] = leads[l]
  BY <1>1, UpdateEffect
<1>4. Passed(i, Outcome(i)).pc = "next"
  BY <1>1, PassedPc
<1>5. Stay /\ Sourced'
  BY UpdateSourced
<1>6. ASSUME NEW ws \in Workspaces
      PROVE  Tells(ws)'
  <2>1. CASE ws = imports[i].ws
    BY <2>1, FilledTells
  <2>2. CASE ws # imports[i].ws
    <3>1. Aside(ws)
      BY <1>2, <1>3, <2>2, ElsewhereAside
    <3> QED BY <1>5, <3>1, TellsStays DEF KeysInv
  <2> QED BY <2>1, <2>2
<1>7. \A j \in Importers \ {i} : Writing(j) => Aside(imports[j].ws)
  BY <1>2, <1>3, OtherAside
<1> QED BY <1>2, <1>4, <1>5, <1>6, <1>7, KeysMove

\* The lead that is inserted, in a workspace without overlaps.
LEMMA InsertedTells ==
  ASSUME KeysInv, NEW i \in Importers, InsertLead(i), NEW ws, ws = imports[i].ws
  PROVE  Tells(ws)'
<1> DEFINE r == imports[i]
           c == Head(r.todo)
           key == InsertKey(i)
<1>1. Typed /\ ws \in Workspaces /\ r.pc = "insert" /\ ws = r.ws /\ c.email \in Emails
  BY ListsTyped DEF KeysInv, Typed, Framed, AtWork, InsertLead
<1>2. /\ key \notin DOMAIN leads /\ DOMAIN leads' = DOMAIN leads \cup {key}
      /\ leads'[key] = MappedBy(i) /\ \A l \in DOMAIN leads : leads'[l] = leads[l]
  BY <1>1, InsertEffect
<1>3. leads'[key].src = r.source /\ leads'[key].ext = c.id
  BY <1>2, MappedIs DEF Current
<1>4. key[1] = ws /\ key[2] = c.email /\ c.email # None
  BY <1>1, ContactImportAssumption DEF InsertKey, Current
<1>5. /\ UNCHANGED <<blurred, replaced>> /\ done' = done \cup {<<ws, c>>}
  BY DEF InsertLead, Finished, Current
<1> SUFFICES ASSUME ws \notin blurred'
             PROVE  /\ OneId(ws)'
                    /\ ws \notin replaced' => \A d \in done' : d[1] = ws => KnownTo(ws, d[2])'
  BY DEF Tells
<1>6. Tells(ws) /\ OneId(ws)
  BY <1>1, <1>5 DEF KeysInv, Tells
<1>7. Fresh(ws, r.source, c.id)
  BY <1>1, <1>5 DEF KeysInv, Clear, IdsClear, Identifies
<1> HIDE DEF r, c, key
<1>8. OneId(ws)'
  <2> SUFFICES ASSUME NEW l \in DOMAIN leads', NEW m \in DOMAIN leads',
                      l[1] = ws, m[1] = ws, SameId(l, m)'
               PROVE  l = m
    BY DEF OneId
  <2>1. /\ leads'[l].ext # None /\ leads'[l].ext = leads'[m].ext
        /\ leads'[l].src = leads'[m].src
    BY DEF SameId
  <2>2. CASE l # key /\ m # key
    <3>1. SameId(l, m) /\ l \in DOMAIN leads /\ m \in DOMAIN leads
      BY <1>2, <2>1, <2>2 DEF SameId
    <3> QED BY <1>6, <3>1 DEF OneId
  <2>3. CASE l = key /\ m # key
    BY <1>2, <1>3, <1>7, <2>1, <2>3 DEF Fresh
  <2>4. CASE l # key /\ m = key
    BY <1>2, <1>3, <1>7, <2>1, <2>4 DEF Fresh
  <2> QED BY <2>2, <2>3, <2>4
<1>9. ASSUME ws \notin replaced', NEW d \in done', d[1] = ws
      PROVE  KnownTo(ws, d[2])'
  <2>1. CASE d = <<ws, c>>
    <3>1. Told(key, leads'[key], d[2])
      BY <1>4, <2>1 DEF Told
    <3> QED BY <1>2, <1>4, <3>1 DEF KnownTo
  <2>2. CASE d \in done
    <3>1. PICK l \in DOMAIN leads : l[1] = ws /\ Told(l, leads[l], d[2])
      BY <1>5, <1>6, <1>9, <2>2 DEF Tells, KnownTo
    <3> QED BY <1>2, <3>1 DEF KnownTo
  <2> QED BY <1>5, <2>1, <2>2
<1> QED BY <1>8, <1>9

LEMMA InsertKeys ==
  ASSUME KeysInv, ListsInv', NEW i \in Importers, InsertLead(i)
  PROVE  KeysInv'
<1> DEFINE q == [Passed(i, "created") EXCEPT !.ids = Append(@, InsertKey(i))]
<1>1. Typed /\ imports[i].ws \in Workspaces /\ imports[i].source # None
  <2>1. Typed /\ imports[i].pc = "insert"
    BY ListsTyped DEF KeysInv, InsertLead
  <2> QED BY <2>1, ContactImportAssumption DEF Typed, Framed, AtWork
<1>2. /\ Become(i, q) /\ blurred \subseteq blurred' /\ replaced' = replaced
      /\ done' = done \cup {<<imports[i].ws, Current(i)>>} /\ Writing(i)
  BY DEF InsertLead, Finished, Writing
<1>3. /\ InsertKey(i) \notin DOMAIN leads /\ DOMAIN leads' = DOMAIN leads \cup {InsertKey(i)}
      /\ leads'[InsertKey(i)] = MappedBy(i)
      /\ \A l \in DOMAIN leads : leads'[l] = leads[l]
  BY <1>1, InsertEffect
<1>4. InsertKey(i) \in Keys /\ InsertKey(i)[1] = imports[i].ws
  BY <1>1, InsertLeadGrown DEF InsertKey
<1>5. /\ DOMAIN leads' \subseteq DOMAIN leads \cup {l \in Keys : l[1] = imports[i].ws}
      /\ \A l \in DOMAIN leads : l[1] # imports[i].ws => leads'[l] = leads[l]
  BY <1>3, <1>4
<1>6. q.pc = "next"
  BY <1>1, PassedListed DEF Passes
<1>7. Stay
  BY <1>3 DEF Stay
<1>8. Sourced'
  <2>1. leads'[InsertKey(i)].src # None
    BY <1>1, <1>3, MappedIs
  <2> QED BY <1>3, <2>1 DEF KeysInv, Sourced
<1> HIDE DEF q
<1>9. ASSUME NEW ws \in Workspaces
      PROVE  Tells(ws)'
  <2>1. CASE ws = imports[i].ws
    BY <2>1, InsertedTells
  <2>2. CASE ws # imports[i].ws
    <3>1. Aside(ws)
      BY <1>2, <1>5, <2>2, ElsewhereAside
    <3> QED BY <1>7, <3>1, TellsStays DEF KeysInv
  <2> QED BY <2>1, <2>2
<1>10. \A j \in Importers \ {i} : Writing(j) => Aside(imports[j].ws)
  BY <1>2, <1>5, OtherAside
<1> QED BY <1>2, <1>6, <1>7, <1>8, <1>9, <1>10, KeysMove

LEMMA ImportKeys ==
  ASSUME KeysInv, ListsInv', NEW i \in Importers, ImportStep(i)
  PROVE  KeysInv'
<1>1. CASE FindExisting(i)
  BY <1>1, FindKeys
<1>2. CASE UpdateLead(i)
  BY <1>2, UpdateKeys
<1>3. CASE InsertLead(i)
  BY <1>3, InsertKeys
<1>4. CASE \/ SkipContact(i) \/ FindFailure(i) \/ UpdateFailure(i)
           \/ InsertFailure(i) \/ FinishImport(i) \/ Crash(i)
  BY <1>4, QuietKeys
<1> QED BY <1>1, <1>2, <1>3, <1>4 DEF ImportStep

\* Uploads, webhooks and verifications write to leads without ids.
LEMMA RestKeys ==
  ASSUME KeysInv, ListsInv', UNCHANGED <<imports, done, blurred>>, replaced \subseteq replaced',
         DOMAIN leads \subseteq DOMAIN leads', \A l \in DOMAIN leads : Kept(l),
         \A l \in DOMAIN leads' \ DOMAIN leads : leads'[l].ext = None
  PROVE  KeysInv'
<1>1. \A ws : Aside(ws)
  BY DEF Aside
<1>2. Stay
  BY DEF Stay, Kept
<1>3. Sourced'
  BY DEF KeysInv, Sourced, Kept
<1> QED BY <1>1, <1>2, <1>3, KeysRest

LEMMA OthersKeys ==
  ASSUME KeysInv, ListsInv', Others
  PROVE  KeysInv'
<1>1. Typed
  BY ListsTyped DEF KeysInv
<1>2. /\ {"src", "ext", "link", "name"} \subseteq Fields
      /\ "status" \notin {"src", "ext", "link", "name"}
      /\ {"src", "ext"} \cap {"link", "name"} = {}
  BY DEF Fields
<1>3. ASSUME NEW ws \in Workspaces \cup {None}, NEW file \in Files, Upload(ws, file)
      PROVE  KeysInv'
  <2>1. /\ DOMAIN leads \subseteq DOMAIN leads'
        /\ \A l \in DOMAIN leads :
             /\ \A f \in Fields \ {"link", "name"} : leads'[l][f] = leads[l][f]
             /\ \A f \in {"link", "name"} :
                  \/ leads'[l][f] = leads[l][f]
                  \/ /\ leads'[l][f] # None
                     /\ leads[l][f] # None => l[1] \in replaced'
        /\ \A l \in DOMAIN leads' \ DOMAIN leads : leads'[l].ext = None
        /\ replaced \subseteq replaced'
        /\ UNCHANGED <<imports, done, blurred>>
    BY <1>1, <1>3, UploadEffect DEF Grown
  <2>2. \A l \in DOMAIN leads : Kept(l)
    BY <1>2, <2>1 DEF Kept
  <2> QED BY <2>1, <2>2, RestKeys
<1>4. ASSUME NEW ws \in Workspaces, NEW email \in Emails, FindOrCreateLead(ws, email)
      PROVE  KeysInv'
  <2>1. /\ DOMAIN leads' = DOMAIN leads \cup {<<ws, email>>}
        /\ leads'[<<ws, email>>] = NewLead
        /\ \A l \in DOMAIN leads : leads'[l] = leads[l]
        /\ UNCHANGED <<imports, done, blurred, replaced>>
    BY <1>1, <1>4, WebhookEffect
  <2>2. \A l \in DOMAIN leads : Kept(l)
    BY <2>1 DEF Kept
  <2>3. NewLead.ext = None
    BY DEF NewLead, Fields
  <2> QED BY <2>1, <2>2, <2>3, RestKeys
<1>5. ASSUME NEW l \in DOMAIN leads, NEW status, CacheVerdict(l, status)
      PROVE  KeysInv'
  <2>1. /\ Grown({})
        /\ \A m \in DOMAIN leads, f \in Fields :
             f # "status" \/ m # l => leads'[m][f] = leads[m][f]
        /\ UNCHANGED <<imports, done, blurred, replaced>>
    BY <1>1, <1>5, VerdictEffect
  <2>2. \A m \in DOMAIN leads : Kept(m)
    BY <1>2, <2>1 DEF Kept
  <2>3. DOMAIN leads' = DOMAIN leads
    BY <2>1 DEF Grown
  <2> QED BY <2>1, <2>2, <2>3, RestKeys
<1> QED BY <1>3, <1>4, <1>5 DEF Others

LEMMA KeysInit == Init => KeysInv
<1> SUFFICES ASSUME Init PROVE KeysInv
  OBVIOUS
<1>1. ListsInv
  BY ListsInit
<1>2. DOMAIN leads = {} /\ done = {}
  BY DEF Init
<1>3. \A i \in Importers : imports[i].pc = "idle"
  BY DEF Init, NoImport
<1>4. Alone
  BY <1>3 DEF Alone, Writing
<1>5. Sourced /\ \A ws \in Workspaces : Tells(ws)
  BY <1>2 DEF Sourced, Tells, OneId
<1>6. \A i \in Importers : \A r \in {imports[i]} : Clear(r)
  BY <1>3 DEF Clear, Reads, IdsClear, ValuesClear, Identifies
<1> QED BY <1>1, <1>4, <1>5, <1>6 DEF KeysInv

LEMMA KeysNext == KeysInv /\ [Next]_vars => KeysInv'
<1> SUFFICES ASSUME KeysInv, [Next]_vars PROVE KeysInv'
  OBVIOUS
<1>1. ListsInv'
  BY ListsNext DEF KeysInv
<1>2. CASE UNCHANGED vars
  <2>1. /\ UNCHANGED <<imports, done, blurred, replaced>> /\ DOMAIN leads' = DOMAIN leads
        /\ \A l \in DOMAIN leads : Kept(l)
    BY <1>2 DEF vars, Kept
  <2> QED BY <1>1, <2>1, RestKeys
<1>3. ASSUME NEW i \in Importers, NEW ws \in Workspaces, NEW source \in Sources,
             NEW batch \in Batches, StartImport(i, ws, source, batch)
      PROVE  KeysInv'
  BY <1>1, <1>3, StartKeys
<1>4. ASSUME NEW i \in Importers, ImportStep(i)
      PROVE  KeysInv'
  BY <1>1, <1>4, ImportKeys
<1>5. CASE Others
  BY <1>1, <1>5, OthersKeys
<1> QED BY <1>2, <1>3, <1>4, <1>5 DEF Next

LEMMA KeysTrue == KeysInv => KeysTell
<1> SUFFICES ASSUME KeysInv, NEW ws \in Workspaces \ blurred
             PROVE  /\ \A l, m \in DOMAIN leads :
                         l[1] = ws /\ m[1] = ws /\ SameId(l, m) => l = m
                    /\ ws \notin replaced =>
                         \A d \in done : d[1] = ws =>
                           \E l \in DOMAIN leads : l[1] = ws /\ Recognizes(l, d[2])
  BY DEF KeysTell
<1>1. /\ OneId(ws)
      /\ ws \notin replaced => \A d \in done : d[1] = ws => KnownTo(ws, d[2])
  BY DEF KeysInv, Tells
<1>2. \A l, c : Told(l, leads[l], c) => Recognizes(l, c)
  BY DEF Told, Recognizes
<1> QED BY <1>1, <1>2 DEF OneId, KnownTo

\* Unless imports of one workspace overlap or an id is filled in under another
\* source, an external id stands for one lead of the workspace; and until an upload
\* replaces a link or a name, every contact that was created or matched is told again
\* by some lead.
THEOREM KeysTellCorrect == Spec => []KeysTell
<1>1. KeysInv /\ [Next]_vars => KeysInv'
  BY KeysNext
<1> QED BY <1>1, KeysInit, KeysTrue, PTL DEF Spec

-----------------------------------------------------------------------------
(* The rows of an upload, one by one *)

\* What holds of 0 and with every number of its successor holds of all: the set of
\* counterexamples has no least element.
LEMMA NatInduct ==
  ASSUME NEW T \in SUBSET Nat, 0 \in T, \A n \in T : n + 1 \in T
  PROVE  T = Nat
<1> DEFINE S == Nat \ T
<1>1. SUFFICES ASSUME S # {} PROVE FALSE
  OBVIOUS
<1>2. \E x \in S : \A y \in S : ~ (<<y, x>> \in OpToRel(<, Nat))
  <2>1. S \in SUBSET Nat
    OBVIOUS
  <2> HIDE DEF S
  <2> QED BY <1>1, <2>1, NatLessThanWellFounded, WFMin
<1>3. PICK x \in S : \A y \in S : ~ (<<y, x>> \in OpToRel(<, Nat))
  BY <1>2
<1>4. x # 0 /\ x - 1 \in Nat /\ (x - 1) + 1 = x /\ x - 1 < x
  OBVIOUS
<1>5. x - 1 \in T
  BY <1>3, <1>4 DEF OpToRel
<1> QED BY <1>3, <1>4, <1>5

LEMMA MergedRow ==
  ASSUME NEW winner \in FileRow, NEW loser \in FileRow
  PROVE  MergeRows(winner, loser) \in FileRow
<1> DEFINE row == MergeRows(winner, loser)
<1>1. row = [f \in Columns |-> IF winner[f] = None THEN loser[f] ELSE winner[f]]
  BY DEF MergeRows
<1>2. row = [email |-> row.email, link |-> row.link, name |-> row.name]
  BY <1>1 DEF Columns
<1>3. /\ row.email \in {winner.email, loser.email} /\ row.link \in {winner.link, loser.link}
      /\ row.name \in {winner.name, loser.name}
  BY <1>1 DEF Columns
<1> HIDE DEF row
<1>4. row \in FileRow
  BY <1>2, <1>3 DEF FileRow
<1> QED BY <1>4 DEF row

LEMMA BucketedRow ==
  ASSUME NEW seen \in FileRow, NEW row \in FileRow, NEW email
  PROVE  Bucketed(seen, row, email) \in FileRow
BY MergedRow DEF Bucketed, Collide

LEMMA NoRowType == NoRow \in FileRow
<1>1. NoRow = [email |-> None, link |-> None, name |-> None]
  BY DEF NoRow, Columns
<1> QED BY <1>1 DEF FileRow

\* f lists what the bucket of an email holds after the first rows of a file, up to
\* the N-th.
Buckets(f, file, email, N) ==
  f = [n \in 0 .. N |-> IF n = 0 THEN NoRow ELSE Bucketed(f[n - 1], file[n], email)]

LEMMA BucketsExist ==
  ASSUME NEW file, NEW email, NEW N \in Nat
  PROVE  \E f : Buckets(f, file, email, N)
<1> DEFINE T == {n \in Nat : \E f : Buckets(f, file, email, n)}
<1>1. 0 \in T
  <2> DEFINE f == [n \in 0 .. 0 |-> NoRow]
  <2>1. f = [n \in 0 .. 0 |-> IF n = 0 THEN NoRow ELSE Bucketed(f[n - 1], file[n], email)]
    OBVIOUS
  <2> QED BY <2>1 DEF Buckets
<1>2. ASSUME NEW n \in T PROVE n + 1 \in T
  <2>1. PICK f : Buckets(f, file, email, n)
    OBVIOUS
  <2> DEFINE g == [m \in 0 .. n + 1 |-> IF m = n + 1 THEN Bucketed(f[n], file[n + 1], email)
                                        ELSE f[m]]
  <2>2. \A m \in 0 .. n : g[m] = f[m]
    OBVIOUS
  <2>3. g[n + 1] = Bucketed(g[n], file[n + 1], email)
    <3>1. g[n + 1] = Bucketed(f[n], file[n + 1], email) /\ g[n] = f[n]
      OBVIOUS
    <3> QED BY <3>1
  <2>4. DOMAIN g = 0 .. n + 1 /\ g = [m \in 0 .. n + 1 |-> g[m]]
    OBVIOUS
  <2> HIDE DEF g
  <2>5. ASSUME NEW m \in 0 .. n + 1
        PROVE  g[m] = IF m = 0 THEN NoRow ELSE Bucketed(g[m - 1], file[m], email)
    <3>1. CASE m = n + 1
      BY <2>3, <3>1
    <3>2. CASE m # n + 1
      <4>1. m \in 0 .. n /\ (m # 0 => m - 1 \in 0 .. n)
        BY <3>2
      <4>2. f[m] = IF m = 0 THEN NoRow ELSE Bucketed(f[m - 1], file[m], email)
        BY <2>1, <4>1 DEF Buckets
      <4> QED BY <2>2, <4>1, <4>2
    <3> QED BY <3>1, <3>2
  <2>6. Buckets(g, file, email, n + 1)
    BY <2>4, <2>5 DEF Buckets
  <2> QED BY <2>6
<1>3. T = Nat
  <2>1. T \in SUBSET Nat
    OBVIOUS
  <2> HIDE DEF T
  <2> QED BY <1>1, <1>2, <2>1, NatInduct
<1> QED BY <1>3

\* What the rows of a file come to is a row.
LEMMA DedupedRow ==
  ASSUME NEW file \in Seq(FileRow), NEW email
  PROVE  Deduped(file, email) \in FileRow
<1> DEFINE N == Len(file)
           seen == CHOOSE f : Buckets(f, file, email, N)
           T == {n \in Nat : n <= N => seen[n] \in FileRow}
<1>1. N \in Nat /\ \A n \in 1 .. N : file[n] \in FileRow
  BY LenProperties, ElementOfSeq
<1>2. Buckets(seen, file, email, N)
  BY <1>1, BucketsExist
<1>3. Deduped(file, email) = seen[N]
  BY DEF Deduped, Buckets
<1> HIDE DEF N, seen
<1>4. 0 \in T
  <2>1. seen[0] = NoRow
    BY <1>1, <1>2 DEF Buckets
  <2> QED BY <2>1, NoRowType
<1>5. ASSUME NEW n \in T PROVE n + 1 \in T
  <2>1. SUFFICES ASSUME n + 1 <= N PROVE seen[n + 1] \in FileRow
    OBVIOUS
  <2>2. seen[n] \in FileRow /\ file[n + 1] \in FileRow
    BY <1>1, <2>1
  <2>3. seen[n + 1] = Bucketed(seen[n], file[n + 1], email)
    BY <1>1, <1>2, <2>1 DEF Buckets
  <2> QED BY <2>2, <2>3, BucketedRow
<1>6. T = Nat
  <2>1. T \in SUBSET Nat
    OBVIOUS
  <2> HIDE DEF T
  <2> QED BY <1>4, <1>5, <2>1, NatInduct
<1> QED BY <1>1, <1>3, <1>6

-----------------------------------------------------------------------------
(* All types *)

\* What a lead and an import hold, on top of what the lists need of them.
Filed ==
  /\ ListsInv
  /\ TypeOK

LEMMA MappedLead ==
  ASSUME NEW c \in Contact, NEW source \in Sources \cup {None}
  PROVE  Mapped(c, source) \in Lead
BY DEF Mapped, Contact, Lead

LEMMA NewLeadType == NewLead \in Lead
<1>1. NewLead = [src |-> None, ext |-> None, link |-> None, name |-> None,
                 status |-> None, raw |-> None]
  BY DEF NewLead, Fields
<1> QED BY <1>1 DEF Lead

\* A lead each field of which comes from one of two leads.
LEMMA MixedLead ==
  ASSUME NEW a \in Lead, NEW b \in Lead, NEW c, c = [f \in Fields |-> c[f]],
         \A f \in Fields : c[f] \in {a[f], b[f]}
  PROVE  c \in Lead
<1>1. c = [src |-> c.src, ext |-> c.ext, link |-> c.link, name |-> c.name,
           status |-> c.status, raw |-> c.raw]
  BY DEF Fields
<1>2. /\ c.src \in {a.src, b.src} /\ c.ext \in {a.ext, b.ext} /\ c.link \in {a.link, b.link}
      /\ c.name \in {a.name, b.name} /\ c.status \in {a.status, b.status}
      /\ c.raw \in {a.raw, b.raw}
  BY DEF Fields
<1>3. /\ c.src \in Sources \cup {None} /\ c.ext \in Ids \cup {None}
      /\ c.link \in Links \cup {None} /\ c.name \in Names \cup {None}
      /\ c.status \in {"verified", "invalid", None} /\ c.raw \in {"payload", None}
  BY <1>2 DEF Lead
<1> QED BY <1>1, <1>3 DEF Lead

LEMMA OverwrittenLead ==
  ASSUME NEW lead \in Lead, NEW row \in FileRow
  PROVE  Overwritten(lead, row) \in Lead
<1>1. row.link \in Links \cup {None} /\ row.name \in Names \cup {None}
  BY DEF FileRow
<1>2. lead.link \in Links \cup {None} /\ lead.name \in Names \cup {None}
  BY DEF Lead
<1> DEFINE link == IF row.link = None THEN lead.link ELSE row.link
           name == IF row.name = None THEN lead.name ELSE row.name
<1>3. link \in Links \cup {None} /\ name \in Names \cup {None}
  BY <1>1, <1>2
<1>4. Overwritten(lead, row) = [lead EXCEPT !.link = link, !.name = name]
  BY DEF Overwritten
<1> HIDE DEF link, name
<1> QED BY <1>3, <1>4 DEF Lead

\* The contact of an import at work, as the lead it would be.
LEMMA CurrentTypes ==
  ASSUME Filed, NEW i \in Importers, imports[i].todo # <<>>
  PROVE  /\ imports[i] \in Import /\ Current(i) \in Contact
         /\ Tail(imports[i].todo) \in Seq(Contact)
         /\ MappedBy(i) \in Lead
<1>1. imports[i] \in Import
  BY DEF Filed, TypeOK
<1>2. Current(i) \in Contact /\ Tail(imports[i].todo) \in Seq(Contact)
  BY <1>1, HeadTailProperties DEF Import, Current
<1>3. imports[i].source \in Sources \cup {None}
  BY <1>1 DEF Import
<1> QED BY <1>1, <1>2, <1>3, MappedLead DEF MappedBy

LEMMA PassedImport ==
  ASSUME Filed, NEW i \in Importers, imports[i].todo # <<>>,
         NEW k \in Counter \ {"fetched"}
  PROVE  Passed(i, k) \in Import
<1> DEFINE r == imports[i]
           counts == Counted(r.counts, k)
           todo == Tail(r.todo)
<1>1. r \in Import /\ todo \in Seq(Contact)
  BY CurrentTypes
<1>2. counts \in [Counter -> Nat]
  BY <1>1, CountedOne DEF Import
<1>3. Passed(i, k) = [r EXCEPT !.pc = "next", !.todo = todo, !.counts = counts,
                               !.found = NoKey, !.snap = NewLead]
  BY DEF Passed
<1> HIDE DEF r, counts, todo
<1> QED BY <1>1, <1>2, <1>3, NewLeadType DEF Import

\* Import i becomes r, which is one.
LEMMA BecomesImport ==
  ASSUME Filed, NEW i \in Importers, NEW r \in Import, Become(i, r)
  PROVE  imports' \in [Importers -> Import]
BY DEF Filed, TypeOK, Become

LEMMA FaultType == ASSUME Filed, Fault PROVE faults' \in 0 .. MaxFaults
BY ContactImportAssumption DEF Filed, TypeOK, Fault

LEMMA EditType == ASSUME Filed, Edit PROVE edits' \in 0 .. MaxEdits
BY ContactImportAssumption DEF Filed, TypeOK, Edit

\* An import becomes r; the leads are what they were.
LEMMA FiledMove ==
  ASSUME Filed, ListsInv', NEW i \in Importers, NEW r \in Import, Become(i, r),
         UNCHANGED <<leads, maker, done, replaced>>,
         UNCHANGED started \/ started' \in 0 .. MaxImports,
         UNCHANGED edits, UNCHANGED faults \/ Fault,
         UNCHANGED blurred \/ blurred' = blurred \cup {imports[i].ws}
  PROVE  Filed'
<1>1. imports' \in [Importers -> Import]
  BY BecomesImport
<1>2. faults' \in 0 .. MaxFaults
  BY FaultType DEF Filed, TypeOK
<1>3. imports[i].ws \in Workspaces
  BY DEF Filed, TypeOK, Import
<1> QED BY <1>1, <1>2, <1>3 DEF Filed, TypeOK

\* Of the tables, only the types of new values are left to show.
LEMMA FiledTables ==
  ASSUME Filed, ListsInv', imports' \in [Importers -> Import],
         \A l \in DOMAIN leads' : leads'[l] \in Lead,
         \A l \in DOMAIN maker' : maker'[l] \in Importers \cup {None},
         UNCHANGED started, edits' \in 0 .. MaxEdits, UNCHANGED faults,
         done' \subseteq Workspaces \X Contact,
         blurred' \subseteq Workspaces, replaced' \subseteq Workspaces
  PROVE  Filed'
<1>1. Tables'
  BY DEF ListsInv
<1> QED BY <1>1 DEF Filed, TypeOK, Tables

LEMMA NoImportType == NoImport \in Import
<1>1. PICK none : none = <<>>
  OBVIOUS
<1>2. none \in Seq(Contact) /\ none \in Seq(Keys \cup {NoKey})
  BY <1>1
<1>3. NoCounts \in [Counter -> Nat]
  BY DEF NoCounts
<1>4. NoImport = [pc |-> "idle", ws |-> DefaultWorkspace, source |-> None, todo |-> none,
                  found |-> NoKey, snap |-> NewLead, counts |-> NoCounts, ids |-> none,
                  failed |-> 0, log |-> "none"]
  BY <1>1 DEF NoImport
<1> QED BY <1>2, <1>3, <1>4, NewLeadType, ContactImportAssumption DEF Import

LEMMA FiledStart ==
  ASSUME Filed, ListsInv', NEW i \in Importers, NEW ws \in Workspaces, NEW source \in Sources,
         NEW batch \in Batches, StartImport(i, ws, source, batch)
  PROVE  Filed'
<1> DEFINE n == [NoCounts EXCEPT !.fetched = Len(batch)]
           r == [NoImport EXCEPT !.pc = "next", !.ws = ws, !.source = source,
                                 !.todo = batch, !.counts = n, !.log = "running"]
<1>1. batch \in Seq(Contact) /\ Len(batch) \in Nat
  BY ContactImportAssumption, LenProperties
<1>2. n \in [Counter -> Nat]
  BY <1>1 DEF NoCounts
<1> HIDE DEF n
<1>3. NoImport \in Import
  BY NoImportType
<1>4. r \in Import
  BY <1>1, <1>2, <1>3 DEF Import
<1>5. Become(i, r)
  BY DEF StartImport, n
<1> HIDE DEF r
<1>6. started' \in 0 .. MaxImports
  BY ContactImportAssumption DEF StartImport, Filed, TypeOK
<1> QED BY <1>4, <1>5, <1>6, FiledMove DEF StartImport

LEMMA FiledPasses ==
  ASSUME Filed, ListsInv', NEW i \in Importers,
         SkipContact(i) \/ FindFailure(i)
  PROVE  Filed'
<1>1. PICK k \in {"skipped", "errors"} : Become(i, Passed(i, k))
  BY DEF SkipContact, FindFailure
<1>2. k \in Counter \ {"fetched"} /\ imports[i].todo # <<>>
  BY <1>1 DEF SkipContact, FindFailure, Counter
<1>3. Passed(i, k) \in Import
  BY <1>2, PassedImport
<1>4. UNCHANGED <<leads, maker, done, replaced, started, edits, blurred>>
      /\ (UNCHANGED faults \/ Fault)
  BY DEF SkipContact, FindFailure
<1> QED BY <1>1, <1>3, <1>4, FiledMove

LEMMA FiledFind ==
  ASSUME Filed, ListsInv', NEW i \in Importers, FindExisting(i)
  PROVE  Filed'
<1>1. imports[i] \in Import
  BY DEF Filed, TypeOK
<1>2. UNCHANGED <<leads, maker, done, replaced, started, edits, faults>>
      /\ (UNCHANGED blurred \/ blurred' = blurred \cup {imports[i].ws})
  BY DEF FindExisting
<1>3. CASE Become(i, [imports[i] EXCEPT !.pc = "insert"])
  <2>1. [imports[i] EXCEPT !.pc = "insert"] \in Import
    BY <1>1 DEF Import
  <2> QED BY <1>2, <1>3, <2>1, FiledMove
<1>4. CASE \E l \in Answer(i) :
             Become(i, [imports[i] EXCEPT !.pc = "update", !.found = l, !.snap = leads[l]])
  <2>1. PICK l \in Answer(i) :
               Become(i, [imports[i] EXCEPT !.pc = "update", !.found = l, !.snap = leads[l]])
    BY <1>4
  <2>2. l \in DOMAIN leads
    BY ExistingIs DEF Answer
  <2>3. l \in Keys /\ leads[l] \in Lead
    BY <2>2 DEF Filed, TypeOK
  <2>4. [imports[i] EXCEPT !.pc = "update", !.found = l, !.snap = leads[l]] \in Import
    BY <1>1, <2>3 DEF Import
  <2> QED BY <1>2, <2>1, <2>4, FiledMove
<1> QED BY <1>3, <1>4 DEF FindExisting

\* A call that has passed its contact, with the counters and ids of a failed commit.
LEMMA PassedTwiceImport ==
  ASSUME NEW p \in Import, NEW ids \in Seq(Keys \cup {NoKey})
  PROVE  [p EXCEPT !.counts = Counted(p.counts, "errors"), !.ids = ids,
                   !.failed = p.failed + 1] \in Import
<1> DEFINE counts == Counted(p.counts, "errors")
<1>1. "errors" \in Counter \ {"fetched"} /\ p.counts \in [Counter -> Nat] /\ p.failed + 1 \in Nat
  BY DEF Counter, Import
<1>2. counts \in [Counter -> Nat]
  BY <1>1, CountedOne
<1> HIDE DEF counts
<1>3. [p EXCEPT !.counts = counts, !.ids = ids, !.failed = p.failed + 1] \in Import
  BY <1>1, <1>2 DEF Import
<1> QED BY <1>3 DEF counts

LEMMA FiledUpdateFailure ==
  ASSUME Filed, ListsInv', NEW i \in Importers, UpdateFailure(i)
  PROVE  Filed'
<1> DEFINE p == Passed(i, Outcome(i))
           q == [p EXCEPT !.counts = Counted(p.counts, "errors"), !.failed = @ + 1]
<1>1. imports[i].todo # <<>>
  BY DEF UpdateFailure, Filed, ListsInv, Sound, AtWork
<1>2. p \in Import
  BY <1>1, OutcomeCounter, PassedImport
<1>3. Become(i, q) /\ Fault
      /\ UNCHANGED <<leads, started, edits, maker, done, blurred, replaced>>
  BY DEF UpdateFailure
<1> HIDE DEF p
<1>4. q = [p EXCEPT !.counts = Counted(p.counts, "errors"), !.ids = p.ids,
                    !.failed = p.failed + 1]
  BY <1>2 DEF Import
<1>5. p.ids \in Seq(Keys \cup {NoKey})
  BY <1>2 DEF Import
<1>6. q \in Import
  BY <1>2, <1>4, <1>5, PassedTwiceImport
<1> HIDE DEF q
<1> QED BY <1>3, <1>6, FiledMove

LEMMA FiledInsertFailure ==
  ASSUME Filed, ListsInv', NEW i \in Importers, InsertFailure(i)
  PROVE  Filed'
<1>1. imports[i].todo # <<>>
  BY DEF InsertFailure, Filed, ListsInv, Sound, AtWork
<1>2. {"created", "errors"} \subseteq Counter \ {"fetched"}
  BY DEF Counter
<1>3. UNCHANGED <<leads, started, edits, maker, done, blurred, replaced>>
  BY DEF InsertFailure
<1>4. CASE Become(i, Passed(i, "errors")) /\ UNCHANGED faults
  <2>1. Passed(i, "errors") \in Import
    BY <1>1, <1>2, PassedImport
  <2> QED BY <1>3, <1>4, <2>1, FiledMove
<1>5. CASE LET r == Passed(i, "created")
           IN Become(i, [r EXCEPT !.counts = Counted(r.counts, "errors"),
                                  !.ids = Append(@, NoKey), !.failed = @ + 1]) /\ Fault
  <2> DEFINE p == Passed(i, "created")
             q == [p EXCEPT !.counts = Counted(p.counts, "errors"),
                            !.ids = Append(@, NoKey), !.failed = @ + 1]
  <2>1. p \in Import
    BY <1>1, <1>2, PassedImport
  <2>2. Become(i, q) /\ Fault
    BY <1>5
  <2> HIDE DEF p
  <2>3. p.ids \in Seq(Keys \cup {NoKey})
    BY <2>1 DEF Import
  <2>4. PICK ids : ids = Append(p.ids, NoKey)
    OBVIOUS
  <2>5. ids \in Seq(Keys \cup {NoKey})
    BY <2>3, <2>4, AppendProperties
  <2>6. q = [p EXCEPT !.counts = Counted(p.counts, "errors"), !.ids = ids,
                      !.failed = p.failed + 1]
    BY <2>1, <2>4 DEF Import
  <2>7. q \in Import
    BY <2>1, <2>5, <2>6, PassedTwiceImport
  <2> HIDE DEF q
  <2> QED BY <1>3, <2>2, <2>7, FiledMove
<1> QED BY <1>4, <1>5 DEF InsertFailure

LEMMA FiledEnds ==
  ASSUME Filed, ListsInv', NEW i \in Importers, FinishImport(i) \/ Crash(i)
  PROVE  Filed'
<1>1. imports[i] \in Import
  BY DEF Filed, TypeOK
<1>2. PICK none : none = <<>>
  OBVIOUS
<1>3. none \in Seq(Contact)
  BY <1>2
<1>4. PICK q \in {[imports[i] EXCEPT !.pc = "idle", !.log = "completed"],
                  [imports[i] EXCEPT !.pc = "idle"],
                  [imports[i] EXCEPT !.pc = "idle", !.todo = none, !.found = NoKey,
                                     !.snap = NewLead]} : Become(i, q)
  BY <1>2 DEF FinishImport, Crash
<1>5. q \in Import
  BY <1>1, <1>3, <1>4, NewLeadType DEF Import
<1>6. UNCHANGED <<leads, started, edits, maker, done, blurred, replaced>>
      /\ (UNCHANGED faults \/ Fault)
  BY DEF FinishImport, Crash
<1> QED BY <1>4, <1>5, <1>6, FiledMove

LEMMA DoneType ==
  ASSUME Filed, NEW i \in Importers, imports[i].todo # <<>>, Finished(i)
  PROVE  done' \subseteq Workspaces \X Contact
<1>1. imports[i].ws \in Workspaces /\ Current(i) \in Contact
  BY CurrentTypes DEF Import
<1> QED BY <1>1 DEF Finished, Filed, TypeOK

LEMMA FiledUpdate ==
  ASSUME Filed, ListsInv', NEW i \in Importers, UpdateLead(i)
  PROVE  Filed'
<1>1. imports[i].todo # <<>> /\ imports[i].found \in DOMAIN leads
  BY DEF UpdateLead, Filed, ListsInv, Sound, AtWork
<1>2. Passed(i, Outcome(i)) \in Import
  BY <1>1, OutcomeCounter, PassedImport
<1>3. imports' \in [Importers -> Import]
  BY <1>2, BecomesImport DEF UpdateLead
<1>4. Filled(i) \in Lead
  <2>1. leads[imports[i].found] \in Lead /\ MappedBy(i) \in Lead
    BY <1>1, CurrentTypes DEF Filed, TypeOK
  <2>2. \A f \in Fields : Filled(i)[f] \in {MappedBy(i)[f], leads[imports[i].found][f]}
    BY DEF Filled
  <2>3. Filled(i) = [f \in Fields |-> Filled(i)[f]]
    BY DEF Filled
  <2> QED BY <2>1, <2>2, <2>3, MixedLead
<1>5. ASSUME NEW l \in DOMAIN leads' PROVE leads'[l] \in Lead
  <2>1. leads' = [leads EXCEPT ![imports[i].found] = Filled(i)]
    BY DEF UpdateLead
  <2> QED BY <1>4, <2>1 DEF Filed, TypeOK
<1>6. done' \subseteq Workspaces \X Contact
  BY <1>1, DoneType DEF UpdateLead
<1>7. blurred' \subseteq Workspaces
  <2>1. imports[i].ws \in Workspaces
    BY DEF Filed, TypeOK, Import
  <2> QED BY <2>1 DEF UpdateLead, Filed, TypeOK
<1>8. UNCHANGED <<started, edits, faults, maker, replaced>>
  BY DEF UpdateLead
<1>9. /\ \A l \in DOMAIN maker' : maker'[l] \in Importers \cup {None}
      /\ edits' \in 0 .. MaxEdits /\ replaced' \subseteq Workspaces
  BY <1>8 DEF Filed, TypeOK
<1> QED BY <1>3, <1>5, <1>6, <1>7, <1>8, <1>9, FiledTables

\* One row more in each of the tables.
LEMMA OneMoreRow ==
  ASSUME Filed, NEW key, NEW row \in Lead, NEW who \in Importers \cup {None},
         leads' = Put(OneRow(key, row), leads), maker' = Put(OneRow(key, who), maker)
  PROVE  /\ \A l \in DOMAIN leads' : leads'[l] \in Lead
         /\ \A l \in DOMAIN maker' : maker'[l] \in Importers \cup {None}
BY DEF Filed, TypeOK, Put, OneRow

LEMMA FiledInsert ==
  ASSUME Filed, ListsInv', NEW i \in Importers, InsertLead(i)
  PROVE  Filed'
<1>1. imports[i].todo # <<>> /\ InsertKey(i) \in Keys
  BY InsertLeadGrown, ListsTyped DEF InsertLead, Filed, ListsInv, Sound, AtWork
<1> DEFINE p == Passed(i, "created")
<1>2. p \in Import
  <2>1. "created" \in Counter \ {"fetched"}
    BY DEF Counter
  <2> QED BY <1>1, <2>1, PassedImport
<1> HIDE DEF p
<1>3. PICK ids : ids = Append(p.ids, InsertKey(i))
  OBVIOUS
<1>4. ids \in Seq(Keys \cup {NoKey})
  <2>1. p.ids \in Seq(Keys \cup {NoKey})
    BY <1>2 DEF Import
  <2> QED BY <1>1, <1>3, <2>1, AppendProperties
<1>5. [p EXCEPT !.ids = ids] \in Import
  BY <1>2, <1>4 DEF Import
<1>6. Become(i, [p EXCEPT !.ids = ids])
  BY <1>3 DEF InsertLead, p
<1>7. imports' \in [Importers -> Import]
  BY <1>5, <1>6, BecomesImport
<1>8. done' \subseteq Workspaces \X Contact
  BY <1>1, DoneType DEF InsertLead
<1>9. /\ \A l \in DOMAIN leads' : leads'[l] \in Lead
      /\ \A l \in DOMAIN maker' : maker'[l] \in Importers \cup {None}
  BY <1>1, CurrentTypes, OneMoreRow DEF InsertLead
<1>10. UNCHANGED <<started, edits, faults, blurred, replaced>>
  BY DEF InsertLead
<1>11. /\ edits' \in 0 .. MaxEdits /\ replaced' \subseteq Workspaces
       /\ blurred' \subseteq Workspaces
  BY <1>10 DEF Filed, TypeOK
<1> QED BY <1>7, <1>8, <1>9, <1>10, <1>11, FiledTables

LEMMA FiledUpload ==
  ASSUME Filed, ListsInv', NEW ws \in Workspaces \cup {None}, NEW file \in Files,
         Upload(ws, file)
  PROVE  Filed'
<1> DEFINE landed == UNION {Target(ws, e) : e \in EmailsOf(file)}
           old(l) == IF l \in DOMAIN leads THEN leads[l] ELSE NewLead
           new == [l \in landed |-> Overwritten(old(l), Deduped(file, l[2]))]
           none == [l \in landed \ DOMAIN leads |-> None]
           replacing == {l \in landed \cap DOMAIN leads :
                           \E f \in {"link", "name"} :
                             leads[l][f] # None /\ new[l][f] # leads[l][f]}
<1>1. /\ leads' = Put(new, leads) /\ maker' = Put(none, maker)
      /\ replaced' = replaced \cup {l[1] : l \in replacing}
      /\ Edit /\ UNCHANGED <<imports, started, faults, done, blurred>>
  BY DEF Upload
<1>2. file \in Seq(FileRow)
  BY ContactImportAssumption
<1>3. ASSUME NEW l \in landed PROVE new[l] \in Lead
  <2>1. old(l) \in Lead
    BY NewLeadType DEF Filed, TypeOK
  <2>2. Deduped(file, l[2]) \in FileRow
    BY <1>2, DedupedRow
  <2>3. new[l] = Overwritten(old(l), Deduped(file, l[2]))
    OBVIOUS
  <2> HIDE DEF old, new
  <2> QED BY <2>1, <2>2, <2>3, OverwrittenLead
<1>4. \A l \in replacing : l[1] \in Workspaces
  BY DEF Filed, TypeOK, Keys
<1>5. DOMAIN new = landed /\ \A l \in DOMAIN none : none[l] = None
  OBVIOUS
<1> HIDE DEF landed, new, none, replacing
<1>6. \A l \in DOMAIN leads' : leads'[l] \in Lead
  BY <1>1, <1>3, <1>5 DEF Put, Filed, TypeOK
<1>7. \A l \in DOMAIN maker' : maker'[l] \in Importers \cup {None}
  BY <1>1, <1>5 DEF Put, Filed, TypeOK
<1>8. edits' \in 0 .. MaxEdits
  BY <1>1, EditType
<1>9. replaced' \subseteq Workspaces
  BY <1>1, <1>4 DEF Filed, TypeOK
<1>10. imports' \in [Importers -> Import] /\ done' \subseteq Workspaces \X Contact
       /\ blurred' \subseteq Workspaces
  BY <1>1 DEF Filed, TypeOK
<1> QED BY <1>1, <1>6, <1>7, <1>8, <1>9, <1>10, FiledTables

LEMMA FiledOthers ==
  ASSUME Filed, ListsInv', Others
  PROVE  Filed'
<1>a. ASSUME UNCHANGED <<imports, done, blurred, replaced>>
      PROVE  /\ imports' \in [Importers -> Import] /\ done' \subseteq Workspaces \X Contact
             /\ blurred' \subseteq Workspaces /\ replaced' \subseteq Workspaces
  BY <1>a DEF Filed, TypeOK
<1>1. ASSUME NEW ws \in Workspaces \cup {None}, NEW file \in Files, Upload(ws, file)
      PROVE  Filed'
  BY <1>1, FiledUpload
<1>2. ASSUME NEW ws \in Workspaces, NEW email \in Emails, FindOrCreateLead(ws, email)
      PROVE  Filed'
  <2>1. /\ \A l \in DOMAIN leads' : leads'[l] \in Lead
        /\ \A l \in DOMAIN maker' : maker'[l] \in Importers \cup {None}
    BY <1>2, NewLeadType, OneMoreRow DEF FindOrCreateLead
  <2>2. /\ edits' \in 0 .. MaxEdits
        /\ UNCHANGED <<imports, started, faults, done, blurred, replaced>>
    BY <1>2, EditType DEF FindOrCreateLead
  <2> QED BY <1>a, <2>1, <2>2, FiledTables
<1>3. ASSUME NEW l \in DOMAIN leads, NEW status \in {"verified", "invalid"},
             CacheVerdict(l, status)
      PROVE  Filed'
  <2>1. leads' = [leads EXCEPT ![l] = [leads[l] EXCEPT !.status = status]]
    BY <1>3 DEF CacheVerdict
  <2>2. [leads[l] EXCEPT !.status = status] \in Lead
    <3>1. leads[l] \in Lead
      BY DEF Filed, TypeOK
    <3> QED BY <3>1 DEF Lead
  <2>3. \A m \in DOMAIN leads' : leads'[m] \in Lead
    BY <2>1, <2>2 DEF Filed, TypeOK
  <2>4. /\ edits' \in 0 .. MaxEdits
        /\ UNCHANGED <<imports, started, faults, maker, done, blurred, replaced>>
    BY <1>3, EditType DEF CacheVerdict
  <2>5. \A m \in DOMAIN maker' : maker'[m] \in Importers \cup {None}
    BY <2>4 DEF Filed, TypeOK
  <2> QED BY <1>a, <2>3, <2>4, <2>5, FiledTables
<1> QED BY <1>1, <1>2, <1>3 DEF Others

LEMMA FiledInit == Init => Filed
<1> SUFFICES ASSUME Init PROVE TypeOK
  BY ListsInit DEF Filed
<1>1. imports \in [Importers -> Import]
  BY NoImportType DEF Init
<1>2. DOMAIN leads = {} /\ DOMAIN maker = {}
  BY DEF Init
<1>3. started \in 0 .. MaxImports /\ edits \in 0 .. MaxEdits /\ faults \in 0 .. MaxFaults
  BY ContactImportAssumption DEF Init
<1> QED BY <1>1, <1>2, <1>3 DEF Init, TypeOK

LEMMA FiledNext == Filed /\ [Next]_vars => Filed'
<1> SUFFICES ASSUME Filed, [Next]_vars PROVE Filed'
  OBVIOUS
<1>1. ListsInv'
  BY ListsNext DEF Filed
<1>2. CASE UNCHANGED vars
  BY <1>1, <1>2 DEF Filed, TypeOK, vars
<1>3. ASSUME NEW i \in Importers, NEW ws \in Workspaces, NEW source \in Sources,
             NEW batch \in Batches, StartImport(i, ws, source, batch)
      PROVE  Filed'
  BY <1>1, <1>3, FiledStart
<1>4. ASSUME NEW i \in Importers, ImportStep(i)
      PROVE  Filed'
  BY <1>1, <1>4, FiledPasses, FiledFind, FiledUpdate, FiledUpdateFailure, FiledInsert,
     FiledInsertFailure, FiledEnds DEF ImportStep
<1>5. CASE Others
  BY <1>1, <1>5, FiledOthers
<1> QED BY <1>2, <1>3, <1>4, <1>5 DEF Next

\* Every reachable state is well typed: what an upload, an import or a webhook leaves
\* of a lead is a lead, and what fails half way leaves imports that can go on.
THEOREM TypeCorrect == Spec => []TypeOK
<1>1. Filed /\ [Next]_vars => Filed'
  BY FiledNext
<1>2. Filed => TypeOK
  BY DEF Filed
<1> QED BY <1>1, <1>2, FiledInit, PTL DEF Spec
=============================================================================
