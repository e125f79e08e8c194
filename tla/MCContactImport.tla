--------------------------- MODULE MCContactImport ---------------------------
(* ContactImport with contacts that share, change and lack their keys. *)
EXTENDS ContactImport

CONSTANTS w1, w2, e1, e2, x1, x2, k1, k2, n1

\* A contact, the same one after its email changed, one that shares a link but has
\* no email, one that has another id on the same email, and one without anchor.
First == [id |-> x1, email |-> e1, link |-> k1, name |-> None, verified |-> TRUE]
Moved == [id |-> x1, email |-> e2, link |-> None, name |-> n1, verified |-> FALSE]
Linked == [id |-> x2, email |-> None, link |-> k1, name |-> n1, verified |-> FALSE]
Second == [id |-> x2, email |-> e2, link |-> k1, name |-> None, verified |-> FALSE]
Nameless == [id |-> None, email |-> e1, link |-> None, name |-> None, verified |-> FALSE]
Nobody == [id |-> x1, email |-> None, link |-> None, name |-> None, verified |-> TRUE]

SomeBatches == {<<First, Moved>>, <<Linked, First>>, <<Nameless, Moved>>, <<Nobody, Second>>}

Row(email, link, name) == [email |-> email, link |-> link, name |-> name]

SomeFiles == {<<Row(e1, k2, None), Row(e1, None, n1), Row(None, k1, None)>>,
              <<Row(e2, k1, None)>>}

ImporterSymmetry == Permutations(Importers)
=============================================================================
