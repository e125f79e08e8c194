----------------------------- MODULE OneRecord ------------------------------
(***************************************************************************)
(* What delivery promises to the leads and to the rest of the program.  A  *)
(* campaign gets a second record of a lead only if something has disturbed *)
(* its delivery; a copy is noted as delivered only after the campaign took *)
(* it, and the note stays unless the lead is disturbed.  Sending and       *)
(* noting are steps of their own, and copies of one lead may be many.      *)
(***************************************************************************)
EXTENDS Naturals

CONSTANTS Leads, Copies

VARIABLES
  records,   \* records of a lead in the campaign
  taken,     \* copies for a lead that the campaign took at some time
  noted,     \* copies for a lead that the database notes as delivered
  disturbed  \* leads whose delivery something has come between

vars == <<records, taken, noted, disturbed>>

Init ==
  /\ records = [l \in Leads |-> 0]
  /\ taken = [l \in Leads |-> {}]
  /\ noted = [l \in Leads |-> {}]
  /\ disturbed = {}

Disturb(l) == disturbed' = disturbed \cup {l} /\ UNCHANGED <<records, taken, noted>>

Take(l, c) == taken' = [taken EXCEPT ![l] = @ \cup {c}]

\* A new record; what was taken may already be lost to the sender.
Send(l, c) ==
  /\ l \in disturbed \/ (records[l] = 0 /\ noted[l] = {})
  /\ records' = [records EXCEPT ![l] = @ + 1]
  /\ Take(l, c)
  /\ disturbed' \in {disturbed, disturbed \cup {l}}
  /\ UNCHANGED noted

\* The record gets another copy.
Replace(l, c) ==
  /\ records[l] # 0
  /\ Take(l, c)
  /\ UNCHANGED <<records, noted, disturbed>>

Note(l, c) ==
  /\ c \in taken[l]
  /\ noted' = [noted EXCEPT ![l] = @ \cup {c}]
  /\ UNCHANGED <<records, taken, disturbed>>

Forget(l, c) ==
  /\ noted' = [noted EXCEPT ![l] = @ \ {c}]
  /\ disturbed' = disturbed \cup {l}
  /\ UNCHANGED <<records, taken>>

Next ==
  \E l \in Leads :
    \/ Disturb(l)
    \/ \E c \in Copies : Send(l, c) \/ Replace(l, c) \/ Note(l, c) \/ Forget(l, c)

Spec == Init /\ [][Next]_vars
=============================================================================
