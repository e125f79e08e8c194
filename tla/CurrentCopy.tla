---------------------------- MODULE CurrentCopy ----------------------------
(***************************************************************************)
(* What the version chain of generated content promises its readers: every *)
(* key (a lead and a kind of content) has one current copy.  It changes    *)
(* only when a newer copy is written; it may fall back to an older copy    *)
(* only for a kind whose generation has been turned off.  It never goes    *)
(* away.                                                                   *)
(***************************************************************************)
EXTENDS Naturals

CONSTANTS Leads, Kinds

VARIABLES
  current, \* number of the current copy of a key, 0 before the first
  written, \* copies written so far, of all keys
  off      \* kinds whose generation was turned off at some time

vars == <<current, written, off>>

Keys == Leads \X Kinds

Init ==
  /\ current = [k \in Keys |-> 0]
  /\ written = 0
  /\ off = {}

Publish(k) ==
  /\ written' = written + 1
  /\ current' = [current EXCEPT ![k] = written + 1]
  /\ UNCHANGED off

FallBack(k) ==
  /\ k[2] \in off
  /\ \E c \in 1 .. written : c < current[k] /\ current' = [current EXCEPT ![k] = c]
  /\ UNCHANGED <<written, off>>

TurnOff(kind) == off' = off \cup {kind} /\ UNCHANGED <<current, written>>

Next ==
  \/ \E k \in Keys : Publish(k) \/ FallBack(k)
  \/ \E kind \in Kinds : TurnOff(kind)

Spec == Init /\ [][Next]_vars
=============================================================================
