------------------------------ MODULE MCSignals ------------------------------
(* Signals with symmetric calls, findings that lift by one tier, and an
   import that lifts the better of the scores by two. *)
EXTENDS Signals, TLC

CallSymmetry == Permutations(Calls)

Strong == [strength |-> "high", high |-> 1, other |-> 1]
OnlyStrong == {Strong}
MediumOrStrong == {Strong, [strength |-> "medium", high |-> 0, other |-> 2]}
=============================================================================
