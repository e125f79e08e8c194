---------------------------- MODULE MCContent ----------------------------
(* Content with two workers on one lead. *)
EXTENDS Content, TLC

CONSTANTS w1, w2

Regenerators == [w \in Workers |-> {"rated", "bulk"}]

Senders == (w1 :> {"pipeline", "refresh"}) @@ (w2 :> {"cli", "push", "redo", "direct"})

Symmetry == Permutations(Workers) \cup Permutations(Texts)
=============================================================================
