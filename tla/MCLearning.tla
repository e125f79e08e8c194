---------------------------- MODULE MCLearning ----------------------------
(* Learning with two calls, a library of three entries and two ratings. *)
EXTENDS Learning, TLC

CONSTANTS c1, c2

Interested == {{"replied", "positive"}}
Ratings == {<<c1, "up">>, <<c2, "feedback">>}

Symmetry == Permutations(Processes)
=============================================================================
