---------------------------- MODULE MCReplyQueue ----------------------------
(* ReplyQueue with one prospect; calls are interchangeable. *)
EXTENDS ReplyQueue, TLC

CallSymmetry == Permutations(Calls)
=============================================================================
