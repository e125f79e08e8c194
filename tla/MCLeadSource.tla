---------------------------- MODULE MCLeadSource ----------------------------
(* LeadSource with lists of one or two contacts. *)
EXTENDS LeadSource, TLC

CONSTANTS ann, bob

OneListed == <<ann>>
TwoListed == <<ann, bob>>

Switched(trigger, process) ==
  [auto |-> TRUE, trigger |-> trigger, process |-> process, complete |-> TRUE]

AllOn == {Switched(TRUE, TRUE)}
OnOrOff == {Switched(TRUE, TRUE),
            [auto |-> FALSE, trigger |-> FALSE, process |-> TRUE, complete |-> TRUE]}
=============================================================================
