----------------------------- MODULE MCApiRuns -----------------------------
(* ApiRuns with a request that can succeed and one of which a lead must fail. *)
EXTENDS ApiRuns

CONSTANTS c1, c2

OneOrTwo ==
  {[leads |-> <<c1>>, options |-> [enrich |-> TRUE, email |-> TRUE]],
   [leads |-> <<c1, c2>>, options |-> [enrich |-> FALSE, email |-> TRUE]]}
=============================================================================
