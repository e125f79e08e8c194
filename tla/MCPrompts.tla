------------------------------ MODULE MCPrompts ------------------------------
(* Prompts with two workspaces and campaign figures at the thresholds. *)
EXTENDS Prompts, TLC

CallSymmetry == Permutations(Calls)

\* 200 sends, opens and bounces just good enough, replies just too few, and the
\* latest of the contacts 48 hours ago: ready, and everything one step from it.
Ripe == [sent |-> 200, contacted |-> 100, opens |-> 0, unique |-> 30, replies |-> 5,
         bounces |-> 6, positive |-> 0, opportunities |-> 0,
         contacts |-> {48, 400}, local |-> 10]

AtThresholds ==
  {Ripe,
   [Ripe EXCEPT !.bounces = 7],
   [Ripe EXCEPT !.replies = 6],
   [Ripe EXCEPT !.contacts = {47, 400}, !.local = 50],
   [Ripe EXCEPT !.contacts = {}],
   [Ripe EXCEPT !.opportunities = 1, !.contacts = {71}],
   [Ripe EXCEPT !.positive = 1, !.contacts = {}, !.local = -1],
   [Ripe EXCEPT !.sent = 0, !.unique = 0],
   [Ripe EXCEPT !.sent = 49, !.unique = 29, !.bounces = 1],
   [Ripe EXCEPT !.sent = 50, !.unique = -1, !.opens = 14, !.bounces = 1]}
=============================================================================
