---------------------------- MODULE MCNodeLifecycle ----------------------------
(***************************************************************************)
(* The Lost Mode of one node with a clock of TickMod ticks: the difference  *)
(* of two ticks wraps after less than two timeouts, so every order of polls,*)
(* outages of keys or socket, and wraps of the counter occurs.              *)
(***************************************************************************)
EXTENDS NodeLifecycle

===============================================================================
