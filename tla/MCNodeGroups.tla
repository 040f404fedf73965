----------------------------- MODULE MCNodeGroups -----------------------------
(***************************************************************************)
(* Universes 1 and 110 fold to one group, 109 to the last one, and 0 is what*)
(* the control passes on while it is typed.  Two interfaces, of which one   *)
(* is the system's default, and the loopback.                               *)
(***************************************************************************)
EXTENDS NodeGroups

CONSTANTS house_lan, office_lan, localhost
===============================================================================
