--------------------------- MODULE MCConsulStore ---------------------------
(* One node, whose keys and sessions no other node touches: its agent, its *)
(* members and their sessions come and go a few times.                     *)
EXTENDS ConsulStore, TLC

CONSTANTS n1, absent

MCNode == {n1}
=============================================================================
