--------------------------- MODULE MCConsulWatch ---------------------------
(* A path that is written a few times, behind a watch of either kind. *)
EXTENDS ConsulWatch, TLC
=============================================================================
