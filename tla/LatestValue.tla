---------------------------- MODULE LatestValue ----------------------------
(***************************************************************************)
(* What a watch on Consul promises its reader: the versions it is shown    *)
(* are versions that were written, and it is never shown an older one      *)
(* after a newer one.  Versions may be skipped and may be shown again.     *)
(***************************************************************************)
EXTENDS Naturals

VARIABLES
  newest,   \* the version written last, 0 before the first
  shown     \* the version the reader was shown last, 0 before the first

latestVars == <<newest, shown>>

Init ==
  /\ newest = 0
  /\ shown = 0

Write ==
  /\ newest' = newest + 1
  /\ UNCHANGED shown

Show ==
  /\ shown' \in shown..newest
  /\ UNCHANGED newest

Next == Write \/ Show

Spec == Init /\ [][Next]_latestVars
=============================================================================
