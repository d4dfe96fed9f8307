-------------------------- MODULE MCReplicaControl --------------------------
(* A small controller: the thresholds are scaled with the number of nodes. *)
EXTENDS ReplicaControl, TLC

CONSTANTS loop, t1, t2, noTrigger, none

MCNodes2   == {1, 2}
MCNodes3   == {1, 2, 3}
MCOnePos   == {0}
MCTwoPos   == {0, 1}
MCOneTimer == {t1}
MCTimers   == {t1, t2}
=============================================================================
