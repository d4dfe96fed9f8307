--------------------------- MODULE MCQueuedFiring ---------------------------
(* Three callers of one machine; the execution of one trigger may fail. *)
EXTENDS QueuedFiring, TLC

CONSTANTS g1, g2, g3, report, health, none

MCGoroutine == {g1, g2, g3}
MCTrigger   == {report, health}
MCFailing   == {health}
=============================================================================
