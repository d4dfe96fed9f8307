--------------------------- MODULE MCKafkaMember ---------------------------
(* One kafka member. *)
EXTENDS KafkaMember, TLC

CONSTANTS loop, waiter, signals, noTrigger
=============================================================================
