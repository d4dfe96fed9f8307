-------------------------- MODULE RunToCompletion --------------------------
(***************************************************************************)
(* What the queued firing mode of the state-machine library promises ("run *)
(* to completion"): triggers wait in one line, one of them at a time is    *)
(* executed, and the next one starts only when that one is over, in the    *)
(* order in which they were fired.  Who executes them is left open.        *)
(***************************************************************************)
EXTENDS Sequences

CONSTANT Trigger

VARIABLES
  waiting,   \* the triggers fired and not started, oldest first
  running    \* the triggers being executed: none or one

rtcVars == <<waiting, running>>

Init ==
  /\ waiting = <<>>
  /\ running = {}

Accept(t) ==
  /\ waiting' = Append(waiting, t)
  /\ UNCHANGED running

Start ==
  /\ running = {}
  /\ waiting # <<>>
  /\ running' = {Head(waiting)}
  /\ waiting' = Tail(waiting)

Finish ==
  /\ running # {}
  /\ running' = {}
  /\ UNCHANGED waiting

Next ==
  \/ \E t \in Trigger : Accept(t)
  \/ Start
  \/ Finish

Spec == Init /\ [][Next]_rtcVars
=============================================================================
