SPECIFICATION Spec
CONSTANTS
  g1 = g1
  g2 = g2
  g3 = g3
  report = report
  health = health
  none = none
  Goroutine <- MCGoroutine
  Trigger <- MCTrigger
  Failing <- MCFailing
  NoTrigger <- none
  MaxWaiting = 4
\* The callers may all have returned and call Fire no more.
CHECK_DEADLOCK FALSE
INVARIANTS
  TypeOK
  OneAtATime
  NoTriggerLeftBehind
PROPERTIES
  QueuedIsExecuted
  RunsToCompletion
