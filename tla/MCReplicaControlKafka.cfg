SPECIFICATION Spec
CONSTANTS
  loop = loop
  t1 = t1
  t2 = t2
  noTrigger = noTrigger
  none = none
  Node <- MCNodes3
  Position <- MCTwoPos
  Kind = "kafka"
  SetSize = 2
  Loop <- loop
  Timer <- MCOneTimer
  NoTrigger <- noTrigger
  None <- none
  MaxWaiting = 7
  MaxBacklog = 1
  MaxChanges = 1
  MaxCrashes = 0
INVARIANTS
  PublishesTheBest
