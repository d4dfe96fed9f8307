SPECIFICATION Spec
CONSTANTS
  loop = loop
  t1 = t1
  t2 = t2
  noTrigger = noTrigger
  none = none
  Node <- MCNodes2
  Position <- MCTwoPos
  Kind = "mongo"
  SetSize = 2
  Loop <- loop
  Timer <- MCOneTimer
  NoTrigger <- noTrigger
  None <- none
  MaxWaiting = 7
  MaxBacklog = 1
  MaxChanges = 1
  MaxCrashes = 1
INVARIANTS
  TypeOK
  RecordedSpecIsDeployed
  OnePublicationAtATime
  PublishesTheBest
PROPERTIES
  PublicationIsFinal
  ChoosesOnceFromWhatItSaw
  PublishesOrGivesUp
