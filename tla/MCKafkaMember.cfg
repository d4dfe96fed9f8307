SPECIFICATION Spec
CONSTANTS
  loop = loop
  waiter = waiter
  signals = signals
  noTrigger = noTrigger
  Loop <- loop
  Waiter <- waiter
  Signals <- signals
  NoTrigger <- noTrigger
  MaxWaiting = 3
  MaxFailures = 2
INVARIANTS
  TypeOK
  EveryTriggerIsHandled
  PanicsOnlyUnstarted
PROPERTIES
  KafkaExitEndsTask
  InterruptEndsTask
  HealthCatchesUp
  NamedMemberStarts
