SPECIFICATION Spec
CONSTANTS
  MaxVersion = 4
INVARIANTS
  TypeOK
  OnlyUsable
PROPERTIES
  NeverBackwards
  ReaderCatchesUp
