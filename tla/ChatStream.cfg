SPECIFICATION Spec
CONSTANT MaxLines = 4
INVARIANTS
  TypeOK
  PollSeesError
  ReleasedWhenFinished
  WholeWhenEnded
PROPERTIES
  CallerFinishes
  ExitsOrAbandoned
  ImplementsDelivery
