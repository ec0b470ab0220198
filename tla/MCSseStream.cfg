SPECIFICATION Spec
CONSTANTS
  Sdks = {"python", "typescript"}
  MaxLines = 4
  Written <- MCWritten
  Ends <- MCEnds
INVARIANTS
  TypeOK
  ChunkingInvisible
  DeltasIntact
  ClosedAtEnd
PROPERTIES
  Finishes
  Released
  ImplementsDelivery
