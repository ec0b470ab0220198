SPECIFICATION Spec
CONSTANTS
  Sdks = {"python"}
  MaxLines = 2
  Written <- MCWritten
  Ends <- MCEnds
INVARIANT
  ContentsIntact
