SPECIFICATION Spec
CONSTANT MaxLines = 2
INVARIANT
  StreamErrorsSurface
