SPECIFICATION Spec
CONSTANTS
  Sdks = {"go"}
  Ops = {"chat", "embeddings"}
  MaxCalls = 2
INVARIANT
  GoUnsatisfiableTyped
