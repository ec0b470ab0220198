SPECIFICATION CliSpec
CONSTANTS
  Sdks = {"go"}
  Ops = {"chat", "embeddings", "validate", "eligible", "decisions", "get_decision", "usage", "train", "replay"}
  MaxCalls = 2
  CommandLines <- MCLines
  Loadable <- MCLoadable
  Numerals <- MCNumerals
INVARIANT DocumentedWork
