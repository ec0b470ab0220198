SPECIFICATION CliSpec
CONSTANTS
  Sdks = {"go", "python", "typescript"}
  Ops = {"chat", "embeddings", "validate", "eligible", "decisions", "get_decision", "usage", "train", "replay"}
  MaxCalls = 2
  CommandLines <- MCLines
  Loadable <- MCLoadable
  Numerals <- MCNumerals
INVARIANTS
  TypeOK
  AnswersAreWhole
  UnsatisfiableTyped
  UnsatisfiableMeant
  CrashesMeanShape
  RequestAsWritten
  ExitZeroMeansAnswered
PROPERTIES
  CallsReturn
  Exits
