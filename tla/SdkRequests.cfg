SPECIFICATION SdkSpec
CONSTANTS
  Ptrs = {p1, p2}
  NoPtr = NoPtr
  Contents = {strict, loose}
  Policies = {nopolicy, legal}
  NoPolicy = nopolicy
  MaxClients = 2
  MaxCalls = 2
  Disciplined = TRUE
  Sdks = {"go", "python", "typescript"}
INVARIANTS
  TypeOK
  SentAsAsked
  ExplainedAsRouted
