SPECIFICATION Spec
CONSTANTS
  Used = {"prefer_cache_locality", "session_id", "deadline_ms", "streaming", "retry_budget", "allowed_regions", "provider_training"}
  Sdks = {"go", "python", "typescript"}
INVARIANTS
  TypeOK
  MeaningKept
  ValuesSurvive
