SPECIFICATION Spec
CONSTANTS
  Used = {"allowed_regions", "allowed_models", "required_attestation"}
  Sdks = {"go"}
INVARIANT
  GatesKept
