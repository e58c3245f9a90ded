CONSTANTS
    Radix = 128
    Samples <- NoRecords
    Cut <- NoRecords
    Patched <- WrapPatch
    PsqFiles <- PsqSamples
SPECIFICATION Spec
INVARIANT PsqNoOverread
CHECK_DEADLOCK FALSE
