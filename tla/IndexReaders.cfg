CONSTANTS
    Radix = 128
    Samples <- PassSamples
    Cut <- CutSamples
    Patched <- NoRecords
    PsqFiles <- PsqSamples
SPECIFICATION Spec
INVARIANTS TypeOK PsqNoOverread PsqDecodesAsSpec PsqPrintsUpToFirstBad
PROPERTIES LegacyImplementsContract
CHECK_DEADLOCK FALSE
