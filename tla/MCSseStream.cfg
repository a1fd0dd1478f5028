\* Bodies of a few lines, cut at every place.
SPECIFICATION Spec
CONSTANTS
    Bytes <- SomeBytes
    Deltas <- SomeDeltas
    Texts <- SomeTexts
    Documents <- SomeDocuments
INVARIANTS EmittedIsParsed EmittedAtOnce
CHECK_DEADLOCK FALSE
