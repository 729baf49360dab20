SPECIFICATION Spec
CONSTANTS
  ModFile <- SmallModFiles
  SdcrFile <- SmallSdcrFiles
CHECK_DEADLOCK FALSE
INVARIANTS ExtractedAsMeant PositionsFresh RewrittenAsMeant
PROPERTY ExtractionEnds
