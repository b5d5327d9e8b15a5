SPECIFICATION Spec
CONSTANTS
  RETAINED_FRAMES = 2
  MaxOpened = 4
  MaxFrames = 4
INVARIANTS Inv FramesCutRight GuardsOwnTheirSpans
CHECK_DEADLOCK TRUE
