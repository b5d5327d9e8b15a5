\* What comments say and the code does not do; tlc -continue shows each: a guard
\* dropped late finishes another scope's span, and drain_frames takes the boundaries
\* that eviction needs.
SPECIFICATION Spec
CONSTANTS
  RETAINED_FRAMES = 1
  MaxOpened = 4
  MaxFrames = 2
INVARIANTS BufferBounded
PROPERTIES GoneIsNoOp
CHECK_DEADLOCK TRUE
