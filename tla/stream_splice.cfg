\* Two frames are enough: one of them is put in from another file.
SPECIFICATION Spec
CONSTANTS
  FrameSize = 2
  FrameOverhead = 1
  ChunkSize = 4
  Sizes = {3}
INVARIANT NoneSplicedIn
CHECK_DEADLOCK FALSE
