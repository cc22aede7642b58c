SPECIFICATION Spec
CONSTANTS
  Threads = {1}
  MaxSegments = 3
  SegmentWords = 22
  ThreadDataWords = 2
  MaxArguments = 1
  MaxCalls = 4
INVARIANTS SendsDefined
