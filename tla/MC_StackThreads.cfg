SPECIFICATION Spec
CONSTANTS
  Threads = {1, 2}
  MaxSegments = 4
  SegmentWords = 16
  ThreadDataWords = 2
  MaxArguments = 1
  MaxCalls = 2
INVARIANTS ThreadDataShared SegmentsHaveOnePlace
PROPERTY PoolSpec
