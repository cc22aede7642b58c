SPECIFICATION Spec
CONSTANTS
  Formats <- AllFormats
  FixedSizes = {0, 2}
  VariableSizes = {0, 3, 254, 255, 258, 2033}
  NativeSizes = {0, 1}
  MaxObjects = 3
  PageWords = 512
INVARIANTS TypeOK ObjectsCommitted ObjectsApart WalkFindsObjects SizesKept
