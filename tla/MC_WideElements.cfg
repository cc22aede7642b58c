SPECIFICATION Spec
CONSTANTS
  Formats <- WideFormats
  FixedSizes = {0}
  VariableSizes = {0, 1, 2, 3, 4, 5, 6, 7, 8}
  NativeSizes = {0}
  MaxObjects = 1
  PageWords = 512
INVARIANTS PaddingKeepsFormat
