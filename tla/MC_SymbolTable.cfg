SPECIFICATION Spec
CONSTANTS
  s1 = s1 s2 = s2 s3 = s3 s4 = s4 s5 = s5 s6 = s6 s7 = s7
  wide1 = wide1 string1 = string1 string5 = string5
  nil = nil
  Keys <- MCKeys
  Hash <- MCHash
  Symbols = {s1, s2, s3, s4, s5, s6, s7, wide1}
  Strings = {string1, string5}
  Wide = {s2, s7, wide1}
  TextOf <- MCTextOf
  InitialHash = 170
  Capacity = 4
INVARIANTS TypeOK Searchable ScanSucceeds
PROPERTIES InternSpec
