SPECIFICATION Spec
CONSTANTS
  k1 = k1 k2 = k2 k3 = k3 k4 = k4
  a1 = a1 b1 = b1 a2 = a2 a3 = a3 a4 = a4
  v1 = v1 v2 = v2
  nil = nil
  Keys <- MCKeys
  Values = {v1, v2}
  Associations <- MCAssociations
  KeyOf <- MCKeyOf
  Hash <- MCHash
  Capacities = {2}
INVARIANTS TypeOK KeysUnique Searchable TallyCounts ScanSucceeds HasRoom
PROPERTIES MapSpec GrowthEnds
