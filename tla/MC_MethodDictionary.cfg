SPECIFICATION Spec
CONSTANTS
  k1 = k1 k2 = k2 k3 = k3 k4 = k4 k5 = k5
  nil = nil
  Keys <- MCKeys
  Methods = {m1, m2}
  Hash <- MCHash
  Capacities = {0, 5}
INVARIANTS TypeOK SelectorsUnique Searchable NoStrayMethod HasRoom
PROPERTIES MapSpec CallsEnd
