SPECIFICATION Spec
CONSTANTS
  ProtoObject = ProtoObject
  Class = Class
  Metaclass = Metaclass
  MethodDictionary = MethodDictionary
  A = A
  B = B
  doIt = doIt
  m1 = m1
  m2 = m2
  nil = nil
  strange = strange
  KernelNames = {ProtoObject, Class, Metaclass, MethodDictionary}
  SuperName <- Supers
  CompactAt <- Compact
  KnownIndex <- Indices
  MetaOffset = 5
  ClassName = Class
  MetaclassName = Metaclass
  MethodDictionaryName = MethodDictionary
  UserNames = {A, B}
  Selectors = {}
  Methods = {}
  BaseSize = 11
  PageElements = 12
  PageSpan = 48
  MaxRegistered = 5
  MaxAgain = 1
  MaxMethods = 2
INVARIANTS KnownClassesKept
