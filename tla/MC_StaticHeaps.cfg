SPECIFICATION Spec
CONSTANTS
  first = first second = second third = third data = data
  aC = aC aC2 = aC2 aV = aV aGlobal = aGlobal aVariable = aVariable aClass = aClass aCode = aCode
  bC = bC bV = bV bObject = bObject bGlobal = bGlobal bSystem = bSystem bVariable = bVariable bKernel = bKernel bClass = bClass bCode = bCode
  cC = cC cV = cV cGlobal = cGlobal cVariable = cVariable cCode = cCode
  dC = dC dBig = dBig
  C = C V = V Object = Object
  compactingHeap = compactingHeap nil = nil null = null
  Heaps = {first, second, third, data}
  MayNeedFixingUp = {first, second, third, data}
  HasPackageRegistration = {first, second, third}
  Contents <- MCContents
  ClassOf <- MCClassOf
  TextOf <- MCTextOf
  Fields <- MCFields
  Classes <- MCClasses
  Big = {dBig}
  Texts = {C, V, Object}
  KernelNames = {Object}
INVARIANTS TypeOK SymbolsShared GlobalsShared ClassVariablesShared HeapsInitialized
