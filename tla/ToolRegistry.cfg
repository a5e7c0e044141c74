SPECIFICATION FairSpec
CONSTANTS
  Calls = {c1, c2, c3}
  WasmTools = {w, v}
  NativeTools = {n}
  List = list
  None = none
  PoolSize = 1
INVARIANTS LockSound ModuleIsThere CompiledOnce
PROPERTY CallsEnd
