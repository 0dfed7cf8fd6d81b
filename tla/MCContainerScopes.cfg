SPECIFICATION ContainerSpec
CONSTANTS
  Root = Root
  Requests = {r1}
  tokenA = tokenA
  tokenB = tokenB
  tokenC = tokenC
  Tokens = {tokenA, tokenB, tokenC}
  DepLists <- SomeDeps
  MaxInstances = 3
  StackSize = 8
INVARIANTS
  ScopesAreIsolated
  OneSingleton
  CyclesAreReported
