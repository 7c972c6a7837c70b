SPECIFICATION MCSpec
CONSTANTS
  k1 = k1
  k2 = k2
  r1 = r1
  r2 = r2
  Keys = {k1, k2}
  KeyLimit <- Limits
  DefaultLimit = 1
  Window = 2
  MaxTime = 5
  ChainTime = 1
  Requests = {r1, r2}
  Bootstrap = k2
  NoKey = NoKey
  Statements = 3
  NoName = ""
  Namespaces <- ClusterNamespaces
  Names <- ContainerNames
  Lists <- PodLists
SYMMETRY Symmetry
INVARIANT AdminReachable
