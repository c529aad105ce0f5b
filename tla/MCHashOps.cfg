SPECIFICATION Spec
CONSTANTS
  k1 = k1
  k2 = k2
  k3 = k3
  Key = {k1, k2, k3}
  Value = {v1, v2}
  None = None
  Hash <- Colliding
  DEFAULT_CAPACITY = 4
  InitialSize = 0
  Calls = {"get", "put", "delete", "size", "iter", "iter_delete", "destroy"}
INVARIANT NeverCrashes
INVARIANT IterationExact
PROPERTY IsDictionary
