SPECIFICATION Spec
CONSTANTS
  k1 = k1
  k2 = k2
  k3 = k3
  Key = {k1, k2, k3}
  Value = {v1}
  None = None
  Hash <- Colliding
  DEFAULT_CAPACITY = 4
  InitialSize = 3
  Calls = {"get", "put", "delete", "size", "iter", "iter_delete", "clear", "destroy"}
INVARIANT TypeOK
INVARIANT CountsItems
