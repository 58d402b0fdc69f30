SPECIFICATION Spec
CONSTANTS
  Clients = {p, q}
  Records = {x, y}
  Torn = Torn
  None = None
  Cache = cache
  Tmps = {t1, t2, t3}
  Inodes = {i1, i2, i3, i4}
  IoMayFail = TRUE
  CrashMay = TRUE
INVARIANTS
  CacheTypeOK
  NothingLeftBehind
PROPERTIES
  Atomic
SYMMETRY Symmetric
