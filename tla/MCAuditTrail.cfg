SPECIFICATION MCSpec
CONSTANTS
  Replicas = {r1, r2}
  Requests = {q1, q2}
  Admins = {a1, a2}
  Root = a1
  Actors = {a1, a2}
  Removable = {a1, a2}
  Records = {p}
  TagLists = {t}
  Unimaged = {g}
  Refreshed = {k}
  Owner <- MCOwner
  Contents = {v, w}
  Absent = absent
  Refetch = refetch
  Free = free
  MaxSeq = 4
  MaxVersion = 2
SYMMETRY Symmetry
INVARIANTS TypeOK Manned ChainIntact EntriesVerify OneGenesis TrailReplays
PROPERTIES ImplementsLedger
