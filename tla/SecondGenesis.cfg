SPECIFICATION Spec
CONSTANTS
  Replicas = {r1}
  Requests = {q1, q2}
  Admins = {a1, a2}
  Root = a1
  Actors = {a1, a2}
  Removable = {a1, a2}
  Records = {}
  TagLists = {}
  Unimaged = {}
  Refreshed = {}
  Owner <- MCOwner
  Contents = {v}
  Absent = absent
  Refetch = refetch
  Free = free
  MaxSeq = 4
  MaxVersion = 1
INVARIANTS ChainIntact
