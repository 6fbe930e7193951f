SPECIFICATION FairSpec
CONSTANTS
  Replicas = {r1, r2}
  Requests = {q1, q2}
  Admins = {a1}
  Root = a1
  Actors = {a1}
  Removable = {}
  Records = {}
  TagLists = {}
  Unimaged = {}
  Refreshed = {}
  Owner <- MCOwner
  Contents = {v}
  Absent = absent
  Refetch = refetch
  Free = free
  MaxSeq = 2
  MaxVersion = 2
PROPERTIES EveryRequestEnds EveryBootEnds
