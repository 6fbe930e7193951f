SPECIFICATION TagsSpec
CONSTANTS
  None = None
  Ids = {i1}
  Seeded = {i1}
  Specs = {a}
  BadSpecs = {}
  Tags = {t1, t2}
  Editors = {x1, x2}
  HistoryMax = 2
  MaxVersion = 2
  MaxTick = 1
INVARIANTS TagsReplay
CHECK_DEADLOCK FALSE
