\* Two turns that share the tables, at the official target.
CONSTANTS
  t1 = t1
  t2 = t2
  official = official
  third = third
  a1 = a1
  a2 = a2
  a3 = a3
  i1 = i1
  i2 = i2
  i3 = i3
  i4 = i4
  NoAnchor = NoAnchor
  NoId = NoId
  NoScope = NoScope
  Anchors = {a1, a2, a3}
  Turns = {t1, t2}
  Targets = {official}
  Official = {official}
  ScopeOf <- OfficialScopes
  ResponseIds = {i1, i2, i3}
  Requests <- MeetingRequests
  Statuses <- MeetingStatuses
SPECIFICATION Spec
SYMMETRY Ids
INVARIANTS
  NoDeadReference
  DeltaStaysInScope
CHECK_DEADLOCK FALSE
