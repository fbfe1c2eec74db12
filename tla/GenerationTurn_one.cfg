\* One turn: every shape of request, every class of status, any restored state.
CONSTANTS
  t1 = t1
  t2 = t2
  official = official
  third = third
  a1 = a1
  a2 = a2
  a3 = a3
  i1 = i1
  i2 = i2
  i3 = i3
  i4 = i4
  NoAnchor = NoAnchor
  NoId = NoId
  NoScope = NoScope
  Anchors = {a1, a2, a3}
  Turns = {t1}
  Targets = {third}
  Official = {}
  ScopeOf <- ThirdScopes
  ResponseIds = {i1, i2, i3, i4}
  Requests <- EveryRequest
  Statuses <- EveryStatus
SPECIFICATION Spec
SYMMETRY Ids
INVARIANTS
  TypeOK
  RecoveryBudget
  AgentRetriesOnlyEffort
  OneShotDelta
  DeltaStaysOnResponses
  LearnsFromItsOwnBody
PROPERTIES
  KeepsContract
CHECK_DEADLOCK FALSE
