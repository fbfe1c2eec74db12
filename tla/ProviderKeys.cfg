\* Two keys, two turns of a conversation at a time.
CONSTANTS
  N = 2
  t1 = t1
  t2 = t2
  Turns = {t1, t2}
  Kinds <- UserAndAgent
  Own = Own
  None = None
SPECIFICATION Spec
SYMMETRY Handlers
INVARIANTS
  RefusedStaysOff
  RoundRobinFair
PROPERTIES
  FailoverTriesTheRest
