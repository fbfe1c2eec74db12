\* The recovery time of a refused key.
CONSTANTS
  N = 2
  t1 = t1
  t2 = t2
  Turns = {t1, t2}
  Kinds <- UserAndAgent
  Own = Own
  None = None
SPECIFICATION Spec
INVARIANTS
  KeyRecovers
