\* How long a prefix state is kept.
CONSTANTS
  s1 = s1
  s2 = s2
  Savers = {s1, s2}
  PrefixTTL = 2
  SessionTTL = 3
  CoolSpan = 1
  None = None
  Torn = Torn
SPECIFICATION Spec
INVARIANTS
  PrefixStatesExpire
