\* A program that ends while it saves.
CONSTANTS
  s1 = s1
  s2 = s2
  Savers = {s1, s2}
  PrefixTTL = 1
  SessionTTL = 2
  CoolSpan = 2
  None = None
  Torn = Torn
SPECIFICATION Spec
INVARIANTS
  CanBeRestored
