CONSTANTS
  Tools <- Parameters
  Texts = {"a"}
  Rules = "rules"
  Threads = {None, "thread"}
  Spellings <- MCSpellings
  MaxTalk = 4
  None = None
SPECIFICATION BodySpec
CHECK_DEADLOCK FALSE
INVARIANT DeltaNamesTheCall
