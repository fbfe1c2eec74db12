\* Three turns under two anchors; a session lives for one tick.
CONSTANTS
  SessionTurns = {1, 2, 3}
  SessionKeys = {"k1", "k2"}
  SessionAsks <- SomeSessionAsks
  Lifetime = 1
  Missing = Missing
\* Three efforts; a target that supports any or lists two.
  a1 = a1
  a2 = a2
  target = target
  Agents = {a1, a2}
  Models = {target}
  Strongest = 3
  MaxEdits = 1
  Catalogues = {{}, {1, 2}}
\* Two providers, one turn at a time.
  Providers <- InOrder
  Offers <- OffersOf
  Names <- Written
  Lower <- InLower
  Base <- BaseOf
  Wants <- WantsOf
  Preferred = {"p2"}
  AgentModel = "small"
  Callers = {a1}
  Conversations = {"c1", "c2"}
  Nothing = Nothing
\* Two turns of two prefixes.
  PrefixTurns = {a1, a2}
  PrefixKeys = {"p", "q"}
  PrefixAsks <- SomePrefixAsks
  Records <- Usages
  Tails <- Additions
  Waits = {0, 600}
  Ages = {0, 31000}
  Restored <- Before
  Empty = Empty
\* One status of every kind the ladder of a compaction tells apart.
  Statuses = {200, 400, 401, 404, 429, 501, 503}
  Undecided = Undecided
SPECIFICATION TurnsSpec
\* A turn that is done stops.
CHECK_DEADLOCK FALSE
INVARIANTS
  DeltaContinues
  LongestIsKept
  ReferenceIsReplaced
  RoutedWhereItCanBeServed
  PrefixEvidenceIsSound
  RefusedIsNotRepeated
PROPERTIES
  KnownRejectionsAreAvoided
  OverrideFollowsItsOwnRejection
