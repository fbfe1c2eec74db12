CONSTANTS
  None = None
  Streams <- MCStreams
  Capacity = 1
\* Four chunks of twelve kinds, two calls.
  Chunks <- MCChunks
  MaxChunks = 4
  MaxCalls = 2
  CustomTools = {"exec"}
  Absent = Absent
SPECIFICATION ExchangeSpec
\* A conversation that has reached its bound stops, a turn that is done too.
CHECK_DEADLOCK FALSE
INVARIANTS
  LearnsFromTheWholeBody
  ItemsInOrder
  CompletedSaysTheSame
  CutsDoNotMatter
  ToolsPairUp
  OutputsKeepTheirCalls
PROPERTIES
  RelayEnds
  RelayIsAPipe
  ConversationOnlyGrows
  TurnBeginsAsTheLast
  MarksAreFoundAgain
