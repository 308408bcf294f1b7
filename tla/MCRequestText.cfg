CONSTANTS
  Requests <- MCRequests
  LineEnds <- MCLineEnds
  Options <- MCOptions
  Words <- MCWords
  MAX_REQUEST_LENGTH = 21
  MaxRequests = 2
  None = None
SPECIFICATION Spec
INVARIANTS TypeOK EachAnsweredAsAsked StartsAtRequest PageNeedsKey
PROPERTY WaitingIsAnswered
CHECK_DEADLOCK FALSE
