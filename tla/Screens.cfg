CONSTANTS
  none = none
  Stories <- MCStories
SPECIFICATION Spec
INVARIANTS
  FormsSubmitWholeAndOnce
  NoCardIsLost
  ColumnsAgreeWithServer
  ShownRecordIsSaved
CHECK_DEADLOCK FALSE
