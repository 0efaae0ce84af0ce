CONSTANTS
  none = none
  Scenes <- MCScenes
SPECIFICATION Spec
INVARIANTS
  SkeletonMeansFetching
  PaneShowsItsRecord
  FlagsMatchCalls
PROPERTIES
  RowsLeaveForAReason
  LoadingEnds
CHECK_DEADLOCK FALSE
