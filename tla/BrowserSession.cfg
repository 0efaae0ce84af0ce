CONSTANTS
  none = none
  Tabs = {t1}
  MaxIssues = 2
  MaxActs = 2
SPECIFICATION Spec
INVARIANTS
  TypeOK
  OneRefreshPerTab
  QueueIsServed
PROPERTIES
  CallsSettle
CHECK_DEADLOCK FALSE
