SPECIFICATION FairSpec
CONSTANTS
  Loop = loop
  Others = {t1}
  NoThread = none
  Events = {e1, e2}
  NoEvent = noEvent
  Off = off
  Repeated = {e1}
  Intervals = {0, 2}
  Retry = 1
  MaxCalls = 3
  MaxLate = 1
CHECK_DEADLOCK FALSE
INVARIANTS
  TypeOK
  NeverDisarmed
  ArmedInTime
PROPERTIES
  AlarmsSpec
  EventsFire
