CONSTANTS
  HourLen = 6
  DayLen = 4
  MonthLen = 3
  Months = 2
  Zones <- MCZones
  JobLists <- MCJobLists
  Starts = {0, 9, 71, 143}
SPECIFICATION Spec
INVARIANTS
  TypeOK
  NoIntervalOverslept
PROPERTIES
  MissedOnlyBehindAnother
  RunsUnlessShadowed
CHECK_DEADLOCK FALSE
