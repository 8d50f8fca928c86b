CONSTANTS
  HourLen = 6
  DayLen = 4
  MonthLen = 3
  Months = 2
  Zones <- MCZones
  JobLists <- Twins
  Starts = {0, 9, 71, 143}
SPECIFICATION Spec
PROPERTIES
  EveryJobRuns
CHECK_DEADLOCK FALSE
