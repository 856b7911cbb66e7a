CONSTANTS
  Users = {u}
  Days = {d}
  MaxCalls = 2
  Counts <- MCCounts
SPECIFICATION ReportSpec
PROPERTIES
  InsertsOnlyNewData
CHECK_DEADLOCK FALSE
