CONSTANTS
  Users = {u}
  Days = {d}
  MaxCalls = 4
  Counts <- MCCounts
SPECIFICATION ReportSpec
INVARIANTS
  CallsAddUp
CHECK_DEADLOCK FALSE
