SPECIFICATION Spec
CONSTANTS
  statutory = statutory
  i1 = i1  i2 = i2  i3 = i3
  c1 = c1  c2 = c2  c3 = c3
  Calls = {c1, c2, c3}
  Sources = {statutory}
  Ids = {i1, i2, i3}
  Rail <- MCOneRail
  Requests <- MCRequests
  RunIds <- MCRunIds
  ScheduledSource = statutory
  Interval = 1
  Opens = 1
  Closes = 3
  MinuteLength = 1
  DayLength = 3
  DaySlots = 2
  PolicyEnds = 3
  MaxTime = 3
  None = None
SYMMETRY Symmetry
INVARIANTS HistoryValidates ContactsAreBudgeted
PROPERTY RunsFollowFinishedRuns
CHECK_DEADLOCK FALSE
