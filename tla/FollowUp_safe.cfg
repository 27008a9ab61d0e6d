CONSTANTS
  Task = {a, b}
  MinSleep = 2
  MaxSleep = 5
  CommitDelay = 1
  Delays = {0, 6}
  MaxTime = 10
  MaxMoves = 1
  MaxAttemptCount = 1
  None = None
  Lead = {l1}
  Step = {s1, s2}
  Worker = {w1, w2}
  Status = {contacted, lost, qualified}
  Terminal = {lost}
  Stops = {qualified}
  Targets = {None, contacted}
SPECIFICATION FollowUpSpec
INVARIANTS OnTime NoTaskLeftBehind EnrolledOnce
SYMMETRY Symmetry
CHECK_DEADLOCK FALSE
