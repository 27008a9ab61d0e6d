CONSTANTS
  MinPoll = 2
  MaxPoll = 7
  First = 1
  MaxTime = 14
  Timer = {t1, t2, t3, t4}
  Backoffs = 4
  MaxPolls = 2
  Nothing = Nothing
  gmail = gmail
  hcp = hcp
  v1 = v1
  v2 = v2
  web = web
  pass = pass
  clerk = clerk
  call = call
SPECIFICATION LoopsSpec
INVARIANTS NudgeHonoured ChainAlive AloneAndOnce
PROPERTIES ImplementsPollLoop DueHasItsTurn GoogleHasTheLastWord
CHECK_DEADLOCK FALSE
