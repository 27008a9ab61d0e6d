CONSTANTS
  web = web
  worker = worker
  NumEvents = 1
  CallOf <- OneEvent
  Stamp <- OneStamp
  Copies = 2
  Process <- Both
  OneShot <- Worker
  Concurrency = 2
  MaxAttempts = 2
  MaxFaults = 2
SPECIFICATION FairSpec
INVARIANTS CallLoggedOnce PumpKeepsUp
PROPERTIES EveryRowEnds
CHECK_DEADLOCK FALSE
