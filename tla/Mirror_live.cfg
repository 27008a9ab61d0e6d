CONSTANTS
  Hook = {h}
  Pass = p
  Contact = {c1, c2}
  Job = {j1, j2, j3}
  Moves = {"approved", "rejected"}
  JobMoves = {"scheduled"}
  Edits = {"sent"}
  MaxOutside = 3
  MaxFails = 1
  None = None
SPECIFICATION FairSpec
PROPERTIES ForwardUnlessOvertaken DoublesOnlyByOverlap CatchesUp
CHECK_DEADLOCK FALSE
