CONSTANTS
  Call = {b1, b2}
  Customer = {k}
  Slot = {d1, d2}
  Person = {ann, bob}
  HcpStaff = {ann}
  GoogleStaff = {ann}
  Watched = {d1}
  None = None
  GoogleLead = {g1}
  Mail = {m1}
  FbLead = {l1}
  Form = {f1}
  FormOf <- OneForm
  Puller = {p1, p2}
  Overlap = 1
SPECIFICATION ContactsSpec
INVARIANTS BookedTwiceOnlyTogether StaleOnlyWithReason BookedIsScheduled OneEstimatePerRetry AnnouncedAsOften
INVARIANTS AutoDisputedOnce NoMailForgotten 
SYMMETRY ContactsSymmetry
CHECK_DEADLOCK FALSE
