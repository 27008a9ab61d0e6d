SPECIFICATION Spec
CONSTANTS
  None = None  form = form  ad = ad  mail = mail  text = text  call = call
  w1 = w1  w2 = w2  a1 = a1  m1 = m1  t1 = t1  c1 = c1
  web = web  worker = worker  ann = ann  e1 = e1  p1 = p1  p2 = p2
  Processes = {web, worker}
  Of <- MCOf
  ProcessOf <- MCProcessOf
  Person <- MCPerson
  Deliveries = {w1, w2, a1}  Submissions = {form, ad}
  Keyed = {form, ad}  TwoField = {form, ad}  Noted = {form, ad}
  MaxFaults = 2  MaxCrashes = 1  MaxLosses = 1
INVARIANT EffectsOnce
INVARIANT NoteOncePerContact
CHECK_DEADLOCK FALSE
