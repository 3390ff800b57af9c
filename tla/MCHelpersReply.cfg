SPECIFICATION Spec
CONSTANTS
  r1 = r1
  r2 = r2
  w1 = w1
  t1 = t1
  t2 = t2
  child = child
  f1 = f1
  f2 = f2
  f3 = f3
  Requests = {r1, r2}
  Sockets = {w1}
  Contexts <- MCContexts
  MaxFrames = 2
  MaxRoutes = 1
  Exchanges = {1, 2}
  Jobs <- MCJobs
  MaxChunks = 2
  Threads = {t1, t2}
  Child = child
  Paths = {1, 2}
  Descriptors = {3, 4}
  Habits <- MCHabits
  MaxLines = 2
  Starts <- MCStarts
  BrowserIds = {1, 2}
  MaxContexts = 2
  Fetches = {f1, f2, f3}
  Pages <- MCPages
  Slots = 1
  MaxWires = 1
  Loads <- MCLoads
  Replies <- MCReplies
  MaxMatches = 2
  BodyCap = 2
  TlsEstimate = 2
INVARIANT OwnRepliesAreKnown
CHECK_DEADLOCK FALSE
