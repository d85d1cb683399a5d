SPECIFICATION Spec
CONSTANTS
  c1 = c1
  c2 = c2
  e1 = e1
  e2 = e2
  Id = {c1, c2}
  Endpoint = {e1, e2}
  NoConfig = NoConfig
  Client = {x1, x2, x3, x4}
  NoClient = NoClient
  Caller = {h1, h2, discovery, certs, main}
  Handler = {h1, h2}
  Discovery = discovery
  Certs = certs
  Main = main
  Posted <- MCPosted
  Discovered <- MCDiscovered
  MaxRequests = 3
  MaxTicks = 1
  MaxCrashes = 1
SYMMETRY Symmetry
INVARIANT PoolConsistent NoClientLeaks SavedChangesLast
CHECK_DEADLOCK FALSE
