SPECIFICATION Spec
CONSTANTS
  None = None
  CatalogIds = {f, v}
  Flatpaks = {f}
  VendorDebs = {v}
  HostAccess = {f}
  f = f
  v = v
  w1 = w1
  w2 = w2
  o1 = o1
  o2 = o2
  c1 = c1
  c2 = c2
  i1 = i1
  i2 = i2
  e1 = e1
  e2 = e2
  WebIds = {w1, w2}
  Origins = {o1, o2}
  Digests = {d1, d2}
  AppThreads = {t1, t2}
  MaxAppCalls = 3
  MaxAppFaults = 1
  Icons = {i1, i2}
  UserContexts = {work}
  Commands = {c1, c2}
  MaxWebCalls = 3
  MaxWebFaults = 1
  EnvCommands = {e1, e2}
  MaxBoxes = 2
  MaxEdits = 1
  MaxPodmanFaults = 1
  Scopes = {"s1", "s2"}
  Pids = {1, 2}
  Inodes = {1}
  MaxRefusals = 1
  MaxPasses = 1
  MaxRestarts = 1
  Letters = {"a", "b"}
  MaxPattern = 4
  MaxText = 4
SYMMETRY Symmetry
INVARIANTS
    
    
    SandboxIsTheGrant
    ViewIsTrue
    SignaturesMean
CHECK_DEADLOCK FALSE
