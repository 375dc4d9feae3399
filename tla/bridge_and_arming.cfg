\* The bridge: credits, hold slot and queues under arbitrary traffic.
\* Arming: two devnodes, two values set, a failure, a crash and two records.
SPECIFICATION MCSpec
CONSTANTS
  h1 = h1
  h2 = h2
  h3 = h3
  Handle = {h1, h2, h3}
  MaxHandles = 2
  U16Max = 3
  NoCmd = NoCmd
  Cmd = {c1}
  AclPkt = {a1}
  ScoPkt = {s1}
  Event <- Events
  EventDepth = 1
  AclInDepth = 1
  ScoInDepth = 1
  ScoOutDepth = 2
  Devnode = {n1, n2}
  Nobody = Nobody
  Backends = {"stub", "uart", "unknown"}
  Values = {"UartProbe", "UartIdentify", "Enabled"}
  MaxArms = 2
  MaxFailures = 1
  MaxCrashes = 1
  MaxRecords = 2
SYMMETRY Symmetric
INVARIANTS CreditCeiling NoWrap ClaimHasOwner OneLifePerArm RecordIsWhole
