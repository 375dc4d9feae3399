\* A counting host, a UART that takes every write and one session: only the
\* connections come and go.
SPECIFICATION LinkSpec
CONSTANTS
  NoCmd = NoCmd
  Cmd <- LinkCmd
  AclPkt = {}
  ScoPkt = {}
  Event <- LinkEvent
  AclInDepth = 1
  ScoInDepth = 1
  ScoOutDepth = 1
  Handle = {h1, h2}
  MaxHandles = 2
  U16Max = 3
  EventDepth = 2
  AclBuffers = 2
  MaxCmds = 4
  WireLen = 2
  MaxUsbResets = 0
  Worlds <- LateDataWorlds
INVARIANTS DisconnectLeaksNoCredit
