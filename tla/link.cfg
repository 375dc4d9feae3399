\* A host that counts its credits on a UART that may refuse writes, and a host
\* that does not across two sessions.
SPECIFICATION FairLinkSpec
CONSTANTS
  NoCmd = NoCmd
  Cmd <- LinkCmd
  AclPkt = {}
  ScoPkt = {}
  Event <- LinkEvent
  AclInDepth = 1
  ScoInDepth = 1
  ScoOutDepth = 1
  Handle = {h1, h2}
  MaxHandles = 2
  U16Max = 3
  EventDepth = 1
  AclBuffers = 2
  MaxCmds = 4
  WireLen = 2
  MaxUsbResets = 1
  Worlds <- MCWorlds
INVARIANTS CreditsAccounted NoOvercommit CommandsInOrder
PROPERTIES HeldCommandAnswered
