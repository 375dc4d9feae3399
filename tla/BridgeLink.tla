---------------------------- MODULE BridgeLink -----------------------------
(***************************************************************************)
(* HciBridge between the two neighbours it is written for: the Bluetooth   *)
(* stack of the host on the emulated USB radio, and the controller on the  *)
(* UART.  The driver's own steps are the session's: declaring the bridge   *)
(* ready (ServeSteady), closing and re-arming it around a sleep, and       *)
(* replacing the emulated device after it (DeckBtPublishUartDevice).       *)
(*                                                                         *)
(* Host and controller are modelled from how the driver relies on them:    *)
(* the host has one command outstanding, initialises the radio with        *)
(* HCI_Reset and Read_Buffer_Size and sends ACL data within the credits    *)
(* Number_Of_Completed_Packets gives it, on every connection it believes   *)
(* to be live; the controller answers commands in order and reports each   *)
(* buffer it frees on a live connection.                                   *)
(***************************************************************************)
EXTENDS HciBridge

CONSTANTS
  AclBuffers,    \* ACL buffers of the controller
  MaxCmds,       \* bound: commands the host ever issues
  WireLen,       \* bound: packets under way on the UART, each direction
  MaxUsbResets,  \* bound: USB resets of a running radio
  Worlds         \* the surroundings the bridge may find itself in:
                 \*   counts    the host honours its own ACL credits, or else
                 \*             relies on the bridge to refuse what the
                 \*             controller cannot take
                 \*   refuses   a full or failing UART may refuse a write
                 \*   sessions  bound: one more than the sleeps in between

ASSUME LinkAssumption ==
  /\ AclBuffers \in 1..U16Max
  /\ MaxCmds \in Nat \ {0} /\ WireLen \in Nat \ {0}
  /\ MaxUsbResets \in Nat
  /\ Worlds \subseteq [counts: BOOLEAN, refuses: BOOLEAN,
                        sessions: Nat \ {0}]

VARIABLES
  world,         \* the surroundings of this behaviour
  toCtl,         \* packets written to the UART, not yet taken by the controller
  fromCtl,       \* events of the controller, not yet read by the driver
  ctlUp,         \* the host has initialised the controller since its last reset
  ctlConn,       \* live connections
  ctlBuf,        \* ACL packets of each connection in the controller's buffers
  hostPhase,     \* how far the stack has initialised the radio
  hostCmd,       \* command whose completion the stack awaits, or NoCmd
  hostConn,      \* connections the stack knows
  hostCredits,   \* its own ACL credits
  hostOut,       \* its packets outstanding per connection
  cmds,          \* number of commands issued so far
  strays,        \* history: packets charged to each handle after the bridge
                 \* had settled the account of its connection
  usbResets,
  sessions,
  session,       \* "bringup", "serving" or "stopped"
  replaced       \* the current device belongs to the current session

ctlVars  == <<ctlUp, ctlConn, ctlBuf>>
hostVars == <<hostPhase, hostCmd, hostConn, hostCredits, hostOut>>
pastVars == <<world, cmds, usbResets, sessions, session, replaced>>
vars == <<bridgeVars, toCtl, fromCtl, ctlVars, hostVars, pastVars, strays>>

\* Values for the constants Cmd and Event.
LinkCmd == [op: {"HCI_Reset", "Read_Buffer_Size"}, id: 1..MaxCmds]

Vendor        == [type |-> "vendor"]
Connected(h)  == [type |-> "connected", handle |-> h]
Gone(h)       == [type |-> "disconnect", handle |-> h]
OneDone(h)    == [type |-> "completed",
                  done |-> [g \in Handle |-> IF g = h THEN 1 ELSE 0]]
Completion(c) == IF c.op = "Read_Buffer_Size"
                 THEN [type |-> "bufferSize", total |-> AclBuffers, id |-> c.id]
                 ELSE [type |-> "resetDone", id |-> c.id]

LinkEvent ==
  {Vendor} \cup {Completion(c) : c \in LinkCmd}
    \cup UNION {{Connected(h), Gone(h), OneDone(h)} : h \in Handle}

ASSUME LinkInputs == Cmd = LinkCmd /\ Event = LinkEvent

CmdPacket(c) == [type |-> "cmd", cmd |-> c]
AclPacket(h) == [type |-> "acl", handle |-> h]

IsCompletion(e) == e.type \in {"bufferSize", "resetDone"}

-----------------------------------------------------------------------------
NoBuffers == [h \in Handle |-> 0]

LinkInit ==
  /\ Init
  /\ toCtl = << >> /\ fromCtl = << >>
  /\ ctlUp = FALSE /\ ctlConn = {} /\ ctlBuf = NoBuffers
  /\ hostPhase = "fresh" /\ hostCmd = NoCmd
  /\ hostConn = {} /\ hostCredits = 0 /\ hostOut = NoBuffers
  /\ cmds = 0 /\ world \in Worlds
  /\ strays = NoBuffers
  /\ usbResets = 0 /\ sessions = 1 /\ session = "bringup" /\ replaced = TRUE

\* The outcomes of a write: it is taken, or, where modelled, refused.
WireOutcome == IF world.refuses THEN BOOLEAN ELSE {TRUE}

(***************************************************************************)
(* The session.                                                            *)
(***************************************************************************)

BugNoReplay ==
  /\ session = "bringup" /\ session' = "serving"
  /\ Len(toCtl) < WireLen
  /\ BecomeReady(0)
  /\ UNCHANGED <<toCtl, fromCtl, ctlVars, hostVars, cmds, world, usbResets,
                 sessions, replaced, strays>>

\* ServeSteady, HciBridgeSetReady(1): the held command goes to the wire.
SessionReady ==
  /\ session = "bringup" /\ session' = "serving"
  /\ Len(toCtl) < WireLen
  /\ BecomeReady(0)
  /\ \E wireTakes \in WireOutcome :
       toCtl' = IF held # NoCmd /\ wireTakes
                THEN Append(toCtl, CmdPacket(held)) ELSE toCtl
  /\ UNCHANGED <<fromCtl, ctlVars, hostVars, cmds, world, usbResets, sessions,
                 replaced, strays>>

\* The end of ServeSteady on a sleep: the bridge is closed and the controller
\* handed back.  What was under way on the UART is lost.
SessionStop ==
  /\ session = "serving" /\ session' = "stopped"
  /\ sessions < world.sessions
  /\ BecomeUnready
  /\ toCtl' = << >> /\ fromCtl' = << >>
  /\ ctlUp' = FALSE /\ ctlConn' = {} /\ ctlBuf' = NoBuffers
  /\ sessions' = sessions + 1
  /\ replaced' = FALSE
  /\ UNCHANGED <<hostVars, cmds, world, usbResets, strays>>

\* QcaUartRearmSteady on resume, while the device of the old session is still
\* plugged in.
SessionRearm ==
  /\ session = "stopped" /\ session' = "bringup"
  /\ Reinitialise
  /\ strays' = NoBuffers
  /\ UNCHANGED <<toCtl, fromCtl, ctlVars, hostVars, cmds, world, usbResets,
                 sessions, replaced>>

\* A newly plugged device knows nothing; the stack starts it from HCI_Reset.
HostForgets ==
  /\ hostPhase' = "fresh" /\ hostCmd' = NoCmd
  /\ hostConn' = {} /\ hostCredits' = 0 /\ hostOut' = NoBuffers

\* DeckBtPublishUartDevice replaces the device and resets the transport.
ReplaceDevice ==
  /\ session = "serving" /\ ~replaced
  /\ Reset
  /\ HostForgets
  /\ replaced' = TRUE
  /\ strays' = NoBuffers
  /\ UNCHANGED <<world, toCtl, fromCtl, ctlVars, cmds, usbResets, sessions,
                 session>>

-----------------------------------------------------------------------------
(***************************************************************************)
(* The host.                                                               *)
(***************************************************************************)

\* USB reset of the radio, followed by a new initialisation.
UsbReset ==
  /\ usbResets < MaxUsbResets
  /\ usbResets' = usbResets + 1
  /\ Reset
  /\ HostForgets
  /\ strays' = NoBuffers
  /\ UNCHANGED <<toCtl, fromCtl, ctlVars, cmds, world, sessions, session,
                 replaced>>

NextOp == IF hostPhase = "fresh" THEN "HCI_Reset" ELSE "Read_Buffer_Size"

HostCommand ==
  /\ hostCmd = NoCmd /\ hostPhase # "up" /\ cmds < MaxCmds
  /\ Len(toCtl) < WireLen
  /\ LET c == [op |-> NextOp, id |-> cmds + 1]
     IN  /\ SubmitCommand(c)
         /\ \E wireTakes \in WireOutcome :
              /\ toCtl' = IF ready /\ wireTakes
                          THEN Append(toCtl, CmdPacket(c)) ELSE toCtl
              /\ hostCmd' = IF CommandAccepted(wireTakes) THEN c ELSE NoCmd
  /\ cmds' = cmds + 1
  /\ UNCHANGED <<fromCtl, ctlVars, hostPhase, hostConn, hostCredits, hostOut,
                 world, usbResets, sessions, session, replaced, strays>>

\* The bridge has snooped the end of h and restored its credits, though the
\* stack may not have read that event yet, or may have lost it to a full queue.
EndIsSnooped(h) ==
  h \notin ctlConn /\ \A i \in DOMAIN fromCtl : fromCtl[i] # Gone(h)

\* A stack that counts spends a credit only on a packet that was accepted.
HostAcl(h) ==
  /\ h \in hostConn /\ Len(toCtl) < WireLen
  /\ world.counts => hostCredits > 0
  /\ \E wireTakes \in WireOutcome :
       /\ SubmitAcl(h, wireTakes)
       /\ IF AclAdmitted(h) /\ wireTakes
          THEN toCtl' = Append(toCtl, AclPacket(h)) ELSE UNCHANGED toCtl
       /\ IF AclAdmitted(h) /\ wireTakes /\ EndIsSnooped(h)
          THEN strays' = [strays EXCEPT ![h] = @ + 1] ELSE UNCHANGED strays
       /\ IF AclAdmitted(h) /\ wireTakes /\ world.counts
          THEN /\ hostCredits' = hostCredits - 1
               /\ hostOut' = [hostOut EXCEPT ![h] = @ + 1]
          ELSE UNCHANGED <<hostCredits, hostOut>>
  /\ UNCHANGED <<fromCtl, ctlVars, hostPhase, hostCmd, hostConn, pastVars>>

\* What the stack makes of an event it reads.
Answers(e) == hostCmd # NoCmd /\ e = Completion(hostCmd)

Concerns(e) ==
  \/ Answers(e)
  \/ hostPhase = "up" /\ e.type \in {"connected", "completed"}
  \/ hostPhase = "up" /\ e.type = "disconnect" /\ e.handle \in hostConn

HostCompletes(e) ==
  /\ IsCompletion(e)
  /\ hostCmd' = NoCmd
  /\ hostPhase' = IF e.type = "bufferSize" THEN "up" ELSE "reset"
  /\ hostCredits' = IF e.type = "bufferSize" THEN e.total ELSE hostCredits
  /\ UNCHANGED <<hostConn, hostOut>>

HostSeesConnection(e) ==
  /\ e.type = "connected"
  /\ hostConn' = hostConn \cup {e.handle}
  /\ UNCHANGED <<hostPhase, hostCmd, hostCredits, hostOut>>

HostSeesDisconnection(e) ==
  /\ e.type = "disconnect"
  /\ hostConn' = hostConn \ {e.handle}
  /\ hostCredits' = hostCredits + hostOut[e.handle]
  /\ hostOut' = [hostOut EXCEPT ![e.handle] = 0]
  /\ UNCHANGED <<hostPhase, hostCmd>>

HostSeesCompleted(e) ==
  /\ e.type = "completed"
  /\ LET done == {h \in hostConn : e.done[h] > 0 /\ hostOut[h] > 0}
     IN  /\ hostOut' = [h \in Handle |-> IF h \in done THEN hostOut[h] - 1
                                                       ELSE hostOut[h]]
         /\ hostCredits' = hostCredits + Cardinality(done)
  /\ UNCHANGED <<hostPhase, hostCmd, hostConn>>

HostReads ==
  /\ PopEvent
  /\ LET e == Head(eventFifo)
     IN  \/ ~Concerns(e) /\ UNCHANGED hostVars
         \/ /\ Concerns(e)
            /\ \/ HostCompletes(e) \/ HostSeesConnection(e)
               \/ HostSeesDisconnection(e) \/ HostSeesCompleted(e)
  /\ UNCHANGED <<toCtl, fromCtl, ctlVars, pastVars, strays>>

-----------------------------------------------------------------------------
(***************************************************************************)
(* The controller, and the driver reading what it sent.                    *)
(***************************************************************************)
CtlTakesReset ==
  /\ toCtl # << >> /\ Head(toCtl).type = "cmd"
  /\ Head(toCtl).cmd.op = "HCI_Reset"
  /\ Len(fromCtl) < WireLen
  /\ toCtl' = Tail(toCtl)
  /\ fromCtl' = Append(fromCtl, Completion(Head(toCtl).cmd))
  /\ ctlUp' = FALSE /\ ctlConn' = {} /\ ctlBuf' = NoBuffers
  /\ UNCHANGED <<bridgeVars, hostVars, pastVars, strays>>

CtlTakesReadBufferSize ==
  /\ toCtl # << >> /\ Head(toCtl).type = "cmd"
  /\ Head(toCtl).cmd.op = "Read_Buffer_Size"
  /\ Len(fromCtl) < WireLen
  /\ toCtl' = Tail(toCtl)
  /\ fromCtl' = Append(fromCtl, Completion(Head(toCtl).cmd))
  /\ ctlUp' = TRUE
  /\ UNCHANGED <<bridgeVars, ctlConn, ctlBuf, hostVars, pastVars, strays>>

\* Data for a handle that is not connected is discarded without a report.
CtlTakesAcl ==
  /\ toCtl # << >> /\ Head(toCtl).type = "acl"
  /\ toCtl' = Tail(toCtl)
  /\ LET h == Head(toCtl).handle
     IN  ctlBuf' = IF h \in ctlConn THEN [ctlBuf EXCEPT ![h] = @ + 1] ELSE ctlBuf
  /\ UNCHANGED <<bridgeVars, fromCtl, ctlUp, ctlConn, hostVars, pastVars,
                 strays>>

CtlSends(e) ==
  /\ Len(fromCtl) < WireLen
  /\ fromCtl' = Append(fromCtl, e)
  /\ UNCHANGED <<bridgeVars, toCtl, ctlUp, hostVars, pastVars, strays>>

CtlTransmits(h) ==
  /\ ctlBuf[h] > 0
  /\ ctlBuf' = [ctlBuf EXCEPT ![h] = @ - 1]
  /\ CtlSends(OneDone(h)) /\ UNCHANGED ctlConn

\* Setting up a connection takes longer than the UART: its handle is not reused
\* while packets of the previous connection are under way.
CtlConnects(h) ==
  /\ ctlUp /\ h \notin ctlConn
  /\ \A i \in DOMAIN toCtl : toCtl[i] # AclPacket(h)
  /\ \A i \in DOMAIN fromCtl : fromCtl[i] # Gone(h)
  /\ ctlConn' = ctlConn \cup {h}
  /\ CtlSends(Connected(h)) /\ UNCHANGED ctlBuf

\* The packets of a lost connection leave the buffers unreported.
CtlDisconnects(h) ==
  /\ h \in ctlConn
  /\ ctlConn' = ctlConn \ {h}
  /\ ctlBuf' = [ctlBuf EXCEPT ![h] = 0]
  /\ CtlSends(Gone(h))

CtlChatters == CtlSends(Vendor) /\ UNCHANGED <<ctlConn, ctlBuf>>

\* The UART read completion feeds one event to the bridge.
Deliver ==
  /\ fromCtl # << >>
  /\ OnEvent(Head(fromCtl))
  /\ fromCtl' = Tail(fromCtl)
  /\ strays' = [h \in Handle |->
                   IF Head(fromCtl) = Gone(h) THEN 0 ELSE strays[h]]
  /\ UNCHANGED <<toCtl, ctlVars, hostVars, pastVars>>

-----------------------------------------------------------------------------
SessionStep == SessionReady \/ SessionStop \/ SessionRearm \/ ReplaceDevice

HostStep ==
  \/ UsbReset \/ HostCommand \/ HostReads
  \/ \E h \in Handle : HostAcl(h)

CtlStep ==
  \/ CtlTakesReset \/ CtlTakesReadBufferSize \/ CtlTakesAcl \/ CtlChatters
  \/ \E h \in Handle : CtlTransmits(h) \/ CtlConnects(h) \/ CtlDisconnects(h)

LinkNext == SessionStep \/ HostStep \/ CtlStep \/ Deliver

LinkSpec == LinkInit /\ [][LinkNext]_vars

\* A controller that answers, a reader that keeps reading, and a bring-up that
\* ends; the host's own commands and data are never forced.
LinkFairness ==
  /\ WF_vars(SessionReady)
  /\ SF_vars(CtlTakesReset \/ CtlTakesReadBufferSize \/ CtlTakesAcl)
  /\ WF_vars(Deliver)
  /\ WF_vars(HostReads)

FairLinkSpec == LinkSpec /\ LinkFairness

-----------------------------------------------------------------------------
(***************************************************************************)
(* Safety.                                                                 *)
(***************************************************************************)
AclUnderWay ==
  Cardinality({i \in DOMAIN toCtl : \E h \in ctlConn : toCtl[i] = AclPacket(h)})

(***************************************************************************)
(* The credits do their job: the controller is never sent more ACL packets *)
(* of live connections than it has buffers, across USB resets and          *)
(* disconnections ("to prevent buffer overflow and hardware lockup",       *)
(* hci_bridge.h).                                                          *)
(***************************************************************************)
NoOvercommit == InFlight(Handle, ctlBuf) + AclUnderWay <= AclBuffers

(***************************************************************************)
(* Every credit is accounted for: once the UART is silent and the          *)
(* controller's buffers are empty, the credits of all packets that went    *)
(* out, were completed, or were lost with their connection, a session or a *)
(* USB reset are available again.  What is missing is exactly one credit   *)
(* for each stray packet: one that SubmitAcl accepted for a handle after   *)
(* the bridge had snooped its disconnection, and that no later             *)
(* disconnection of that handle or reset has settled since.  A session     *)
(* that has stopped keeps its account until the next one is armed.         *)
(***************************************************************************)
Quiescent == toCtl = << >> /\ fromCtl = << >> /\ ctlBuf = NoBuffers

CreditsAccounted ==
  session # "stopped" /\ Quiescent
    => availAcl + InFlight(Handle, strays) = totalAcl

(***************************************************************************)
(* What hci_bridge.h says of the disconnection: the credits of its handle  *)
(* are restored and the entry is freed, "preventing credit leaks on        *)
(* disconnect".  So, when nothing is under way any more and neither the    *)
(* controller nor the host has a connection left, all credits would be     *)
(* available.  The code does not keep it: HciBridgeSubmitAcl does not know *)
(* which connections exist, and a packet the host submits before it has    *)
(* read the Disconnection_Complete takes a new entry and a credit that the *)
(* controller will never report.                                           *)
(***************************************************************************)
DisconnectLeaksNoCredit ==
  session # "stopped" /\ Quiescent /\ eventFifo = << >>
    /\ ctlConn = {} /\ hostConn = {}
    => availAcl = totalAcl

(***************************************************************************)
(* Hold-then-replay delivers a command at most once and in order: the      *)
(* commands that are on their way to the controller, at the controller, or *)
(* on their way back as completions are distinct and in the order they     *)
(* were issued, the held one last.                                         *)
(***************************************************************************)
Issued(p) == p.type = "cmd" \/ IsCompletion(p)

IdOf(p) == IF p.type = "cmd" THEN p.cmd.id ELSE p.id

Pipeline ==
  eventFifo \o fromCtl \o toCtl
    \o IF held = NoCmd THEN << >> ELSE <<CmdPacket(held)>>

CommandsInOrder ==
  \A i, j \in DOMAIN Pipeline :
    i < j /\ Issued(Pipeline[i]) /\ Issued(Pipeline[j])
      => IdOf(Pipeline[i]) < IdOf(Pipeline[j])

(***************************************************************************)
(* Liveness: a command the host was told is accepted while the controller  *)
(* was still loading is answered (the hold-then-replay policy), provided   *)
(* the bring-up ends, the UART takes the replay and the system does not    *)
(* fall asleep again first.                                                *)
(***************************************************************************)
HeldCommandAnswered ==
  (held # NoCmd /\ ~world.refuses)
    ~> (hostCmd = NoCmd \/ session = "stopped")
=============================================================================
