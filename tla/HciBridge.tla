----------------------------- MODULE HciBridge -----------------------------
(***************************************************************************)
(* The transport-agnostic bridge of src/src/common/hci_bridge.c.  It sits  *)
(* between the emulated USB radio (the host side: SubmitXxx, PopStream,    *)
(* Reset) and the wire to the controller (OnEvent, OnAcl, OnSco, and the   *)
(* session calling SetReady).  Every operation of the code runs with the   *)
(* controller spin lock held, so each is one atomic action here.           *)
(*                                                                         *)
(* This module leaves the two neighbours open: any operation may be called *)
(* at any time with any input, and the wire may refuse any packet.         *)
(* BridgeLink closes it with a host and a controller.                      *)
(*                                                                         *)
(* Abstractions.  The handle table is the set inUse of handles that own a  *)
(* slot and the function outstanding; slot numbers carry no information.   *)
(* The circular FIFOs are sequences (RingFifo shows that a ring of slots   *)
(* with head, tail and count implements them).  The diagnostic counters    *)
(* and the packets refused by the framing checks, which change nothing     *)
(* else, are left out; so is a PopStream whose buffer is too small for an  *)
(* event or an ACL packet, which leaves the packet queued.                 *)
(*                                                                         *)
(* A definition BugXxx is a variant of the next definition with a plausible *)
(* mistake.  No specification uses it; it stands here to show which        *)
(* property would notice the mistake.                                      *)
(***************************************************************************)
EXTENDS Integers, Sequences, FiniteSets

CONSTANTS
  Handle,       \* connection handles the host and the controller may name
  MaxHandles,   \* HCI_BRIDGE_MAX_HANDLES
  U16Max,       \* largest value of the 16-bit credit counters (65535)
  Cmd,          \* host commands
  NoCmd,        \* no command is held
  AclPkt,       \* packets the controller sends on ACL links
  ScoPkt,       \* synchronous packets, either direction
  Event,        \* events the controller may send
  EventDepth,   \* HCI_BRIDGE_EVENT_FIFO_DEPTH
  AclInDepth,   \* HCI_BRIDGE_ACL_IN_FIFO_DEPTH
  ScoInDepth,   \* HCI_BRIDGE_SCO_FIFO_DEPTH
  ScoOutDepth   \* HCI_BRIDGE_SCO_OUT_FIFO_DEPTH

U16 == 0..U16Max

(***************************************************************************)
(* What the bridge can tell apart in an event, by its field type: vendor   *)
(* events (code 0xFF, and Command_Complete or Command_Status of a vendor   *)
(* opcode), a successful Read_Buffer_Size completion with its total,       *)
(* Number_Of_Completed_Packets with the count done of each handle (0 where *)
(* a handle is not listed), a successful Disconnection_Complete with its   *)
(* handle, and everything else.                                            *)
(***************************************************************************)
CreditType == {"bufferSize", "completed", "disconnect"}

ASSUME ConstantsAssumption ==
  /\ IsFiniteSet(Handle)
  /\ MaxHandles \in Nat \ {0}
  /\ U16Max \in Nat \ {0}
  /\ NoCmd \notin Cmd
  /\ EventDepth \in Nat \ {0} /\ AclInDepth \in Nat \ {0}
  /\ ScoInDepth \in Nat \ {0} /\ ScoOutDepth \in Nat \ {0}

ASSUME EventAssumption ==
  \A e \in Event :
    /\ e.type = "bufferSize" => e.total \in U16
    /\ e.type = "completed"  => e.done \in [Handle -> U16]
    /\ e.type = "disconnect" => e.handle \in Handle

VARIABLES
  ready,        \* Ready: the session has declared the controller serviceable
  held,         \* HeldCommand and HeldCommandPending
  eventFifo,    \* EventFifo, oldest first
  aclInFifo,    \* AclInFifo
  scoInFifo,    \* ScoInFifo
  scoOutFifo,   \* OutboundScoFifo
  totalAcl,     \* TotalAclBuffers; 0 until Read_Buffer_Size was answered
  availAcl,     \* AvailableAclCredits
  inUse,        \* handles that own a slot of Handles[]
  outstanding   \* Handles[].Outstanding

creditVars == <<totalAcl, availAcl, inUse, outstanding>>
scoVars    == <<scoInFifo, scoOutFifo>>
bridgeVars == <<ready, held, eventFifo, aclInFifo, scoInFifo, scoOutFifo,
                totalAcl, availAcl, inUse, outstanding>>

TypeOK ==
  /\ ready \in BOOLEAN
  /\ held \in Cmd \cup {NoCmd}
  /\ eventFifo \in Seq(Event) /\ Len(eventFifo) <= EventDepth
  /\ aclInFifo \in Seq(AclPkt) /\ Len(aclInFifo) <= AclInDepth
  /\ scoInFifo \in Seq(ScoPkt) /\ Len(scoInFifo) <= ScoInDepth
  /\ scoOutFifo \in Seq(ScoPkt) /\ Len(scoOutFifo) <= ScoOutDepth
  /\ totalAcl \in U16
  /\ availAcl \in U16
  /\ inUse \in SUBSET Handle /\ Cardinality(inUse) <= MaxHandles
  /\ outstanding \in [Handle -> U16]

(***************************************************************************)
(* 16-bit arithmetic and the credit ceiling.                               *)
(***************************************************************************)
Wrap(n) == n % (U16Max + 1)

\* One element per outstanding packet, so that their number is the sum of
\* Outstanding over the slots in use.
InFlightPackets(used, out) ==
  {p \in used \X (1..U16Max) : p[2] <= out[p[1]]}

InFlight(used, out) == Cardinality(InFlightPackets(used, out))

\* The unsigned short the code's summing loop returns.
TotalInFlight(used, out) == Wrap(InFlight(used, out))

Lesser(a, b) == IF a <= b THEN a ELSE b

BugClampToTotal(avail, total, flying) == Lesser(avail, total)

\* The value AvailableAclCredits has after HciBridgeClampCredits.
ClampCredits(avail, total, flying) ==
  IF total = 0 \/ total <= flying THEN 0 ELSE Lesser(avail, total - flying)

NoneOutstanding == [h \in Handle |-> 0]

-----------------------------------------------------------------------------
Init ==
  /\ ready = FALSE
  /\ held = NoCmd
  /\ eventFifo = << >> /\ aclInFifo = << >>
  /\ scoInFifo = << >> /\ scoOutFifo = << >>
  /\ totalAcl = 0 /\ availAcl = 0
  /\ inUse = {} /\ outstanding = NoneOutstanding

(***************************************************************************)
(* HciBridgeDrainOutboundSco hands packets to the wire until it refuses    *)
(* one: accepted is how many of them the wire takes.                       *)
(***************************************************************************)
DrainOutboundSco(fifo, accepted) ==
  scoOutFifo' = SubSeq(fifo, accepted + 1, Len(fifo))

BugKeepsHeld(accepted) ==
  /\ ~ready
  /\ ready' = TRUE
  /\ accepted \in 0..Len(scoOutFifo)
  /\ DrainOutboundSco(scoOutFifo, accepted)
  /\ UNCHANGED <<held, eventFifo, aclInFifo, scoInFifo, creditVars>>

(***************************************************************************)
(* HciBridgeSetReady(1) on an unready bridge replays the held command,     *)
(* whatever the wire answers, and drains the outbound SCO queue.           *)
(***************************************************************************)
BecomeReady(accepted) ==
  /\ ~ready
  /\ ready' = TRUE
  /\ held' = NoCmd
  /\ accepted \in 0..Len(scoOutFifo)
  /\ DrainOutboundSco(scoOutFifo, accepted)
  /\ UNCHANGED <<eventFifo, aclInFifo, scoInFifo, creditVars>>

BecomeUnready ==
  /\ ready' = FALSE
  /\ UNCHANGED <<held, eventFifo, aclInFifo, scoVars, creditVars>>

\* A command for an unready bridge takes the single hold slot, replacing
\* whatever was there; a ready bridge passes it to the wire and keeps nothing.
SubmitCommand(c) ==
  /\ held' = IF ready THEN held ELSE c
  /\ UNCHANGED <<ready, eventFifo, aclInFifo, scoVars, creditVars>>

\* Whether the host is told that its command was accepted.
CommandAccepted(wireTakes) == ~ready \/ wireTakes

(***************************************************************************)
(* SubmitAcl.  The slot is reserved before the wire is asked, and stays    *)
(* reserved when the wire refuses.                                         *)
(***************************************************************************)
HasSlot(h) == h \in inUse \/ Cardinality(inUse) < MaxHandles

BugNoCreditCheck(h) == ready /\ HasSlot(h)

AclAdmitted(h) == ready /\ availAcl # 0 /\ HasSlot(h)

Reserve(h) ==
  /\ inUse' = inUse \cup {h}
  /\ outstanding' = IF h \in inUse THEN outstanding
                                   ELSE [outstanding EXCEPT ![h] = 0]

BugNotCharged(h) ==
  /\ inUse' = inUse \cup {h}
  /\ outstanding' =
       [outstanding EXCEPT ![h] = IF h \in inUse THEN Wrap(@ + 1) ELSE 1]
  /\ UNCHANGED availAcl

ReserveAndCharge(h) ==
  /\ inUse' = inUse \cup {h}
  /\ outstanding' =
       [outstanding EXCEPT ![h] = IF h \in inUse THEN Wrap(@ + 1) ELSE 1]
  /\ availAcl' = Wrap(availAcl - 1)

SubmitAcl(h, wireTakes) ==
  /\ \/ ~AclAdmitted(h) /\ UNCHANGED <<availAcl, inUse, outstanding>>
     \/ AclAdmitted(h) /\ wireTakes /\ ReserveAndCharge(h)
     \/ AclAdmitted(h) /\ ~wireTakes /\ Reserve(h) /\ UNCHANGED availAcl
  /\ UNCHANGED <<ready, held, eventFifo, aclInFifo, scoVars, totalAcl>>

\* A full synchronous FIFO loses its oldest packet to the new one.
OverwriteOldest(fifo, p, depth) ==
  Append(IF Len(fifo) >= depth THEN Tail(fifo) ELSE fifo, p)

SubmitSco(p, accepted) ==
  /\ IF ready
     THEN LET fifo == OverwriteOldest(scoOutFifo, p, ScoOutDepth)
          IN  accepted \in 0..Len(fifo) /\ DrainOutboundSco(fifo, accepted)
     ELSE UNCHANGED scoOutFifo
  /\ UNCHANGED <<ready, held, eventFifo, aclInFifo, scoInFifo, creditVars>>

-----------------------------------------------------------------------------
(***************************************************************************)
(* PopStream, one action per stream.  A synchronous packet is consumed     *)
(* whether or not it fits the reader's buffer.                             *)
(***************************************************************************)
PopEvent ==
  /\ eventFifo # << >>
  /\ eventFifo' = Tail(eventFifo)
  /\ UNCHANGED <<ready, held, aclInFifo, scoVars, creditVars>>

PopAcl ==
  /\ aclInFifo # << >>
  /\ aclInFifo' = Tail(aclInFifo)
  /\ UNCHANGED <<ready, held, eventFifo, scoVars, creditVars>>

PopSco ==
  /\ scoInFifo # << >>
  /\ scoInFifo' = Tail(scoInFifo)
  /\ UNCHANGED <<ready, held, eventFifo, aclInFifo, scoOutFifo, creditVars>>

\* HciBridgeReset: USB device reset and re-plug.  Readiness and the buffer
\* count the controller reported survive.
Reset ==
  /\ held' = NoCmd
  /\ eventFifo' = << >> /\ aclInFifo' = << >>
  /\ scoInFifo' = << >> /\ scoOutFifo' = << >>
  /\ inUse' = {} /\ outstanding' = NoneOutstanding
  /\ availAcl' = totalAcl
  /\ UNCHANGED <<ready, totalAcl>>

\* HciBridgeInit on a bridge already in use: the re-arm of a new session.
Reinitialise ==
  /\ ready' = FALSE
  /\ totalAcl' = 0 /\ availAcl' = 0
  /\ held' = NoCmd
  /\ eventFifo' = << >> /\ aclInFifo' = << >>
  /\ scoInFifo' = << >> /\ scoOutFifo' = << >>
  /\ inUse' = {} /\ outstanding' = NoneOutstanding

-----------------------------------------------------------------------------
(***************************************************************************)
(* HciBridgeOnEvent: the credit bookkeeping reads the event whether or not *)
(* it is then queued for the host.                                         *)
(***************************************************************************)
LearnBufferSize(total) ==
  /\ totalAcl' = total
  /\ IF totalAcl = 0
     THEN inUse' = {} /\ outstanding' = NoneOutstanding
     ELSE UNCHANGED <<inUse, outstanding>>
  /\ availAcl' = ClampCredits(IF totalAcl = 0 THEN total ELSE availAcl,
                              total, TotalInFlight(inUse', outstanding'))

\* Packets of h that this event really completes.
Actual(h, done) == IF h \in inUse THEN Lesser(outstanding[h], done[h]) ELSE 0

\* The loop over the listed handles; the clamp after each entry never lowers
\* what a later entry would credit, so one clamp stands for all of them.
RecordAclCompleted(done) ==
  /\ outstanding' = [h \in Handle |-> outstanding[h] - Actual(h, done)]
  /\ availAcl' =
       IF \E h \in inUse : done[h] > 0
       THEN ClampCredits(
              Wrap(availAcl + InFlight(inUse, outstanding)
                            - InFlight(inUse, outstanding')),
              totalAcl, TotalInFlight(inUse, outstanding'))
       ELSE availAcl
  /\ UNCHANGED <<totalAcl, inUse>>

BugCreditsLost(h) ==
  /\ inUse' = inUse \ {h}
  /\ outstanding' = [outstanding EXCEPT ![h] = 0]
  /\ UNCHANGED <<totalAcl, availAcl>>

RecordDisconnection(h) ==
  /\ IF h \in inUse
     THEN /\ inUse' = inUse \ {h}
          /\ outstanding' = [outstanding EXCEPT ![h] = 0]
          /\ availAcl' = ClampCredits(Wrap(availAcl + outstanding[h]),
                                      totalAcl,
                                      TotalInFlight(inUse', outstanding'))
     ELSE UNCHANGED <<availAcl, inUse, outstanding>>
  /\ UNCHANGED totalAcl

Snoop(e) ==
  \/ e.type = "bufferSize" /\ LearnBufferSize(e.total)
  \/ e.type = "completed"  /\ RecordAclCompleted(e.done)
  \/ e.type = "disconnect" /\ RecordDisconnection(e.handle)
  \/ e.type \notin CreditType /\ UNCHANGED creditVars

\* Whether the event reaches the host's queue (the value the code returns).
EventQueued(e) ==
  e.type # "vendor" /\ ready /\ Len(eventFifo) < EventDepth

OnEvent(e) ==
  /\ Snoop(e)
  /\ eventFifo' = IF EventQueued(e) THEN Append(eventFifo, e) ELSE eventFifo
  /\ UNCHANGED <<ready, held, aclInFifo, scoVars>>

OnAcl(p) ==
  /\ aclInFifo' = IF ready /\ Len(aclInFifo) < AclInDepth
                  THEN Append(aclInFifo, p) ELSE aclInFifo
  /\ UNCHANGED <<ready, held, eventFifo, scoVars, creditVars>>

OnSco(p) ==
  /\ scoInFifo' = IF ready THEN OverwriteOldest(scoInFifo, p, ScoInDepth)
                           ELSE scoInFifo
  /\ UNCHANGED <<ready, held, eventFifo, aclInFifo, scoOutFifo, creditVars>>

-----------------------------------------------------------------------------
Host ==
  \/ \E c \in Cmd : SubmitCommand(c)
  \/ \E h \in Handle, wireTakes \in BOOLEAN : SubmitAcl(h, wireTakes)
  \/ \E p \in ScoPkt, n \in 0..ScoOutDepth : SubmitSco(p, n)
  \/ PopEvent \/ PopAcl \/ PopSco
  \/ Reset

Wire ==
  \/ \E e \in Event : OnEvent(e)
  \/ \E p \in AclPkt : OnAcl(p)
  \/ \E p \in ScoPkt : OnSco(p)

Session ==
  \/ \E n \in 0..ScoOutDepth : BecomeReady(n)
  \/ BecomeUnready
  \/ Reinitialise

Next == Host \/ Wire \/ Session

Spec == Init /\ [][Next]_bridgeVars

-----------------------------------------------------------------------------
(***************************************************************************)
(* A credit is available only for a buffer that no tracked packet holds,   *)
(* whatever the controller reports: completions it never owed, for handles *)
(* the bridge does not know, before the buffer count, or after the         *)
(* controller shrank it (HciBridgeClampCredits).                           *)
(***************************************************************************)
CreditCeiling ==
  availAcl # 0 => availAcl + InFlight(inUse, outstanding) <= totalAcl

(***************************************************************************)
(* None of the unsigned short additions, subtractions and sums of the      *)
(* credit code wraps: the packets in flight fit 16 bits, so do the credits *)
(* they would give back, and a free slot accounts for none.                *)
(***************************************************************************)
NoWrap ==
  /\ availAcl + InFlight(inUse, outstanding) <= U16Max
  /\ \A h \in Handle \ inUse : outstanding[h] = 0

(***************************************************************************)
(* The hold slot is a bring-up device: once the bridge is serving, nothing *)
(* is left behind in it to be replayed into a later session.               *)
(***************************************************************************)
HeldOnlyUnready == held # NoCmd => ~ready
=============================================================================
