--------------------------- MODULE EndpointDrain ----------------------------
(***************************************************************************)
(* How a packet meets a reader: one inbound stream of the backend (events  *)
(* or ACL data), the queue of parked IN transfers of its endpoint, and the *)
(* drains that pair the two (DeckBtDrainStream, src/src/driver/            *)
(* endpoints.c).  The backend is the bridge behind the UART, or the stub,  *)
(* which answers each command itself (hci_stub.c).                         *)
(*                                                                         *)
(* Three kinds of threads run a drain, and none holds a lock across it:    *)
(* the UART read completion after it queued packets under the controller   *)
(* lock, the queue callback of each IN transfer after it parked the        *)
(* transfer, and the control endpoint after each command.  The queue of    *)
(* the control endpoint is sequential, but a command is completed before   *)
(* its drain, so that the next one may run beside it.  A step is what one  *)
(* of them does between two operations on the lock or the queue.           *)
(*                                                                         *)
(* Packets are numbered in the order they arrive.                          *)
(*                                                                         *)
(* A definition BugXxx is a variant of the next definition with a          *)
(* plausible mistake, used only to show which property notices it.         *)
(***************************************************************************)
EXTENDS Naturals, Sequences, FiniteSets, SequencesExt

CONSTANTS
  Reader,      \* IN transfers the host submits
  SmallReader, \* those whose buffer a big packet does not fit
  BigPacket,   \* the packets that are big
  Control,     \* threads that serve the control endpoint
  Backends,    \* backends a run begins with, "stub" or "uart"
  NoReader,
  Depth,       \* depth of the stream's FIFO
  MaxPackets,  \* bound: packets that ever arrive
  MaxResets    \* bound: USB resets

ASSUME DrainAssumption ==
  /\ NoReader \notin Reader /\ SmallReader \subseteq Reader
  /\ BigPacket \subseteq Nat \ {0}
  /\ "wire" \notin Reader \cup Control /\ Reader \cap Control = {}
  /\ Backends \subseteq {"stub", "uart"}
  /\ Depth \in Nat \ {0} /\ MaxPackets \in Nat /\ MaxResets \in Nat

\* The threads that drain: the read completion, the control endpoint's, and
\* the callback that parked each reader.
Drainer == {"wire"} \cup Control \cup Reader

Packet == 1..MaxPackets

\* How a reader ended, and the packet it was given, 0 for none.
Ended(how, p) == [how |-> how, packet |-> p]
Pending       == Ended("pending", 0)

Answer == [how : {"pending", "completed", "failed", "cancelled"},
           packet : Nat]

VARIABLES
  backend,  \* what is behind the endpoints
  fifo,     \* its queue of this stream
  parked,   \* EventQueue or AclInQueue
  pc,       \* where the drain of each thread is
  hand,     \* the transfer it has taken from the queue
  got,      \* the packet it has popped for it, 0 for none
  posted,   \* readers the host has submitted
  answer,   \* what each reader was completed with
  arrived,  \* packets that arrived so far
  dropped,  \* packets a full FIFO or a reset discarded
  resets

vars == <<backend, fifo, parked, pc, hand, got, posted, answer, arrived,
          dropped, resets>>

TypeOK ==
  /\ fifo \in Seq(Nat \ {0}) /\ Len(fifo) <= Depth
  /\ parked \in Seq(Reader)
  /\ pc \in [Drainer -> {"idle", "check", "take", "pop", "complete"}]
  /\ hand \in [Drainer -> Reader \cup {NoReader}]
  /\ got \in [Drainer -> Nat]
  /\ answer \in [Reader -> Answer]
  /\ arrived \in Nat

Init ==
  /\ backend \in Backends /\ fifo = << >> /\ parked = << >>
  /\ pc = [d \in Drainer |-> "idle"]
  /\ hand = [d \in Drainer |-> NoReader] /\ got = [d \in Drainer |-> 0]
  /\ posted = {} /\ answer = [r \in Reader |-> Pending]
  /\ arrived = 0 /\ dropped = {} /\ resets = 0

Moves(d, from, to) == pc[d] = from /\ pc' = [pc EXCEPT ![d] = to]

-----------------------------------------------------------------------------
(***************************************************************************)
(* The read completion.  A read may hold several packets; the lock is held *)
(* over all of them, and one notification follows its release if any was   *)
(* queued.                                                                 *)
(***************************************************************************)
Feed(d, n) ==
  LET room  == Depth - Len(fifo)
      taken == IF n <= room THEN n ELSE room
  IN  /\ fifo' = fifo \o [i \in 1..taken |-> arrived + i]
      /\ dropped' = dropped \cup (arrived + taken + 1)..(arrived + n)
      /\ IF taken > 0 THEN Moves(d, "idle", "check")
                      ELSE pc[d] = "idle" /\ UNCHANGED pc

Arrives(d, n) ==
  /\ arrived + n <= MaxPackets
  /\ arrived' = arrived + n
  /\ Feed(d, n)
  /\ UNCHANGED <<backend, parked, hand, got, posted, answer, resets>>

ReadCompletes(n) == backend = "uart" /\ Arrives("wire", n)

(***************************************************************************)
(* The end of a control transfer.  The stub has queued the one event that  *)
(* answers the command, or refused the command when its FIFO is full, and  *)
(* then the transfer stalls and nothing is drained.                        *)
(***************************************************************************)
StubCommand(c) == backend = "stub" /\ Arrives(c, 1)

UartCommand(c) ==
  /\ backend = "uart"
  /\ Moves(c, "idle", "check")
  /\ UNCHANGED <<backend, fifo, parked, hand, got, posted, answer, arrived,
                 dropped, resets>>

BugParksOnly(r) ==
  /\ r \notin posted /\ posted' = posted \cup {r}
  /\ parked' = Append(parked, r) /\ pc[r] = "idle"
  /\ UNCHANGED <<backend, fifo, pc, hand, got, answer, arrived, dropped, resets>>

\* DeckBtEvtDataUrb for an IN endpoint.
PostReader(r) ==
  /\ r \notin posted /\ posted' = posted \cup {r}
  /\ parked' = Append(parked, r)
  /\ Moves(r, "idle", "check")
  /\ UNCHANGED <<backend, fifo, hand, got, answer, arrived, dropped, resets>>

PostFails(r) ==
  /\ r \notin posted /\ posted' = posted \cup {r}
  /\ answer' = [answer EXCEPT ![r] = Ended("failed", 0)]
  /\ UNCHANGED <<backend, fifo, parked, pc, hand, got, arrived, dropped, resets>>

-----------------------------------------------------------------------------
(***************************************************************************)
(* DeckBtDrainStream, one pass of its loop.                                *)
(***************************************************************************)
Check(d) ==
  /\ Moves(d, "check", IF fifo = << >> THEN "idle" ELSE "take")
  /\ UNCHANGED <<backend, fifo, parked, hand, got, posted, answer, arrived, dropped,
                 resets>>

NothingParked(d) ==
  /\ parked = << >>
  /\ Moves(d, "take", "idle")
  /\ UNCHANGED <<backend, fifo, parked, hand, got, posted, answer, arrived, dropped,
                 resets>>

Take(d) ==
  /\ parked # << >>
  /\ Moves(d, "take", "pop")
  /\ hand' = [hand EXCEPT ![d] = Head(parked)]
  /\ parked' = Tail(parked)
  /\ UNCHANGED <<backend, fifo, got, posted, answer, arrived, dropped, resets>>

\* The transfer has no buffer: it fails and the loop goes on.
NoBuffer(d) ==
  /\ Moves(d, "pop", "check")
  /\ answer' = [answer EXCEPT ![hand[d]] = Ended("failed", 0)]
  /\ hand' = [hand EXCEPT ![d] = NoReader]
  /\ UNCHANGED <<backend, fifo, parked, got, posted, arrived, dropped, resets>>

\* A packet is never cut to fit, by the bridge or by the stub.
Fits(p, r) == ~(p \in BigPacket /\ r \in SmallReader)

Popped(d) == fifo # << >> /\ Fits(Head(fifo), hand[d])

BugPeeks(d) ==
  /\ Moves(d, "pop", "complete")
  /\ got' = [got EXCEPT ![d] = IF Popped(d) THEN Head(fifo) ELSE 0]
  /\ UNCHANGED <<backend, fifo, parked, hand, posted, answer, arrived, dropped, resets>>

\* Another drain or a reset may have emptied the FIFO since the check.
Pop(d) ==
  /\ Moves(d, "pop", "complete")
  /\ got' = [got EXCEPT ![d] = IF Popped(d) THEN Head(fifo) ELSE 0]
  /\ fifo' = IF Popped(d) THEN Tail(fifo) ELSE fifo
  /\ UNCHANGED <<backend, parked, hand, posted, answer, arrived, dropped, resets>>

BugOnePerDrain(d) ==
  /\ Moves(d, "complete", "idle")
  /\ answer' = [answer EXCEPT ![hand[d]] = Ended("completed", got[d])]
  /\ hand' = [hand EXCEPT ![d] = NoReader] /\ got' = [got EXCEPT ![d] = 0]
  /\ UNCHANGED <<backend, fifo, parked, posted, arrived, dropped, resets>>

Complete(d) ==
  /\ Moves(d, "complete", "check")
  /\ answer' = [answer EXCEPT ![hand[d]] = Ended("completed", got[d])]
  /\ hand' = [hand EXCEPT ![d] = NoReader] /\ got' = [got EXCEPT ![d] = 0]
  /\ UNCHANGED <<backend, fifo, parked, posted, arrived, dropped, resets>>

Drain(d) ==
  Check(d) \/ NothingParked(d) \/ Take(d) \/ NoBuffer(d) \/ Pop(d) \/ Complete(d)

-----------------------------------------------------------------------------
\* A USB reset empties the queues of the backend.
UsbReset ==
  /\ resets < MaxResets /\ resets' = resets + 1
  /\ fifo' = << >>
  /\ dropped' = dropped \cup {fifo[i] : i \in DOMAIN fifo}
  /\ UNCHANGED <<backend, parked, pc, hand, got, posted, answer, arrived>>

\* The host cancels a parked transfer.
HostCancels ==
  \E i \in DOMAIN parked :
    /\ parked' = RemoveAt(parked, i)
    /\ answer' = [answer EXCEPT ![parked[i]] = Ended("cancelled", 0)]
    /\ UNCHANGED <<backend, fifo, pc, hand, got, posted, arrived, dropped, resets>>

Next ==
  \/ \E n \in 1..MaxPackets : ReadCompletes(n)
  \/ \E c \in Control : StubCommand(c) \/ UartCommand(c)
  \/ \E r \in Reader : PostReader(r) \/ PostFails(r)
  \/ HostCancels \/ UsbReset
  \/ \E d \in Drainer : Drain(d)

Spec == Init /\ [][Next]_vars

\* A drain that began goes on.
FairSpec == Spec /\ \A d \in Drainer : WF_vars(Drain(d))

-----------------------------------------------------------------------------
(***************************************************************************)
(* No lost wakeup: once every drain is over, no packet waits beside a      *)
(* parked reader.  The reader is parked before its drain checks the FIFO,  *)
(* and the packet is queued before its drain looks for a reader.           *)
(***************************************************************************)
NoLostWakeup ==
  (\A d \in Drainer : pc[d] = "idle") => fifo = << >> \/ parked = << >>

(***************************************************************************)
(* Racing drains keep the promise of one queue: every packet that arrived  *)
(* waits, is lost to a full FIFO or a reset, or was given to one transfer, *)
(* the oldest first; and a transfer that was given one is never given      *)
(* another.  A transfer has its packet as soon as its drain popped it.     *)
(***************************************************************************)
Bearer(r) == {d \in Drainer : hand[d] = r /\ got[d] # 0}

Given == [r \in Reader |-> IF Bearer(r) = {} THEN answer[r].packet
                           ELSE got[CHOOSE d \in Bearer(r) : TRUE]]

Pipe == INSTANCE PacketPipe WITH queue <- fifo, given <- Given, lost <- dropped

ImplementsPipe == Pipe!Spec

(***************************************************************************)
(* Liveness: a packet and a parked reader meet, or one of them goes away.  *)
(***************************************************************************)
ReaderServed ==
  (fifo # << >> /\ parked # << >>) ~> (fifo = << >> \/ parked = << >>)
=============================================================================
