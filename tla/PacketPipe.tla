----------------------------- MODULE PacketPipe -----------------------------
(***************************************************************************)
(* What a host may rely on of one inbound stream, whatever threads move    *)
(* the packets (EndpointDrain): a bounded queue whose oldest packet is     *)
(* handed to one transfer.  Packets are numbered in the order they arrive. *)
(*                                                                         *)
(* This is the promise DeckBtDrainStream of src/src/driver/endpoints.c and *)
(* the FIFOs of hci_bridge.c and hci_stub.c keep together.                 *)
(***************************************************************************)
EXTENDS Naturals, Sequences

CONSTANTS
  Reader,     \* transfers that may be given a packet
  Depth,      \* packets that wait at most
  MaxPackets  \* bound: packets that ever arrive

VARIABLES
  queue,   \* packets that wait
  given,   \* the packet each transfer was given, 0 for none
  arrived, \* packets that arrived so far
  lost     \* packets nobody will get

vars == <<queue, given, arrived, lost>>

Init ==
  queue = << >> /\ given = [r \in Reader |-> 0] /\ arrived = 0 /\ lost = {}

\* n packets arrive and the first k of them find room.
Arrive(n, k) ==
  /\ k <= n /\ Len(queue) + k <= Depth
  /\ k < n => Len(queue) + k = Depth
  /\ arrived' = arrived + n
  /\ queue' = queue \o [i \in 1..k |-> arrived + i]
  /\ lost' = lost \cup (arrived + k + 1)..(arrived + n)
  /\ given' = given

Deliver(r) ==
  /\ queue # << >> /\ given[r] = 0
  /\ given' = [given EXCEPT ![r] = Head(queue)]
  /\ queue' = Tail(queue)
  /\ UNCHANGED <<arrived, lost>>

Clear ==
  /\ queue' = << >>
  /\ lost' = lost \cup {queue[i] : i \in DOMAIN queue}
  /\ UNCHANGED <<given, arrived>>

Next ==
  \/ \E n \in 1..MaxPackets, k \in 0..MaxPackets : Arrive(n, k)
  \/ (\E r \in Reader : Deliver(r))
  \/ Clear

Spec == Init /\ [][Next]_vars
=============================================================================
