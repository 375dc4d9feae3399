------------------------------ MODULE UartLine ------------------------------
(***************************************************************************)
(* The serial line in steady state, byte by byte: the H4 decoder of        *)
(* src/src/common/h4_codec.c between the read completion and the packet    *)
(* callback of src/src/driver/qca_uart.c, and the two changes made to what *)
(* crosses it: a legacy command for a voice link goes out in its Enhanced  *)
(* form and is answered under the opcode the host sent                     *)
(* (src/src/common/sco_route.c), and a refused Write_LE_Host_Support is    *)
(* reported as done.                                                       *)
(*                                                                         *)
(* The decoder is fed under the controller lock, and the USB reset that    *)
(* clears it takes the same lock; so it falls between two bytes, wherever  *)
(* the reads cut the line.  The two bytes of an opcode or a handle are one *)
(* byte here; a byte that is neither a packet type nor a length the        *)
(* controller sends reads as OddLength where a length is expected.         *)
(*                                                                         *)
(* The host, as BTHPORT does, asks for voice links only in the legacy      *)
(* form, and after a reset only once the controller has answered all that  *)
(* was asked before it.                                                    *)
(*                                                                         *)
(* A definition BugXxx is a variant of the next definition with a          *)
(* plausible mistake, used only to show which property notices it.         *)
(***************************************************************************)
EXTENDS Integers, Sequences, FiniteSets

CONSTANTS
  Commands,    \* what the host asks: "setup", "accept", "ulaw", "le", "other"
  Data,        \* packets the controller sends unasked: sequences of bytes
  MaxAcl,      \* H4_MAX_ACL_PAYLOAD_SIZE
  OddLength,   \* the length read from a byte that is none
  MaxCommands, \* bound: commands the host sends
  MaxData,     \* bound: packets and sleep bytes sent unasked
  MaxResets    \* bound: USB resets

\* Bytes.
Complete == 14     \* event codes
Status == 15
Ok == 0            \* the status of an answer
Unsupported == 17  \* HCI_ERR_UNSUPPORTED_FEATURE
SleepByte == 253   \* an in-band sleep byte
Setup == 20        \* opcodes
Accept == 21
EnhSetup == 22
EnhAccept == 23
WriteLe == 24      \* HCI_OP_WRITE_LE_HOST_SUPPORTED
OtherOp == 25

ASSUME LineAssumption ==
  /\ Commands \subseteq {"setup", "accept", "ulaw", "le", "other"}
  /\ OddLength \in Nat /\ MaxAcl \in Nat
  /\ MaxCommands \in Nat /\ MaxData \in Nat /\ MaxResets \in Nat

VARIABLES
  asked,    \* commands of the host the bridge took, since the beginning
  stale,    \* how many of them were taken before the last reset
  answered, \* how many of them the controller has answered
  pending,  \* SCO_ROUTE SetupPending and AcceptPending
  sent,     \* what the controller put on the line, in order
  at,       \* the next byte on the line: packet and place
  type,     \* CurrentType, 0 in H4StateIdle
  buffer,   \* Buffer[0 .. BufferLength - 1]
  inStep,   \* the packet on the line began with the decoder idle, and no reset
  due,      \* packets of the line fed whole and in step
  heard,    \* what of them came out of the decoder
  resets

lineVars == <<asked, stale, answered, pending, sent, at, type, buffer, inStep,
              due, heard, resets>>

(***************************************************************************)
(* H4GetHeaderLength, H4ParsePayloadLength and H4GetMaxPayload, a header   *)
(* being one byte shorter here for the opcode or handle.                   *)
(***************************************************************************)
Types == {1, 2, 3, 4}  \* command, ACL, SCO, event

HeaderLength(t) == IF t = 2 THEN 3 ELSE 2

Number(b) == IF b < 10 THEN b ELSE OddLength

PayloadLength(t, hdr) ==
  IF t = 2 THEN Number(hdr[2]) + (MaxAcl + 1) * Number(hdr[3])
  ELSE Number(hdr[2])

\* A length of one byte never exceeds what the other types allow.
Oversized(t, n) == t = 2 /\ n > MaxAcl

(***************************************************************************)
(* ScoRouteRewriteCommand and ScoRouteRestoreEvent.                        *)
(***************************************************************************)
OpOf(c) == CASE c \in {"setup", "ulaw"} -> Setup
             [] c = "accept" -> Accept
             [] c = "le" -> WriteLe
             [] OTHER -> OtherOp

WireOp(c) == CASE c = "setup" -> EnhSetup
               [] c = "accept" -> EnhAccept
               [] OTHER -> OpOf(c)

Rewritten(c) == c \in {"setup", "accept"}

NonePending == [op \in {Setup, Accept} |-> 0]

BugOnePending(op) == [pending EXCEPT ![op] = 1]

Raised(op) == [pending EXCEPT ![op] = @ + 1]

\* An event that answers a command: <<code, length, opcode, status>>.
IsAnswer(ev) == Len(ev) = 4 /\ ev[1] \in {Status, Complete}

\* What the controller sends unasked are whole packets, none of them an answer
\* to an Enhanced command.
ASSUME DataAssumption ==
  \A d \in Data :
    LET n == PayloadLength(d[1], Tail(d)) IN
    /\ d \in Seq(Nat) /\ d[1] \in Types /\ Len(d) > HeaderLength(d[1])
    /\ Len(d) = 1 + HeaderLength(d[1]) + n /\ ~Oversized(d[1], n)
    /\ d[1] = 4 /\ IsAnswer(Tail(d)) => d[4] \notin {EnhSetup, EnhAccept}

Restored(ev) == IF ev[3] = EnhSetup THEN Setup ELSE Accept

Restores(ev) ==
  /\ IsAnswer(ev) /\ ev[3] \in {EnhSetup, EnhAccept}
  /\ pending[Restored(ev)] > 0

\* QcaUartOnH4Packet in phase 2, up to the bridge.
FixesLe(ev) ==
  IsAnswer(ev) /\ ev[1] = Complete /\ ev[3] = WriteLe /\ ev[4] = Unsupported

ForHost(t, pk) ==
  IF t # 4 THEN pk
  ELSE IF FixesLe(pk) THEN [pk EXCEPT ![4] = Ok]
  ELSE IF Restores(pk) THEN [pk EXCEPT ![3] = Restored(pk)]
  ELSE pk

-----------------------------------------------------------------------------
LineInit ==
  /\ asked = << >> /\ stale = 0 /\ answered = 0
  /\ pending = NonePending
  /\ sent = << >> /\ at = [packet |-> 1, place |-> 1]
  /\ type = 0 /\ buffer = << >>
  /\ inStep = TRUE /\ due = << >> /\ heard = << >> /\ resets = 0

(***************************************************************************)
(* QcaUartSubmitCommand: the pending counter is raised whether or not the  *)
(* bridge then takes the command.                                          *)
(***************************************************************************)
NothingStale ==
  /\ answered >= stale
  /\ \A i \in at.packet..Len(sent) : sent[i].for \notin 1..stale

QcaUartSubmitCommand(c, taken) ==
  /\ Len(asked) < MaxCommands
  /\ Rewritten(c) => NothingStale /\ pending[OpOf(c)] < MaxCommands
  /\ taken \/ Rewritten(c)
  /\ pending' = IF Rewritten(c) THEN Raised(OpOf(c)) ELSE pending
  /\ asked' = IF taken THEN Append(asked, c) ELSE asked
  /\ UNCHANGED <<stale, answered, sent, at, type, buffer, inStep, due, heard,
                 resets>>

(***************************************************************************)
(* The controller answers in order, and in between sends data and sleep    *)
(* bytes: an item is its bytes and the command it answers, 0 for none.     *)
(***************************************************************************)
Answers(c) ==
  IF Rewritten(c) \/ c = "ulaw" THEN {<<4, Status, 2, WireOp(c), Ok>>}
  ELSE {<<4, Complete, 2, WireOp(c), st>> : st \in {Ok, Unsupported}}

ControllerSends(bytes, for) ==
  /\ sent' = Append(sent, [bytes |-> bytes, for |-> for])
  /\ UNCHANGED <<asked, stale, pending, at, type, buffer, inStep, due, heard,
                 resets>>

ControllerAnswers ==
  /\ answered < Len(asked)
  /\ answered' = answered + 1
  /\ \E bytes \in Answers(asked[answered + 1]) :
       ControllerSends(bytes, answered + 1)

Unasked ==
  /\ Len(sent) - answered < MaxData
  /\ UNCHANGED answered
  /\ \E bytes \in Data \cup {<<SleepByte>>} : ControllerSends(bytes, 0)

(***************************************************************************)
(* H4FeedByte.  step is what the byte makes of the decoder: its type and   *)
(* buffer after it, and the packet it completes, if any.                   *)
(***************************************************************************)
Reading(t, buf) == [type |-> t, buffer |-> buf, out |-> << >>]
Emitting(pk)    == [type |-> 0, buffer |-> << >>, out |-> pk]

FeedIdle(b) ==
  IF b \in Types THEN Reading(b, << >>)
  ELSE [type |-> 0, buffer |-> << >>,
        out |-> IF b = SleepByte THEN <<b>> ELSE << >>]

BugWaitsForPayload(b) ==
  LET hdr == Append(buffer, b) IN
  IF Len(hdr) < HeaderLength(type) THEN Reading(type, hdr)
  ELSE IF Oversized(type, PayloadLength(type, hdr)) THEN Reading(0, << >>)
  ELSE Reading(type, hdr)

FeedHeader(b) ==
  LET hdr == Append(buffer, b)
      n   == PayloadLength(type, hdr)
  IN IF Len(hdr) < HeaderLength(type) THEN Reading(type, hdr)
     ELSE IF Oversized(type, n) THEN Reading(0, << >>)  \* discarded
     ELSE IF n = 0 THEN Emitting(hdr) ELSE Reading(type, hdr)

FeedPayload(b) ==
  LET pk == Append(buffer, b) IN
  IF Len(pk) = HeaderLength(type) + PayloadLength(type, pk)
  THEN Emitting(pk) ELSE Reading(type, pk)

FeedByte(b) ==
  IF type = 0 THEN FeedIdle(b)
  ELSE IF Len(buffer) < HeaderLength(type) THEN FeedHeader(b)
  ELSE FeedPayload(b)

IsLast == at.place = Len(sent[at.packet].bytes)

Feed ==
  /\ at.packet <= Len(sent)
  /\ LET b    == sent[at.packet].bytes[at.place]
         step == FeedByte(b)
         pk   == ForHost(type, step.out)
         good == IF at.place = 1 THEN type = 0 ELSE inStep
     IN /\ type' = step.type /\ buffer' = step.buffer
        /\ pending' = IF type = 4 /\ ~FixesLe(step.out) /\ Restores(step.out)
                      THEN [pending EXCEPT ![Restored(step.out)] = @ - 1]
                      ELSE pending
        /\ inStep' = good
        /\ due' = IF good /\ IsLast THEN Append(due, at.packet) ELSE due
        /\ heard' = IF good /\ step.out # << >>
                    THEN Append(heard, <<type, pk>>) ELSE heard
  /\ at' = IF IsLast THEN [packet |-> at.packet + 1, place |-> 1]
           ELSE [at EXCEPT !.place = @ + 1]
  /\ UNCHANGED <<asked, stale, answered, sent, resets>>

(***************************************************************************)
(* QcaUartResetTransport, on a USB reset.                                  *)
(***************************************************************************)
ResetTransport ==
  /\ resets < MaxResets
  /\ resets' = resets + 1
  /\ type' = 0 /\ buffer' = << >>
  /\ pending' = NonePending
  /\ stale' = Len(asked)
  /\ inStep' = (at.place = 1)
  /\ UNCHANGED <<asked, answered, sent, at, due, heard>>

LineNext ==
  \/ \E c \in Commands, taken \in BOOLEAN : QcaUartSubmitCommand(c, taken)
  \/ ControllerAnswers \/ Unasked \/ Feed \/ ResetTransport

LineSpec == LineInit /\ [][LineNext]_lineVars

-----------------------------------------------------------------------------
(***************************************************************************)
(* Properties                                                              *)
(***************************************************************************)
LineTypeOK ==
  /\ asked \in Seq(Commands) /\ answered \in 0..Len(asked)
  /\ stale \in 0..Len(asked) /\ resets \in 0..MaxResets
  /\ pending \in [{Setup, Accept} -> 0..MaxCommands]
  /\ type \in Types \cup {0} /\ inStep \in BOOLEAN
  /\ type = 0 => buffer = << >>

Body(item) == IF item.bytes[1] \in Types THEN Tail(item.bytes) ELSE item.bytes

\* An answer without what the driver may change in it.
Bare(pk) == IF IsAnswer(pk) THEN <<pk[1], pk[2]>> ELSE pk

\* What the controller sends comes out of the decoder packet for packet and
\* sleep byte for sleep byte, in order and with nothing in between, however
\* the line is cut; after a reset in the middle of a packet, from the first
\* packet on that finds the decoder idle.  What is left of the packet cut off
\* may be taken for packets until then.
FramesArrive ==
  /\ Len(heard) = Len(due)
  /\ \A i \in 1..Len(due) :
       /\ heard[i][1] \in {sent[due[i]].bytes[1], 0}
       /\ Bare(heard[i][2]) = Bare(Body(sent[due[i]]))

\* Every answer the host gets, but for those to commands from before a reset,
\* carries the opcode the host sent and the status of the controller, or
\* success where Write_LE_Host_Support is unsupported: also when the bridge
\* refuses a rewritten command, which leaves its counter raised for good.  What
\* is left of a packet cut off by a reset could be taken for such an answer, if
\* it held the opcode of an Enhanced command.
AnswerNamesCommand ==
  \A i \in 1..Len(due) :
    LET item == sent[due[i]]
        ev   == heard[i][2]
        st   == item.bytes[5]
    IN (item.for > stale) =>
         /\ ev[3] = OpOf(asked[item.for])
         /\ ev[4] = IF ev[3] = WriteLe /\ st = Unsupported THEN Ok ELSE st
=============================================================================
