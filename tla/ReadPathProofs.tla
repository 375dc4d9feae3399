--------------------------- MODULE ReadPathProofs ---------------------------
(***************************************************************************)
(* Theorems about the way in from the serial line: the pump that keeps a   *)
(* read posted (ReadPump), and the decoder its bytes are fed to, up to the *)
(* packet callback (UartLine); for every set of write slots, every set of  *)
(* packets of the controller and every bound.                              *)
(*                                                                         *)
(* ReadPump.  ActiveIoCount is the root of the argument: while it is the   *)
(* number of those who may touch the target (CountedOwners), a worker that *)
(* finds it zero knows that nobody is there, both when it starts the       *)
(* reader again and when it closes the target.  That nobody comes back     *)
(* takes the phase for the senders and the purged target for the callers   *)
(* of the purge.                                                           *)
(*                                                                         *)
(* UartLine.  In step, the decoder holds the beginning of the packet on    *)
(* the line, byte for byte; out of step it never began where that packet   *)
(* does (DecoderInv), so that nothing it takes for an event has the opcode *)
(* of an Enhanced command, unless it finds one in the data.  Hence the     *)
(* counters of the route fall only with the answer they were raised for,   *)
(* and no more answers are owed than they count (RouteInv).                *)
(***************************************************************************)
EXTENDS ReadPump, UartLine, FiniteSetTheorems, TLAPS

\* Inside the controller lock is the sender that has filled a slot, or the
\* completion that feeds the decoder.
LockHeld ==
  /\ sending # NoSlot <=> lock = "usb"
  /\ dpc.at = "feed" <=> lock = "dpc"
  /\ \A s \in Slot : slot[s] = "filled" <=> sending = s

\* The request has one user: the worker that prepares it, the lower driver, or
\* the completion.
OneUser ==
  /\ worker \in {"quiet", "decoder", "reuse", "budget", "send"} =>
       read = "idle" /\ dpc.at = "none"
  /\ dpc.at # "none" => read = "idle" /\ leaving <= MaxLeaving

\* From the last phase on no sender comes, and behind the purge no purge.
Retired ==
  /\ worker \in {"purge", "release", "closed"} => phase = 3 /\ sending = NoSlot
  /\ worker \in {"release", "closed"} => target = "purged"
  /\ worker = "closed" =>
       /\ read = "idle" /\ dpc.at = "none" /\ leaving = 0
       /\ \A s \in Slot : slot[s] = "free"
       /\ canceller # "purging"

\* A read ends without data because the line failed, or because the pump was
\* told to end before the read was cancelled.
Prompted == ~pumpRunning \/ stopRequested

FaultTells ==
  /\ readFault => lineFault \/ stopRequested
  /\ worker \in {"drain", "quiet"} => ~pumpRunning
  /\ canceller # "idle" => stopRequested
  /\ read = "cancelling" => Prompted
  /\ dpc.at # "none" /\ dpc.status # "data" => Prompted \/ lineFault

IInv ==
  /\ TypeOK /\ CountedOwners /\ LockHeld /\ OneUser /\ Retired /\ FaultTells

-----------------------------------------------------------------------------
LEMMA OutFinite ==
  ASSUME NEW S \in SUBSET Slot
  PROVE  IsFiniteSet(S) /\ Cardinality(S) \in Nat
BY PumpAssumption, FS_Subset, FS_CardinalityType

LEMMA WorkerKeeps ==
  ASSUME IInv, WorkerGoesOn \/ WorkerChooses
  PROVE  IInv'
<1> USE PumpAssumption DEF IInv, TypeOK, vars, workerVars, readVars, writeVars
<1>a. /\ IsFiniteSet(Out) /\ Cardinality(Out) \in Nat
      /\ leaving \in Nat /\ io \in Nat
  BY OutFinite DEF Out, IoTypes
<1>1. CASE StartPump
  <2> USE <1>1 DEF StartPump, At
  <2>1. Out' = Out
    BY DEF Out, IoTypes
  <2>2. Cardinality(Out') = Cardinality(Out)
    BY <2>1
  <2>3. WorkerTypes' /\ FlagTypes' /\ IoTypes'
    BY <1>a, <2>2 DEF WorkerTypes, Stage, WorkerAt, FlagTypes, IoTypes, Answer,
           CountedOwners, Holds, OneUser
  <2>4. CountedOwners'
    BY <1>a, <2>2 DEF CountedOwners, Holds, IoTypes, OneUser
  <2>5. LockHeld' /\ OneUser' /\ Retired' /\ FaultTells'
    BY <1>a, <2>2 DEF LockHeld, WorkerTypes, IoTypes, OneUser, CountedOwners,
           Holds, Retired, FaultTells, FlagTypes, Prompted
  <2>6. QED
    BY <2>3, <2>4, <2>5 DEF IInv, TypeOK
<1>2. CASE ResetDecoder
  <2> USE <1>2 DEF ResetDecoder, At
  <2>1. Out' = Out
    BY DEF Out, IoTypes
  <2>2. Cardinality(Out') = Cardinality(Out)
    BY <2>1
  <2>3. WorkerTypes' /\ FlagTypes' /\ IoTypes'
    BY <1>a, <2>2 DEF WorkerTypes, Stage, WorkerAt, FlagTypes, IoTypes, Answer,
           CountedOwners, Holds, OneUser
  <2>4. CountedOwners'
    BY <1>a, <2>2 DEF CountedOwners, Holds, IoTypes, OneUser
  <2>5. LockHeld' /\ OneUser' /\ Retired' /\ FaultTells'
    BY <1>a, <2>2 DEF LockHeld, WorkerTypes, IoTypes, OneUser, CountedOwners,
           Holds, Retired, FaultTells, FlagTypes, Prompted
  <2>6. QED
    BY <2>3, <2>4, <2>5 DEF IInv, TypeOK
<1>3. CASE ReuseRead
  <2> USE <1>3 DEF ReuseRead, At
  <2>1. Out' = Out
    BY DEF Out, IoTypes
  <2>2. Cardinality(Out') = Cardinality(Out)
    BY <2>1
  <2>3. WorkerTypes'
    BY DEF WorkerTypes, Stage, WorkerAt
  <2>4. FlagTypes'
    BY DEF FlagTypes
  <2>5. IoTypes'
    BY <1>a, <2>2 DEF IoTypes, Answer, CountedOwners, Holds, OneUser
  <2>6. CountedOwners'
    BY <1>a, <2>2 DEF CountedOwners, Holds, IoTypes, OneUser
  <2>7. LockHeld' /\ OneUser' /\ Retired' /\ FaultTells'
    BY <1>a, <2>2 DEF LockHeld, WorkerTypes, IoTypes, OneUser, CountedOwners,
           Holds, Retired, FaultTells, FlagTypes, Prompted
  <2>8. QED
    BY <2>3, <2>4, <2>5, <2>6, <2>7 DEF IInv, TypeOK
<1>4. CASE SendRead
  <2> USE <1>4 DEF SendRead, At
  <2>1. Out' = Out
    BY DEF Out, IoTypes
  <2>2. Cardinality(Out') = Cardinality(Out)
    BY <2>1
  <2>3. WorkerTypes'
    BY DEF WorkerTypes, Stage, WorkerAt
  <2>4. FlagTypes'
    BY DEF FlagTypes
  <2>5. IoTypes'
    BY <1>a, <2>2 DEF IoTypes, Answer, CountedOwners, Holds, OneUser
  <2>6. CountedOwners'
    BY <1>a, <2>2 DEF CountedOwners, Holds, IoTypes, OneUser
  <2>7. LockHeld' /\ OneUser' /\ Retired' /\ FaultTells'
    BY <1>a, <2>2 DEF LockHeld, WorkerTypes, IoTypes, OneUser, CountedOwners,
           Holds, Retired, FaultTells, FlagTypes, Prompted
  <2>8. QED
    BY <2>3, <2>4, <2>5, <2>6, <2>7 DEF IInv, TypeOK
<1>5. CASE ReadAccepted
  <2> USE <1>5 DEF ReadAccepted, At
  <2>1. Out' = Out
    BY DEF Out, IoTypes
  <2>2. Cardinality(Out') = Cardinality(Out)
    BY <2>1
  <2>3. WorkerTypes' /\ FlagTypes' /\ IoTypes'
    BY <1>a, <2>2 DEF WorkerTypes, Stage, WorkerAt, FlagTypes, IoTypes, Answer,
           CountedOwners, Holds, OneUser
  <2>4. CountedOwners'
    BY <1>a, <2>2 DEF CountedOwners, Holds, IoTypes, OneUser
  <2>5. LockHeld' /\ OneUser' /\ Retired' /\ FaultTells'
    BY <1>a, <2>2 DEF LockHeld, WorkerTypes, IoTypes, OneUser, CountedOwners,
           Holds, Retired, FaultTells, FlagTypes, Prompted
  <2>6. QED
    BY <2>3, <2>4, <2>5 DEF IInv, TypeOK
<1>6. CASE ReadRefused
  <2> USE <1>6 DEF ReadRefused, At
  <2>1. Out' = Out
    BY DEF Out, IoTypes
  <2>2. Cardinality(Out') = Cardinality(Out)
    BY <2>1
  <2>3. WorkerTypes'
    BY DEF WorkerTypes, Stage, WorkerAt
  <2>4. FlagTypes'
    BY DEF FlagTypes
  <2>5. IoTypes'
    BY <1>a, <2>2 DEF IoTypes, Answer, CountedOwners, Holds, OneUser
  <2>6. CountedOwners'
    BY <1>a, <2>2 DEF CountedOwners, Holds, IoTypes, OneUser
  <2>7. LockHeld' /\ OneUser' /\ Retired' /\ FaultTells'
    BY <1>a, <2>2 DEF LockHeld, WorkerTypes, IoTypes, OneUser, CountedOwners,
           Holds, Retired, FaultTells, FlagTypes, Prompted
  <2>8. QED
    BY <2>3, <2>4, <2>5, <2>6, <2>7 DEF IInv, TypeOK
<1>7. CASE NoteSent
  <2> USE <1>7 DEF NoteSent, At
  <2>1. Out' = Out
    BY DEF Out, IoTypes
  <2>2. Cardinality(Out') = Cardinality(Out)
    BY <2>1
  <2>3. WorkerTypes' /\ FlagTypes' /\ IoTypes'
    BY <1>a, <2>2 DEF WorkerTypes, Stage, WorkerAt, FlagTypes, IoTypes, Answer,
           CountedOwners, Holds, OneUser
  <2>4. CountedOwners'
    BY <1>a, <2>2 DEF CountedOwners, Holds, IoTypes, OneUser
  <2>5. LockHeld' /\ OneUser' /\ Retired' /\ FaultTells'
    BY <1>a, <2>2 DEF LockHeld, WorkerTypes, IoTypes, OneUser, CountedOwners,
           Holds, Retired, FaultTells, FlagTypes, Prompted
  <2>6. QED
    BY <2>3, <2>4, <2>5 DEF IInv, TypeOK
<1>8. CASE Quiesce
  <2> USE <1>8 DEF Quiesce, At
  <2>1. Out' = Out
    BY DEF Out, IoTypes
  <2>2. Cardinality(Out') = Cardinality(Out)
    BY <2>1
  <2>3. WorkerTypes'
    BY DEF WorkerTypes, Stage, WorkerAt
  <2>4. FlagTypes'
    BY DEF FlagTypes
  <2>5. IoTypes'
    BY <1>a, <2>2 DEF IoTypes, Answer, CountedOwners, Holds, OneUser
  <2>6. CountedOwners'
    BY <1>a, <2>2 DEF CountedOwners, Holds, IoTypes, OneUser
  <2>7. LockHeld' /\ OneUser' /\ Retired' /\ FaultTells'
    BY <1>a, <2>2 DEF LockHeld, WorkerTypes, IoTypes, OneUser, CountedOwners,
           Holds, Retired, FaultTells, FlagTypes, Prompted
  <2>8. QED
    BY <2>3, <2>4, <2>5, <2>6, <2>7 DEF IInv, TypeOK
<1>9. CASE DrainCancels
  <2> USE <1>9 DEF DrainCancels
  <2>1. Out' = Out
    BY DEF Out, IoTypes
  <2>2. Cardinality(Out') = Cardinality(Out)
    BY <2>1
  <2>3. WorkerTypes' /\ FlagTypes' /\ IoTypes'
    BY <1>a, <2>2 DEF WorkerTypes, Stage, WorkerAt, FlagTypes, IoTypes, Answer,
           CountedOwners, Holds, OneUser
  <2>4. CountedOwners'
    BY <1>a, <2>2 DEF CountedOwners, Holds, IoTypes, OneUser
  <2>5. LockHeld' /\ OneUser' /\ Retired' /\ FaultTells'
    BY <1>a, <2>2 DEF LockHeld, WorkerTypes, IoTypes, OneUser, CountedOwners,
           Holds, Retired, FaultTells, FlagTypes, Prompted
  <2>6. QED
    BY <2>3, <2>4, <2>5 DEF IInv, TypeOK
<1>10. CASE DrainEnds
  <2> USE <1>10 DEF DrainEnds, At
  <2>1. Out' = Out
    BY DEF Out, IoTypes
  <2>2. Cardinality(Out') = Cardinality(Out)
    BY <2>1
  <2>3. WorkerTypes' /\ FlagTypes' /\ IoTypes'
    BY <1>a, <2>2 DEF WorkerTypes, Stage, WorkerAt, FlagTypes, IoTypes, Answer,
           CountedOwners, Holds, OneUser
  <2>4. CountedOwners'
    BY <1>a, <2>2 DEF CountedOwners, Holds, IoTypes, OneUser
  <2>5. LockHeld' /\ OneUser' /\ Retired' /\ FaultTells'
    BY <1>a, <2>2 DEF LockHeld, WorkerTypes, IoTypes, OneUser, CountedOwners,
           Holds, Retired, FaultTells, FlagTypes, Prompted
  <2>6. QED
    BY <2>3, <2>4, <2>5 DEF IInv, TypeOK
<1>11. CASE DrainGivesUp
  <2> USE <1>11 DEF DrainGivesUp, At
  <2>1. Out' = Out
    BY DEF Out, IoTypes
  <2>2. Cardinality(Out') = Cardinality(Out)
    BY <2>1
  <2>3. WorkerTypes' /\ FlagTypes' /\ IoTypes'
    BY <1>a, <2>2 DEF WorkerTypes, Stage, WorkerAt, FlagTypes, IoTypes, Answer,
           CountedOwners, Holds, OneUser
  <2>4. CountedOwners'
    BY <1>a, <2>2 DEF CountedOwners, Holds, IoTypes, OneUser
  <2>5. LockHeld' /\ OneUser' /\ Retired' /\ FaultTells'
    BY <1>a, <2>2 DEF LockHeld, WorkerTypes, IoTypes, OneUser, CountedOwners,
           Holds, Retired, FaultTells, FlagTypes, Prompted
  <2>6. QED
    BY <2>3, <2>4, <2>5 DEF IInv, TypeOK
<1>12. CASE WorkerPurges
  <2> USE <1>12 DEF WorkerPurges, At, Purged
  <2>1. Out' = Out
    BY DEF Out, IoTypes
  <2>2. Cardinality(Out') = Cardinality(Out)
    BY <2>1
  <2>3. WorkerTypes'
    BY DEF WorkerTypes, Stage, WorkerAt
  <2>4. FlagTypes'
    BY DEF FlagTypes
  <2>5. IoTypes'
    BY <1>a, <2>2 DEF IoTypes, Answer, CountedOwners, Holds, OneUser
  <2>6. CountedOwners'
    BY <1>a, <2>2 DEF CountedOwners, Holds, IoTypes, OneUser
  <2>7. LockHeld' /\ OneUser' /\ Retired' /\ FaultTells'
    BY <1>a, <2>2 DEF LockHeld, WorkerTypes, IoTypes, OneUser, CountedOwners,
           Holds, Retired, FaultTells, FlagTypes, Prompted
  <2>8. QED
    BY <2>3, <2>4, <2>5, <2>6, <2>7 DEF IInv, TypeOK
<1>13. CASE Release
  <2> USE <1>13 DEF Release, At
  <2>1. Out' = Out
    BY DEF Out, IoTypes
  <2>2. Cardinality(Out') = Cardinality(Out)
    BY <2>1
  <2>3. WorkerTypes' /\ FlagTypes' /\ IoTypes'
    BY <1>a, <2>2 DEF WorkerTypes, Stage, WorkerAt, FlagTypes, IoTypes, Answer,
           CountedOwners, Holds, OneUser
  <2>4. CountedOwners'
    BY <1>a, <2>2 DEF CountedOwners, Holds, IoTypes, OneUser
  <2>5. \A s \in Slot : slot[s] = "free"
    <3>1. Cardinality(Out) = 0
      BY <1>a DEF CountedOwners, Holds, IoTypes
    <3>2. Out = {}
      BY <3>1, <1>a, FS_EmptySet
    <3>3. QED
      BY <3>2 DEF Out, IoTypes, LockHeld, Retired
  <2>6. LockHeld' /\ OneUser' /\ Retired' /\ FaultTells'
    BY <1>a, <2>2, <2>5 DEF LockHeld, WorkerTypes, IoTypes, OneUser,
           CountedOwners, Holds, Retired, FaultTells, FlagTypes, Prompted
  <2>7. QED
    BY <2>3, <2>4, <2>6 DEF IInv, TypeOK
<1>14. CASE ToBringup
  <2> USE <1>14 DEF ToBringup, Becomes, Between
  <2>1. Out' = Out
    BY DEF Out, IoTypes
  <2>2. Cardinality(Out') = Cardinality(Out)
    BY <2>1
  <2>3. WorkerTypes' /\ FlagTypes' /\ IoTypes'
    BY <1>a, <2>2 DEF WorkerTypes, Stage, WorkerAt, FlagTypes, IoTypes, Answer,
           CountedOwners, Holds, OneUser
  <2>4. CountedOwners'
    BY <1>a, <2>2 DEF CountedOwners, Holds, IoTypes, OneUser
  <2>5. LockHeld' /\ OneUser' /\ Retired' /\ FaultTells'
    BY <1>a, <2>2 DEF LockHeld, WorkerTypes, IoTypes, OneUser, CountedOwners,
           Holds, Retired, FaultTells, FlagTypes, Prompted
  <2>6. QED
    BY <2>3, <2>4, <2>5 DEF IInv, TypeOK
<1>15. CASE ToHandoff
  <2> USE <1>15 DEF ToHandoff, Becomes, Between
  <2>1. Out' = Out
    BY DEF Out, IoTypes
  <2>2. Cardinality(Out') = Cardinality(Out)
    BY <2>1
  <2>3. WorkerTypes' /\ FlagTypes' /\ IoTypes'
    BY <1>a, <2>2 DEF WorkerTypes, Stage, WorkerAt, FlagTypes, IoTypes, Answer,
           CountedOwners, Holds, OneUser
  <2>4. CountedOwners'
    BY <1>a, <2>2 DEF CountedOwners, Holds, IoTypes, OneUser
  <2>5. LockHeld' /\ OneUser' /\ Retired' /\ FaultTells'
    BY <1>a, <2>2 DEF LockHeld, WorkerTypes, IoTypes, OneUser, CountedOwners,
           Holds, Retired, FaultTells, FlagTypes, Prompted
  <2>6. QED
    BY <2>3, <2>4, <2>5 DEF IInv, TypeOK
<1>16. CASE ToSteady
  <2> USE <1>16 DEF ToSteady, Becomes, Between
  <2>1. Out' = Out
    BY DEF Out, IoTypes
  <2>2. Cardinality(Out') = Cardinality(Out)
    BY <2>1
  <2>3. WorkerTypes' /\ FlagTypes' /\ IoTypes'
    BY <1>a, <2>2 DEF WorkerTypes, Stage, WorkerAt, FlagTypes, IoTypes, Answer,
           CountedOwners, Holds, OneUser
  <2>4. CountedOwners'
    BY <1>a, <2>2 DEF CountedOwners, Holds, IoTypes, OneUser
  <2>5. LockHeld' /\ OneUser' /\ Retired' /\ FaultTells'
    BY <1>a, <2>2 DEF LockHeld, WorkerTypes, IoTypes, OneUser, CountedOwners,
           Holds, Retired, FaultTells, FlagTypes, Prompted
  <2>6. QED
    BY <2>3, <2>4, <2>5 DEF IInv, TypeOK
<1>17. CASE ToClosing
  <2> USE <1>17 DEF ToClosing, Becomes, Between
  <2>1. Out' = Out
    BY DEF Out, IoTypes
  <2>2. Cardinality(Out') = Cardinality(Out)
    BY <2>1
  <2>3. WorkerTypes'
    BY DEF WorkerTypes, Stage, WorkerAt
  <2>4. FlagTypes'
    BY DEF FlagTypes
  <2>5. IoTypes'
    BY <1>a, <2>2 DEF IoTypes, Answer, CountedOwners, Holds, OneUser
  <2>6. CountedOwners'
    BY <1>a, <2>2 DEF CountedOwners, Holds, IoTypes, OneUser
  <2>7. LockHeld' /\ OneUser' /\ Retired' /\ FaultTells'
    BY <1>a, <2>2 DEF LockHeld, WorkerTypes, IoTypes, OneUser, CountedOwners,
           Holds, Retired, FaultTells, FlagTypes, Prompted
  <2>8. QED
    BY <2>3, <2>4, <2>5, <2>6, <2>7 DEF IInv, TypeOK
<1>18. CASE ToHandback
  <2> USE <1>18 DEF ToHandback, Becomes, Between
  <2>1. Out' = Out
    BY DEF Out, IoTypes
  <2>2. Cardinality(Out') = Cardinality(Out)
    BY <2>1
  <2>3. WorkerTypes'
    BY DEF WorkerTypes, Stage, WorkerAt
  <2>4. FlagTypes'
    BY DEF FlagTypes
  <2>5. IoTypes'
    BY <1>a, <2>2 DEF IoTypes, Answer, CountedOwners, Holds, OneUser
  <2>6. CountedOwners'
    BY <1>a, <2>2 DEF CountedOwners, Holds, IoTypes, OneUser
  <2>7. LockHeld' /\ OneUser' /\ Retired' /\ FaultTells'
    BY <1>a, <2>2 DEF LockHeld, WorkerTypes, IoTypes, OneUser, CountedOwners,
           Holds, Retired, FaultTells, FlagTypes, Prompted
  <2>8. QED
    BY <2>3, <2>4, <2>5, <2>6, <2>7 DEF IInv, TypeOK
<1>19. CASE Stop
  <2> USE <1>19 DEF Stop, Between
  <2>1. Out' = Out
    BY DEF Out, IoTypes
  <2>2. Cardinality(Out') = Cardinality(Out)
    BY <2>1
  <2>3. WorkerTypes' /\ FlagTypes' /\ IoTypes'
    BY <1>a, <2>2 DEF WorkerTypes, Stage, WorkerAt, FlagTypes, IoTypes, Answer,
           CountedOwners, Holds, OneUser
  <2>4. CountedOwners'
    BY <1>a, <2>2 DEF CountedOwners, Holds, IoTypes, OneUser
  <2>5. LockHeld' /\ OneUser' /\ Retired' /\ FaultTells'
    BY <1>a, <2>2 DEF LockHeld, WorkerTypes, IoTypes, OneUser, CountedOwners,
           Holds, Retired, FaultTells, FlagTypes, Prompted
  <2>6. QED
    BY <2>3, <2>4, <2>5 DEF IInv, TypeOK
<1>20. QED
  BY <1>1, <1>2, <1>3, <1>4, <1>5, <1>6, <1>7, <1>8, <1>9, <1>10, <1>11, <1>12,
     <1>13, <1>14, <1>15, <1>16, <1>17, <1>18, <1>19 DEF WorkerGoesOn,
     WorkerChooses

LEMMA CancellerKeeps ==
  ASSUME IInv, Canceller
  PROVE  IInv'
<1> USE PumpAssumption DEF IInv, TypeOK, vars, workerVars, readVars, writeVars
<1>a. /\ IsFiniteSet(Out) /\ Cardinality(Out) \in Nat
      /\ leaving \in Nat /\ io \in Nat
  BY OutFinite DEF Out, IoTypes
<1>1. CASE CancelProbe
  <2> USE <1>1 DEF CancelProbe
  <2>1. Out' = Out
    BY DEF Out, IoTypes
  <2>2. Cardinality(Out') = Cardinality(Out)
    BY <2>1
  <2>3. WorkerTypes'
    BY DEF WorkerTypes, Stage, WorkerAt
  <2>4. FlagTypes'
    BY DEF FlagTypes
  <2>5. IoTypes'
    BY <1>a, <2>2 DEF IoTypes, Answer, CountedOwners, Holds, OneUser
  <2>6. CountedOwners'
    BY <1>a, <2>2 DEF CountedOwners, Holds, IoTypes, OneUser
  <2>7. LockHeld' /\ OneUser' /\ Retired' /\ FaultTells'
    BY <1>a, <2>2 DEF LockHeld, WorkerTypes, IoTypes, OneUser, CountedOwners,
           Holds, Retired, FaultTells, FlagTypes, Prompted
  <2>8. QED
    BY <2>3, <2>4, <2>5, <2>6, <2>7 DEF IInv, TypeOK
<1>2. CASE CancelPurges
  <2> USE <1>2 DEF CancelPurges, Purged
  <2>1. Out' = Out
    BY DEF Out, IoTypes
  <2>2. Cardinality(Out') = Cardinality(Out)
    BY <2>1
  <2>3. WorkerTypes' /\ FlagTypes' /\ IoTypes'
    BY <1>a, <2>2 DEF WorkerTypes, Stage, WorkerAt, FlagTypes, IoTypes, Answer,
           CountedOwners, Holds, OneUser
  <2>4. CountedOwners'
    BY <1>a, <2>2 DEF CountedOwners, Holds, IoTypes, OneUser
  <2>5. LockHeld' /\ OneUser' /\ Retired' /\ FaultTells'
    BY <1>a, <2>2 DEF LockHeld, WorkerTypes, IoTypes, OneUser, CountedOwners,
           Holds, Retired, FaultTells, FlagTypes, Prompted
  <2>6. QED
    BY <2>3, <2>4, <2>5 DEF IInv, TypeOK
<1>3. CASE PurgeReturns
  <2> USE <1>3 DEF PurgeReturns
  <2>1. Out' = Out
    BY DEF Out, IoTypes
  <2>2. Cardinality(Out') = Cardinality(Out)
    BY <2>1
  <2>3. WorkerTypes' /\ FlagTypes' /\ IoTypes'
    BY <1>a, <2>2 DEF WorkerTypes, Stage, WorkerAt, FlagTypes, IoTypes, Answer,
           CountedOwners, Holds, OneUser
  <2>4. CountedOwners'
    BY <1>a, <2>2 DEF CountedOwners, Holds, IoTypes, OneUser
  <2>5. LockHeld' /\ OneUser' /\ Retired' /\ FaultTells'
    BY <1>a, <2>2 DEF LockHeld, WorkerTypes, IoTypes, OneUser, CountedOwners,
           Holds, Retired, FaultTells, FlagTypes, Prompted
  <2>6. QED
    BY <2>3, <2>4, <2>5 DEF IInv, TypeOK
<1>4. QED
  BY <1>1, <1>2, <1>3 DEF Canceller

LEMMA LineKeeps ==
  ASSUME IInv, Line
  PROVE  IInv'
<1> USE PumpAssumption DEF IInv, TypeOK, vars, workerVars, readVars, writeVars
<1>a. /\ IsFiniteSet(Out) /\ Cardinality(Out) \in Nat
      /\ leaving \in Nat /\ io \in Nat
  BY OutFinite DEF Out, IoTypes
<1>1. ASSUME NEW status \in {"data", "error"}, LineAnswers(status)
      PROVE  IInv'
  <2> USE <1>1 DEF LineAnswers, ReadEnds
  <2>1. Out' = Out
    BY DEF Out, IoTypes
  <2>2. Cardinality(Out') = Cardinality(Out)
    BY <2>1
  <2>3. WorkerTypes' /\ FlagTypes' /\ IoTypes'
    BY <1>a, <2>2 DEF WorkerTypes, Stage, WorkerAt, FlagTypes, IoTypes, Answer,
           CountedOwners, Holds, OneUser
  <2>4. CountedOwners'
    BY <1>a, <2>2 DEF CountedOwners, Holds, IoTypes, OneUser
  <2>5. LockHeld' /\ OneUser' /\ Retired' /\ FaultTells'
    BY <1>a, <2>2 DEF LockHeld, WorkerTypes, IoTypes, OneUser, CountedOwners,
           Holds, Retired, FaultTells, FlagTypes, Prompted
  <2>6. QED
    BY <2>3, <2>4, <2>5 DEF IInv, TypeOK
<1>2. CASE ReadCancelled
  <2> USE <1>2 DEF ReadCancelled, ReadEnds
  <2>1. Out' = Out
    BY DEF Out, IoTypes
  <2>2. Cardinality(Out') = Cardinality(Out)
    BY <2>1
  <2>3. WorkerTypes' /\ FlagTypes' /\ IoTypes'
    BY <1>a, <2>2 DEF WorkerTypes, Stage, WorkerAt, FlagTypes, IoTypes, Answer,
           CountedOwners, Holds, OneUser
  <2>4. CountedOwners'
    BY <1>a, <2>2 DEF CountedOwners, Holds, IoTypes, OneUser
  <2>5. LockHeld' /\ OneUser' /\ Retired' /\ FaultTells'
    BY <1>a, <2>2 DEF LockHeld, WorkerTypes, IoTypes, OneUser, CountedOwners,
           Holds, Retired, FaultTells, FlagTypes, Prompted
  <2>6. QED
    BY <2>3, <2>4, <2>5 DEF IInv, TypeOK
<1>3. CASE ReadExpires
  <2> USE <1>3 DEF ReadExpires, ReadEnds
  <2>1. Out' = Out
    BY DEF Out, IoTypes
  <2>2. Cardinality(Out') = Cardinality(Out)
    BY <2>1
  <2>3. WorkerTypes' /\ FlagTypes' /\ IoTypes'
    BY <1>a, <2>2 DEF WorkerTypes, Stage, WorkerAt, FlagTypes, IoTypes, Answer,
           CountedOwners, Holds, OneUser
  <2>4. CountedOwners'
    BY <1>a, <2>2 DEF CountedOwners, Holds, IoTypes, OneUser
  <2>5. LockHeld' /\ OneUser' /\ Retired' /\ FaultTells'
    BY <1>a, <2>2 DEF LockHeld, WorkerTypes, IoTypes, OneUser, CountedOwners,
           Holds, Retired, FaultTells, FlagTypes, Prompted
  <2>6. QED
    BY <2>3, <2>4, <2>5 DEF IInv, TypeOK
<1>4. QED
  BY <1>1, <1>2, <1>3 DEF Line

LEMMA CompletionKeeps ==
  ASSUME IInv, ReadCompletion \/ IoCompleted
  PROVE  IInv'
<1> USE PumpAssumption DEF IInv, TypeOK, vars, workerVars, readVars, writeVars
<1>a. /\ IsFiniteSet(Out) /\ Cardinality(Out) \in Nat
      /\ leaving \in Nat /\ io \in Nat
  BY OutFinite DEF Out, IoTypes
<1>1. CASE Decode
  <2> USE <1>1 DEF Decode, Completion
  <2>1. Out' = Out
    BY DEF Out, IoTypes
  <2>2. Cardinality(Out') = Cardinality(Out)
    BY <2>1
  <2>3. WorkerTypes' /\ FlagTypes' /\ IoTypes'
    BY <1>a, <2>2 DEF WorkerTypes, Stage, WorkerAt, FlagTypes, IoTypes, Answer,
           CountedOwners, Holds, OneUser
  <2>4. CountedOwners'
    BY <1>a, <2>2 DEF CountedOwners, Holds, IoTypes, OneUser
  <2>5. LockHeld' /\ OneUser' /\ Retired' /\ FaultTells'
    BY <1>a, <2>2 DEF LockHeld, WorkerTypes, IoTypes, OneUser, CountedOwners,
           Holds, Retired, FaultTells, FlagTypes, Prompted
  <2>6. QED
    BY <2>3, <2>4, <2>5 DEF IInv, TypeOK
<1>2. CASE Decoded
  <2> USE <1>2 DEF Decoded, Completion
  <2>1. Out' = Out
    BY DEF Out, IoTypes
  <2>2. Cardinality(Out') = Cardinality(Out)
    BY <2>1
  <2>3. WorkerTypes' /\ FlagTypes' /\ IoTypes'
    BY <1>a, <2>2 DEF WorkerTypes, Stage, WorkerAt, FlagTypes, IoTypes, Answer,
           CountedOwners, Holds, OneUser
  <2>4. CountedOwners'
    BY <1>a, <2>2 DEF CountedOwners, Holds, IoTypes, OneUser
  <2>5. LockHeld' /\ OneUser' /\ Retired' /\ FaultTells'
    BY <1>a, <2>2 DEF LockHeld, WorkerTypes, IoTypes, OneUser, CountedOwners,
           Holds, Retired, FaultTells, FlagTypes, Prompted
  <2>6. QED
    BY <2>3, <2>4, <2>5 DEF IInv, TypeOK
<1>3. CASE NoteFault
  <2> USE <1>3 DEF NoteFault, Completion, Identify
  <2>1. Out' = Out
    BY DEF Out, IoTypes
  <2>2. Cardinality(Out') = Cardinality(Out)
    BY <2>1
  <2>3. WorkerTypes' /\ FlagTypes' /\ IoTypes'
    BY <1>a, <2>2 DEF WorkerTypes, Stage, WorkerAt, FlagTypes, IoTypes, Answer,
           CountedOwners, Holds, OneUser
  <2>4. CountedOwners'
    BY <1>a, <2>2 DEF CountedOwners, Holds, IoTypes, OneUser
  <2>5. LockHeld' /\ OneUser' /\ Retired' /\ FaultTells'
    BY <1>a, <2>2 DEF LockHeld, WorkerTypes, IoTypes, OneUser, CountedOwners,
           Holds, Retired, FaultTells, FlagTypes, Prompted
  <2>6. QED
    BY <2>3, <2>4, <2>5 DEF IInv, TypeOK
<1>4. CASE TestFlags
  <2> USE <1>4 DEF TestFlags, PumpEnds, Completion, NoDpc
  <2>1. Out' = Out
    BY DEF Out, IoTypes
  <2>2. Cardinality(Out') = Cardinality(Out)
    BY <2>1
  <2>3. WorkerTypes' /\ FlagTypes' /\ IoTypes'
    BY <1>a, <2>2 DEF WorkerTypes, Stage, WorkerAt, FlagTypes, IoTypes, Answer,
           CountedOwners, Holds, OneUser
  <2>4. CountedOwners'
    BY <1>a, <2>2 DEF CountedOwners, Holds, IoTypes, OneUser
  <2>5. LockHeld' /\ OneUser' /\ Retired' /\ FaultTells'
    BY <1>a, <2>2 DEF LockHeld, WorkerTypes, IoTypes, OneUser, CountedOwners,
           Holds, Retired, FaultTells, FlagTypes, Prompted
  <2>6. QED
    BY <2>3, <2>4, <2>5 DEF IInv, TypeOK
<1>5. CASE Repost
  <2> USE <1>5 DEF Repost, Completion
  <2>1. Out' = Out
    BY DEF Out, IoTypes
  <2>2. Cardinality(Out') = Cardinality(Out)
    BY <2>1
  <2>3. WorkerTypes' /\ FlagTypes' /\ IoTypes'
    BY <1>a, <2>2 DEF WorkerTypes, Stage, WorkerAt, FlagTypes, IoTypes, Answer,
           CountedOwners, Holds, OneUser
  <2>4. CountedOwners'
    BY <1>a, <2>2 DEF CountedOwners, Holds, IoTypes, OneUser
  <2>5. LockHeld' /\ OneUser' /\ Retired' /\ FaultTells'
    BY <1>a, <2>2 DEF LockHeld, WorkerTypes, IoTypes, OneUser, CountedOwners,
           Holds, Retired, FaultTells, FlagTypes, Prompted
  <2>6. QED
    BY <2>3, <2>4, <2>5 DEF IInv, TypeOK
<1>6. CASE RepostAccepted
  <2> USE <1>6 DEF RepostAccepted, NoDpc
  <2>1. Out' = Out
    BY DEF Out, IoTypes
  <2>2. Cardinality(Out') = Cardinality(Out)
    BY <2>1
  <2>3. WorkerTypes' /\ FlagTypes' /\ IoTypes'
    BY <1>a, <2>2 DEF WorkerTypes, Stage, WorkerAt, FlagTypes, IoTypes, Answer,
           CountedOwners, Holds, OneUser
  <2>4. CountedOwners'
    BY <1>a, <2>2 DEF CountedOwners, Holds, IoTypes, OneUser
  <2>5. LockHeld' /\ OneUser' /\ Retired' /\ FaultTells'
    BY <1>a, <2>2 DEF LockHeld, WorkerTypes, IoTypes, OneUser, CountedOwners,
           Holds, Retired, FaultTells, FlagTypes, Prompted
  <2>6. QED
    BY <2>3, <2>4, <2>5 DEF IInv, TypeOK
<1>7. CASE RepostRefused
  <2> USE <1>7 DEF RepostRefused, Completion
  <2>1. Out' = Out
    BY DEF Out, IoTypes
  <2>2. Cardinality(Out') = Cardinality(Out)
    BY <2>1
  <2>3. WorkerTypes' /\ FlagTypes' /\ IoTypes'
    BY <1>a, <2>2 DEF WorkerTypes, Stage, WorkerAt, FlagTypes, IoTypes, Answer,
           CountedOwners, Holds, OneUser
  <2>4. CountedOwners'
    BY <1>a, <2>2 DEF CountedOwners, Holds, IoTypes, OneUser
  <2>5. LockHeld' /\ OneUser' /\ Retired' /\ FaultTells'
    BY <1>a, <2>2 DEF LockHeld, WorkerTypes, IoTypes, OneUser, CountedOwners,
           Holds, Retired, FaultTells, FlagTypes, Prompted
  <2>6. QED
    BY <2>3, <2>4, <2>5 DEF IInv, TypeOK
<1>8. CASE RepostFailed
  <2> USE <1>8 DEF RepostFailed, NoDpc, Identify
  <2>1. Out' = Out
    BY DEF Out, IoTypes
  <2>2. Cardinality(Out') = Cardinality(Out)
    BY <2>1
  <2>3. WorkerTypes'
    BY DEF WorkerTypes, Stage, WorkerAt
  <2>4. FlagTypes'
    BY DEF FlagTypes
  <2>5. IoTypes'
    BY <1>a, <2>2 DEF IoTypes, Answer, CountedOwners, Holds, OneUser
  <2>6. CountedOwners'
    BY <1>a, <2>2 DEF CountedOwners, Holds, IoTypes, OneUser
  <2>7. LockHeld' /\ OneUser' /\ Retired' /\ FaultTells'
    BY <1>a, <2>2 DEF LockHeld, WorkerTypes, IoTypes, OneUser, CountedOwners,
           Holds, Retired, FaultTells, FlagTypes, Prompted
  <2>8. QED
    BY <2>3, <2>4, <2>5, <2>6, <2>7 DEF IInv, TypeOK
<1>9. CASE IoCompleted
  <2> USE <1>9 DEF IoCompleted
  <2>1. Out' = Out
    BY DEF Out, IoTypes
  <2>2. Cardinality(Out') = Cardinality(Out)
    BY <2>1
  <2>3. WorkerTypes' /\ FlagTypes' /\ IoTypes'
    BY <1>a, <2>2 DEF WorkerTypes, Stage, WorkerAt, FlagTypes, IoTypes, Answer,
           CountedOwners, Holds, OneUser
  <2>4. CountedOwners'
    BY <1>a, <2>2 DEF CountedOwners, Holds, IoTypes, OneUser
  <2>5. LockHeld' /\ OneUser' /\ Retired' /\ FaultTells'
    BY <1>a, <2>2 DEF LockHeld, WorkerTypes, IoTypes, OneUser, CountedOwners,
           Holds, Retired, FaultTells, FlagTypes, Prompted
  <2>6. QED
    BY <2>3, <2>4, <2>5 DEF IInv, TypeOK
<1>10. QED
  BY <1>1, <1>2, <1>3, <1>4, <1>5, <1>6, <1>7, <1>8, <1>9 DEF ReadCompletion

LEMMA WritesKeep ==
  ASSUME IInv, Writes
  PROVE  IInv'
<1> USE PumpAssumption DEF IInv, TypeOK, vars, workerVars, readVars, writeVars
<1>a. /\ IsFiniteSet(Out) /\ Cardinality(Out) \in Nat
      /\ leaving \in Nat /\ io \in Nat
  BY OutFinite DEF Out, IoTypes
<1>1. ASSUME NEW s \in Slot, TakeSlot(s)
      PROVE  IInv'
  <2> USE <1>1 DEF TakeSlot
  <2>1. Out' = Out
    BY DEF Out, IoTypes
  <2>2. Cardinality(Out') = Cardinality(Out)
    BY <2>1
  <2>3. WorkerTypes' /\ FlagTypes' /\ IoTypes'
    BY <1>a, <2>2 DEF WorkerTypes, Stage, WorkerAt, FlagTypes, IoTypes, Answer,
           CountedOwners, Holds, OneUser
  <2>4. CountedOwners'
    BY <1>a, <2>2 DEF CountedOwners, Holds, IoTypes, OneUser
  <2>5. LockHeld' /\ OneUser' /\ Retired' /\ FaultTells'
    BY <1>a, <2>2 DEF LockHeld, WorkerTypes, IoTypes, OneUser, CountedOwners,
           Holds, Retired, FaultTells, FlagTypes, Prompted
  <2>6. QED
    BY <2>3, <2>4, <2>5 DEF IInv, TypeOK
<1>2. ASSUME NEW s \in Slot, WriteEnds(s)
      PROVE  IInv'
  <2> USE <1>2 DEF WriteEnds
  <2>1. Out' = Out \ {s} /\ s \in Out
    BY DEF Out, IoTypes
  <2>2. Cardinality(Out') = Cardinality(Out) - 1
    BY <2>1, <1>a, FS_RemoveElement
  <2>3. WorkerTypes' /\ FlagTypes' /\ IoTypes'
    BY <1>a, <2>2 DEF WorkerTypes, Stage, WorkerAt, FlagTypes, IoTypes, Answer,
           CountedOwners, Holds, OneUser
  <2>4. CountedOwners'
    BY <1>a, <2>2 DEF CountedOwners, Holds, IoTypes, OneUser
  <2>5. LockHeld' /\ OneUser' /\ Retired' /\ FaultTells'
    BY <1>a, <2>2 DEF LockHeld, WorkerTypes, IoTypes, OneUser, CountedOwners,
           Holds, Retired, FaultTells, FlagTypes, Prompted
  <2>6. QED
    BY <2>3, <2>4, <2>5 DEF IInv, TypeOK
<1>3. CASE WriteAccepted
  <2> USE <1>3 DEF WriteAccepted
  <2>1. Out' = Out \cup {sending} /\ sending \notin Out
    BY DEF Out, IoTypes, LockHeld
  <2>2. Cardinality(Out') = Cardinality(Out) + 1
    BY <2>1, <1>a, FS_AddElement
  <2>3. WorkerTypes' /\ FlagTypes' /\ IoTypes'
    BY <1>a, <2>2 DEF WorkerTypes, Stage, WorkerAt, FlagTypes, IoTypes, Answer,
           CountedOwners, Holds, OneUser
  <2>4. CountedOwners'
    BY <1>a, <2>2 DEF CountedOwners, Holds, IoTypes, OneUser
  <2>5. LockHeld' /\ OneUser' /\ Retired' /\ FaultTells'
    BY <1>a, <2>2 DEF LockHeld, WorkerTypes, IoTypes, OneUser, CountedOwners,
           Holds, Retired, FaultTells, FlagTypes, Prompted
  <2>6. QED
    BY <2>3, <2>4, <2>5 DEF IInv, TypeOK
<1>4. CASE WriteRefused
  <2> USE <1>4 DEF WriteRefused
  <2>1. Out' = Out
    BY DEF Out, IoTypes, LockHeld
  <2>2. Cardinality(Out') = Cardinality(Out)
    BY <2>1
  <2>3. WorkerTypes' /\ FlagTypes' /\ IoTypes'
    BY <1>a, <2>2 DEF WorkerTypes, Stage, WorkerAt, FlagTypes, IoTypes, Answer,
           CountedOwners, Holds, OneUser
  <2>4. CountedOwners'
    BY <1>a, <2>2 DEF CountedOwners, Holds, IoTypes, OneUser
  <2>5. LockHeld' /\ OneUser' /\ Retired' /\ FaultTells'
    BY <1>a, <2>2 DEF LockHeld, WorkerTypes, IoTypes, OneUser, CountedOwners,
           Holds, Retired, FaultTells, FlagTypes, Prompted
  <2>6. QED
    BY <2>3, <2>4, <2>5 DEF IInv, TypeOK
<1>5. QED
  BY <1>1, <1>2, <1>3, <1>4 DEF Writes

LEMMA Inductive == Spec => []IInv
<1>1. Init => IInv
  <2> SUFFICES ASSUME Init PROVE IInv
    OBVIOUS
  <2> USE PumpAssumption DEF Init, NoDpc
  <2>1. TypeOK
    <3>1. WorkerTypes
      BY DEF WorkerTypes, Stage, WorkerAt
    <3>2. FlagTypes
      BY DEF FlagTypes
    <3>3. IoTypes
      BY DEF IoTypes, Answer
    <3>4. QED
      BY <3>1, <3>2, <3>3 DEF TypeOK
  <2>2. CountedOwners
    <3>1. Out = {}
      BY DEF Out
    <3>2. QED
      BY <3>1, FS_EmptySet DEF CountedOwners, Holds
  <2>3. LockHeld /\ OneUser /\ Retired /\ FaultTells
    BY DEF LockHeld, OneUser, Retired, FaultTells, Prompted
  <2>4. QED
    BY <2>1, <2>2, <2>3 DEF IInv
<1>2. IInv /\ [Next]_vars => IInv'
  <2> SUFFICES ASSUME IInv, [Next]_vars PROVE IInv'
    OBVIOUS
  <2>1. CASE UNCHANGED vars
    BY <2>1 DEF vars, workerVars, readVars, writeVars, IInv, TypeOK, WorkerTypes,
       FlagTypes, IoTypes, CountedOwners, Holds, Out, LockHeld, OneUser,
       Retired, FaultTells, Prompted
  <2>2. CASE Next
    BY <2>2, WorkerKeeps, CancellerKeeps, LineKeeps, CompletionKeeps, WritesKeep
       DEF Next
  <2>3. QED
    BY <2>1, <2>2
<1>3. QED
  BY <1>1, <1>2, PTL DEF Spec

-----------------------------------------------------------------------------
\* While the worker resets the decoder or prepares the read request, neither
\* the lower driver nor a completion has it (QcaUartStartReadPump behind
\* QcaUartQuiesceRead).
THEOREM RequestHasOneUser == Spec => []OneReader
<1>1. IInv => OneReader
  BY DEF IInv, OneUser, OneReader
<1>2. QED
  BY <1>1, Inductive, PTL

\* ActiveIoCount counts everyone who may touch the target, and a worker that
\* found it zero closes a target nobody uses or will use again
\* (QcaUartReleaseHardware).
THEOREM ReleaseIsAlone == Spec => []ReleaseOwnsAll
<1>1. IInv => ReleaseOwnsAll
  BY DEF IInv, Retired, ReleaseOwnsAll
<1>2. QED
  BY <1>1, Inductive, PTL

\* The identify ladder reports a failed line only if the line failed, or the
\* session was told to stop: never for its own quiesce (QcaUartReadCompletion).
THEOREM FaultIsReal == Spec => []DrainIsNoFault
<1>1. IInv => DrainIsNoFault
  BY DEF IInv, FaultTells, DrainIsNoFault
<1>2. QED
  BY <1>1, Inductive, PTL

-----------------------------------------------------------------------------
\* From the start of the reader for the handoff on, a pump that runs has the
\* read out or in its completion; what cancels it before the budget is lifted
\* has ended the pump.
Awake == stage \in {"waking", "steady"}

LineInv ==
  /\ Awake => worker \in {"decoder", "reuse", "budget", "send", "sent", "run"}
  /\ stage = "steady" => unbounded /\ worker = "run"
  /\ Awake /\ worker \in {"sent", "run"} =>
       Prompted \/ read # "idle" \/ dpc.at # "none"
  /\ stage = "waking" /\ dpc.at # "none" /\ dpc.status = "cancelled" => Prompted

LEMMA LineInductive ==
  ASSUME DeadlineNear = FALSE
  PROVE  Spec => []LineInv
<1>1. Init => LineInv
  BY DEF Init, LineInv, Awake
<1>2. IInv /\ LineInv /\ [Next]_vars => LineInv'
  <2> SUFFICES ASSUME IInv, LineInv, [Next]_vars PROVE LineInv'
    OBVIOUS
  <2> USE DEF IInv, TypeOK, WorkerTypes, FlagTypes, IoTypes, OneUser, FaultTells,
          LineInv, Awake, Prompted, vars, workerVars, readVars, writeVars
  <2>1. CASE WorkerGoesOn
    BY <2>1 DEF WorkerGoesOn, ResetDecoder, At, ReuseRead, SendRead,
           ReadAccepted, ReadRefused, NoteSent, DrainCancels, DrainEnds,
           DrainGivesUp, WorkerPurges, Purged, Release
  <2>2. CASE WorkerChooses
    BY <2>2 DEF WorkerChooses, StartPump, At, Quiesce, ToBringup, Becomes,
           Between, ToHandoff, ToSteady, ToClosing, ToHandback, Stop
  <2>3. CASE Canceller
    BY <2>3 DEF Canceller, CancelProbe, CancelPurges, Purged, PurgeReturns
  <2>4. CASE Line
    BY <2>4 DEF Line, LineAnswers, ReadEnds, ReadCancelled, ReadExpires
  <2>5. CASE ReadCompletion
    BY <2>5 DEF ReadCompletion, Decode, Completion, Decoded, NoteFault,
           Identify, TestFlags, PumpEnds, NoDpc, Repost, RepostAccepted,
           RepostRefused, RepostFailed
  <2>6. CASE IoCompleted
    BY <2>6 DEF IoCompleted
  <2>7. CASE Writes
    BY <2>7 DEF Writes, TakeSlot, WriteEnds, WriteAccepted, WriteRefused
  <2>8. CASE UNCHANGED vars
    BY <2>8
  <2>9. QED
    BY <2>1, <2>2, <2>3, <2>4, <2>5, <2>6, <2>7, <2>8 DEF Next
<1>3. QED
  BY <1>1, <1>2, Inductive, PTL DEF Spec

\* In the steady session a pump that counts as running has its read out or in
\* its completion, unless the bring-up's deadline may fall into the handoff
\* (QcaUartReadCompletion).
THEOREM LineStaysRead ==
  ASSUME DeadlineNear = FALSE
  PROVE  Spec => []LineIsRead
<1>1. IInv /\ LineInv => LineIsRead
  BY DEF LineInv, Awake, Prompted, LineIsRead
<1>2. QED
  BY <1>1, Inductive, LineInductive, PTL

-----------------------------------------------------------------------------
(***************************************************************************)
(* The packets on the line.                                                *)
(***************************************************************************)
\* A whole packet of a type the decoder knows.
Packet(b) ==
  /\ b \in Seq(Nat) /\ b[1] \in Types /\ Len(b) > HeaderLength(b[1])
  /\ Len(b) = 1 + HeaderLength(b[1]) + PayloadLength(b[1], Tail(b))
  /\ ~Oversized(b[1], PayloadLength(b[1], Tail(b)))

Enhanced == {EnhSetup, EnhAccept}

Items == [bytes : Seq(Nat), for : Nat]

\* What the controller may send: an answer, or something unasked.
AnswersOne(item) ==
  item.for \in 1..answered /\ item.bytes \in Answers(asked[item.for])

IsUnasked(item) == item.for = 0 /\ item.bytes \in Data \cup {<<SleepByte>>}

-----------------------------------------------------------------------------
(***************************************************************************)
(* The inductive invariant.                                                *)
(***************************************************************************)
DecoderTypes ==
  /\ LineTypeOK /\ buffer \in Seq(Nat) /\ due \in Seq(Nat)
  /\ heard \in Seq((Types \cup {0}) \X Seq(Nat))
  /\ sent \in Seq(Items) /\ stale \in Nat /\ answered \in Nat

\* Every command has one answer at most, and what is sent is known.
Known == \A i \in 1..Len(sent) : AnswersOne(sent[i]) \/ IsUnasked(sent[i])

OneAnswerEach ==
  \A i, j \in 1..Len(sent) : sent[i].for = sent[j].for /\ sent[i].for # 0 => i = j

\* The next byte is on the line, or the line is silent.
Position ==
  /\ at \in [packet : Nat, place : Nat] /\ at.packet \in 1..Len(sent) + 1
  /\ at.packet <= Len(sent) => at.place \in 1..Len(sent[at.packet].bytes)
  /\ at.packet = Len(sent) + 1 => at.place = 1

\* In step, the decoder has the beginning of the packet on the line.  Out of
\* step, which takes a reset, it never began where that packet does.
DecoderInv ==
  /\ inStep /\ at.place = 1 => type = 0
  /\ inStep /\ at.place > 1 =>
       LET b == sent[at.packet].bytes IN
       /\ type = b[1] /\ type \in Types /\ Len(buffer) = at.place - 2
       /\ \A i \in 1..Len(buffer) : buffer[i] = b[i + 1]
  /\ ~inStep /\ type # 0 => Len(buffer) # at.place - 2
  /\ resets = 0 => inStep

DueInv == \A i \in DOMAIN due : due[i] \in 1..at.packet - 1

\* What is left of a packet after a reset in the middle of it may be taken for
\* anything; for an event with the opcode of an Enhanced command only if the
\* controller sends data that holds one.
NoLookalike == \A d \in Data : \A i \in DOMAIN d : d[i] \notin Enhanced

Undeceived == MaxResets = 0 \/ NoLookalike

\* The answers the route still has to change.
Fed(k) == \E i \in 1..at.packet - 1 : sent[i].for = k

Owed(op) ==
  {k \in stale + 1..Len(asked) : Rewritten(asked[k]) /\ OpOf(asked[k]) = op /\ ~Fed(k)}

RouteInv ==
  /\ ~inStep /\ type = 4 /\ Len(buffer) >= 3 => buffer[3] \notin Enhanced
  /\ \A op \in {Setup, Accept} : Cardinality(Owed(op)) <= pending[op]
  /\ (\E op \in {Setup, Accept} : pending[op] > 0) => NothingStale

SerialInv == DecoderTypes /\ Known /\ OneAnswerEach /\ Position /\ DecoderInv /\ DueInv
        /\ FramesArrive /\ (Undeceived => RouteInv /\ AnswerNamesCommand)

-----------------------------------------------------------------------------
(***************************************************************************)
(* The decoder.                                                            *)
(***************************************************************************)
USE DEF Complete, Status, Ok, Unsupported, SleepByte, Setup, Accept, EnhSetup,
        EnhAccept, WriteLe, OtherOp, Types

LEMMA HeaderIs ==
  ASSUME NEW t \in Types
  PROVE  HeaderLength(t) \in {2, 3} /\ (HeaderLength(t) = 3 <=> t = 2)
BY DEF HeaderLength

LEMMA PayloadIs ==
  ASSUME NEW t \in Types, NEW hdr \in Seq(Nat), Len(hdr) >= HeaderLength(t)
  PROVE  PayloadLength(t, hdr) \in Nat
<1>1. Len(hdr) >= 2 /\ hdr[2] \in Nat /\ (t = 2 => hdr[3] \in Nat)
  BY HeaderIs
<1>2. \A b \in Nat : Number(b) \in Nat
  BY LineAssumption DEF Number
<1>3. MaxAcl + 1 \in Nat
  BY LineAssumption
<1>4. \A a, b, c \in Nat : a + b * c \in Nat
  OBVIOUS
<1>5. QED
  BY <1>1, <1>2, <1>3, <1>4 DEF PayloadLength

\* The length a header announces does not depend on what follows it.
LEMMA HeaderDecides ==
  ASSUME NEW t \in Types, NEW hdr \in Seq(Nat), NEW pk \in Seq(Nat),
         \A i \in 1..HeaderLength(t) : hdr[i] = pk[i]
  PROVE  PayloadLength(t, hdr) = PayloadLength(t, pk)
<1>1. 2 \in 1..HeaderLength(t) /\ (t = 2 => 3 \in 1..HeaderLength(t))
  BY HeaderIs
<1>2. hdr[2] = pk[2] /\ (t = 2 => hdr[3] = pk[3])
  BY <1>1
<1>3. QED
  BY <1>2 DEF PayloadLength

LEMMA TailIs ==
  ASSUME NEW b \in Seq(Nat), Len(b) >= 1
  PROVE  /\ Tail(b) \in Seq(Nat) /\ Len(Tail(b)) = Len(b) - 1
         /\ \A i \in 1..Len(b) - 1 : Tail(b)[i] = b[i + 1]
OBVIOUS

LEMMA ElementIs ==
  ASSUME NEW S, NEW s \in Seq(S), NEW i \in 1..Len(s)
  PROVE  s[i] \in S
OBVIOUS

LEMMA AppendIs ==
  ASSUME NEW S, NEW s \in Seq(S), NEW e \in S
  PROVE  /\ Append(s, e) \in Seq(S) /\ Len(Append(s, e)) = Len(s) + 1
         /\ \A i \in 1..Len(s) : Append(s, e)[i] = s[i]
         /\ Append(s, e)[Len(s) + 1] = e
OBVIOUS

LEMMA SameSequence ==
  ASSUME NEW S, NEW s \in Seq(S), NEW t \in Seq(S), Len(s) = Len(t),
         \A i \in 1..Len(s) : s[i] = t[i]
  PROVE  s = t
OBVIOUS

\* A packet is longer than its header.
LEMMA PacketIs ==
  ASSUME NEW b, Packet(b)
  PROVE  /\ b \in Seq(Nat) /\ b[1] \in Types /\ Len(b) \in Nat
         /\ Len(b) >= 1 + HeaderLength(b[1]) /\ Len(b) >= 3
         /\ Tail(b) \in Seq(Nat) /\ Len(Tail(b)) = Len(b) - 1
         /\ \A i \in 1..Len(b) - 1 : Tail(b)[i] = b[i + 1]
<1>1. b \in Seq(Nat) /\ b[1] \in Types /\ Len(b) \in Nat
  BY DEF Packet
<1>2. HeaderLength(b[1]) \in {2, 3} /\ Len(b) > HeaderLength(b[1])
  BY <1>1, HeaderIs DEF Packet
<1>3. QED
  BY <1>1, <1>2, TailIs

\* What a byte makes of the decoder has the types of the decoder.
LEMMA StepTypes ==
  ASSUME type \in Types \cup {0}, buffer \in Seq(Nat), NEW b \in Nat
  PROVE  /\ FeedByte(b).type \in Types \cup {0} /\ FeedByte(b).buffer \in Seq(Nat)
         /\ FeedByte(b).out \in Seq(Nat)
         /\ FeedByte(b).type = 0 => FeedByte(b).buffer = << >>
<1>1. Append(buffer, b) \in Seq(Nat) /\ <<b>> \in Seq(Nat) /\ << >> \in Seq(Nat)
  OBVIOUS
<1>2. ASSUME NEW st, NEW t \in Types \cup {0}, NEW buf \in Seq(Nat), NEW pk \in Seq(Nat),
             t = 0 => buf = << >>,
             st = [type |-> t, buffer |-> buf, out |-> pk]
      PROVE  /\ st.type \in Types \cup {0} /\ st.buffer \in Seq(Nat)
             /\ st.out \in Seq(Nat) /\ (st.type = 0 => st.buffer = << >>)
  BY <1>2
<1>3. CASE type = 0
  BY <1>1, <1>3 DEF FeedByte, FeedIdle, Reading
<1>4. CASE type # 0
  BY <1>1, <1>4 DEF FeedByte, FeedHeader, FeedPayload, Reading, Emitting
<1>5. QED
  BY <1>3, <1>4

\* Where the decoder is inside a packet, before its place p.
Has(b, p) ==
  IF p = 1 THEN type = 0
  ELSE /\ type = b[1] /\ Len(buffer) = p - 2
       /\ \A i \in 1..Len(buffer) : buffer[i] = b[i + 1]

\* A decoder that has the beginning of a packet has one byte more of it after
\* a step, and gives the packet away with its last byte.
LEMMA PrefixStep ==
  ASSUME NEW b, Packet(b), NEW p \in 1..Len(b), Has(b, p), buffer \in Seq(Nat)
  PROVE  LET st == FeedByte(b[p]) IN
         IF p = Len(b)
         THEN st.type = 0 /\ st.buffer = << >> /\ st.out = Tail(b)
         ELSE /\ st.type = b[1] /\ Len(st.buffer) = p - 1 /\ st.out = << >>
              /\ \A i \in 1..Len(st.buffer) : st.buffer[i] = b[i + 1]
<1> DEFINE h  == HeaderLength(b[1])
           n  == PayloadLength(b[1], Tail(b))
           pk == Append(buffer, b[p])
<1>1. /\ b \in Seq(Nat) /\ b[1] \in Types /\ Len(b) \in Nat /\ p \in Nat /\ b[p] \in Nat
      /\ Tail(b) \in Seq(Nat) /\ Len(Tail(b)) = Len(b) - 1
      /\ \A i \in 1..Len(b) - 1 : Tail(b)[i] = b[i + 1]
  BY PacketIs
<1>2. h \in {2, 3} /\ Len(b) = 1 + h + n /\ ~Oversized(b[1], n) /\ Len(b) > h
  BY <1>1, HeaderIs DEF Packet
<1>3. n \in Nat
  <2>1. Len(Tail(b)) >= HeaderLength(b[1])
    BY <1>1, <1>2
  <2>2. QED
    BY <1>1, <2>1, PayloadIs
<1> HIDE DEF h, n
<1>4. CASE p = 1
  <2>1. type = 0 /\ p # Len(b)
    BY <1>2, <1>3, <1>4 DEF Has
  <2>2. FeedByte(b[p]) = [type |-> b[1], buffer |-> << >>, out |-> << >>]
    BY <1>1, <1>4, <2>1 DEF FeedByte, FeedIdle, Reading
  <2>3. QED
    BY <1>4, <2>1, <2>2
<1>5. CASE p # 1
  <2>1. /\ type = b[1] /\ type # 0 /\ Len(buffer) = p - 2
        /\ \A i \in 1..Len(buffer) : buffer[i] = b[i + 1]
    BY <1>1, <1>5 DEF Has
  <2>2. /\ pk \in Seq(Nat) /\ Len(pk) = p - 1
        /\ \A i \in 1..p - 1 : pk[i] = b[i + 1]
    BY <1>1, <1>5, <2>1
  <2>3. p = Len(b) => pk = Tail(b)
    <3>1. p = Len(b) => Len(pk) = Len(Tail(b)) /\ \A i \in 1..Len(pk) : pk[i] = Tail(b)[i]
      BY <1>1, <2>2
    <3>2. QED
      BY <1>1, <2>2, <3>1, SameSequence
  <2> DEFINE keeps == [type |-> b[1], buffer |-> pk, out |-> << >>]
             gives == [type |-> 0, buffer |-> << >>, out |-> pk]
  <2>4. FeedByte(b[p]) = IF p = Len(b) THEN gives ELSE keeps
    <3>1. HeaderLength(type) = h
      BY <2>1 DEF h
    <3>2. CASE p - 2 < h
      <4>1. FeedByte(b[p]) = FeedHeader(b[p])
        BY <2>1, <3>1, <3>2 DEF FeedByte
      <4>2. CASE p - 1 < h
        <5>1. FeedHeader(b[p]) = keeps
          BY <2>1, <2>2, <3>1, <4>2 DEF FeedHeader, Reading
        <5>2. p # Len(b)
          BY <1>1, <1>2, <1>3, <4>2
        <5>3. QED
          BY <4>1, <5>1, <5>2
      <4>3. CASE p - 1 = h
        <5>1. PayloadLength(type, pk) = n
          <6>1. HeaderLength(b[1]) = p - 1
            BY <4>3 DEF h
          <6>2. \A i \in 1..p - 1 : pk[i] = Tail(b)[i]
            BY <1>1, <2>2
          <6>3. \A i \in 1..HeaderLength(b[1]) : pk[i] = Tail(b)[i]
            BY <6>1, <6>2
          <6> HIDE DEF pk
          <6>4. QED
            BY <1>1, <2>1, <2>2, <6>3, HeaderDecides DEF n
        <5>2. FeedHeader(b[p]) = IF n = 0 THEN gives ELSE keeps
          BY <1>2, <2>1, <2>2, <3>1, <4>3, <5>1 DEF FeedHeader, Reading, Emitting
        <5>3. n = 0 <=> p = Len(b)
          BY <1>1, <1>2, <1>3, <4>3
        <5>4. QED
          BY <4>1, <5>2, <5>3
      <4>4. QED
        BY <1>1, <1>2, <3>2, <4>2, <4>3
    <3>3. CASE ~(p - 2 < h)
      <4>1. PayloadLength(type, pk) = n
        <5>1. \A i \in 1..HeaderLength(b[1]) : pk[i] = Tail(b)[i]
          BY <1>1, <1>2, <2>2, <3>3 DEF h
        <5>2. QED
          BY <1>1, <2>1, <2>2, <5>1, HeaderDecides DEF n
      <4>2. FeedByte(b[p]) = IF Len(pk) = h + n THEN gives ELSE keeps
        BY <2>1, <3>1, <3>3, <4>1 DEF FeedByte, FeedPayload, Reading, Emitting
      <4>3. Len(pk) = h + n <=> p = Len(b)
        BY <1>1, <1>2, <1>3, <2>2
      <4>4. QED
        BY <4>2, <4>3
    <3>4. QED
      BY <3>2, <3>3
  <2> HIDE DEF pk
  <2>5. CASE p = Len(b)
    BY <2>3, <2>4, <2>5
  <2>6. CASE p # Len(b)
    BY <2>2, <2>4, <2>6
  <2>7. QED
    BY <2>5, <2>6
<1>6. QED
  BY <1>4, <1>5

-----------------------------------------------------------------------------
(***************************************************************************)
(* What the controller sends are packets, and what the driver changes in   *)
(* an answer leaves the rest of it alone.                                  *)
(***************************************************************************)
LEMMA AnswersArePackets ==
  ASSUME NEW c \in Commands, NEW b \in Answers(c)
  PROVE  /\ Packet(b) /\ b \in Seq(Nat) /\ Len(b) = 5 /\ b[1] = 4
         /\ b[2] \in {Status, Complete} /\ b[4] = WireOp(c) /\ b[5] \in {Ok, Unsupported}
         /\ Rewritten(c) => b[5] = Ok
         /\ b[4] = WriteLe => b[2] = Complete
         /\ \A i \in 1..5 : b[i] \in Enhanced => i = 4
         /\ Tail(b) = <<b[2], 2, b[4], b[5]>>
<1>1. WireOp(c) \in Nat /\ (c # "le" => WireOp(c) # 0)
  BY DEF WireOp, OpOf
<1>2. PICK code \in {Status, Complete}, st \in {Ok, Unsupported} :
        /\ b = <<4, code, 2, WireOp(c), st>> /\ (Rewritten(c) => st = Ok)
        /\ WireOp(c) = WriteLe => code = Complete
  BY DEF Answers, WireOp, OpOf, Rewritten
<1>3. /\ b \in Seq(Nat) /\ Len(b) = 5 /\ b[1] = 4 /\ b[2] = code /\ b[3] = 2
      /\ b[4] = WireOp(c) /\ b[5] = st /\ Tail(b) = <<code, 2, WireOp(c), st>>
  BY <1>1, <1>2
<1>4. PayloadLength(4, Tail(b)) = 2 /\ HeaderLength(4) = 2
      /\ ~Oversized(4, 2)
  BY <1>3 DEF PayloadLength, HeaderLength, Number, Oversized
<1>5. Packet(b)
  BY <1>3, <1>4 DEF Packet
<1>6. QED
  BY <1>2, <1>3, <1>5 DEF Enhanced

LEMMA ForHostIs ==
  ASSUME NEW t \in Types \cup {0}, NEW pk \in Seq(Nat)
  PROVE  /\ ForHost(t, pk) \in Seq(Nat) /\ Bare(ForHost(t, pk)) = Bare(pk)
         /\ Restores(pk) => Restored(pk) \in {Setup, Accept}
<1>1. Restored(pk) \in {Setup, Accept}
  BY DEF Restored
<1>2. ASSUME NEW i \in {3, 4}, NEW v \in Nat, IsAnswer(pk)
      PROVE  [pk EXCEPT ![i] = v] \in Seq(Nat) /\ Bare([pk EXCEPT ![i] = v]) = Bare(pk)
  <2> DEFINE q == [pk EXCEPT ![i] = v]
  <2>1. Len(pk) = 4 /\ DOMAIN pk = 1..4 /\ \A j \in 1..4 : pk[j] \in Nat
    <3>1. Len(pk) = 4
      BY <1>2 DEF IsAnswer
    <3>2. pk \in Seq(Nat)
      OBVIOUS
    <3>3. DOMAIN pk = 1..Len(pk) /\ \A j \in DOMAIN pk : pk[j] \in Nat
      BY <3>2
    <3>4. QED
      BY <3>1, <3>3
  <2>2. q \in [1..4 -> Nat] /\ q[1] = pk[1] /\ q[2] = pk[2]
    BY <2>1
  <2> HIDE DEF q
  <2>3. q \in Seq(Nat) /\ Len(q) = 4
    <3>1. \A n \in Nat : \A f \in [1..n -> Nat] : f \in Seq(Nat) /\ Len(f) = n
      OBVIOUS
    <3>2. 4 \in Nat /\ q \in [1..4 -> Nat]
      BY <2>2
    <3>3. QED
      BY <3>1, <3>2
  <2>4. Bare(q) = Bare(pk)
    BY <1>2, <2>2, <2>3 DEF IsAnswer, Bare
  <2>5. QED
    BY <2>3, <2>4 DEF q
<1>3. CASE t = 4 /\ FixesLe(pk)
  BY <1>1, <1>2, <1>3 DEF ForHost, FixesLe
<1>4. CASE t = 4 /\ ~FixesLe(pk) /\ Restores(pk)
  BY <1>1, <1>2, <1>4 DEF ForHost, Restores
<1>5. CASE ForHost(t, pk) = pk
  BY <1>1, <1>5
<1>6. QED
  BY <1>3, <1>4, <1>5 DEF ForHost

\* Every item of the line is a packet or a sleep byte.
LEMMA ItemIs ==
  ASSUME DecoderTypes, Known, NEW i \in 1..Len(sent)
  PROVE  /\ Packet(sent[i].bytes) \/ sent[i].bytes = <<SleepByte>>
         /\ sent[i].bytes \in Seq(Nat) /\ Len(sent[i].bytes) \in Nat \ {0}
         /\ sent[i].for \in 0..answered
         /\ \/ AnswersOne(sent[i])
            \/ sent[i].bytes[1] = 4 /\ IsAnswer(Tail(sent[i].bytes)) =>
                 sent[i].bytes[4] \notin Enhanced
         /\ NoLookalike =>
              \A k \in DOMAIN sent[i].bytes : sent[i].bytes[k] \in Enhanced => k = 4
<1>1. sent[i] \in Items /\ sent[i].bytes \in Seq(Nat)
      /\ answered \in Nat /\ 0 \in 0..answered
  <2>1. sent \in Seq(Items) /\ answered \in Nat
    BY DEF DecoderTypes
  <2>2. sent[i] \in Items
    BY <2>1, ElementIs
  <2>3. QED
    BY <2>1, <2>2 DEF Items
<1>2. CASE AnswersOne(sent[i])
  <2>1. asked[sent[i].for] \in Commands /\ sent[i].for \in 1..answered
    <3>1. sent[i].for \in 1..answered
      BY <1>2 DEF AnswersOne
    <3>2. asked \in Seq(Commands) /\ answered \in 0..Len(asked) /\ Len(asked) \in Nat
      BY DEF DecoderTypes, LineTypeOK
    <3>3. sent[i].for \in 1..Len(asked)
      BY <3>1, <3>2
    <3>4. QED
      BY <3>1, <3>2, <3>3
  <2>2. sent[i].bytes \in Answers(asked[sent[i].for])
    BY <1>2 DEF AnswersOne
  <2>3. /\ Packet(sent[i].bytes) /\ Len(sent[i].bytes) = 5
        /\ \A k \in 1..5 : sent[i].bytes[k] \in Enhanced => k = 4
    BY <2>1, <2>2, AnswersArePackets
  <2>4. DOMAIN sent[i].bytes = 1..5
    BY <1>1, <2>3
  <2>5. sent[i].for \in 0..answered
    BY <1>1, <2>1
  <2>6. QED
    BY <1>1, <1>2, <2>3, <2>4, <2>5
<1>3. CASE IsUnasked(sent[i])
  <2>1. CASE sent[i].bytes = <<SleepByte>>
    BY <1>1, <1>3, <2>1 DEF IsUnasked, Enhanced, DecoderTypes
  <2>2. CASE sent[i].bytes \in Data
    <3>1. Packet(sent[i].bytes)
      BY <2>2, DataAssumption DEF Packet
    <3>2. sent[i].bytes[1] = 4 /\ IsAnswer(Tail(sent[i].bytes)) =>
            sent[i].bytes[4] \notin Enhanced
      BY <2>2, DataAssumption DEF Enhanced
    <3>3. NoLookalike => \A k \in DOMAIN sent[i].bytes : sent[i].bytes[k] \notin Enhanced
      BY <2>2 DEF NoLookalike
    <3>4. QED
      BY <1>1, <1>3, <3>1, <3>2, <3>3, PacketIs DEF IsUnasked, DecoderTypes
  <2>3. QED
    BY <1>3, <2>1, <2>2 DEF IsUnasked
<1>4. QED
  BY <1>2, <1>3 DEF Known

LEMMA OwedIsFinite ==
  ASSUME DecoderTypes, NEW op
  PROVE  IsFiniteSet(Owed(op)) /\ Cardinality(Owed(op)) \in Nat
<1>1. IsFiniteSet(stale + 1..Len(asked))
  BY FS_Interval DEF DecoderTypes, LineTypeOK
<1>2. Owed(op) \subseteq stale + 1..Len(asked)
  BY DEF Owed
<1>3. QED
  BY <1>1, <1>2, FS_Subset, FS_CardinalityType

-----------------------------------------------------------------------------
(***************************************************************************)
(* One lemma per action.                                                   *)
(***************************************************************************)
LEMMA InitLine == LineInit => SerialInv
<1> SUFFICES ASSUME LineInit PROVE SerialInv
  OBVIOUS
<1>1. /\ asked = << >> /\ stale = 0 /\ answered = 0 /\ pending = NonePending
      /\ sent = << >> /\ at = [packet |-> 1, place |-> 1] /\ type = 0 /\ buffer = << >>
      /\ inStep = TRUE /\ due = << >> /\ heard = << >> /\ resets = 0
  BY DEF LineInit
<1>2. DecoderTypes
  BY <1>1, LineAssumption DEF DecoderTypes, LineTypeOK, NonePending
<1>3. Known /\ OneAnswerEach /\ Position /\ DecoderInv /\ DueInv
  BY <1>1 DEF Known, OneAnswerEach, Position, DecoderInv, DueInv
<1>4. RouteInv
  <2>1. ASSUME NEW op PROVE Cardinality(Owed(op)) = 0
    <3>1. Owed(op) = {}
      BY <1>1 DEF Owed
    <3>2. QED
      BY <3>1, FS_EmptySet
  <2>2. \A op \in {Setup, Accept} : pending[op] = 0
    BY <1>1 DEF NonePending
  <2>3. \A op \in {Setup, Accept} : Cardinality(Owed(op)) <= pending[op]
    BY <2>1, <2>2
  <2>4. ~\E op \in {Setup, Accept} : pending[op] > 0
    BY <2>2
  <2>5. QED
    BY <1>1, <2>3, <2>4 DEF RouteInv
<1>5. FramesArrive /\ AnswerNamesCommand
  BY <1>1 DEF FramesArrive, AnswerNamesCommand
<1>6. QED
  BY <1>2, <1>3, <1>4, <1>5 DEF SerialInv

LEMMA SubmitKeeps ==
  ASSUME SerialInv, NEW c \in Commands, NEW taken \in BOOLEAN, QcaUartSubmitCommand(c, taken)
  PROVE  SerialInv'
<1>1. /\ UNCHANGED <<stale, answered, sent, at, type, buffer, inStep, due, heard, resets>>
      /\ pending' = IF Rewritten(c) THEN Raised(OpOf(c)) ELSE pending
      /\ asked' = IF taken THEN Append(asked, c) ELSE asked
      /\ Rewritten(c) => NothingStale /\ pending[OpOf(c)] < MaxCommands
  BY DEF QcaUartSubmitCommand
<1>2. /\ asked \in Seq(Commands) /\ Len(asked) \in Nat /\ stale \in 0..Len(asked)
      /\ answered \in 0..Len(asked) /\ pending \in [{Setup, Accept} -> 0..MaxCommands]
      /\ stale \in Nat /\ answered \in Nat /\ MaxCommands \in Nat
  BY LineAssumption DEF SerialInv, DecoderTypes, LineTypeOK
<1>3. /\ asked' \in Seq(Commands) /\ Len(asked') \in {Len(asked), Len(asked) + 1}
      /\ \A k \in 1..Len(asked) : asked'[k] = asked[k]
      /\ Len(asked') = Len(asked) + 1 => asked'[Len(asked) + 1] = c
  BY <1>1, <1>2
<1>4. /\ pending' \in [{Setup, Accept} -> 0..MaxCommands]
      /\ \A op \in {Setup, Accept} :
           pending'[op] = IF Rewritten(c) /\ OpOf(c) = op THEN pending[op] + 1
                          ELSE pending[op]
      /\ Rewritten(c) => OpOf(c) \in {Setup, Accept}
  <2>1. Rewritten(c) => OpOf(c) \in {Setup, Accept}
    BY DEF Rewritten, OpOf
  <2>2. QED
    BY <1>1, <1>2, <2>1 DEF Raised
<1>5. DecoderTypes'
  BY <1>1, <1>2, <1>3, <1>4 DEF SerialInv, DecoderTypes, LineTypeOK
<1>6. Known'
  <2>1. ASSUME NEW item, AnswersOne(item) PROVE AnswersOne(item)'
    BY <1>1, <1>2, <1>3, <2>1 DEF AnswersOne
  <2> SUFFICES ASSUME NEW i \in 1..Len(sent)
               PROVE  AnswersOne(sent[i])' \/ IsUnasked(sent[i])'
    BY <1>1 DEF Known
  <2>2. AnswersOne(sent[i]) \/ IsUnasked(sent[i])
    BY DEF SerialInv, Known
  <2>3. QED
    BY <1>1, <1>2, <1>3, <2>2 DEF AnswersOne, IsUnasked
<1>7. OneAnswerEach' /\ Position' /\ DecoderInv' /\ DueInv' /\ FramesArrive'
  BY <1>1 DEF SerialInv, OneAnswerEach, Position, DecoderInv, DueInv, FramesArrive
<1>8. ASSUME Undeceived PROVE AnswerNamesCommand'
  <2> SUFFICES ASSUME NEW i \in 1..Len(due), sent[due[i]].for > stale
               PROVE  LET ev == heard[i][2]
                          st == sent[due[i]].bytes[5]
                      IN /\ ev[3] = OpOf(asked'[sent[due[i]].for])
                         /\ ev[4] = IF ev[3] = WriteLe /\ st = Unsupported THEN Ok ELSE st
    BY <1>1 DEF AnswerNamesCommand
  <2>1. due[i] \in 1..Len(sent)
    BY DEF SerialInv, DecoderTypes, DueInv, Position
  <2>2. sent[due[i]].for \in 0..answered
    BY <2>1, ItemIs DEF SerialInv
  <2>3. sent[due[i]].for \in 1..Len(asked)
    BY <1>2, <2>2
  <2>4. asked'[sent[due[i]].for] = asked[sent[due[i]].for]
    BY <1>3, <2>3
  <2>5. QED
    BY <1>8, <2>4 DEF SerialInv, AnswerNamesCommand
<1>9. ASSUME Undeceived PROVE RouteInv'
  <2>1. ASSUME NEW op \in {Setup, Accept}
        PROVE  Cardinality(Owed(op)') <= pending'[op]
    <3>1. Cardinality(Owed(op)) <= pending[op]
      BY <1>9 DEF SerialInv, RouteInv
    <3>2. IsFiniteSet(Owed(op)) /\ Cardinality(Owed(op)) \in Nat
      BY OwedIsFinite DEF SerialInv
    <3>3. CASE Rewritten(c) /\ OpOf(c) = op
      <4>1. Owed(op)' \subseteq Owed(op) \cup {Len(asked) + 1}
        BY <1>1, <1>2, <1>3 DEF Owed, Fed
      <4>2. /\ IsFiniteSet(Owed(op) \cup {Len(asked) + 1})
            /\ Cardinality(Owed(op) \cup {Len(asked) + 1}) <= Cardinality(Owed(op)) + 1
            /\ Cardinality(Owed(op) \cup {Len(asked) + 1}) \in Nat
        <5> DEFINE S == Owed(op) \cup {Len(asked) + 1}
        <5>1. /\ IsFiniteSet(S)
              /\ \/ Cardinality(S) = Cardinality(Owed(op)) + 1
                 \/ Cardinality(S) = Cardinality(Owed(op))
          BY <3>2, FS_AddElement
        <5> HIDE DEF S
        <5>2. Cardinality(S) <= Cardinality(Owed(op)) + 1 /\ Cardinality(S) \in Nat
          BY <3>2, <5>1
        <5>3. QED
          BY <5>1, <5>2 DEF S
      <4>3. /\ Cardinality(Owed(op)') \in Nat
            /\ Cardinality(Owed(op)') <= Cardinality(Owed(op) \cup {Len(asked) + 1})
        BY <4>1, <4>2, FS_Subset, FS_CardinalityType
      <4>4. pending'[op] = pending[op] + 1 /\ pending[op] \in Nat
        BY <1>2, <1>4, <3>3
      <4>5. QED
        BY <3>1, <3>2, <4>2, <4>3, <4>4
    <3>4. CASE ~(Rewritten(c) /\ OpOf(c) = op)
      <4>1. Owed(op)' \subseteq Owed(op)
        BY <1>1, <1>2, <1>3, <3>4 DEF Owed, Fed
      <4>2. Cardinality(Owed(op)') \in Nat /\ Cardinality(Owed(op)') <= Cardinality(Owed(op))
        BY <3>2, <4>1, FS_Subset, FS_CardinalityType
      <4>3. pending'[op] = pending[op] /\ pending[op] \in Nat
        BY <1>2, <1>4, <3>4
      <4>4. QED
        BY <3>1, <3>2, <4>2, <4>3
    <3>5. QED
      BY <3>3, <3>4
  <2>2. NothingStale' <=> NothingStale
    BY <1>1 DEF NothingStale
  <2>3. (\E op \in {Setup, Accept} : pending'[op] > 0) => NothingStale'
    BY <1>1, <1>2, <1>4, <1>9, <2>2 DEF SerialInv, RouteInv
  <2>4. QED
    BY <1>1, <1>9, <2>1, <2>3 DEF SerialInv, RouteInv
<1>10. QED
  BY <1>5, <1>6, <1>7, <1>8, <1>9 DEF SerialInv

LEMMA SendKeeps ==
  ASSUME SerialInv, NEW bytes \in Seq(Nat), NEW for \in Nat, Len(bytes) >= 1,
         ControllerSends(bytes, for), answered' \in answered..Len(asked),
         for # 0 => for = answered + 1 /\ answered' = answered + 1,
         \/ for \in 1..answered' /\ bytes \in Answers(asked[for])
         \/ for = 0 /\ bytes \in Data \cup {<<SleepByte>>}
  PROVE  SerialInv'
<1> DEFINE item == [bytes |-> bytes, for |-> for]
<1>1. /\ UNCHANGED <<asked, stale, pending, at, type, buffer, inStep, due, heard, resets>>
      /\ sent' = Append(sent, item)
  BY DEF ControllerSends
<1>2. /\ Len(sent) \in Nat
      /\ answered \in Nat /\ stale \in Nat /\ Len(asked) \in Nat /\ answered' \in Nat
      /\ answered' >= answered /\ answered' \in 0..Len(asked)
  <2>1. /\ sent \in Seq(Items) /\ answered \in Nat /\ stale \in Nat
        /\ asked \in Seq(Commands)
    BY DEF SerialInv, DecoderTypes, LineTypeOK
  <2>2. Len(sent) \in Nat /\ Len(asked) \in Nat
    BY <2>1
  <2>3. QED
    BY <2>1, <2>2
<1>3. /\ sent' \in Seq(Items) /\ Len(sent') = Len(sent) + 1
      /\ \A i \in 1..Len(sent) : sent'[i] = sent[i]
      /\ sent'[Len(sent) + 1].bytes = bytes /\ sent'[Len(sent) + 1].for = for
  <2>1. sent \in Seq(Items) /\ item \in Items /\ item.bytes = bytes /\ item.for = for
    BY DEF SerialInv, DecoderTypes, Items
  <2> HIDE DEF item
  <2>2. QED
    BY <1>1, <2>1, AppendIs
<1> HIDE DEF item
<1>4. \A i \in 1..Len(sent) : sent[i].for \in 0..answered
  BY ItemIs DEF SerialInv
<1>5. DecoderTypes'
  BY <1>1, <1>2, <1>3 DEF SerialInv, DecoderTypes, LineTypeOK
<1>6. Known'
  <2> SUFFICES ASSUME NEW i \in 1..Len(sent) + 1
               PROVE  (AnswersOne(sent[i]) \/ IsUnasked(sent[i]))'
    BY <1>3 DEF Known
  <2>1. CASE i \in 1..Len(sent)
    <3>1. AnswersOne(sent[i]) \/ IsUnasked(sent[i])
      BY <2>1 DEF SerialInv, Known
    <3>2. QED
      BY <1>1, <1>2, <1>3, <2>1, <3>1 DEF AnswersOne, IsUnasked
  <2>2. CASE i = Len(sent) + 1
    BY <1>1, <1>2, <1>3, <2>2 DEF AnswersOne, IsUnasked
  <2>3. QED
    BY <1>2, <2>1, <2>2
<1>7. OneAnswerEach'
  <2> SUFFICES ASSUME NEW i \in 1..Len(sent) + 1, NEW j \in 1..Len(sent) + 1,
                      sent'[i].for = sent'[j].for, sent'[i].for # 0
               PROVE  i = j
    BY <1>3 DEF OneAnswerEach
  <2>1. CASE i \in 1..Len(sent) /\ j \in 1..Len(sent)
    BY <1>3, <2>1 DEF SerialInv, OneAnswerEach
  <2>2. CASE i \in 1..Len(sent) /\ j = Len(sent) + 1
    BY <1>2, <1>3, <1>4, <2>2
  <2>3. CASE i = Len(sent) + 1 /\ j \in 1..Len(sent)
    BY <1>2, <1>3, <1>4, <2>3
  <2>4. QED
    BY <1>2, <2>1, <2>2, <2>3
<1>8. Position'
  <2>1. at \in [packet : Nat, place : Nat] /\ at.packet \in 1..Len(sent) + 1
    BY DEF SerialInv, Position
  <2>2. CASE at.packet <= Len(sent)
    <3>1. sent'[at.packet] = sent[at.packet] /\ at.packet # Len(sent) + 2
      BY <1>2, <1>3, <2>1, <2>2
    <3>2. QED
      BY <1>1, <1>2, <1>3, <2>1, <2>2, <3>1 DEF SerialInv, Position
  <2>3. CASE at.packet = Len(sent) + 1
    <3>1. at.place = 1 /\ Len(bytes) \in Nat
      BY <2>3 DEF SerialInv, Position
    <3>2. QED
      BY <1>1, <1>2, <1>3, <2>1, <2>3, <3>1 DEF Position
  <2>4. QED
    BY <1>2, <2>1, <2>2, <2>3
<1>9. DecoderInv'
  <2>1. at.place > 1 => sent'[at.packet] = sent[at.packet]
    BY <1>2, <1>3 DEF SerialInv, Position
  <2>2. DecoderInv
    BY DEF SerialInv
  <2>3. /\ at' = at /\ type' = type /\ buffer' = buffer /\ inStep' = inStep
        /\ resets' = resets
    BY <1>1
  <2>4. /\ inStep' /\ at'.place = 1 => type' = 0
        /\ ~inStep' /\ type' # 0 => Len(buffer') # at'.place - 2
        /\ resets' = 0 => inStep'
    BY <2>2, <2>3 DEF DecoderInv
  <2>5. inStep' /\ at'.place > 1 =>
          LET b == sent'[at'.packet].bytes IN
          /\ type' = b[1] /\ type' \in Types /\ Len(buffer') = at'.place - 2
          /\ \A i \in 1..Len(buffer') : buffer'[i] = b[i + 1]
    BY <2>1, <2>2, <2>3 DEF DecoderInv
  <2>6. QED
    BY <2>4, <2>5 DEF DecoderInv
<1>10. DueInv'
  BY <1>1 DEF SerialInv, DueInv
<1>11. \A i \in 1..at.packet - 1 : sent'[i] = sent[i]
  <2>1. at.packet \in 1..Len(sent) + 1
    BY DEF SerialInv, Position
  <2>2. \A i \in 1..at.packet - 1 : i \in 1..Len(sent)
    BY <1>2, <2>1
  <2>3. QED
    BY <1>3, <2>2
<1>12. ASSUME Undeceived PROVE RouteInv'
  <2>1. ASSUME NEW op PROVE Owed(op)' = Owed(op)
    BY <1>1, <1>11 DEF Owed, Fed
  <2>2. NothingStale => NothingStale'
    <3>0. at' = at /\ stale' = stale /\ Len(sent') = Len(sent) + 1
      BY <1>1, <1>3
    <3> SUFFICES ASSUME NothingStale PROVE NothingStale'
      OBVIOUS
    <3>1. answered >= stale /\ \A k \in at.packet..Len(sent) : sent[k].for \notin 1..stale
      BY DEF NothingStale
    <3>2. at.packet \in Nat /\ at.packet >= 1
      BY DEF SerialInv, Position
    <3>3. ASSUME NEW i \in at.packet..Len(sent) + 1
          PROVE  sent'[i].for \notin 1..stale
      <4>1. CASE i = Len(sent) + 1
        BY <1>2, <1>3, <3>1, <4>1
      <4>2. CASE i # Len(sent) + 1
        <5>1. i \in at.packet..Len(sent) /\ i \in 1..Len(sent)
          BY <1>2, <3>2, <4>2
        <5>2. QED
          BY <1>2, <1>3, <3>1, <5>1
      <4>3. QED
        BY <4>1, <4>2
    <3>4. answered' >= stale
      BY <1>2, <3>1
    <3>5. QED
      BY <3>0, <3>3, <3>4 DEF NothingStale
  <2>3. QED
    BY <1>1, <1>12, <2>1, <2>2 DEF SerialInv, RouteInv
<1>13. \A i \in 1..Len(due) : due[i] \in 1..at.packet - 1 /\ sent'[due[i]] = sent[due[i]]
  <2>1. DOMAIN due = 1..Len(due)
    BY DEF SerialInv, DecoderTypes
  <2>2. QED
    BY <1>11, <2>1 DEF SerialInv, DueInv
<1>14. FramesArrive' /\ (Undeceived => AnswerNamesCommand')
  <2>1. due' = due /\ heard' = heard /\ asked' = asked /\ stale' = stale
    BY <1>1
  <2>2. FramesArrive'
    BY <1>13, <2>1 DEF SerialInv, FramesArrive
  <2>3. Undeceived => AnswerNamesCommand'
    <3> SUFFICES ASSUME AnswerNamesCommand PROVE AnswerNamesCommand'
      BY DEF SerialInv
    <3> SUFFICES ASSUME NEW i \in 1..Len(due), sent'[due[i]].for > stale
                 PROVE  LET ev == heard[i][2]
                            st == sent'[due[i]].bytes[5]
                        IN /\ ev[3] = OpOf(asked[sent'[due[i]].for])
                           /\ ev[4] = IF ev[3] = WriteLe /\ st = Unsupported THEN Ok ELSE st
      BY <2>1 DEF AnswerNamesCommand
    <3>1. sent'[due[i]] = sent[due[i]]
      BY <1>13
    <3>2. QED
      BY <3>1 DEF AnswerNamesCommand
  <2>4. QED
    BY <2>2, <2>3
<1>15. QED
  BY <1>5, <1>6, <1>7, <1>8, <1>9, <1>10, <1>12, <1>14 DEF SerialInv

LEMMA AnswersKeep ==
  ASSUME SerialInv, ControllerAnswers
  PROVE  SerialInv'
<1>1. PICK bytes \in Answers(asked[answered + 1]) : ControllerSends(bytes, answered + 1)
  BY DEF ControllerAnswers
<1>2. /\ answered < Len(asked) /\ answered' = answered + 1
      /\ answered \in Nat /\ asked \in Seq(Commands) /\ Len(asked) \in Nat
  BY DEF ControllerAnswers, SerialInv, DecoderTypes, LineTypeOK
<1>3. asked[answered + 1] \in Commands
  BY <1>2
<1>4. bytes \in Seq(Nat) /\ Len(bytes) = 5
  BY <1>3, AnswersArePackets
<1>5. /\ answered' \in answered..Len(asked) /\ answered + 1 \in 1..answered'
      /\ answered + 1 \in Nat /\ Len(bytes) >= 1
      /\ bytes \in Answers(asked[answered + 1])
  BY <1>2, <1>4
<1> DEFINE for == answered + 1
<1>6. for # 0 => for = answered + 1 /\ answered' = answered + 1
  BY <1>2
<1>7. QED
  <2> HIDE DEF for
  <2>1. QED
    BY <1>1, <1>4, <1>5, <1>6, SendKeeps DEF for

LEMMA UnaskedKeeps ==
  ASSUME SerialInv, Unasked
  PROVE  SerialInv'
<1>1. PICK bytes \in Data \cup {<<SleepByte>>} : ControllerSends(bytes, 0)
  BY DEF Unasked
<1>2. answered' = answered /\ answered \in 0..Len(asked) /\ Len(asked) \in Nat
  BY DEF Unasked, SerialInv, DecoderTypes, LineTypeOK
<1>3. bytes \in Seq(Nat) /\ Len(bytes) >= 1
  <2>1. CASE bytes \in Data
    <3>1. Packet(bytes)
      BY <2>1, DataAssumption DEF Packet
    <3>2. QED
      BY <3>1, PacketIs
  <2>2. CASE bytes = <<SleepByte>>
    BY <2>2
  <2>3. QED
    BY <2>1, <2>2
<1>4. answered' \in answered..Len(asked)
  BY <1>2
<1>5. QED
  BY <1>1, <1>2, <1>3, <1>4, SendKeeps

LEMMA ResetKeeps ==
  ASSUME SerialInv, ResetTransport
  PROVE  SerialInv'
<1>1. /\ resets' = resets + 1 /\ resets < MaxResets
      /\ type' = 0 /\ buffer' = << >> /\ pending' = NonePending
      /\ stale' = Len(asked) /\ inStep' = (at.place = 1)
      /\ UNCHANGED <<asked, answered, sent, at, due, heard>>
  BY DEF ResetTransport
<1>2. /\ MaxResets \in Nat /\ resets \in 0..MaxResets /\ Len(asked) \in Nat
      /\ MaxCommands \in Nat
  BY LineAssumption DEF SerialInv, DecoderTypes, LineTypeOK
<1>3. /\ pending' \in [{Setup, Accept} -> 0..MaxCommands]
      /\ \A op \in {Setup, Accept} : pending'[op] = 0
  BY <1>1, <1>2 DEF NonePending
<1>4. DecoderTypes'
  <2>1. resets' \in 0..MaxResets /\ stale' \in 0..Len(asked') /\ stale' \in Nat
        /\ buffer' \in Seq(Nat) /\ inStep' \in BOOLEAN
    BY <1>1, <1>2
  <2>2. QED
    BY <1>1, <1>3, <2>1 DEF SerialInv, DecoderTypes, LineTypeOK
<1>5. Known' /\ OneAnswerEach' /\ Position' /\ DueInv' /\ FramesArrive'
  BY <1>1 DEF SerialInv, Known, AnswersOne, IsUnasked, OneAnswerEach, Position, DueInv, FramesArrive
<1>6. DecoderInv'
  <2>1. at.place \in Nat
    BY DEF SerialInv, Position
  <2>2. inStep' => at'.place = 1
    BY <1>1
  <2>3. at'.place = 1 => ~(at'.place > 1)
    OBVIOUS
  <2>4. type' = 0 /\ resets' # 0
    BY <1>1, <1>2
  <2>5. QED
    BY <2>2, <2>3, <2>4 DEF DecoderInv
<1>7. RouteInv'
  <2>1. ASSUME NEW op \in {Setup, Accept}
        PROVE  Cardinality(Owed(op)') <= pending'[op]
    <3>1. Owed(op)' = {}
      BY <1>1, <1>2 DEF Owed
    <3>2. QED
      BY <1>3, <3>1, FS_EmptySet
  <2>2. ~\E op \in {Setup, Accept} : pending'[op] > 0
    BY <1>3
  <2>3. QED
    BY <1>1, <2>1, <2>2 DEF RouteInv
<1>8. AnswerNamesCommand'
  <2> SUFFICES ASSUME NEW i \in 1..Len(due)
               PROVE  ~(sent[due[i]].for > Len(asked))
    BY <1>1 DEF AnswerNamesCommand
  <2>1. due[i] \in 1..Len(sent)
    BY DEF SerialInv, DecoderTypes, DueInv, Position
  <2>2. sent[due[i]].for \in 0..answered
    BY <2>1, ItemIs DEF SerialInv
  <2>3. answered \in 0..Len(asked)
    BY DEF SerialInv, DecoderTypes, LineTypeOK
  <2>4. QED
    BY <1>2, <2>2, <2>3
<1>9. QED
  BY <1>4, <1>5, <1>6, <1>7, <1>8 DEF SerialInv

-----------------------------------------------------------------------------
(***************************************************************************)
(* A byte of the line.                                                     *)
(***************************************************************************)
Frame == sent[at.packet].bytes
Step == FeedByte(Frame[at.place])
Good == IF at.place = 1 THEN type = 0 ELSE inStep
Restoring == type = 4 /\ ~FixesLe(Step.out) /\ Restores(Step.out)

LEMMA FeedIs ==
  ASSUME SerialInv, Feed
  PROVE  /\ at.packet \in 1..Len(sent) /\ Frame \in Seq(Nat)
         /\ at.place \in 1..Len(Frame) /\ Frame[at.place] \in Nat
         /\ IsLast <=> at.place = Len(Frame)
         /\ at'.packet = (IF IsLast THEN at.packet + 1 ELSE at.packet)
         /\ at'.place = (IF IsLast THEN 1 ELSE at.place + 1)
         /\ type' = Step.type /\ buffer' = Step.buffer
         /\ pending' = (IF Restoring THEN [pending EXCEPT ![Restored(Step.out)] = @ - 1]
                        ELSE pending)
         /\ inStep' = Good
         /\ due' = (IF Good /\ IsLast THEN Append(due, at.packet) ELSE due)
         /\ heard' = (IF Good /\ Step.out # << >>
                      THEN Append(heard, <<type, ForHost(type, Step.out)>>) ELSE heard)
         /\ UNCHANGED <<asked, stale, answered, sent, resets>>
         /\ Position'
<1>1. /\ at.packet <= Len(sent)
      /\ at' = IF IsLast THEN [packet |-> at.packet + 1, place |-> 1]
               ELSE [at EXCEPT !.place = @ + 1]
      /\ UNCHANGED <<asked, stale, answered, sent, resets>>
  BY DEF Feed
<1>2. /\ type' = Step.type /\ buffer' = Step.buffer
      /\ pending' = (IF Restoring THEN [pending EXCEPT ![Restored(Step.out)] = @ - 1]
                     ELSE pending)
      /\ inStep' = Good
      /\ due' = (IF Good /\ IsLast THEN Append(due, at.packet) ELSE due)
      /\ heard' = (IF Good /\ Step.out # << >>
                   THEN Append(heard, <<type, ForHost(type, Step.out)>>) ELSE heard)
  BY Zenon DEF Feed, Step, Frame, Good, Restoring
<1>3. /\ at \in [packet : Nat, place : Nat] /\ at.packet \in 1..Len(sent) + 1
      /\ at.packet <= Len(sent) => at.place \in 1..Len(Frame)
      /\ Len(sent) \in Nat
  BY DEF SerialInv, Position, Frame, DecoderTypes
<1>4. at.packet \in 1..Len(sent) /\ at.place \in 1..Len(Frame)
  BY <1>1, <1>3
<1>5. Frame \in Seq(Nat) /\ Len(Frame) \in Nat
  BY <1>4, ItemIs DEF SerialInv, Frame
<1>6. Frame[at.place] \in Nat
  BY <1>4, <1>5, ElementIs
<1>7. IsLast <=> at.place = Len(Frame)
  BY DEF IsLast, Frame
<1>8. /\ at'.packet = (IF IsLast THEN at.packet + 1 ELSE at.packet)
      /\ at'.place = (IF IsLast THEN 1 ELSE at.place + 1)
      /\ at' \in [packet : Nat, place : Nat]
  BY <1>1, <1>3
<1>9. Position'
  <2>1. at'.packet \in 1..Len(sent) + 1
    BY <1>3, <1>4, <1>8
  <2>2. ASSUME at'.packet <= Len(sent)
        PROVE  at'.place \in 1..Len(sent[at'.packet].bytes)
    <3>1. CASE IsLast
      <4>1. at'.packet \in 1..Len(sent)
        BY <1>3, <2>1, <2>2
      <4>2. Len(sent[at'.packet].bytes) \in Nat \ {0}
        BY <4>1, ItemIs DEF SerialInv
      <4>3. QED
        BY <1>8, <3>1, <4>2
    <3>2. CASE ~IsLast
      BY <1>4, <1>5, <1>7, <1>8, <3>2 DEF Frame
    <3>3. QED
      BY <3>1, <3>2
  <2>3. at'.packet = Len(sent) + 1 => at'.place = 1
    BY <1>3, <1>4, <1>8
  <2>4. sent' = sent
    BY <1>1
  <2>5. QED
    BY <1>8, <2>1, <2>2, <2>3, <2>4 DEF Position
<1>10. QED
  BY <1>1, <1>2, <1>4, <1>5, <1>6, <1>7, <1>8, <1>9

\* In step, the last byte gives the packet away as it is on the line.
LEMMA StepInStep ==
  ASSUME SerialInv, Good, at.packet \in 1..Len(sent), at.place \in 1..Len(Frame)
  PROVE  IF at.place = Len(Frame)
         THEN /\ Step.type = 0 /\ Step.buffer = << >>
              /\ Step.out = Body(sent[at.packet]) /\ Step.out # << >>
              /\ type = IF Frame[1] \in Types THEN Frame[1] ELSE 0
         ELSE /\ Step.type = Frame[1] /\ Frame[1] \in Types /\ Len(Step.buffer) = at.place - 1
              /\ \A i \in 1..Len(Step.buffer) : Step.buffer[i] = Frame[i + 1]
              /\ Step.out = << >>
<1>1. CASE Packet(Frame)
  <2>1. /\ Frame[1] \in Types /\ Len(Frame) \in Nat /\ Len(Frame) >= 3
        /\ Len(Tail(Frame)) = Len(Frame) - 1 /\ Tail(Frame) \in Seq(Nat)
    BY <1>1, PacketIs
  <2>2. Has(Frame, at.place)
    BY DEF SerialInv, DecoderInv, Has, Good, Frame
  <2>3. buffer \in Seq(Nat)
    BY DEF SerialInv, DecoderTypes
  <2>4. IF at.place = Len(Frame)
        THEN Step.type = 0 /\ Step.buffer = << >> /\ Step.out = Tail(Frame)
        ELSE /\ Step.type = Frame[1] /\ Len(Step.buffer) = at.place - 1 /\ Step.out = << >>
             /\ \A i \in 1..Len(Step.buffer) : Step.buffer[i] = Frame[i + 1]
    BY <1>1, <2>2, <2>3, PrefixStep DEF Step
  <2>5. Body(sent[at.packet]) = Tail(Frame) /\ Tail(Frame) # << >>
    <3>1. Body(sent[at.packet]) = Tail(Frame)
      BY <2>1 DEF Body, Frame
    <3>2. Len(Tail(Frame)) # 0 /\ Len(<< >>) = 0
      BY <2>1
    <3>3. QED
      BY <3>1, <3>2
  <2>6. at.place # 1 => type = Frame[1]
    BY <2>2 DEF Has
  <2>7. at.place = Len(Frame) => at.place # 1
    BY <2>1
  <2>8. QED
    BY <2>1, <2>4, <2>5, <2>6, <2>7
<1>2. CASE Frame = <<SleepByte>>
  <2>1. Len(Frame) = 1 /\ Frame[1] = 253 /\ at.place = 1 /\ type = 0
    BY <1>2 DEF Good
  <2>2. Step = [type |-> 0, buffer |-> << >>, out |-> <<253>>]
    BY <2>1 DEF Step, FeedByte, FeedIdle
  <2>3. Body(sent[at.packet]) = <<253>>
    BY <1>2, <2>1 DEF Body, Frame
  <2>4. QED
    BY <2>1, <2>2, <2>3
<1>3. QED
  BY <1>1, <1>2, ItemIs DEF SerialInv, Frame

\* What the decoder makes of a byte, wherever it is.
LEMMA StepIs ==
  ASSUME type \in Types \cup {0}, buffer \in Seq(Nat), NEW b \in Nat
  PROVE  /\ FeedByte(b).type # 0 =>
              IF type = 0 THEN FeedByte(b).buffer = << >>
              ELSE FeedByte(b).type = type /\ FeedByte(b).buffer = Append(buffer, b)
         /\ IsAnswer(FeedByte(b).out) =>
              type # 0 /\ FeedByte(b).out = Append(buffer, b) /\ Len(buffer) = 3
<1>1. Len(Append(buffer, b)) = Len(buffer) + 1 /\ Len(<<b>>) = 1 /\ Len(<< >>) = 0
      /\ Len(buffer) \in Nat
  OBVIOUS
<1>2. CASE type = 0
  BY <1>1, <1>2 DEF FeedByte, FeedIdle, Reading, IsAnswer
<1>3. CASE type # 0
  <2> DEFINE pk == Append(buffer, b)
  <2>1. FeedByte(b) \in {[type |-> type, buffer |-> pk, out |-> << >>],
                         [type |-> 0, buffer |-> << >>, out |-> << >>],
                         [type |-> 0, buffer |-> << >>, out |-> pk]}
    BY <1>3 DEF FeedByte, FeedHeader, FeedPayload, Reading, Emitting
  <2>2. Len(pk) = Len(buffer) + 1 /\ Len(buffer) \in Nat /\ Len(pk) \in Nat
    BY <1>1
  <2> HIDE DEF pk
  <2>3. IsAnswer(pk) => Len(buffer) = 3
    <3>1. IsAnswer(pk) => Len(pk) = 4
      BY DEF IsAnswer
    <3>2. \A m, n \in Nat : n = m + 1 /\ n = 4 => m = 3
      OBVIOUS
    <3>3. QED
      BY <2>2, <3>1, <3>2
  <2>4. ~IsAnswer(<< >>)
    BY <1>1 DEF IsAnswer
  <2> DEFINE st == FeedByte(b)
  <2>5. /\ st.type # 0 => st.type = type /\ st.buffer = pk
        /\ IsAnswer(st.out) => st.out = pk /\ Len(buffer) = 3
    <3> HIDE DEF st
    <3>1. \/ st.type = type /\ st.buffer = pk /\ st.out = << >>
          \/ st.type = 0 /\ st.out = << >>
          \/ st.type = 0 /\ st.out = pk
      BY <2>1 DEF st
    <3>2. QED
      BY <2>3, <2>4, <3>1
  <2>6. QED
    BY <1>3, <2>5 DEF pk
<1>4. QED
  BY <1>2, <1>3

\* Out of step, nothing is restored, and the decoder stays off the packet.
LEMMA StepOutOfStep ==
  ASSUME SerialInv, ~Good, at.packet \in 1..Len(sent), at.place \in 1..Len(Frame)
  PROVE  /\ ~inStep
         /\ Step.type # 0 => Len(Step.buffer) # at.place - 1 /\ Len(Step.buffer) \in Nat
         /\ Undeceived =>
              /\ ~Restoring
              /\ (Step.type = 4 /\ Len(Step.buffer) >= 3 => Step.buffer[3] \notin Enhanced)
<1>1. /\ ~inStep /\ (at.place = 1 => type # 0)
      /\ type # 0 => Len(buffer) # at.place - 2
      /\ Undeceived =>
           (type = 4 /\ Len(buffer) >= 3 => buffer[3] \notin Enhanced)
  BY DEF SerialInv, DecoderInv, RouteInv, Good
<1>2. /\ type \in Types \cup {0} /\ buffer \in Seq(Nat) /\ Len(buffer) \in Nat
      /\ at.place \in Nat /\ at.place >= 1
  BY DEF SerialInv, DecoderTypes, LineTypeOK, Position
<1>3. Frame \in Seq(Nat) /\ DOMAIN Frame = 1..Len(Frame) /\ Frame[at.place] \in Nat
      /\ (Undeceived /\ Frame[at.place] \in Enhanced => at.place = 4)
  <2>0. Undeceived => NoLookalike
    BY <1>1 DEF SerialInv, DecoderInv, DecoderTypes, LineTypeOK, Undeceived
  <2>1. Frame \in Seq(Nat)
    BY ItemIs DEF SerialInv, Frame
  <2>2. DOMAIN Frame = 1..Len(Frame) /\ Frame[at.place] \in Nat
    BY <2>1, ElementIs
  <2>3. QED
    BY <2>0, <2>1, <2>2, ItemIs DEF SerialInv, Frame
<1> DEFINE b == Frame[at.place]
           pk == Append(buffer, b)
<1>4. /\ Len(pk) = Len(buffer) + 1 /\ \A i \in 1..Len(buffer) : pk[i] = buffer[i]
      /\ pk[Len(buffer) + 1] = b
  BY <1>2, <1>3, AppendIs
<1>5. /\ Step.type # 0 => IF type = 0 THEN Step.buffer = << >>
                          ELSE Step.type = type /\ Step.buffer = pk
      /\ IsAnswer(Step.out) => type # 0 /\ Step.out = pk /\ Len(buffer) = 3
  BY <1>2, <1>3, StepIs DEF Step
<1> HIDE DEF b, pk
<1>6. Undeceived /\ type # 0 /\ type = 4 /\ Len(pk) >= 3 => pk[3] \notin Enhanced
  <2>1. CASE Len(buffer) >= 3
    BY <1>1, <1>2, <1>4, <2>1
  <2>2. CASE Len(buffer) = 2
    <3>1. type # 0 => at.place # 4
      BY <1>1, <2>2
    <3>2. pk[3] = b
      BY <1>4, <2>2
    <3>3. QED
      BY <1>3, <3>1, <3>2 DEF b
  <2>3. Len(pk) >= 3 => Len(buffer) >= 3 \/ Len(buffer) = 2
    <3>1. Len(pk) = Len(buffer) + 1 /\ Len(buffer) \in Nat /\ Len(pk) \in Nat
      BY <1>2, <1>4
    <3>2. \A m, n \in Nat : n = m + 1 /\ n >= 3 => m >= 3 \/ m = 2
      OBVIOUS
    <3>3. QED
      BY <3>1, <3>2
  <2>4. QED
    BY <2>1, <2>2, <2>3
<1>7. Undeceived => ~Restoring
  <2> SUFFICES ASSUME Undeceived, Restoring PROVE FALSE
    OBVIOUS
  <2>1. type = 4 /\ IsAnswer(Step.out) /\ Step.out[3] \in Enhanced
    BY DEF Restoring, Restores, Enhanced
  <2>2. type # 0 /\ Step.out = pk /\ Len(buffer) = 3
    BY <1>5, <2>1
  <2>3. buffer[3] \in Enhanced
    BY <1>4, <2>1, <2>2
  <2>4. QED
    BY <1>1, <2>1, <2>2, <2>3
<1>8. Step.type # 0 => Len(Step.buffer) # at.place - 1 /\ Len(Step.buffer) \in Nat
  <2>1. CASE type = 0
    <3>1. at.place # 1
      BY <1>1, <2>1
    <3>2. Len(<< >>) = 0
      OBVIOUS
    <3>3. QED
      BY <1>2, <1>5, <2>1, <3>1, <3>2
  <2>2. CASE type # 0
    BY <1>1, <1>2, <1>4, <1>5, <2>2
  <2>3. QED
    BY <2>1, <2>2
<1>9. Undeceived /\ Step.type = 4 /\ Len(Step.buffer) >= 3 => Step.buffer[3] \notin Enhanced
  <2>1. CASE type = 0
    BY <1>5, <2>1
  <2>2. CASE type # 0
    BY <1>5, <1>6, <2>2
  <2>3. QED
    BY <2>1, <2>2
<1>10. QED
  BY <1>1, <1>7, <1>8, <1>9

\* Packets come out with the last byte of a packet in step, and the counters
\* change only then.
LEMMA FeedEmits ==
  ASSUME SerialInv, Feed
  PROVE  LET item == sent[at.packet] IN
         \/ /\ Good /\ IsLast /\ Step.out = Body(item) /\ due' = Append(due, at.packet)
            /\ type = (IF item.bytes[1] \in Types THEN item.bytes[1] ELSE 0)
            /\ heard' = Append(heard, <<type, ForHost(type, Body(item))>>)
            /\ Body(item) \in Seq(Nat)
         \/ ~(Good /\ IsLast) /\ due' = due /\ heard' = heard
            /\ (Undeceived => ~Restoring)
<1>1. /\ at.packet \in 1..Len(sent) /\ at.place \in 1..Len(Frame) /\ Frame[at.place] \in Nat
      /\ IsLast <=> at.place = Len(Frame)
      /\ due' = (IF Good /\ IsLast THEN Append(due, at.packet) ELSE due)
      /\ heard' = (IF Good /\ Step.out # << >>
                   THEN Append(heard, <<type, ForHost(type, Step.out)>>) ELSE heard)
  BY FeedIs
<1>2. CASE ~Good
  BY <1>1, <1>2, StepOutOfStep
<1>3. CASE Good /\ ~IsLast
  <2>1. Step.out = << >>
    BY <1>1, <1>3, StepInStep
  <2>2. ~Restores(Step.out)
    <3>1. Len(<< >>) = 0
      OBVIOUS
    <3>2. QED
      BY <2>1, <3>1 DEF Restores, IsAnswer
  <2>3. QED
    BY <1>1, <1>3, <2>1, <2>2 DEF Restoring
<1>4. CASE Good /\ IsLast
  <2>1. /\ Step.out = Body(sent[at.packet]) /\ Step.out # << >>
        /\ type = IF Frame[1] \in Types THEN Frame[1] ELSE 0
    BY <1>1, <1>4, StepInStep
  <2>2. Step.out \in Seq(Nat)
    BY <1>1, StepTypes DEF Step, SerialInv, DecoderTypes, LineTypeOK
  <2>3. QED
    BY <1>1, <1>4, <2>1, <2>2 DEF Frame
<1>5. QED
  BY <1>2, <1>3, <1>4

\* The event restored is the answer to a rewritten command of the host, asked
\* since the last reset.
LEMMA FeedRestores ==
  ASSUME SerialInv, Undeceived, Feed, Restoring
  PROVE  /\ IsLast /\ AnswersOne(sent[at.packet]) /\ sent[at.packet].for > stale
         /\ Rewritten(asked[sent[at.packet].for])
         /\ OpOf(asked[sent[at.packet].for]) = Restored(Step.out)
         /\ Restored(Step.out) \in {Setup, Accept} /\ pending[Restored(Step.out)] > 0
<1>1. /\ type = 4 /\ IsAnswer(Step.out) /\ Step.out[3] \in Enhanced
      /\ pending[Restored(Step.out)] > 0 /\ Restored(Step.out) \in {Setup, Accept}
      /\ Restored(Step.out) = IF Step.out[3] = EnhSetup THEN Setup ELSE Accept
  BY DEF Restoring, Restores, Restored, Enhanced
<1>2. /\ at.packet \in 1..Len(sent) /\ Frame \in Seq(Nat) /\ Len(Frame) >= 1
  BY FeedIs
<1>3. /\ IsLast /\ Step.out = Body(sent[at.packet])
      /\ type = (IF Frame[1] \in Types THEN Frame[1] ELSE 0)
  BY FeedEmits DEF Frame
<1>4. Step.out = Tail(Frame) /\ Frame[1] = 4
  <2>1. Frame[1] \in Types /\ Frame[1] = 4
    BY <1>1, <1>3
  <2>2. QED
    BY <1>3, <2>1 DEF Body, Frame
<1>5. Frame[4] \in Enhanced /\ Step.out[3] = Frame[4] /\ 4 \in DOMAIN Frame
  <2>1. Len(Tail(Frame)) = 4 /\ Tail(Frame)[3] \in Enhanced
    BY <1>1, <1>4 DEF IsAnswer
  <2>2. /\ Len(Tail(Frame)) = Len(Frame) - 1
        /\ \A i \in 1..Len(Frame) - 1 : Tail(Frame)[i] = Frame[i + 1]
        /\ Len(Frame) \in Nat /\ DOMAIN Frame = 1..Len(Frame)
    BY <1>2, TailIs
  <2>3. Len(Frame) = 5
    BY <2>1, <2>2
  <2>4. Tail(Frame)[3] = Frame[4]
    BY <2>2, <2>3
  <2>5. Step.out[3] = Frame[4]
    BY <1>4, <2>4
  <2>6. Frame[4] \in Enhanced
    BY <2>1, <2>4
  <2>7. 4 \in DOMAIN Frame
    BY <2>2, <2>3
  <2>8. QED
    BY <2>5, <2>6, <2>7
<1>6. AnswersOne(sent[at.packet])
  BY <1>1, <1>2, <1>4, <1>5, ItemIs DEF SerialInv, Frame
<1> DEFINE k == sent[at.packet].for
<1>7. k \in 1..answered /\ k \in 1..Len(asked) /\ asked[k] \in Commands
      /\ Frame \in Answers(asked[k])
  <2>1. k \in 1..answered /\ Frame \in Answers(asked[k])
    BY <1>6 DEF AnswersOne, Frame
  <2>2. asked \in Seq(Commands) /\ answered \in 0..Len(asked) /\ Len(asked) \in Nat
    BY DEF SerialInv, DecoderTypes, LineTypeOK
  <2>3. k \in 1..Len(asked)
    BY <2>1, <2>2
  <2>4. QED
    BY <2>1, <2>2, <2>3, ElementIs
<1> HIDE DEF k
<1>8. Frame[4] = WireOp(asked[k])
  BY <1>7, AnswersArePackets
<1>9. Rewritten(asked[k]) /\ OpOf(asked[k]) = Restored(Step.out)
  BY <1>1, <1>5, <1>8 DEF WireOp, OpOf, Rewritten, Enhanced
<1>10. k > stale
  <2>1. NothingStale
    BY <1>1 DEF SerialInv, RouteInv
  <2>2. at.packet \in at.packet..Len(sent)
    BY <1>2
  <2>3. k \notin 1..stale
    BY <2>1, <2>2 DEF NothingStale, k
  <2>4. stale \in Nat /\ answered \in Nat
    BY DEF SerialInv, DecoderTypes
  <2>5. QED
    BY <1>7, <2>3, <2>4
<1>11. QED
  BY <1>1, <1>3, <1>6, <1>9, <1>10 DEF k

LEMMA FeedTypes ==
  ASSUME SerialInv, Feed
  PROVE  DecoderTypes'
<1>1. /\ type' = Step.type /\ buffer' = Step.buffer /\ inStep' = Good
      /\ pending' = (IF Restoring THEN [pending EXCEPT ![Restored(Step.out)] = @ - 1]
                     ELSE pending)
      /\ UNCHANGED <<asked, stale, answered, sent, resets>>
      /\ at.packet \in 1..Len(sent) /\ Frame[at.place] \in Nat
  BY FeedIs
<1>2. /\ type \in Types \cup {0} /\ buffer \in Seq(Nat) /\ inStep \in BOOLEAN
      /\ pending \in [{Setup, Accept} -> 0..MaxCommands] /\ MaxCommands \in Nat
      /\ due \in Seq(Nat) /\ heard \in Seq((Types \cup {0}) \X Seq(Nat))
  BY LineAssumption DEF SerialInv, DecoderTypes, LineTypeOK
<1>3. /\ type' \in Types \cup {0} /\ buffer' \in Seq(Nat)
      /\ type' = 0 => buffer' = << >>
  BY <1>1, <1>2, StepTypes DEF Step
<1>4. pending' \in [{Setup, Accept} -> 0..MaxCommands]
  <2>1. Restoring => Restored(Step.out) \in {Setup, Accept} /\ pending[Restored(Step.out)] > 0
    BY DEF Restoring, Restores, Restored
  <2>2. QED
    BY <1>1, <1>2, <2>1
<1>5. due' \in Seq(Nat)
  <2>1. at.packet \in Nat
    BY <1>1
  <2>2. due' \in {due, Append(due, at.packet)}
    BY FeedEmits
  <2>3. Append(due, at.packet) \in Seq(Nat)
    BY <1>2, <2>1, AppendIs
  <2>4. QED
    BY <1>2, <2>2, <2>3
<1>6. heard' \in Seq((Types \cup {0}) \X Seq(Nat))
  <2>1. CASE heard' = heard
    BY <1>2, <2>1
  <2>2. CASE /\ Body(sent[at.packet]) \in Seq(Nat)
             /\ heard' = Append(heard, <<type, ForHost(type, Body(sent[at.packet]))>>)
    <3>1. ForHost(type, Body(sent[at.packet])) \in Seq(Nat)
      BY <1>2, <2>2, ForHostIs
    <3>2. <<type, ForHost(type, Body(sent[at.packet]))>> \in (Types \cup {0}) \X Seq(Nat)
      BY <1>2, <3>1
    <3>3. QED
      BY <1>2, <2>2, <3>2, AppendIs
  <2>3. QED
    BY <2>1, <2>2, FeedEmits
<1>7. inStep' \in BOOLEAN
  BY <1>1, <1>2 DEF Good
<1>8. QED
  BY <1>1, <1>3, <1>4, <1>5, <1>6, <1>7 DEF SerialInv, DecoderTypes, LineTypeOK

LEMMA FeedDecoder ==
  ASSUME SerialInv, Feed
  PROVE  DecoderInv'
<1>1. /\ at.packet \in 1..Len(sent) /\ at.place \in 1..Len(Frame) /\ Frame \in Seq(Nat)
      /\ IsLast <=> at.place = Len(Frame)
      /\ at'.packet = (IF IsLast THEN at.packet + 1 ELSE at.packet)
      /\ at'.place = (IF IsLast THEN 1 ELSE at.place + 1)
      /\ type' = Step.type /\ buffer' = Step.buffer /\ inStep' = Good /\ sent' = sent
  BY FeedIs
<1>2. at.place \in Nat /\ at.place >= 1
  BY <1>1
<1>3. CASE Good /\ IsLast
  <2>1. type' = 0 /\ buffer' = << >>
    BY <1>1, <1>3, StepInStep
  <2>2. at'.place = 1 /\ inStep'
    BY <1>1, <1>3
  <2>3. QED
    BY <2>1, <2>2 DEF DecoderInv
<1>4. CASE Good /\ ~IsLast
  <2>1. /\ type' = Frame[1] /\ Frame[1] \in Types /\ Len(buffer') = at.place - 1
        /\ \A i \in 1..Len(buffer') : buffer'[i] = Frame[i + 1]
    BY <1>1, <1>4, StepInStep
  <2>2. /\ inStep' /\ at'.place = at.place + 1 /\ at'.packet = at.packet
        /\ sent'[at'.packet].bytes = Frame
    BY <1>1, <1>4 DEF Frame
  <2>3. at'.place - 2 = at.place - 1 /\ at'.place # 1
    BY <1>2, <2>2
  <2>4. QED
    BY <2>1, <2>2, <2>3 DEF DecoderInv
<1>5. CASE ~Good
  <2>1. type' # 0 => Len(buffer') # at.place - 1 /\ Len(buffer') \in Nat
    BY <1>1, <1>5, StepOutOfStep
  <2>2. ~inStep' /\ resets' # 0
    <3>1. ~inStep
      BY <1>1, <1>5, StepOutOfStep
    <3>2. resets' = resets
      BY FeedIs
    <3>3. QED
      BY <1>1, <1>5, <3>1, <3>2 DEF SerialInv, DecoderInv
  <2>3. type' # 0 => Len(buffer') # at'.place - 2
    BY <1>1, <1>2, <2>1
  <2>4. QED
    BY <2>1, <2>2, <2>3 DEF DecoderInv
<1>6. QED
  BY <1>3, <1>4, <1>5

LEMMA FeedRoute ==
  ASSUME SerialInv, Undeceived, Feed
  PROVE  RouteInv'
<1>1. /\ at.packet \in 1..Len(sent)
      /\ at'.packet = (IF IsLast THEN at.packet + 1 ELSE at.packet)
      /\ pending' = (IF Restoring THEN [pending EXCEPT ![Restored(Step.out)] = @ - 1]
                     ELSE pending)
      /\ UNCHANGED <<asked, stale, answered, sent>>
  BY FeedIs
<1>2. /\ pending \in [{Setup, Accept} -> 0..MaxCommands] /\ MaxCommands \in Nat
      /\ Len(asked) \in Nat /\ answered \in 0..Len(asked) /\ stale \in Nat
  BY LineAssumption DEF SerialInv, DecoderTypes, LineTypeOK
<1>3. \A op : Owed(op)' \subseteq Owed(op)
  BY <1>1 DEF Owed, Fed
<1>4. ASSUME NEW op \in {Setup, Accept}
      PROVE  Cardinality(Owed(op)') <= pending'[op]
  <2>1. /\ IsFiniteSet(Owed(op)) /\ Cardinality(Owed(op)) \in Nat
        /\ Cardinality(Owed(op)) <= pending[op] /\ pending[op] \in Nat
    BY <1>2, OwedIsFinite DEF SerialInv, RouteInv
  <2>2. CASE Restoring /\ Restored(Step.out) = op
    <3>0. PICK k : k = sent[at.packet].for
      OBVIOUS
    <3>1. /\ IsLast /\ k \in 1..answered /\ k > stale /\ Rewritten(asked[k])
          /\ OpOf(asked[k]) = op /\ pending[op] > 0
      BY <2>2, <3>0, FeedRestores DEF AnswersOne
    <3>2. ~Fed(k)
      <4> SUFFICES ASSUME NEW i \in 1..at.packet - 1, sent[i].for = k PROVE FALSE
        BY DEF Fed
      <4>1. i \in 1..Len(sent) /\ i # at.packet
        BY <1>1
      <4>2. k # 0
        BY <3>1
      <4>3. QED
        BY <1>1, <3>0, <4>1, <4>2 DEF SerialInv, OneAnswerEach
    <3>3. k \in Owed(op)
      <4>1. k \in stale + 1..Len(asked)
        BY <1>2, <3>1
      <4>2. QED
        BY <3>1, <3>2, <4>1 DEF Owed
    <3>4. k \notin Owed(op)'
      <4>1. at.packet \in 1..at'.packet - 1
        BY <1>1, <3>1
      <4>2. Fed(k)'
        BY <1>1, <3>0, <4>1 DEF Fed
      <4>3. QED
        BY <1>1, <4>2 DEF Owed
    <3>5. /\ IsFiniteSet(Owed(op) \ {k})
          /\ Cardinality(Owed(op) \ {k}) = Cardinality(Owed(op)) - 1
      BY <2>1, <3>3, FS_RemoveElement
    <3>6. Cardinality(Owed(op)') <= Cardinality(Owed(op) \ {k})
          /\ Cardinality(Owed(op)') \in Nat
      BY <1>3, <3>4, <3>5, FS_Subset, FS_CardinalityType
    <3>7. pending'[op] = pending[op] - 1
      BY <1>1, <1>2, <2>2
    <3>8. QED
      BY <2>1, <3>5, <3>6, <3>7
  <2>3. CASE ~(Restoring /\ Restored(Step.out) = op)
    <3>1. pending'[op] = pending[op]
      BY <1>1, <1>2, <2>3
    <3>2. Cardinality(Owed(op)') <= Cardinality(Owed(op)) /\ Cardinality(Owed(op)') \in Nat
      BY <1>3, <2>1, FS_Subset, FS_CardinalityType
    <3>3. QED
      BY <2>1, <3>1, <3>2
  <2>4. QED
    BY <2>2, <2>3
<1>5. NothingStale => NothingStale'
  <2>1. at'.packet >= at.packet /\ at'.packet \in Nat /\ at.packet \in Nat
    BY <1>1
  <2>2. \A i \in at'.packet..Len(sent) : i \in at.packet..Len(sent)
    BY <1>1, <2>1
  <2>3. QED
    BY <1>1, <2>2 DEF NothingStale
<1>6. (\E op \in {Setup, Accept} : pending'[op] > 0) => NothingStale'
  <2>1. \A op \in {Setup, Accept} : pending'[op] > 0 => pending[op] > 0
    BY <1>1, <1>2
  <2>2. QED
    BY <1>5, <2>1 DEF SerialInv, RouteInv
<1>7. ~inStep' /\ type' = 4 /\ Len(buffer') >= 3 => buffer'[3] \notin Enhanced
  <2>1. inStep' = Good /\ type' = Step.type /\ buffer' = Step.buffer
        /\ at.place \in 1..Len(Frame)
    BY FeedIs
  <2>2. QED
    BY <1>1, <2>1, StepOutOfStep
<1>8. QED
  BY <1>4, <1>6, <1>7 DEF RouteInv

LEMMA FeedFrames ==
  ASSUME SerialInv, Feed
  PROVE  DueInv' /\ FramesArrive'
<1>1. /\ at.packet \in 1..Len(sent) /\ at.packet \in Nat
      /\ at'.packet = (IF IsLast THEN at.packet + 1 ELSE at.packet) /\ sent' = sent
  BY FeedIs
<1>2. /\ due \in Seq(Nat) /\ Len(due) \in Nat /\ DOMAIN due = 1..Len(due)
      /\ heard \in Seq((Types \cup {0}) \X Seq(Nat)) /\ Len(heard) = Len(due)
      /\ type \in Types \cup {0}
  BY DEF SerialInv, DecoderTypes, LineTypeOK, FramesArrive
<1>3. \A i \in 1..Len(due) : due[i] \in 1..at.packet - 1
  BY <1>2 DEF SerialInv, DueInv
<1>4. \A i \in 1..Len(due) :
        /\ heard[i][1] \in {sent[due[i]].bytes[1], 0}
        /\ Bare(heard[i][2]) = Bare(Body(sent[due[i]]))
  BY DEF SerialInv, FramesArrive
<1>5. CASE due' = due /\ heard' = heard
  BY <1>1, <1>2, <1>3, <1>4, <1>5 DEF DueInv, FramesArrive
<1>6. CASE /\ IsLast /\ due' = Append(due, at.packet)
           /\ type = (IF Frame[1] \in Types THEN Frame[1] ELSE 0)
           /\ heard' = Append(heard, <<type, ForHost(type, Body(sent[at.packet]))>>)
           /\ Body(sent[at.packet]) \in Seq(Nat)
  <2> DEFINE pk == ForHost(type, Body(sent[at.packet]))
  <2>1. pk \in Seq(Nat) /\ Bare(pk) = Bare(Body(sent[at.packet]))
    BY <1>2, <1>6, ForHostIs
  <2>2. <<type, pk>> \in (Types \cup {0}) \X Seq(Nat) /\ <<type, pk>>[1] = type
        /\ <<type, pk>>[2] = pk
    BY <1>2, <2>1
  <2>3. /\ Len(due') = Len(due) + 1 /\ due' \in Seq(Nat)
        /\ \A i \in 1..Len(due) : due'[i] = due[i]
        /\ due'[Len(due) + 1] = at.packet
    BY <1>1, <1>2, <1>6, AppendIs
  <2> DEFINE e == <<type, pk>>
  <2> HIDE DEF pk
  <2>4. e \in (Types \cup {0}) \X Seq(Nat) /\ e[1] = type /\ e[2] = pk
        /\ heard' = Append(heard, e)
    BY <1>6, <2>2 DEF pk
  <2> HIDE DEF e
  <2>5. /\ Len(heard') = Len(due) + 1
        /\ \A i \in 1..Len(due) : heard'[i] = heard[i]
        /\ heard'[Len(due) + 1] = e
    BY <1>2, <2>4, AppendIs
  <2>6. DueInv'
    <3> SUFFICES ASSUME NEW i \in 1..Len(due) + 1
                 PROVE  due'[i] \in 1..at.packet
      BY <1>1, <1>6, <2>3 DEF DueInv
    <3>1. CASE i \in 1..Len(due)
      <4>1. due'[i] = due[i] /\ due[i] \in 1..at.packet - 1
        BY <1>3, <2>3, <3>1
      <4>2. QED
        BY <1>1, <4>1
    <3>2. CASE i = Len(due) + 1
      BY <1>1, <2>3, <3>2
    <3>3. QED
      BY <1>2, <3>1, <3>2
  <2>7. FramesArrive'
    <3> SUFFICES ASSUME NEW i \in 1..Len(due) + 1
                 PROVE  /\ heard'[i][1] \in {sent[due'[i]].bytes[1], 0}
                        /\ Bare(heard'[i][2]) = Bare(Body(sent[due'[i]]))
      BY <1>1, <2>3, <2>5 DEF FramesArrive
    <3>1. CASE i \in 1..Len(due)
      BY <1>4, <2>3, <2>5, <3>1
    <3>2. CASE i = Len(due) + 1
      BY <1>6, <2>1, <2>3, <2>4, <2>5, <3>2 DEF Frame
    <3>3. QED
      BY <1>2, <3>1, <3>2
  <2>8. QED
    BY <2>6, <2>7
<1>7. QED
  BY <1>5, <1>6, FeedEmits DEF Frame

LEMMA FeedNames ==
  ASSUME SerialInv, Undeceived, Feed
  PROVE  AnswerNamesCommand'
<1>1. /\ at.packet \in 1..Len(sent) /\ at.packet \in Nat
      /\ UNCHANGED <<asked, stale, answered, sent>>
  BY FeedIs
<1>2. /\ due \in Seq(Nat) /\ Len(due) \in Nat
      /\ heard \in Seq((Types \cup {0}) \X Seq(Nat)) /\ Len(heard) = Len(due)
      /\ type \in Types \cup {0} /\ asked \in Seq(Commands)
      /\ pending \in [{Setup, Accept} -> 0..MaxCommands] /\ MaxCommands \in Nat
      /\ Len(asked) \in Nat /\ stale \in Nat /\ answered \in 0..Len(asked)
  BY LineAssumption DEF SerialInv, DecoderTypes, LineTypeOK, FramesArrive
<1>3. CASE due' = due /\ heard' = heard
  BY <1>1, <1>3 DEF SerialInv, AnswerNamesCommand
<1>4. CASE /\ IsLast /\ due' = Append(due, at.packet)
           /\ type = (IF Frame[1] \in Types THEN Frame[1] ELSE 0)
           /\ heard' = Append(heard, <<type, ForHost(type, Body(sent[at.packet]))>>)
           /\ Body(sent[at.packet]) \in Seq(Nat)
  <2> DEFINE k  == sent[at.packet].for
             out == Body(sent[at.packet])
             pk == ForHost(type, out)
  <2>1. ASSUME k > stale
        PROVE  /\ pk[3] = OpOf(asked[k])
               /\ pk[4] = IF pk[3] = WriteLe /\ Frame[5] = Unsupported THEN Ok ELSE Frame[5]
    <3>1. AnswersOne(sent[at.packet])
      <4>1. AnswersOne(sent[at.packet]) \/ IsUnasked(sent[at.packet])
        BY <1>1 DEF SerialInv, Known
      <4>2. k # 0
        BY <1>2, <2>1
      <4>3. QED
        BY <4>1, <4>2 DEF IsUnasked
    <3>2. k \in 1..answered /\ k \in 1..Len(asked) /\ Frame \in Answers(asked[k])
      BY <1>2, <3>1 DEF AnswersOne, Frame
    <3> HIDE DEF k
    <3> DEFINE c == asked[k]
    <3>3. c \in Commands /\ Frame \in Answers(c)
      BY <1>2, <3>2, ElementIs
    <3>4. /\ Frame[1] = 4 /\ Frame[2] \in {Status, Complete} /\ Frame[4] = WireOp(c)
          /\ Frame[5] \in {Ok, Unsupported} /\ (Rewritten(c) => Frame[5] = Ok)
          /\ (Frame[4] = WriteLe => Frame[2] = Complete)
          /\ Tail(Frame) = <<Frame[2], 2, Frame[4], Frame[5]>>
      BY <3>3, AnswersArePackets
    <3>5. out = <<Frame[2], 2, Frame[4], Frame[5]>> /\ type = 4
      BY <1>4, <3>4 DEF Body, Frame
    <3> HIDE DEF out, c
    <3>6. /\ IsAnswer(out) /\ out[1] = Frame[2] /\ out[3] = WireOp(c) /\ out[4] = Frame[5]
          /\ DOMAIN out = 1..4
      BY <3>4, <3>5 DEF IsAnswer
    <3>7. Rewritten(c) => Restores(out) /\ Restored(out) = OpOf(c)
      <4> SUFFICES ASSUME Rewritten(c) PROVE Restores(out) /\ Restored(out) = OpOf(c)
        OBVIOUS
      <4>1. /\ WireOp(c) \in Enhanced /\ OpOf(c) \in {Setup, Accept}
            /\ OpOf(c) = IF WireOp(c) = EnhSetup THEN Setup ELSE Accept
        BY DEF Rewritten, WireOp, OpOf, Enhanced
      <4>2. Restored(out) = OpOf(c)
        BY <3>6, <4>1 DEF Restored
      <4>3. ~Fed(k)
        <5> SUFFICES ASSUME NEW i \in 1..at.packet - 1, sent[i].for = k PROVE FALSE
          BY DEF Fed
        <5>1. i \in 1..Len(sent) /\ i # at.packet /\ k # 0 /\ sent[at.packet].for = k
          BY <1>1, <3>2 DEF k
        <5>2. QED
          BY <1>1, <5>1 DEF SerialInv, OneAnswerEach
      <4>4. k \in Owed(OpOf(c))
        <5>1. k \in stale + 1..Len(asked)
          BY <1>2, <2>1, <3>2
        <5>2. QED
          BY <4>3, <5>1 DEF Owed, c
      <4>5. Cardinality(Owed(OpOf(c))) \in Nat \ {0}
        BY <4>4, OwedIsFinite, FS_EmptySet DEF SerialInv
      <4>6. Cardinality(Owed(OpOf(c))) <= pending[OpOf(c)] /\ pending[OpOf(c)] \in Nat
        BY <1>2, <4>1 DEF SerialInv, RouteInv
      <4>7. pending[OpOf(c)] > 0
        BY <4>5, <4>6
      <4>8. QED
        BY <3>6, <4>1, <4>2, <4>7 DEF Restores, Enhanced
    <3>8. ~Rewritten(c) => WireOp(c) = OpOf(c) /\ WireOp(c) \notin Enhanced
      BY DEF Rewritten, WireOp, OpOf, Enhanced
    <3>9. FixesLe(out) <=> WireOp(c) = WriteLe /\ Frame[5] = Unsupported
      BY <3>4, <3>6 DEF FixesLe
    <3>10. CASE Rewritten(c)
      <4>1. WireOp(c) # WriteLe /\ OpOf(c) # WriteLe
        BY <3>10 DEF Rewritten, WireOp, OpOf
      <4>2. pk = [out EXCEPT ![3] = OpOf(c)]
        BY <3>5, <3>7, <3>9, <3>10, <4>1 DEF ForHost
      <4>3. QED
        BY <3>4, <3>6, <3>10, <4>1, <4>2 DEF c
    <3>11. CASE ~Rewritten(c) /\ FixesLe(out)
      <4>1. pk = [out EXCEPT ![4] = Ok]
        BY <3>5, <3>11 DEF ForHost
      <4>2. QED
        BY <3>6, <3>8, <3>9, <3>11, <4>1 DEF c
    <3>12. CASE ~Rewritten(c) /\ ~FixesLe(out)
      <4>1. ~Restores(out)
        BY <3>6, <3>8, <3>12 DEF Restores, Enhanced
      <4>2. pk = out
        BY <3>12, <4>1 DEF ForHost
      <4>3. QED
        BY <3>6, <3>8, <3>9, <3>12, <4>2 DEF c
    <3>13. QED
      BY <3>10, <3>11, <3>12
  <2>2. pk \in Seq(Nat)
    BY <1>2, <1>4, ForHostIs
  <2>3. /\ Len(due') = Len(due) + 1
        /\ \A i \in 1..Len(due) : due'[i] = due[i]
        /\ due'[Len(due) + 1] = at.packet
    BY <1>1, <1>2, <1>4, AppendIs
  <2> DEFINE e == <<type, pk>>
  <2> HIDE DEF pk
  <2>4. e \in (Types \cup {0}) \X Seq(Nat) /\ e[2] = pk /\ heard' = Append(heard, e)
    BY <1>2, <1>4, <2>2 DEF pk
  <2> HIDE DEF e
  <2>5. /\ \A i \in 1..Len(due) : heard'[i] = heard[i]
        /\ heard'[Len(due) + 1] = e
    BY <1>2, <2>4, AppendIs
  <2> SUFFICES ASSUME NEW i \in 1..Len(due) + 1, sent[due'[i]].for > stale
               PROVE  LET ev == heard'[i][2]
                          st == sent[due'[i]].bytes[5]
                      IN /\ ev[3] = OpOf(asked[sent[due'[i]].for])
                         /\ ev[4] = IF ev[3] = WriteLe /\ st = Unsupported THEN Ok ELSE st
    BY <1>1, <2>3 DEF AnswerNamesCommand
  <2>6. CASE i \in 1..Len(due)
    <3>1. due'[i] = due[i] /\ heard'[i] = heard[i]
      BY <2>3, <2>5, <2>6
    <3>2. AnswerNamesCommand
      BY DEF SerialInv
    <3>3. QED
      BY <2>6, <3>1, <3>2 DEF AnswerNamesCommand
  <2>7. CASE i = Len(due) + 1
    <3>1. due'[i] = at.packet /\ heard'[i][2] = pk
      BY <2>3, <2>4, <2>5, <2>7
    <3>2. QED
      BY <2>1, <3>1 DEF Frame
  <2>8. i \in 1..Len(due) \/ i = Len(due) + 1
    BY <1>2
  <2>9. QED
    BY <2>6, <2>7, <2>8
<1>5. QED
  BY <1>3, <1>4, FeedEmits DEF Frame

LEMMA FeedKeeps ==
  ASSUME SerialInv, Feed
  PROVE  SerialInv'
<1>1. Position' /\ UNCHANGED <<asked, answered, sent>>
  BY FeedIs
<1>2. Known' /\ OneAnswerEach'
  BY <1>1 DEF SerialInv, Known, AnswersOne, IsUnasked, OneAnswerEach
<1>3. QED
  BY <1>1, <1>2, FeedTypes, FeedDecoder, FeedRoute, FeedFrames, FeedNames DEF SerialInv

LEMMA StutterKeeps ==
  ASSUME SerialInv, UNCHANGED lineVars
  PROVE  SerialInv'
<1>1. UNCHANGED <<asked, stale, answered, pending, sent, at, type, buffer, inStep, due,
                  heard, resets>>
  BY DEF lineVars
<1>2. DecoderTypes' /\ Known' /\ OneAnswerEach' /\ Position'
  BY <1>1 DEF SerialInv, DecoderTypes, LineTypeOK, Known, AnswersOne, IsUnasked, OneAnswerEach,
              Position
<1>3. DecoderInv' /\ DueInv'
  BY <1>1 DEF SerialInv, DecoderInv, DueInv
<1>4. Undeceived => RouteInv'
  BY <1>1 DEF SerialInv, RouteInv, Owed, Fed, NothingStale
<1>5. FramesArrive' /\ (Undeceived => AnswerNamesCommand')
  BY <1>1 DEF SerialInv, FramesArrive, AnswerNamesCommand
<1>6. QED
  BY <1>2, <1>3, <1>4, <1>5 DEF SerialInv

LEMMA SerialInductive == LineSpec => []SerialInv
<1>1. SerialInv /\ [LineNext]_lineVars => SerialInv'
  BY SubmitKeeps, AnswersKeep, UnaskedKeeps, FeedKeeps, ResetKeeps, StutterKeeps DEF LineNext
<1>2. QED
  BY InitLine, <1>1, PTL DEF LineSpec

-----------------------------------------------------------------------------
\* The state of the decoder and of the route keeps its types, and the counters
\* of pending answers neither overflow their bound nor fall below zero
\* (H4_CODEC, SCO_ROUTE).
THEOREM LineTypes == LineSpec => []LineTypeOK
<1>1. SerialInv => LineTypeOK
  BY DEF SerialInv, DecoderTypes
<1>2. QED
  BY <1>1, SerialInductive, PTL

\* Everything the controller sends comes out of the decoder packet for packet,
\* in order, with nothing in between, from the first packet on that finds the
\* decoder idle after a reset (H4FeedByte, QcaUartResetTransport).
THEOREM PacketsArrive == LineSpec => []FramesArrive
<1>1. SerialInv => FramesArrive
  BY DEF SerialInv
<1>2. QED
  BY <1>1, SerialInductive, PTL

\* An answer reaches the host under the opcode the host sent and with the
\* status it should see, if no reset cuts a packet that holds what looks like
\* an Enhanced opcode (ScoRouteRestoreEvent, QcaUartOnH4Packet).
THEOREM AnswersAreNamed ==
  ASSUME Undeceived
  PROVE  LineSpec => []AnswerNamesCommand
<1>1. SerialInv => AnswerNamesCommand
  BY DEF SerialInv
<1>2. QED
  BY <1>1, SerialInductive, PTL
=============================================================================
