------------------------------ MODULE ReadPump ------------------------------
(***************************************************************************)
(* Who owns the serial target: the one read request that completes and     *)
(* posts itself again, the write slots, the cancelling purge, and the      *)
(* worker that starts, quiesces and finally releases all of it             *)
(* (src/src/driver/qca_uart.c).                                            *)
(*                                                                         *)
(* Threads: the worker; the read completion and the write completions; one *)
(* USB callback that sends under the controller lock; a PnP or power       *)
(* callback that cancels.  A step is what one of them does between two     *)
(* places where another may come in.  Time is left out: a request's        *)
(* timeout and the 2 s of a quiesce may expire at any moment.              *)
(*                                                                         *)
(* A definition BugXxx is a variant of the next definition with a          *)
(* plausible mistake, used only to show which property notices it.         *)
(***************************************************************************)
EXTENDS Naturals, FiniteSets

CONSTANTS
  Slot,        \* write slots (QCA_UART_WRITE_SLOTS)
  NoSlot,
  MaxStarts,   \* bound: starts of the read pump
  MaxReads,    \* bound: reads the line answers
  MaxLeaving,  \* bound: callbacks that wait to run while some are leaving
  DeadlineNear \* may the 60 s of the bring-up expire during the handoff?

ASSUME PumpAssumption ==
  /\ IsFiniteSet(Slot) /\ NoSlot \notin Slot
  /\ MaxStarts \in Nat /\ MaxReads \in Nat
  /\ MaxLeaving \in Nat \ {0} /\ DeadlineNear \in BOOLEAN

\* What the worker is about.  In "ladder" and "handback" ProbeMode is Identify.
Stage == {"ladder", "bringup", "handoff", "waking", "steady", "closing",
          "handback", "stopped"}

\* Where the worker is inside a call; between two calls it is at "quiet" if the
\* last of them was a quiesce that succeeded, at "run" otherwise.
WorkerAt == {"run", "quiet", "decoder", "reuse", "budget", "send", "sent",
             "drain", "purge", "release", "closed"}

\* How the lower driver ends a request.
Answer == {"data", "error", "cancelled"}

VARIABLES
  stage, worker, starts, reads,
  lock,             \* the controller lock: "free", or the thread inside it
  pumpRunning,      \* ReadPumpRunning
  stopRequested,    \* StopRequested
  unbounded,        \* BudgetUnbounded
  phase,            \* Phase
  readSent,         \* ReadRequestSent: the request was posted once
  read,             \* the read request: "idle", "sent", "cancelling"
  timed,            \* it was sent with a timeout
  dpc,              \* the read completion, where it is and with which status
  leaving,          \* completions of which only QcaUartIoCompleted is left
  readFault,        \* IdentifyReadStatus is a failure
  lineFault,        \* history: the line failed or timed out a read nobody cancelled
  slot, sending,    \* the write slots, and the one a sender has taken
  target,           \* "open", or "purged": CancelTarget claimed, requests refused
  canceller,        \* QcaUartCancelProbe of another thread
  io                \* ActiveIoCount

workerVars == <<stage, worker, starts>>
readVars   == <<read, timed, reads>>
writeVars  == <<slot, sending>>
vars == <<workerVars, readVars, writeVars, lock, pumpRunning, stopRequested,
          unbounded, phase, readSent, dpc, leaving, readFault, lineFault,
          target, canceller, io>>

NoDpc == [at |-> "none", status |-> "data"]

WorkerTypes ==
  /\ stage \in Stage /\ worker \in WorkerAt
  /\ starts \in 0..MaxStarts /\ reads \in 0..MaxReads
  /\ lock \in {"free", "dpc", "usb"} /\ phase \in {0, 1, 2, 3}
  /\ target \in {"open", "purged"}
  /\ canceller \in {"idle", "flagged", "purging", "done"}

FlagTypes ==
  /\ pumpRunning \in BOOLEAN /\ stopRequested \in BOOLEAN
  /\ unbounded \in BOOLEAN /\ readSent \in BOOLEAN /\ timed \in BOOLEAN
  /\ readFault \in BOOLEAN /\ lineFault \in BOOLEAN

IoTypes ==
  /\ read \in {"idle", "sent", "cancelling"}
  /\ dpc \in [at : {"none", "enter", "feed", "fault", "flags", "repost", "send",
                    "failed"}, status : Answer]
  /\ leaving \in 0..(MaxLeaving + 1)
  /\ slot \in [Slot -> {"free", "filled", "sent", "cancelling"}]
  /\ sending \in Slot \cup {NoSlot}
  /\ io \in Nat

TypeOK == WorkerTypes /\ FlagTypes /\ IoTypes

Init ==
  /\ stage = "ladder" /\ worker = "run" /\ starts = 0 /\ reads = 0
  /\ lock = "free" /\ pumpRunning = FALSE /\ stopRequested = FALSE
  /\ unbounded = FALSE /\ phase = 0
  /\ readSent = FALSE /\ read = "idle" /\ timed = FALSE
  /\ dpc = NoDpc /\ leaving = 0 /\ readFault = FALSE /\ lineFault = FALSE
  /\ slot = [s \in Slot |-> "free"] /\ sending = NoSlot
  /\ target = "open" /\ canceller = "idle" /\ io = 0

Identify == stage \in {"ladder", "handback"}
Between  == worker \in {"run", "quiet"}

At(from, to) == worker = from /\ worker' = to

-----------------------------------------------------------------------------
(***************************************************************************)
(* QcaUartStartReadPump.  Every caller has quiesced the reader before.     *)
(***************************************************************************)
StartPump ==
  /\ stage \in {"ladder", "bringup", "handoff", "handback"} /\ ~stopRequested
  /\ starts < MaxStarts /\ starts' = starts + 1
  /\ At("quiet", IF pumpRunning THEN "run" ELSE "decoder")
  /\ stage' = IF stage = "handoff" THEN "waking" ELSE stage
  /\ UNCHANGED <<readVars, writeVars, lock, pumpRunning, stopRequested,
                 unbounded, phase, readSent, dpc, leaving, readFault, lineFault,
                 target, canceller, io>>

\* H4DecoderInit, without the lock.
ResetDecoder ==
  /\ At("decoder", "reuse")
  /\ UNCHANGED <<stage, starts, readVars, writeVars, lock, pumpRunning,
                 stopRequested, unbounded, phase, readSent, dpc, leaving,
                 readFault, lineFault, target, canceller, io>>

\* WdfRequestReuse refuses a request that is still out.
ReuseRead ==
  /\ IF readSent /\ (read # "idle" \/ dpc.at # "none")
       THEN At("reuse", "run") /\ UNCHANGED <<readSent, pumpRunning>>
       ELSE At("reuse", "budget") /\ readSent' = FALSE /\ pumpRunning' = TRUE
  /\ UNCHANGED <<stage, starts, readVars, writeVars, lock, stopRequested,
                 unbounded, phase, dpc, leaving, readFault, lineFault, target,
                 canceller, io>>

\* QcaUartSendTimed: the budget, then the count, then the request.
SendRead ==
  /\ IF stopRequested
       THEN At("budget", "run") /\ pumpRunning' = FALSE /\ UNCHANGED io
       ELSE At("budget", "send") /\ io' = io + 1 /\ UNCHANGED pumpRunning
  /\ UNCHANGED <<stage, starts, readVars, writeVars, lock, stopRequested,
                 unbounded, phase, readSent, dpc, leaving, readFault, lineFault,
                 target, canceller>>

\* A purged target refuses, and the lower driver may.
ReadAccepted ==
  /\ target = "open" /\ At("send", "sent")
  /\ read' = "sent" /\ timed' = ~unbounded
  /\ UNCHANGED <<stage, starts, reads, writeVars, lock, pumpRunning,
                 stopRequested, unbounded, phase, readSent, dpc, leaving,
                 readFault, lineFault, target, canceller, io>>

ReadRefused ==
  /\ At("send", "run")
  /\ io' = io - 1 /\ pumpRunning' = FALSE
  /\ UNCHANGED <<stage, starts, readVars, writeVars, lock, stopRequested,
                 unbounded, phase, readSent, dpc, leaving, readFault, lineFault,
                 target, canceller>>

\* The request may long be back, and out again, when this is noted.
NoteSent ==
  /\ At("sent", "run") /\ readSent' = TRUE
  /\ UNCHANGED <<stage, starts, readVars, writeVars, lock, pumpRunning,
                 stopRequested, unbounded, phase, dpc, leaving, readFault,
                 lineFault, target, canceller, io>>

-----------------------------------------------------------------------------
(***************************************************************************)
(* QcaUartQuiesceRead: stop the reader, keep the target.  The cancellation *)
(* is repeated, because a completion that had already looked at the flag   *)
(* posts the request again.  (A second quiesce in a row would find nothing *)
(* to do and is left out.)                                                 *)
(***************************************************************************)
Quiesce ==
  /\ stage \notin {"waking", "steady", "stopped"} /\ lock = "free"
  /\ At("run", "drain") /\ pumpRunning' = FALSE
  /\ UNCHANGED <<stage, starts, readVars, writeVars, lock, stopRequested,
                 unbounded, phase, readSent, dpc, leaving, readFault, lineFault,
                 target, canceller, io>>

DrainCancels ==
  /\ worker = "drain" /\ read = "sent" /\ read' = "cancelling"
  /\ UNCHANGED <<workerVars, timed, reads, writeVars, lock, pumpRunning,
                 stopRequested, unbounded, phase, readSent, dpc, leaving,
                 readFault, lineFault, target, canceller, io>>

BugDrainIgnoresDpc ==
  /\ read = "idle" /\ At("drain", "quiet")
  /\ UNCHANGED <<stage, starts, readVars, writeVars, lock, pumpRunning,
                 stopRequested, unbounded, phase, readSent, dpc, leaving,
                 readFault, lineFault, target, canceller, io>>

DrainEnds ==
  /\ io = 0 /\ At("drain", "quiet")
  /\ UNCHANGED <<stage, starts, readVars, writeVars, lock, pumpRunning,
                 stopRequested, unbounded, phase, readSent, dpc, leaving,
                 readFault, lineFault, target, canceller, io>>

\* Stopped, or out of budget: the caller does not start the reader again.
DrainGivesUp ==
  /\ io # 0 /\ At("drain", "run")
  /\ UNCHANGED <<stage, starts, readVars, writeVars, lock, pumpRunning,
                 stopRequested, unbounded, phase, readSent, dpc, leaving,
                 readFault, lineFault, target, canceller, io>>

-----------------------------------------------------------------------------
(***************************************************************************)
(* The worker's way: the ladder of QcaUartEnsureRom, the bring-up, the     *)
(* handoff to the steady session, its end, the ladder of QcaUartHandback,  *)
(* and QcaUartStop.  Only the ladders are entered with the reader retired. *)
(***************************************************************************)
Becomes(from, to) == Between /\ stage = from /\ stage' = to

ToBringup ==
  /\ Becomes("ladder", "bringup") /\ worker = "quiet" /\ ~readFault /\ phase' = 1
  /\ UNCHANGED <<worker, starts, readVars, writeVars, lock, pumpRunning,
                 stopRequested, unbounded, readSent, dpc, leaving, readFault,
                 lineFault, target, canceller, io>>

\* The Phase 2 handoff at the end of QcaUartRunProbe.
ToHandoff ==
  /\ Becomes("bringup", "handoff") /\ lock = "free" /\ phase' = 2
  /\ UNCHANGED <<worker, starts, readVars, writeVars, lock, pumpRunning,
                 stopRequested, unbounded, readSent, dpc, leaving, readFault,
                 lineFault, target, canceller, io>>

\* BudgetUnbounded, after the reader was quiesced and started again.
ToSteady ==
  /\ Becomes("waking", "steady") /\ readSent /\ ~stopRequested
  /\ unbounded' = TRUE
  /\ UNCHANGED <<worker, starts, readVars, writeVars, lock, pumpRunning,
                 stopRequested, phase, readSent, dpc, leaving, readFault,
                 lineFault, target, canceller, io>>

\* The end of QcaUartServeSteady, or a failed bring-up.
ToClosing ==
  /\ Becomes(stage, "closing") /\ lock = "free"
  /\ stage \in {"bringup", "handoff", "waking", "steady"}
  /\ phase' = IF stage = "bringup" THEN phase ELSE 3
  /\ unbounded' = FALSE
  /\ UNCHANGED <<worker, starts, readVars, writeVars, lock, pumpRunning,
                 stopRequested, readSent, dpc, leaving, readFault, lineFault,
                 target, canceller, io>>

ToHandback ==
  /\ Becomes("closing", "handback") /\ worker = "quiet" /\ ~stopRequested
  /\ readFault' = FALSE /\ lineFault' = FALSE
  /\ UNCHANGED <<worker, starts, readVars, writeVars, lock, pumpRunning,
                 stopRequested, unbounded, phase, readSent, dpc, leaving,
                 target, canceller, io>>

BugStopWithoutLock ==
  /\ Between /\ worker' = "purge" /\ stage' = "stopped" /\ phase' = 3
  /\ unbounded' = FALSE
  /\ UNCHANGED <<starts, readVars, writeVars, lock, pumpRunning, stopRequested,
                 readSent, dpc, leaving, readFault, lineFault, target,
                 canceller, io>>

\* QcaUartStop: the phase under the lock, then the flag, then the purge.
Stop ==
  /\ Between /\ worker' = "purge" /\ lock = "free" /\ stage' = "stopped" /\ phase' = 3
  /\ stage \in {"ladder", "bringup", "closing", "handback"}
  /\ UNCHANGED <<starts, readVars, writeVars, lock, pumpRunning, stopRequested,
                 unbounded, readSent, dpc, leaving, readFault, lineFault,
                 target, canceller, io>>

-----------------------------------------------------------------------------
(***************************************************************************)
(* QcaUartPurgeTarget.  Claiming the target makes it one-shot; the purge   *)
(* cancels what is out and refuses what comes later.  The borrower counts  *)
(* itself until the purge call has returned.                               *)
(***************************************************************************)
Purged ==
  /\ target' = "purged"
  /\ read' = IF read = "sent" THEN "cancelling" ELSE read
  /\ slot' = [s \in Slot |-> IF slot[s] = "sent" THEN "cancelling" ELSE slot[s]]

BugStopsOnly ==
  /\ At("purge", "release") /\ pumpRunning' = FALSE
  /\ UNCHANGED <<target, read, slot>>
  /\ UNCHANGED <<stage, starts, timed, reads, sending, lock, stopRequested,
                 unbounded, phase, readSent, dpc, leaving, readFault, lineFault,
                 canceller, io>>

\* QcaUartStopReadPump by the worker.
WorkerPurges ==
  /\ At("purge", "release") /\ pumpRunning' = FALSE
  /\ IF target = "open" THEN Purged ELSE UNCHANGED <<target, read, slot>>
  /\ UNCHANGED <<stage, starts, timed, reads, sending, lock, stopRequested,
                 unbounded, phase, readSent, dpc, leaving, readFault, lineFault,
                 canceller, io>>

\* QcaUartCancelProbe, or the deadline, at any time while the session lives.
CancelProbe ==
  /\ worker # "closed" /\ canceller = "idle" /\ canceller' = "flagged"
  /\ stopRequested' = TRUE /\ pumpRunning' = FALSE
  /\ UNCHANGED <<workerVars, readVars, writeVars, lock, unbounded, phase,
                 readSent, dpc, leaving, readFault, lineFault, target, io>>

CancelPurges ==
  /\ canceller = "flagged"
  /\ IF target = "open" THEN Purged /\ canceller' = "purging" /\ io' = io + 1
       ELSE canceller' = "done" /\ UNCHANGED <<target, read, slot, io>>
  /\ UNCHANGED <<workerVars, timed, reads, sending, lock, pumpRunning,
                 stopRequested, unbounded, phase, readSent, dpc, leaving,
                 readFault, lineFault>>

PurgeReturns ==
  /\ canceller = "purging" /\ canceller' = "done"
  /\ io' = io - 1
  /\ UNCHANGED <<workerVars, readVars, writeVars, lock, pumpRunning,
                 stopRequested, unbounded, phase, readSent, dpc, leaving,
                 readFault, lineFault, target>>

\* QcaUartReleaseHardware: wait for the last completion, then close.
Release ==
  /\ io = 0 /\ At("release", "closed")
  /\ UNCHANGED <<stage, starts, readVars, writeVars, lock, pumpRunning,
                 stopRequested, unbounded, phase, readSent, dpc, leaving,
                 readFault, lineFault, target, canceller, io>>

-----------------------------------------------------------------------------
(***************************************************************************)
(* The lower driver ends the read: with data, with an error, cancelled, or *)
(* because the timeout of a timed request expired.                         *)
(***************************************************************************)
ReadEnds(status, prompted) ==
  /\ read # "idle" /\ dpc.at = "none" /\ leaving < MaxLeaving
  /\ read' = "idle" /\ dpc' = [at |-> "enter", status |-> status]
  /\ lineFault' = (lineFault \/ (status # "data" /\ ~prompted))
  /\ UNCHANGED <<workerVars, timed, writeVars, lock, pumpRunning, stopRequested,
                 unbounded, phase, readSent, leaving, readFault, target,
                 canceller, io>>

LineAnswers(status) ==
  /\ status \in {"data", "error"} /\ reads < MaxReads /\ reads' = reads + 1
  /\ ReadEnds(status, FALSE)

ReadCancelled == read = "cancelling" /\ reads' = reads /\ ReadEnds("cancelled", TRUE)

ReadExpires ==
  /\ read = "sent" /\ timed /\ (stage = "waking" => DeadlineNear)
  /\ reads < MaxReads /\ reads' = reads + 1
  /\ ReadEnds("cancelled", FALSE)

(***************************************************************************)
(* QcaUartReadCompletion.                                                  *)
(***************************************************************************)
Completion(from, to) == dpc.at = from /\ dpc' = [dpc EXCEPT !.at = to]

Decode ==
  /\ IF dpc.status = "data" THEN lock = "free" /\ lock' = "dpc" /\ Completion("enter", "feed")
                            ELSE UNCHANGED lock /\ Completion("enter", "fault")
  /\ UNCHANGED <<workerVars, readVars, writeVars, pumpRunning, stopRequested,
                 unbounded, phase, readSent, leaving, readFault, lineFault,
                 target, canceller, io>>

Decoded ==
  /\ Completion("feed", "fault") /\ lock' = "free"
  /\ UNCHANGED <<workerVars, readVars, writeVars, pumpRunning, stopRequested,
                 unbounded, phase, readSent, leaving, readFault, lineFault,
                 target, canceller, io>>

BugDrainIsFault ==
  /\ Completion("fault", "flags")
  /\ readFault' = (readFault \/ (Identify /\ dpc.status # "data"))
  /\ pumpRunning' = (pumpRunning /\ ~(Identify /\ dpc.status # "data"))
  /\ UNCHANGED <<workerVars, readVars, writeVars, lock, stopRequested, unbounded,
                 phase, readSent, leaving, lineFault, target, canceller, io>>

\* A read that fails under a running pump is a fault, not silence.
NoteFault ==
  LET failed == Identify /\ dpc.status # "data" /\ pumpRunning
  IN  /\ Completion("fault", "flags")
      /\ readFault' = (readFault \/ failed)
      /\ pumpRunning' = (pumpRunning /\ ~failed)
      /\ UNCHANGED <<workerVars, readVars, writeVars, lock, stopRequested,
                     unbounded, phase, readSent, leaving, lineFault, target,
                     canceller, io>>

BugCancelledEnds ==
  ~pumpRunning \/ stopRequested \/ dpc.status = "cancelled"

PumpEnds ==
  ~pumpRunning \/ stopRequested \/ (dpc.status = "cancelled" /\ ~unbounded)

TestFlags ==
  /\ IF PumpEnds
       THEN dpc.at = "flags" /\ dpc' = NoDpc /\ leaving' = leaving + 1
       ELSE Completion("flags", "repost") /\ UNCHANGED leaving
  /\ UNCHANGED <<workerVars, readVars, writeVars, lock, pumpRunning,
                 stopRequested, unbounded, phase, readSent, readFault,
                 lineFault, target, canceller, io>>

Repost ==
  /\ IF stopRequested THEN Completion("repost", "failed") /\ UNCHANGED io
                      ELSE Completion("repost", "send") /\ io' = io + 1
  /\ UNCHANGED <<workerVars, readVars, writeVars, lock, pumpRunning,
                 stopRequested, unbounded, phase, readSent, leaving, readFault,
                 lineFault, target, canceller>>

RepostAccepted ==
  /\ dpc.at = "send" /\ target = "open" /\ dpc' = NoDpc
  /\ read' = "sent" /\ timed' = ~unbounded /\ leaving' = leaving + 1
  /\ UNCHANGED <<workerVars, reads, writeVars, lock, pumpRunning, stopRequested,
                 unbounded, phase, readSent, readFault, lineFault, target,
                 canceller, io>>

RepostRefused ==
  /\ Completion("send", "failed") /\ io' = io - 1
  /\ UNCHANGED <<workerVars, readVars, writeVars, lock, pumpRunning,
                 stopRequested, unbounded, phase, readSent, leaving, readFault,
                 lineFault, target, canceller>>

RepostFailed ==
  /\ dpc.at = "failed" /\ dpc' = NoDpc /\ leaving' = leaving + 1
  /\ pumpRunning' = FALSE
  /\ readFault' = (readFault \/ Identify) /\ lineFault' = TRUE
  /\ UNCHANGED <<workerVars, readVars, writeVars, lock, stopRequested, unbounded,
                 phase, readSent, target, canceller, io>>

\* QcaUartIoCompleted, also of the write completions.
IoCompleted ==
  /\ leaving > 0 /\ leaving' = leaving - 1 /\ io' = io - 1
  /\ UNCHANGED <<workerVars, readVars, writeVars, lock, pumpRunning,
                 stopRequested, unbounded, phase, readSent, dpc, readFault,
                 lineFault, target, canceller>>

ReadCompletion == Decode \/ Decoded \/ NoteFault \/ TestFlags \/ Repost
                    \/ RepostAccepted \/ RepostRefused \/ RepostFailed

-----------------------------------------------------------------------------
(***************************************************************************)
(* QcaUartSendAsync, under the controller lock from the phase to the end,  *)
(* and QcaUartWriteSlotCompletion.  The bridge lets nothing out before it  *)
(* is ready, which is when the budget is lifted.                           *)
(***************************************************************************)
TakeSlot(s) ==
  /\ lock = "free" /\ phase = 2 /\ unbounded /\ slot[s] = "free"
  /\ lock' = "usb" /\ sending' = s /\ slot' = [slot EXCEPT ![s] = "filled"]
  /\ UNCHANGED <<workerVars, readVars, pumpRunning, stopRequested, unbounded,
                 phase, readSent, dpc, leaving, readFault, lineFault, target,
                 canceller, io>>

WriteAccepted ==
  /\ sending # NoSlot /\ ~stopRequested /\ target = "open"
  /\ slot' = [slot EXCEPT ![sending] = "sent"] /\ io' = io + 1
  /\ sending' = NoSlot /\ lock' = "free"
  /\ UNCHANGED <<workerVars, readVars, pumpRunning, stopRequested, unbounded,
                 phase, readSent, dpc, leaving, readFault, lineFault, target,
                 canceller>>

\* No budget, a purged target or a refusal: the slot is free again.
WriteRefused ==
  /\ sending # NoSlot
  /\ slot' = [slot EXCEPT ![sending] = "free"]
  /\ sending' = NoSlot /\ lock' = "free"
  /\ UNCHANGED <<workerVars, readVars, pumpRunning, stopRequested, unbounded,
                 phase, readSent, dpc, leaving, readFault, lineFault, target,
                 canceller, io>>

\* Writes are always timed: the lower driver or the timeout ends each.
WriteEnds(s) ==
  /\ slot[s] \in {"sent", "cancelling"} /\ leaving < MaxLeaving
  /\ slot' = [slot EXCEPT ![s] = "free"] /\ leaving' = leaving + 1
  /\ UNCHANGED <<workerVars, readVars, sending, lock, pumpRunning,
                 stopRequested, unbounded, phase, readSent, dpc, readFault,
                 lineFault, target, canceller, io>>

-----------------------------------------------------------------------------
WorkerGoesOn ==
  \/ ResetDecoder \/ ReuseRead \/ SendRead \/ ReadAccepted \/ ReadRefused \/ NoteSent
  \/ DrainCancels \/ DrainEnds \/ DrainGivesUp \/ WorkerPurges \/ Release

WorkerChooses ==
  \/ StartPump \/ Quiesce \/ ToBringup \/ ToHandoff \/ ToSteady \/ ToClosing
  \/ ToHandback \/ Stop

Canceller == CancelProbe \/ CancelPurges \/ PurgeReturns

Line == (\E status \in {"data", "error"} : LineAnswers(status))
          \/ ReadCancelled \/ ReadExpires

Writes == (\E s \in Slot : TakeSlot(s) \/ WriteEnds(s)) \/ WriteAccepted \/ WriteRefused

Next ==
  \/ WorkerGoesOn \/ WorkerChooses \/ Canceller \/ Line \/ ReadCompletion
  \/ IoCompleted \/ Writes

Spec == Init /\ [][Next]_vars

\* Threads run on and in the end get the spin lock they wait for (the strong
\* fairness); a worker that was told to stop stops; the lower driver completes
\* what is cancelled and every write.  The line owes no data.
Fairness ==
  /\ WF_vars(WorkerGoesOn)
  /\ SF_vars(stopRequested /\ (Stop \/ ToClosing))
  /\ WF_vars(CancelPurges) /\ WF_vars(PurgeReturns)
  /\ WF_vars(ReadCancelled) /\ SF_vars(ReadCompletion) /\ WF_vars(IoCompleted)
  /\ WF_vars(WriteAccepted \/ WriteRefused)
  /\ \A s \in Slot : WF_vars(WriteEnds(s))

FairSpec == Spec /\ Fairness

-----------------------------------------------------------------------------
(***************************************************************************)
(* One reader: while the worker resets the decoder or prepares the read    *)
(* request, the request is not out and no completion is running that feeds *)
(* the decoder or posts the request again.                                 *)
(***************************************************************************)
OneReader ==
  /\ TypeOK
  /\ worker \in {"decoder", "reuse", "budget", "send"} =>
       read = "idle" /\ dpc.at = "none"

(***************************************************************************)
(* The release owns everything.  ActiveIoCount is at any time the number   *)
(* of those who may still touch the target, each counted from before it    *)
(* may until after it no longer does: the worker and the completion about  *)
(* to send the read, the read, its completion, the writes, the callbacks   *)
(* about to return, the purge.  So when the worker closes the target and   *)
(* frees requests and buffers, no request is out, no completion and no     *)
(* purge call runs, and no sender is on its way to the target.             *)
(***************************************************************************)
Holds(owner) == IF owner THEN 1 ELSE 0
Out          == {s \in Slot : slot[s] \in {"sent", "cancelling"}}

CountedOwners ==
  io = Holds(worker = "send") + Holds(read # "idle") + Holds(dpc.at # "none")
         + Holds(dpc.at = "send") + Holds(canceller = "purging")
         + leaving + Cardinality(Out)

ReleaseOwnsAll ==
  /\ CountedOwners
  /\ worker = "closed" =>
       /\ read = "idle" /\ dpc.at = "none" /\ leaving = 0
       /\ \A s \in Slot : slot[s] = "free" /\ sending = NoSlot
       /\ canceller # "purging"

(***************************************************************************)
(* Draining is not a fault: a quiesce between two rungs never makes the    *)
(* identify ladder report a failed line, whatever the completion and the   *)
(* cancellation do to each other; only a line that failed is reported.     *)
(***************************************************************************)
DrainIsNoFault == readFault => lineFault \/ stopRequested

(***************************************************************************)
(* The line stays read: in the steady session, as long as the pump counts  *)
(* as running and nobody stops it, the read is out or its completion is    *)
(* about to post it again, although the timeout of a bring-up read may     *)
(* still fire after the handoff.                                           *)
(***************************************************************************)
LineIsRead ==
  stage = "steady" /\ pumpRunning /\ ~stopRequested => read # "idle" \/ dpc.at # "none"

(***************************************************************************)
(* A session that is cancelled or stops by itself releases the hardware,   *)
(* if the lower driver completes what was cancelled: no read and no write  *)
(* escapes the purge.                                                      *)
(***************************************************************************)
StopReleases == stopRequested \/ stage = "stopped" ~> worker = "closed"
=============================================================================
