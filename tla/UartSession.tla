---------------------------- MODULE UartSession ----------------------------
(***************************************************************************)
(* The life of a UART session (src/src/driver/qca_uart.c) against the PnP  *)
(* and power callbacks of the controller device (src/src/driver/driver.c). *)
(*                                                                         *)
(* A session is two detached threads: a worker, which brings the           *)
(* controller up, plugs in the emulated radio, serves it and hands the     *)
(* controller back; and a monitor, which bounds the worker's time and      *)
(* reports it abandoned.  The callbacks signal them and, for a graceful    *)
(* stop, wait a bounded time.  All three share flags, events, the record   *)
(* in the registry (under RecordGate) and the emulated child (under        *)
(* PlugGate).                                                              *)
(*                                                                         *)
(* A step is the code between two waits, or between two reads of shared    *)
(* state that another thread may change.  Threads carry the number of      *)
(* their session, so that a thread outliving its session can be seen.      *)
(* Not modelled here: the I/O of the bring-up and of the steady loop,      *)
(* which only makes the worker slow, failing or stuck; the probe modes,    *)
(* which are sessions that end before SteadyReady.                         *)
(*                                                                         *)
(* A definition BugXxx is a variant of the next definition with a          *)
(* plausible mistake, used only to show which property notices it.         *)
(***************************************************************************)
EXTENDS Naturals, FiniteSets

CONSTANT MaxSessions   \* bound: sessions ever armed

ASSUME SessionsAssumption == MaxSessions \in Nat \ {0}

Session == 1..MaxSessions

VARIABLES
  armed,             \* number of the last session armed
  probeActive,       \* ProbeActive: the claim on the UART
  stopRequested,     \* StopRequested: hard cancel
  reportingStopped,  \* ReportingStopped: a final record was committed
  probeStop, steadyReady, shutdownEvent,   \* notification events
  steadyStopped, probeDone, monitorDone,
  cutShort,          \* history: a hard cancel came before SteadyStopped
  recordGate,        \* RecordGate is held by the worker
  publishing,        \* the worker is inside QcaUartPublishProbe
  registry,          \* last record written, with the session it was of
  wrk, mon,          \* where the two threads of each session are
  threads,           \* g_DeckBtProbeThreads: the threads unload has to join
  pnp,               \* where the callbacks are, and unload after them
  next,              \* what follows the stop under way
  removing,          \* surprise removal: the device will not start again
  backendPrepared,   \* BackendPrepared
  rearm,             \* RearmOnD0Entry
  lastEntry,         \* outcome of the last start or D0 entry
  child,             \* UsbDevice: the session that plugged it in, 0 for none
  plugGate           \* PlugGate is held by the worker

flagVars   == <<probeActive, stopRequested, reportingStopped>>
eventVars  == <<probeStop, steadyReady, shutdownEvent, steadyStopped, probeDone,
                monitorDone>>
reportVars == <<recordGate, publishing, registry>>
pnpVars    == <<pnp, next, removing, rearm, lastEntry>>
plugVars   == <<backendPrepared, child, plugGate>>
vars == <<armed, flagVars, eventVars, cutShort, reportVars, wrk, mon, threads,
          pnpVars, plugVars>>

Final == {"released", "abandoned"}

\* A worker or a monitor that may still touch the shared state.
Live(pc) == pc \notin {"none", "retired"}

Unloading == pnp \in {"rundown", "joining", "unloaded"}

FlagTypes ==
  /\ probeActive \in BOOLEAN /\ stopRequested \in BOOLEAN
  /\ reportingStopped \in BOOLEAN /\ cutShort \in BOOLEAN

EventTypes ==
  /\ probeStop \in BOOLEAN /\ steadyReady \in BOOLEAN
  /\ shutdownEvent \in BOOLEAN /\ steadyStopped \in BOOLEAN
  /\ probeDone \in BOOLEAN /\ monitorDone \in BOOLEAN

GateTypes ==
  /\ recordGate \in BOOLEAN /\ publishing \in BOOLEAN
  /\ plugGate \in BOOLEAN /\ backendPrepared \in BOOLEAN
  /\ removing \in BOOLEAN /\ rearm \in BOOLEAN

TypeOK ==
  /\ FlagTypes /\ EventTypes /\ GateTypes
  /\ armed \in 0..MaxSessions
  /\ registry \in [session: 0..MaxSessions,
                   completion: {"none", "inProgress"} \cup Final]
  /\ wrk \in [Session -> {"none", "bringup", "answered", "ready", "plugging",
                          "steady", "closing", "releasing", "report", "signal",
                          "finish", "done", "retired"}]
  /\ mon \in [Session -> {"none", "create", "insert", "watch", "serve", "shutdown",
                          "judge", "cancel", "report", "retired"}]
  /\ pnp \in {"off", "d0", "dx", "stop", "stopWait", "release", "removed"}
                \cup {"rundown", "joining", "unloaded"}
  /\ threads \subseteq {"worker", "monitor"} \X Session
  /\ next \in {"none", "dx", "final", "release"}
  /\ lastEntry \in {"none", "started", "rearmed", "skipped", "failed"}
  /\ child \in 0..MaxSessions

Init ==
  /\ armed = 0
  /\ probeActive = FALSE /\ stopRequested = FALSE /\ reportingStopped = FALSE
  /\ probeStop = FALSE /\ steadyReady = FALSE /\ shutdownEvent = FALSE
  /\ steadyStopped = FALSE /\ probeDone = FALSE /\ monitorDone = FALSE
  /\ cutShort = FALSE
  /\ recordGate = FALSE /\ publishing = FALSE
  /\ registry = [session |-> 0, completion |-> "none"]
  /\ wrk = [s \in Session |-> "none"] /\ mon = [s \in Session |-> "none"]
  /\ threads = {}
  /\ pnp = "off" /\ next = "none" /\ removing = FALSE
  /\ rearm = FALSE /\ lastEntry = "none"
  /\ backendPrepared = FALSE /\ child = 0 /\ plugGate = FALSE

-----------------------------------------------------------------------------
(***************************************************************************)
(* Signals shared by the callbacks and the monitor.                        *)
(***************************************************************************)

\* QcaUartCancelProbe, and the deadline of QcaUartRequestBudget.
HardStop ==
  /\ stopRequested' = TRUE /\ probeStop' = TRUE
  /\ cutShort' = (cutShort \/ ~steadyStopped)

BugNoProbeStop ==
  /\ stopRequested' = (stopRequested \/ probeActive)
  /\ cutShort' = (cutShort \/ (probeActive /\ ~steadyStopped))
  /\ UNCHANGED probeStop

CancelProbe ==
  IF probeActive THEN HardStop
                 ELSE UNCHANGED <<stopRequested, probeStop, cutShort>>

Report(s, completion) ==
  registry' = [session |-> s, completion |-> completion]

-----------------------------------------------------------------------------
(***************************************************************************)
(* QcaUartProbeWorker, step by step.                                       *)
(***************************************************************************)
WorkerMoves(s, from, to) ==
  /\ wrk[s] = from /\ ~publishing
  /\ wrk' = [wrk EXCEPT ![s] = to]

\* QcaUartPublishProbe takes the gate, and gives up once reporting is over.
MayPublish == ~reportingStopped /\ ~stopRequested

PublishBegin(s) ==
  /\ wrk[s] \in {"bringup", "steady", "closing", "report"}
  /\ ~publishing /\ ~recordGate /\ MayPublish
  /\ recordGate' = TRUE /\ publishing' = TRUE
  /\ UNCHANGED <<armed, threads, flagVars, eventVars, cutShort, registry, wrk, mon,
                 pnpVars, plugVars>>

PublishEnd(s) ==
  /\ publishing /\ wrk[s] \in {"bringup", "steady", "closing", "report"}
  /\ recordGate' = FALSE /\ publishing' = FALSE
  /\ IF wrk[s] = "report"
     THEN /\ Report(armed, "released")
          /\ reportingStopped' = TRUE
          /\ wrk' = [wrk EXCEPT ![s] = "signal"]
     ELSE /\ Report(armed, "inProgress")
          /\ UNCHANGED <<reportingStopped, wrk>>
  /\ UNCHANGED <<armed, threads, probeActive, stopRequested, eventVars, cutShort, mon,
                 pnpVars, plugVars>>

\* The final record is suppressed: the monitor speaks for the session.
PublishSkipped(s) ==
  /\ WorkerMoves(s, "report", "signal")
  /\ ~MayPublish
  /\ UNCHANGED <<armed, threads, flagVars, eventVars, cutShort, reportVars, mon, pnpVars,
                 plugVars>>

\* The last of the bring-up's checks for a stop is passed.
WorkerAnswered(s) ==
  /\ WorkerMoves(s, "bringup", "answered")
  /\ ~stopRequested
  /\ UNCHANGED <<armed, threads, flagVars, eventVars, cutShort, reportVars, mon, pnpVars,
                 plugVars>>

WorkerFails(s) ==
  /\ WorkerMoves(s, "bringup", "releasing")
  /\ UNCHANGED <<armed, threads, flagVars, eventVars, cutShort, reportVars, mon, pnpVars,
                 plugVars>>

\* QcaUartRequestBudget finds the bring-up or the handback over its deadline.
WorkerDeadline(s) ==
  /\ wrk[s] \in {"bringup", "closing"} /\ ~publishing /\ ~stopRequested
  /\ HardStop
  /\ UNCHANGED <<armed, threads, probeActive, reportingStopped, steadyReady,
                 shutdownEvent, steadyStopped, probeDone, monitorDone,
                 reportVars, wrk, mon, pnpVars, plugVars>>

\* QcaUartServeSteady: the bridge is ready.
WorkerReady(s) ==
  /\ WorkerMoves(s, "answered", "ready")
  /\ steadyReady' = TRUE
  /\ UNCHANGED <<armed, threads, flagVars, probeStop, shutdownEvent, steadyStopped,
                 probeDone, monitorDone, cutShort, reportVars, mon, pnpVars,
                 plugVars>>

BugPlugsAnyway(s) ==
  /\ ~plugGate
  /\ WorkerMoves(s, "ready", "plugging") /\ plugGate' = TRUE /\ child' = 0
  /\ UNCHANGED <<armed, threads, flagVars, eventVars, cutShort, reportVars, mon, pnpVars,
                 backendPrepared>>

\* DeckBtPublishUartDevice up to the creation of the child: a child of an
\* earlier session is unplugged.
PlugBegin(s) ==
  /\ ~plugGate
  /\ \/ /\ backendPrepared
        /\ WorkerMoves(s, "ready", "plugging")
        /\ plugGate' = TRUE /\ child' = 0
     \/ /\ ~backendPrepared
        /\ WorkerMoves(s, "ready", "closing")
        /\ UNCHANGED <<plugGate, child>>
  /\ UNCHANGED <<armed, threads, flagVars, eventVars, cutShort, reportVars, mon, pnpVars,
                 backendPrepared>>

PlugEnd(s) ==
  /\ plugGate' = FALSE
  /\ \/ WorkerMoves(s, "plugging", "steady") /\ child' = s
     \/ WorkerMoves(s, "plugging", "closing") /\ UNCHANGED child
  /\ UNCHANGED <<armed, threads, flagVars, eventVars, cutShort, reportVars, mon, pnpVars,
                 backendPrepared>>

\* The steady loop ends; the bridge is closed and the handback begins.
WorkerWoken(s) ==
  /\ shutdownEvent \/ probeStop
  /\ WorkerMoves(s, "steady", "closing")
  /\ UNCHANGED <<armed, threads, flagVars, eventVars, cutShort, reportVars, mon, pnpVars,
                 plugVars>>

WorkerHandsBack(s) ==
  /\ WorkerMoves(s, "closing", "releasing")
  /\ UNCHANGED <<armed, threads, flagVars, eventVars, cutShort, reportVars, mon, pnpVars,
                 plugVars>>

\* QcaUartReleaseHardware returns once the lower stack gave back every request.
WorkerReleases(s) ==
  /\ WorkerMoves(s, "releasing", "report")
  /\ UNCHANGED <<armed, threads, flagVars, eventVars, cutShort, reportVars, mon, pnpVars,
                 plugVars>>

WorkerSignals(s) ==
  /\ WorkerMoves(s, "signal", "finish")
  /\ steadyStopped' = TRUE
  /\ UNCHANGED <<armed, threads, flagVars, probeStop, steadyReady, shutdownEvent,
                 probeDone, monitorDone, cutShort, reportVars, mon, pnpVars,
                 plugVars>>

WorkerDone(s) ==
  /\ WorkerMoves(s, "finish", "done")
  /\ probeDone' = TRUE
  /\ UNCHANGED <<armed, threads, flagVars, probeStop, steadyReady, shutdownEvent,
                 steadyStopped, monitorDone, cutShort, reportVars, mon, pnpVars,
                 plugVars>>

BugLeavesMonitor(s) ==
  /\ WorkerMoves(s, "done", "retired")
  /\ probeActive' = FALSE
  /\ UNCHANGED <<armed, threads, stopRequested, reportingStopped, eventVars, cutShort,
                 reportVars, mon, pnpVars, plugVars>>

WorkerRetires(s) ==
  /\ WorkerMoves(s, "done", "retired")
  /\ monitorDone
  /\ probeActive' = FALSE
  /\ UNCHANGED <<armed, threads, stopRequested, reportingStopped, eventVars, cutShort,
                 reportVars, mon, pnpVars, plugVars>>

\* The steps that need neither the UART nor another thread to give way.
WorkerStep(s) ==
  \/ PublishBegin(s) \/ PublishEnd(s) \/ PublishSkipped(s)
  \/ WorkerAnswered(s) \/ WorkerFails(s) \/ WorkerDeadline(s) \/ WorkerReady(s)
  \/ PlugBegin(s) \/ PlugEnd(s)
  \/ WorkerWoken(s) \/ WorkerHandsBack(s) \/ WorkerReleases(s)
  \/ WorkerSignals(s) \/ WorkerDone(s) \/ WorkerRetires(s)

-----------------------------------------------------------------------------
(***************************************************************************)
(* QcaUartProbeMonitor, step by step.                                      *)
(***************************************************************************)
MonitorMoves(s, from, to) ==
  /\ mon[s] = from
  /\ mon' = [mon EXCEPT ![s] = to]

\* DeckBtCreateProbeThread, under rundown protection: refused once unload has
\* begun; the new thread runs before it is in the list.
MonitorCreates(s) ==
  /\ MonitorMoves(s, "create", "insert") /\ ~Unloading
  /\ wrk' = [wrk EXCEPT ![s] = "bringup"]
  /\ UNCHANGED <<armed, threads, flagVars, eventVars, cutShort, reportVars, pnpVars,
                 plugVars>>

MonitorInserts(s) ==
  /\ MonitorMoves(s, "insert", "watch")
  /\ threads' = threads \cup {<<"worker", s>>}
  /\ UNCHANGED <<armed, flagVars, eventVars, cutShort, reportVars, wrk, pnpVars,
                 plugVars>>

MonitorCannotCreate(s) ==
  /\ MonitorMoves(s, "create", "retired")
  /\ Report(armed, "released")
  /\ probeActive' = FALSE
  /\ UNCHANGED <<armed, threads, stopRequested, reportingStopped, eventVars, cutShort,
                 recordGate, publishing, wrk, pnpVars, plugVars>>

\* One of its three waits is satisfied, or runs out of time.
MonitorWakes(s) ==
  /\ \/ probeDone /\ \E w \in {"watch", "serve", "shutdown"} :
                       MonitorMoves(s, w, "judge")
     \/ probeStop /\ \E w \in {"watch", "serve", "shutdown"} :
                       MonitorMoves(s, w, "cancel")
     \/ steadyReady /\ MonitorMoves(s, "watch", "serve")
     \/ shutdownEvent /\ MonitorMoves(s, "serve", "shutdown")
  /\ UNCHANGED <<armed, threads, flagVars, eventVars, cutShort, reportVars, wrk, pnpVars,
                 plugVars>>

MonitorTimesOut(s) ==
  /\ \E w \in {"watch", "shutdown"} : MonitorMoves(s, w, "cancel")
  /\ UNCHANGED <<armed, threads, flagVars, eventVars, cutShort, reportVars, wrk, pnpVars,
                 plugVars>>

BugTrustsDone(s) ==
  /\ MonitorMoves(s, "judge", "retired") /\ monitorDone' = TRUE
  /\ UNCHANGED <<armed, threads, flagVars, probeStop, steadyReady, shutdownEvent,
                 steadyStopped, probeDone, cutShort, reportVars, wrk, pnpVars,
                 plugVars>>

\* ProbeDone alone does not acquit: a stop may have suppressed the last record.
MonitorJudges(s) ==
  /\ \/ stopRequested /\ MonitorMoves(s, "judge", "cancel")
                      /\ UNCHANGED monitorDone
     \/ ~stopRequested /\ MonitorMoves(s, "judge", "retired")
                       /\ monitorDone' = TRUE
  /\ UNCHANGED <<armed, threads, flagVars, probeStop, steadyReady, shutdownEvent,
                 steadyStopped, probeDone, cutShort, reportVars, wrk, pnpVars,
                 plugVars>>

MonitorCancels(s) ==
  /\ MonitorMoves(s, "cancel", "report")
  /\ CancelProbe
  /\ UNCHANGED <<armed, threads, probeActive, reportingStopped, steadyReady,
                 shutdownEvent, steadyStopped, probeDone, monitorDone,
                 reportVars, wrk, pnpVars, plugVars>>

BugNoGate(s) ==
  /\ MonitorMoves(s, "report", "retired")
  /\ monitorDone' = TRUE /\ reportingStopped' = TRUE
  /\ IF reportingStopped THEN UNCHANGED registry ELSE Report(armed, "abandoned")
  /\ UNCHANGED <<armed, threads, probeActive, stopRequested, probeStop, steadyReady,
                 shutdownEvent, steadyStopped, probeDone, cutShort, recordGate,
                 publishing, wrk, pnpVars, plugVars>>

\* Under the gate, so after a publication already in progress.
MonitorReports(s) ==
  /\ ~recordGate
  /\ MonitorMoves(s, "report", "retired")
  /\ monitorDone' = TRUE /\ reportingStopped' = TRUE
  /\ IF reportingStopped THEN UNCHANGED registry ELSE Report(armed, "abandoned")
  /\ UNCHANGED <<armed, threads, probeActive, stopRequested, probeStop, steadyReady,
                 shutdownEvent, steadyStopped, probeDone, cutShort, recordGate,
                 publishing, wrk, pnpVars, plugVars>>

MonitorStep(s) ==
  \/ MonitorCreates(s) \/ MonitorInserts(s) \/ MonitorCannotCreate(s)
  \/ MonitorWakes(s) \/ MonitorTimesOut(s) \/ MonitorJudges(s)
  \/ MonitorCancels(s) \/ MonitorReports(s)

-----------------------------------------------------------------------------
(***************************************************************************)
(* QcaUartArmStored on behalf of a caller that found ProbeActive clear.    *)
(***************************************************************************)
ArmFlags ==
  /\ armed < MaxSessions /\ armed' = armed + 1
  /\ stopRequested' = FALSE /\ reportingStopped' = FALSE
  /\ probeStop' = FALSE /\ steadyReady' = FALSE /\ shutdownEvent' = FALSE
  /\ steadyStopped' = FALSE /\ probeDone' = FALSE /\ monitorDone' = FALSE
  /\ cutShort' = FALSE

ArmSucceeds ==
  /\ ArmFlags
  /\ probeActive' = TRUE
  /\ mon' = [mon EXCEPT ![armed + 1] = "create"]
  /\ threads' = threads \cup {<<"monitor", armed + 1>>}
  /\ UNCHANGED <<reportVars, wrk>>

\* The monitor cannot be created.
ArmFails ==
  /\ ArmFlags
  /\ Report(armed + 1, "released")
  /\ UNCHANGED <<threads, probeActive, recordGate, publishing, wrk, mon>>

\* No serial connection among the resources: recorded, and nothing started.
ArmWithoutSerial ==
  /\ armed < MaxSessions /\ armed' = armed + 1
  /\ Report(armed + 1, "released")
  /\ UNCHANGED <<threads, flagVars, eventVars, cutShort, recordGate, publishing, wrk,
                 mon>>

\* QcaUartArmProbe takes the claim, or finds it taken, and looks for a serial
\* connection among the resources.
ArmProbe == ~probeActive /\ (ArmSucceeds \/ ArmWithoutSerial)

-----------------------------------------------------------------------------
(***************************************************************************)
(* The callbacks of the framework, one at a time.                          *)
(***************************************************************************)
Untouched == UNCHANGED <<armed, threads, flagVars, eventVars, cutShort, reportVars,
                         wrk, mon>>

\* DeckBtEvtDevicePrepareHardware with the UART backend, then the first D0
\* entry.  A start that fails is undone through ReleaseHardware.
PrepareHardware ==
  /\ pnp = "off" /\ ~removing
  /\ \/ /\ probeActive
        /\ pnp' = "stop" /\ next' = "release" /\ backendPrepared' = FALSE
        /\ Untouched /\ UNCHANGED lastEntry
     \/ /\ ArmProbe
        /\ pnp' = "d0" /\ lastEntry' = "started" /\ backendPrepared' = TRUE
        /\ UNCHANGED next
     \/ /\ ~probeActive /\ ArmFails
        /\ pnp' = "stop" /\ next' = "release" /\ backendPrepared' = FALSE
        /\ UNCHANGED lastEntry
  /\ UNCHANGED <<removing, rearm, child, plugGate>>

\* DeckBtEvtControllerD0Exit decides about the re-arm, then requests the stop.
D0Exit(target) ==
  /\ pnp = "d0" /\ (removing => target = "final")
  /\ rearm' = (target = "dx" /\ backendPrepared /\ child # 0)
  /\ pnp' = "stop" /\ next' = target
  /\ Untouched /\ UNCHANGED <<removing, lastEntry, plugVars>>

D0Entry ==
  /\ pnp = "dx" /\ pnp' = "d0" /\ rearm' = FALSE
  /\ \/ ~rearm /\ Untouched /\ lastEntry' = "skipped"
     \/ rearm /\ probeActive /\ Untouched /\ lastEntry' = "failed"
     \/ rearm /\ ~probeActive /\ ArmSucceeds /\ lastEntry' = "rearmed"
     \/ rearm /\ ~probeActive /\ ArmFails /\ lastEntry' = "failed"
  /\ UNCHANGED <<next, removing, plugVars>>

\* Removal of a sleeping device.
RemoveAsleep ==
  /\ pnp = "dx" /\ pnp' = "stop" /\ next' = "release"
  /\ Untouched /\ UNCHANGED <<removing, rearm, lastEntry, plugVars>>

SurpriseRemoval ==
  /\ pnp = "d0" /\ ~removing /\ removing' = TRUE
  /\ CancelProbe
  /\ UNCHANGED <<armed, threads, probeActive, reportingStopped, steadyReady,
                 shutdownEvent, steadyStopped, probeDone, monitorDone,
                 reportVars, wrk, mon, pnp, next, rearm, lastEntry, plugVars>>

\* DeckBtEvtControllerCleanup.
Cleanup ==
  /\ pnp = "off" /\ pnp' = "removed"
  /\ CancelProbe
  /\ UNCHANGED <<armed, threads, probeActive, reportingStopped, steadyReady,
                 shutdownEvent, steadyStopped, probeDone, monitorDone,
                 reportVars, wrk, mon, next, removing, rearm, lastEntry,
                 plugVars>>

\* Where a callback goes on once QcaUartRequestStop returns.
StopReturns ==
  /\ pnp'  = CASE next = "dx"      -> "dx"
               [] next = "final"   -> "stop"
               [] next = "release" -> "release"
  /\ next' = IF next = "final" THEN "release" ELSE "none"

\* QcaUartRequestStop.
StopNotNeeded ==
  /\ pnp = "stop" /\ ~probeActive
  /\ StopReturns
  /\ Untouched /\ UNCHANGED <<removing, rearm, lastEntry, plugVars>>

StopHard ==
  /\ pnp = "stop" /\ probeActive /\ ~steadyReady
  /\ StopReturns
  /\ CancelProbe
  /\ UNCHANGED <<armed, threads, probeActive, reportingStopped, steadyReady,
                 shutdownEvent, steadyStopped, probeDone, monitorDone,
                 reportVars, wrk, mon, removing, rearm, lastEntry, plugVars>>

StopGracefully ==
  /\ pnp = "stop" /\ probeActive /\ steadyReady
  /\ pnp' = "stopWait" /\ shutdownEvent' = TRUE
  /\ UNCHANGED <<armed, threads, flagVars, probeStop, steadyReady, steadyStopped,
                 probeDone, monitorDone, cutShort, reportVars, wrk, mon, next,
                 removing, rearm, lastEntry, plugVars>>

StopConfirmed ==
  /\ pnp = "stopWait" /\ steadyStopped
  /\ StopReturns
  /\ Untouched /\ UNCHANGED <<removing, rearm, lastEntry, plugVars>>

BugWaitsForever == pnp = "stopWait" /\ FALSE /\ UNCHANGED vars

StopEscalates ==
  /\ pnp = "stopWait"
  /\ StopReturns
  /\ CancelProbe
  /\ UNCHANGED <<armed, threads, probeActive, reportingStopped, steadyReady,
                 shutdownEvent, steadyStopped, probeDone, monitorDone,
                 reportVars, wrk, mon, removing, rearm, lastEntry, plugVars>>

\* DeckBtEvtDeviceReleaseHardware after its stop: under PlugGate.
ReleaseHardware ==
  /\ pnp = "release" /\ ~plugGate
  /\ pnp' = "off" /\ backendPrepared' = FALSE /\ child' = 0
  /\ Untouched /\ UNCHANGED <<next, removing, rearm, lastEntry, plugGate>>

(***************************************************************************)
(* DeckBtEvtDriverUnload, once the devices are gone: no thread is created  *)
(* behind the rundown, and those in the list are joined.                   *)
(***************************************************************************)
Unload ==
  /\ pnp = "removed" /\ pnp' = "rundown"
  /\ Untouched /\ UNCHANGED <<next, removing, rearm, lastEntry, plugVars>>

UnloadWaits ==
  /\ pnp = "rundown" /\ \A s \in Session : mon[s] # "insert"
  /\ pnp' = "joining"
  /\ Untouched /\ UNCHANGED <<next, removing, rearm, lastEntry, plugVars>>

BugNoJoin ==
  /\ pnp = "joining"
  /\ \E t \in threads : threads' = threads \ {t}
  /\ UNCHANGED <<armed, flagVars, eventVars, cutShort, reportVars, wrk, mon, pnpVars,
                 plugVars>>

\* An entry leaves the list once its thread has ended; the order is left open.
UnloadJoins ==
  /\ pnp = "joining"
  /\ \E s \in Session :
       \/ ~Live(wrk[s]) /\ <<"worker", s>> \in threads
                       /\ threads' = threads \ {<<"worker", s>>}
       \/ ~Live(mon[s]) /\ <<"monitor", s>> \in threads
                       /\ threads' = threads \ {<<"monitor", s>>}
  /\ UNCHANGED <<armed, flagVars, eventVars, cutShort, reportVars, wrk, mon, pnpVars,
                 plugVars>>

UnloadReturns ==
  /\ pnp = "joining" /\ threads = {} /\ pnp' = "unloaded"
  /\ Untouched /\ UNCHANGED <<next, removing, rearm, lastEntry, plugVars>>

UnloadStep == UnloadWaits \/ UnloadJoins \/ UnloadReturns

\* The steps that finish a callback already begun.
CallbackStep ==
  \/ StopNotNeeded \/ StopHard \/ StopGracefully \/ StopConfirmed
  \/ StopEscalates \/ ReleaseHardware

PowerStep ==
  \/ PrepareHardware \/ D0Exit("dx") \/ D0Exit("final") \/ D0Entry
  \/ RemoveAsleep \/ SurpriseRemoval \/ Cleanup

Next ==
  \/ \E s \in Session : WorkerStep(s) \/ MonitorStep(s)
  \/ CallbackStep \/ PowerStep \/ Unload \/ UnloadStep

Spec == Init /\ [][Next]_vars

(***************************************************************************)
(* Fairness.  A callback goes on when it can, and creating the USB child   *)
(* takes bounded time (at most 20 attempts); that much even a lower stack  *)
(* that never completes a request cannot prevent.                          *)
(***************************************************************************)
CallbackFairness ==
  /\ WF_vars(CallbackStep) /\ WF_vars(UnloadStep)
  /\ \A s \in Session : WF_vars(PlugEnd(s))

CallbackSpec == Spec /\ CallbackFairness

(***************************************************************************)
(* With a lower stack that completes what is cancelled, both threads move. *)
(***************************************************************************)
ThreadFairness ==
  \A s \in Session : WF_vars(WorkerStep(s)) /\ WF_vars(MonitorStep(s))

-----------------------------------------------------------------------------
(***************************************************************************)
(* A thread that may still touch the shared state belongs to the session   *)
(* that holds the claim: no two workers share the UART, and no monitor     *)
(* that outlived its session cancels or reports a later one.               *)
(***************************************************************************)
ThreadsOwnTheSession ==
  \A s \in Session :
    Live(wrk[s]) \/ Live(mon[s]) => probeActive /\ s = armed

(***************************************************************************)
(* "A committed released record is final; cancellation cannot overwrite    *)
(* it" (QcaUartProbeMonitor), nor a late progress report an abandonment.   *)
(***************************************************************************)
FinalRecordStands ==
  [][registry.completion \in Final /\ registry'.session = registry.session
       => registry' = registry]_vars

(***************************************************************************)
(* Every session that gave up its claim left a final record of its own,    *)
(* whoever stopped it and whichever thread had to speak; and a graceful    *)
(* stop is never reported as unconfirmed: an abandoned record means that a *)
(* hard cancel or a deadline came before SteadyStopped, not after it (the  *)
(* comment in QcaUartProbeWorker).                                         *)
(***************************************************************************)
EverySessionReported ==
  /\ TypeOK
  /\ armed # 0 /\ ~probeActive
       => registry.session = armed /\ registry.completion \in Final
  /\ registry = [session |-> armed, completion |-> "abandoned"] => cutShort

(***************************************************************************)
(* The worker cannot plug a child in behind ReleaseHardware.               *)
(***************************************************************************)
NoChildBehindRelease == pnp \in {"off", "removed"} \/ Unloading => child = 0

(***************************************************************************)
(* The image is not unloaded under a thread: "Rundown release precedes     *)
(* thread return.  Join real thread objects before unloading code"         *)
(* (DeckBtEvtDriverUnload), also one whose creator was still at it.        *)
(***************************************************************************)
NoThreadBehindUnload ==
  pnp = "unloaded" => \A s \in Session : ~Live(wrk[s]) /\ ~Live(mon[s])

(***************************************************************************)
(* A radio BTHUSB can see after a resume has a session behind it, or one   *)
(* being re-armed: the stop did not overlook it.                           *)
(***************************************************************************)
RadioNotForgotten == pnp = "d0" /\ lastEntry = "skipped" => child = 0

(***************************************************************************)
(* Liveness: no PnP or power callback waits for the lower stack; each one  *)
(* returns even when the worker never moves again.                         *)
(***************************************************************************)
InCallback == pnp \in {"stop", "stopWait", "release"}

CallbacksReturn == InCallback ~> ~InCallback

(***************************************************************************)
(* Liveness: with a lower stack that completes what is cancelled, a hard   *)
(* cancel reaches a worker wherever it is, and the claim on the UART is    *)
(* given up; unload, which may wait for it, then returns.                  *)
(***************************************************************************)
CancelledSessionRetires ==
  ThreadFairness => /\ (probeActive /\ stopRequested) ~> ~probeActive
                    /\ pnp = "rundown" ~> pnp = "unloaded"
=============================================================================
