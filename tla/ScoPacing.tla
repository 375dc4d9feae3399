----------------------------- MODULE ScoPacing ------------------------------
(***************************************************************************)
(* The pacing of voice on the isochronous endpoints: the SCO part of       *)
(* src/src/driver/endpoints.c over the clock and the OUT ring of           *)
(* src/src/common/sco_usb.c.                                               *)
(*                                                                         *)
(* Four kinds of actors share the ring, the two clocks and the flag        *)
(* ScoTimerArmed under the controller lock, and the two parking queues     *)
(* outside it: the queue callbacks that accept a transfer, one per         *)
(* transfer in parallel; the timer callback, which the framework does not  *)
(* serialise (AutomaticSerialization = FALSE); the flush that ends a voice *)
(* stream; and the host cancelling a parked transfer.  A step is what one  *)
(* actor does between two lock or queue operations.                        *)
(*                                                                         *)
(* Time is counted in frames.  A packet that carries no voice and one that *)
(* is refused as malformed both take one frame and queue nothing.  The     *)
(* framing of the bytes and the statistics are left out.                   *)
(*                                                                         *)
(* A definition BugXxx is a variant of the next definition with a          *)
(* plausible mistake, used only to show which property notices it.         *)
(***************************************************************************)
EXTENDS Naturals, Sequences, FiniteSets, SequencesExt

CONSTANTS
  Transfer,     \* isochronous transfers the host submits, OUT or IN
  Shape,        \* the packets of each transfer, "voice" or "empty"
  VoiceSpan,    \* ScoUsbOutPacketSpan of a packet with voice, in frames
  RingSlots,    \* SCO_USB_OUT_RING_SLOTS
  MaxTime,      \* bound: the clock stops here
  MaxFlushes    \* bound: voice streams ended

Dir == {"out", "in"}

ASSUME PacingAssumption ==
  /\ IsFiniteSet(Transfer)
  /\ Shape \in [Transfer -> Seq({"voice", "empty"}) \ {<< >>}]
  /\ VoiceSpan \in Nat \ {0} /\ RingSlots \in Nat \ {0}
  /\ MaxTime \in Nat /\ MaxFlushes \in Nat

VARIABLES
  now,          \* DeckBtScoNow
  nextFree,     \* ScoOutClock.NextFree and ScoInClock.NextFree
  ring,         \* ScoOut.Ring: chunks of voice, oldest first
  queue,        \* ScoOutQueue and ScoInQueue: parked transfers
  armed,        \* ScoTimerArmed
  timerQueued,  \* the timer is set
  acc,          \* where the callback accepting each transfer is
  tick,         \* where the timer callback is
  tickNow,      \* the time it took at its start, 0 between ticks
  flush,        \* where the flush is
  stage,        \* what became of each transfer
  slot,         \* context of each transfer: direction, arrival, span and Due
  stream        \* voice streams ended so far; a transfer belongs to one

timerVars == <<armed, timerQueued>>
tickVars  == <<tick, tickNow>>
vars == <<now, nextFree, ring, queue, timerVars, acc, tickVars, flush, stage,
          slot, stream>>

NoSlot == [dir |-> "out", stream |-> 0, arrived |-> 0, span |-> 0, due |-> 0]

DirOf(t) == slot[t].dir

TypeOK ==
  /\ now \in Nat /\ tickNow \in Nat /\ stream \in 0..MaxFlushes
  /\ nextFree \in [Dir -> Nat]
  /\ ring \in Seq([xfer: Transfer, due: Nat]) /\ Len(ring) <= RingSlots
  /\ queue \in [Dir -> Seq(Transfer)]
  /\ armed \in BOOLEAN /\ timerQueued \in BOOLEAN
  /\ acc \in [Transfer -> {"new", "park", "kick", "start", "returned"}]
  /\ tick \in {"idle", "voice", "out", "in", "check", "restart"}
  /\ flush \in {"idle", "out", "in", "reset"}
  /\ stage \in [Transfer -> {"none", "scheduled", "parked", "completed",
                             "unpaced", "cancelled"}]
  /\ slot \in [Transfer -> [dir: Dir, stream: 0..MaxFlushes, arrived: Nat,
                            span: Nat, due: Nat]]

Init ==
  /\ now = 0 /\ tickNow = 0 /\ stream = 0
  /\ nextFree = [d \in Dir |-> 0]
  /\ ring = << >> /\ queue = [d \in Dir |-> << >>]
  /\ armed = FALSE /\ timerQueued = FALSE
  /\ acc = [t \in Transfer |-> "new"] /\ stage = [t \in Transfer |-> "none"]
  /\ slot = [t \in Transfer |-> NoSlot]
  /\ tick = "idle" /\ flush = "idle"

-----------------------------------------------------------------------------
(***************************************************************************)
(* DeckBtScoAccept.                                                        *)
(***************************************************************************)
Later(a, b) == IF a >= b THEN a ELSE b

BugIgnoresClock(d) == now

\* ScoUsbSchedule: where the slot of a transfer arriving now begins.
SlotStart(d) == Later(nextFree[d], now)

\* The air time of the first n packets of OUT transfer t.
AirTime(t, n) ==
  LET voice == {i \in 1..n : Shape[t][i] = "voice"}
  IN  VoiceSpan * Cardinality(voice) + (n - Cardinality(voice))

Span(t, d) ==
  IF d = "out" THEN AirTime(t, Len(Shape[t])) ELSE Len(Shape[t])

\* The voice of an OUT transfer, each packet due at the end of its own frame,
\* in the order of the packets (the only member).
Chunks(t, start) ==
  LET voice == {[xfer |-> t, due |-> start + AirTime(t, i)] :
                  i \in {p \in DOMAIN Shape[t] : Shape[t][p] = "voice"}}
  IN  {c \in [1..Cardinality(voice) -> voice] :
         \A i, j \in DOMAIN c : i < j => c[i].due < c[j].due}

\* ScoUsbOutPush: a full ring loses its oldest frames.
Pushed(chunks) ==
  LET all  == ring \o chunks
      lost == IF Len(all) > RingSlots THEN Len(all) - RingSlots ELSE 0
  IN  SubSeq(all, lost + 1, Len(all))

Schedule(t, d) ==
  LET start == SlotStart(d)
      due   == start + Span(t, d)
  IN  /\ acc[t] = "new" /\ due <= MaxTime
      /\ nextFree' = [nextFree EXCEPT ![d] = due]
      /\ IF d = "out" THEN \E c \in Chunks(t, start) : ring' = Pushed(c)
                      ELSE UNCHANGED ring
      /\ slot' = [slot EXCEPT ![t] = [dir |-> d, stream |-> stream,
                                      arrived |-> now, span |-> Span(t, d),
                                      due |-> due]]
      /\ stage' = [stage EXCEPT ![t] = "scheduled"]
      /\ acc' = [acc EXCEPT ![t] = "park"]
      /\ UNCHANGED <<now, queue, timerVars, tickVars, flush, stream>>

Park(t) ==
  /\ acc[t] = "park" /\ acc' = [acc EXCEPT ![t] = "kick"]
  /\ stage' = [stage EXCEPT ![t] = "parked"]
  /\ queue' = [queue EXCEPT ![DirOf(t)] = Append(@, t)]
  /\ UNCHANGED <<now, nextFree, ring, timerVars, tickVars, flush, slot, stream>>

\* No memory for the context, or the queue refuses: completed at once.
CannotPark(t) ==
  /\ acc[t] = "park" /\ acc' = [acc EXCEPT ![t] = "kick"]
  /\ stage' = [stage EXCEPT ![t] = "unpaced"]
  /\ UNCHANGED <<now, nextFree, ring, queue, timerVars, tickVars, flush, slot,
                 stream>>

BugStartsAlways(t) ==
  /\ acc[t] = "kick" /\ armed' = TRUE
  /\ acc' = [acc EXCEPT ![t] = "start"]
  /\ UNCHANGED <<now, nextFree, ring, queue, timerQueued, tickVars, flush,
                 stage, slot, stream>>

\* DeckBtScoKick, under the lock; the timer is set after it.
Kick(t) ==
  /\ acc[t] = "kick" /\ armed' = TRUE
  /\ acc' = [acc EXCEPT ![t] = IF armed THEN "returned" ELSE "start"]
  /\ UNCHANGED <<now, nextFree, ring, queue, timerQueued, tickVars, flush,
                 stage, slot, stream>>

StartTimer(t) ==
  /\ acc[t] = "start" /\ timerQueued' = TRUE
  /\ acc' = [acc EXCEPT ![t] = "returned"]
  /\ UNCHANGED <<now, nextFree, ring, queue, armed, tickVars, flush, stage,
                 slot, stream>>

AcceptGoesOn(t) == Park(t) \/ CannotPark(t) \/ Kick(t) \/ StartTimer(t)

-----------------------------------------------------------------------------
(***************************************************************************)
(* DeckBtEvtScoTimer.                                                      *)
(***************************************************************************)
TimerFires ==
  /\ timerQueued /\ tick = "idle"
  /\ timerQueued' = FALSE
  /\ tick' = "voice" /\ tickNow' = now
  /\ UNCHANGED <<now, nextFree, ring, queue, armed, acc, flush, stage, slot,
                 stream>>

\* ScoUsbOutRelease: the voice whose frame has ended goes to the controller.
TickReleasesVoice ==
  LET ended == {i \in DOMAIN ring : \A j \in 1..i : ring[j].due <= tickNow}
  IN  /\ tick = "voice" /\ tick' = "out"
      /\ ring' = SubSeq(ring, Cardinality(ended) + 1, Len(ring))
      /\ UNCHANGED <<now, nextFree, queue, timerVars, acc, tickNow, flush, stage,
                     slot, stream>>

\* Where the tick goes once a queue holds nothing more that is due.
After(d) == IF d = "out" THEN "in" ELSE "check"

IsDue(t) == slot[t].due <= tickNow

\* DeckBtScoCompleteDue, one transfer or the end of its loop.
TickCompletes(d) ==
  /\ tick = d
  /\ IF queue[d] # << >> /\ IsDue(Head(queue[d]))
     THEN /\ queue' = [queue EXCEPT ![d] = Tail(@)]
          /\ stage' = [stage EXCEPT ![Head(queue[d])] = "completed"]
          /\ UNCHANGED tick
     ELSE tick' = After(d) /\ UNCHANGED <<queue, stage>>
  /\ UNCHANGED <<now, nextFree, ring, timerVars, acc, tickNow, flush, slot,
                 stream>>

Pending == ring # << >> \/ \E d \in Dir : queue[d] # << >>

BugForgetsIn ==
  LET some == ring # << >> \/ queue["out"] # << >>
  IN  /\ tick = "check"
      /\ tick' = IF some THEN "restart" ELSE "idle"
      /\ armed' = some /\ tickNow' = 0
      /\ UNCHANGED <<now, nextFree, ring, queue, timerQueued, acc, flush, stage,
                     slot, stream>>

TickChecks ==
  /\ tick = "check"
  /\ tick' = IF Pending THEN "restart" ELSE "idle"
  /\ armed' = Pending /\ tickNow' = 0
  /\ UNCHANGED <<now, nextFree, ring, queue, timerQueued, acc, flush, stage,
                 slot, stream>>

BugNoRestart ==
  /\ tick = "restart" /\ tick' = "idle"
  /\ UNCHANGED <<now, nextFree, ring, queue, timerVars, acc, tickNow, flush,
                 stage, slot, stream>>

TickRestarts ==
  /\ tick = "restart" /\ tick' = "idle" /\ timerQueued' = TRUE
  /\ UNCHANGED <<now, nextFree, ring, queue, armed, acc, tickNow, flush, stage,
                 slot, stream>>

Tick ==
  \/ TickReleasesVoice \/ TickChecks \/ TickRestarts
  \/ \E d \in Dir : TickCompletes(d)

-----------------------------------------------------------------------------
(***************************************************************************)
(* DeckBtScoFlush: a setting change, a reset or the end of the device.     *)
(***************************************************************************)
FlushBegins ==
  /\ flush = "idle" /\ stream < MaxFlushes /\ flush' = "out"
  /\ UNCHANGED <<now, nextFree, ring, queue, timerVars, acc, tickVars, stage,
                 slot, stream>>

FlushCancels(d) ==
  /\ flush = d
  /\ IF queue[d] # << >>
     THEN /\ queue' = [queue EXCEPT ![d] = Tail(@)]
          /\ stage' = [stage EXCEPT ![Head(queue[d])] = "cancelled"]
          /\ UNCHANGED flush
     ELSE /\ flush' = IF d = "out" THEN "in" ELSE "reset"
          /\ UNCHANGED <<queue, stage>>
  /\ UNCHANGED <<now, nextFree, ring, timerVars, acc, tickVars, slot, stream>>

FlushResets ==
  /\ flush = "reset" /\ flush' = "idle"
  /\ ring' = << >> /\ nextFree' = [d \in Dir |-> 0]
  /\ stream' = stream + 1
  /\ UNCHANGED <<now, queue, timerVars, acc, tickVars, stage, slot>>

FlushGoesOn == FlushResets \/ \E d \in Dir : FlushCancels(d)

\* The host cancels a parked transfer.
HostCancels(d) ==
  \E i \in DOMAIN queue[d] :
    /\ queue' = [queue EXCEPT ![d] = RemoveAt(@, i)]
    /\ stage' = [stage EXCEPT ![queue[d][i]] = "cancelled"]
    /\ UNCHANGED <<now, nextFree, ring, timerVars, acc, tickVars, flush, slot,
                   stream>>

TimePasses ==
  /\ now < MaxTime /\ now' = now + 1
  /\ UNCHANGED <<nextFree, ring, queue, timerVars, acc, tickVars, flush, stage,
                 slot, stream>>

Next ==
  \/ \E t \in Transfer, d \in Dir : Schedule(t, d)
  \/ \E t \in Transfer : AcceptGoesOn(t)
  \/ \E d \in Dir : HostCancels(d)
  \/ TimerFires \/ Tick
  \/ FlushBegins \/ FlushGoesOn
  \/ TimePasses

Spec == Init /\ [][Next]_vars

(***************************************************************************)
(* Fairness: threads run, a timer that is set fires, time passes.  The     *)
(* host is not obliged to submit, cancel or end anything.                  *)
(***************************************************************************)
Fairness ==
  /\ \A t \in Transfer : WF_vars(AcceptGoesOn(t))
  /\ WF_vars(TimerFires) /\ WF_vars(Tick)
  /\ WF_vars(FlushGoesOn) /\ WF_vars(TimePasses)

FairSpec == Spec /\ Fairness

-----------------------------------------------------------------------------
(***************************************************************************)
(* The flag has one owner: while it is set, exactly one of a starting      *)
(* kick, the timer and a running tick holds it, so that the unserialised   *)
(* timer callback never runs twice at once; while it is clear, none does.  *)
(***************************************************************************)
Owners ==
  {t \in Transfer : acc[t] = "start"}
    \cup (IF timerQueued THEN {"timer"} ELSE {})
    \cup (IF tick # "idle" THEN {"tick"} ELSE {})

OneOwner ==
  /\ armed => \E o \in Owners : Owners = {o}
  /\ ~armed => Owners = {}

(***************************************************************************)
(* "A transfer parked during a tick is never stranded" (DeckBtEvtScoTimer),*)
(* nor is queued voice: wherever there is work, the timer is on its way or *)
(* a callback has yet to kick it.                                          *)
(***************************************************************************)
NothingStranded ==
  Pending => armed \/ \E t \in Transfer : acc[t] \in {"park", "kick"}

(***************************************************************************)
(* "A transfer completes only once the air time it represents has passed"  *)
(* (docs/ARCHITECTURE.md), for a whole stream: the transfers of a stream   *)
(* that arrived since any point and are complete took at least their joint *)
(* air time, however they were batched; and an OUT transfer only after its *)
(* voice has left the ring, so that the host refills no sooner than the    *)
(* controller was fed.                                                     *)
(***************************************************************************)
JointSpan(S) == Cardinality(UNION {{t} \X (1..slot[t].span) : t \in S})

Since(t) ==
  {u \in Transfer : /\ stage[u] = "completed" /\ DirOf(u) = DirOf(t)
                    /\ slot[u].stream = slot[t].stream
                    /\ slot[u].arrived >= slot[t].arrived}

AirRate ==
  /\ TypeOK
  /\ \A t \in Transfer :
       stage[t] = "completed" => JointSpan(Since(t)) <= now - slot[t].arrived
  /\ \A i \in DOMAIN ring : stage[ring[i].xfer] # "completed"

(***************************************************************************)
(* Liveness: no transfer is held hostage.  Whatever ticks, flushes and     *)
(* other callbacks do meanwhile, all that were accepted complete or are    *)
(* cancelled (a transfer is submitted once, so none can take another's     *)
(* place in this).                                                         *)
(***************************************************************************)
Held(t) == stage[t] \in {"scheduled", "parked"}

EveryTransferEnds ==
  (\E t \in Transfer : Held(t)) ~> (\A t \in Transfer : ~Held(t))
=============================================================================
