---------------------------- MODULE VoiceProofs -----------------------------
(***************************************************************************)
(* Theorems about voice.                                                   *)
(*                                                                         *)
(* ScoPacing, for every set of transfers, shape, ring size and time: the   *)
(* pacing flag has exactly one owner, so that the unserialised timer       *)
(* callback never overlaps itself; nothing parked or queued is left        *)
(* without a timer; and transfers complete no faster than the air carries  *)
(* them.  None of these is inductive alone.  A tick may look past a        *)
(* transfer only because the flag is its own, which is what keeps a kick   *)
(* from starting a second timer; and the flag may be cleared only because  *)
(* the tick that clears it is its one owner.  The air rate rests on the    *)
(* disjointness of the slots, by which their frames are counted, and on    *)
(* the order of the ring, by which a tick that completes an OUT transfer   *)
(* has already handed over all of its voice.                               *)
(*                                                                         *)
(* ScoFraming, for every stream of the host, cut in any way, and every     *)
(* size of the ring: what the OUT framer emits are packets of the host,    *)
(* and a loss silences the stream no longer than to the next packet of its *)
(* link that begins an isochronous packet.  For every stream of the        *)
(* controller, what the host receives on IN are frames of the setting's    *)
(* size, voice of one link in its order in each.  Both rest on what the    *)
(* bytes that wait inside the framer are, and on what may come next.       *)
(***************************************************************************)
EXTENDS ScoPacing, ScoFraming, TLAPS, FiniteSetTheorems, FunctionTheorems,
        SequenceTheorems, WellFoundedInduction

\* Where the actors that can own the flag may be.
ActorTypes ==
  /\ armed \in BOOLEAN /\ timerQueued \in BOOLEAN
  /\ acc \in [Transfer -> {"new", "park", "kick", "start", "returned"}]
  /\ tick \in {"idle", "voice", "out", "in", "check", "restart"}

Starting == \E t \in Transfer : acc[t] = "start"

\* The flag is set exactly while somebody owns it, and the owners exclude each
\* other.
Exclusive ==
  /\ armed <=> Starting \/ timerQueued \/ tick # "idle"
  /\ Starting => ~timerQueued /\ tick = "idle"
  /\ timerQueued => tick = "idle"
  /\ \A t, u \in Transfer : acc[t] = "start" /\ acc[u] = "start" => t = u

IInv == ActorTypes /\ Exclusive /\ NothingStranded

(***************************************************************************)
(* Initially nothing is parked and nobody owns the flag.                   *)
(***************************************************************************)
LEMMA InitInv == Init => IInv
<1> SUFFICES ASSUME Init PROVE IInv
  OBVIOUS
<1>1. ActorTypes /\ Exclusive
  BY DEF Init, ActorTypes, Exclusive, Starting
<1>2. NothingStranded
  BY DEF Init, NothingStranded, Pending
<1>3. QED
  BY <1>1, <1>2 DEF IInv

(***************************************************************************)
(* The accepting callbacks (DeckBtScoAccept, DeckBtScoKickTimer).          *)
(***************************************************************************)
LEMMA AcceptStep ==
  ASSUME IInv, NEW t \in Transfer, NEW d \in Dir,
         Schedule(t, d) \/ AcceptGoesOn(t)
  PROVE  IInv'
<1> USE DEF IInv, ActorTypes, Exclusive, Starting
<1>1. CASE Schedule(t, d)
  <2>1. ActorTypes' /\ Exclusive' /\ acc'[t] = "park"
    BY <1>1 DEF Schedule, timerVars, tickVars
  <2>2. QED
    BY <2>1 DEF NothingStranded
<1>2. CASE Park(t)
  BY <1>2 DEF Park, timerVars, tickVars, NothingStranded
<1>3. CASE CannotPark(t)
  BY <1>3 DEF CannotPark, timerVars, tickVars, NothingStranded
<1>4. CASE Kick(t)
  BY <1>4 DEF Kick, timerVars, tickVars, NothingStranded
<1>5. CASE StartTimer(t)
  <2>1. ActorTypes' /\ Exclusive'
    BY <1>5 DEF StartTimer, tickVars
  <2>2. armed'
    BY <1>5 DEF StartTimer
  <2>3. QED
    BY <2>1, <2>2 DEF NothingStranded
<1>6. QED
  BY <1>1, <1>2, <1>3, <1>4, <1>5 DEF AcceptGoesOn

(***************************************************************************)
(* The timer callback (DeckBtEvtScoTimer).                                 *)
(***************************************************************************)
LEMMA TimerStep == IInv /\ (TimerFires \/ Tick) => IInv'
<1> SUFFICES ASSUME IInv, TimerFires \/ Tick PROVE IInv'
  OBVIOUS
<1> USE DEF IInv, ActorTypes, Exclusive, Starting
<1>1. CASE TimerFires
  BY <1>1 DEF TimerFires, NothingStranded
<1>2. CASE TickReleasesVoice
  BY <1>2 DEF TickReleasesVoice, timerVars, NothingStranded
<1>3. ASSUME NEW d \in Dir, TickCompletes(d) PROVE IInv'
  <2>1. tick # "idle" /\ tick' # "idle"
    BY <1>3 DEF TickCompletes, After, Dir
  <2>2. tick' \in {"out", "in", "check"}
    BY <1>3 DEF TickCompletes, After, Dir
  <2>3. QED
    BY <1>3, <2>1, <2>2 DEF TickCompletes, timerVars, NothingStranded
<1>4. CASE TickChecks
  <2>1. Pending' = Pending
    BY <1>4 DEF TickChecks, Pending
  <2>2. Pending \in BOOLEAN
    BY DEF Pending
  <2>3. QED
    BY <1>4, <2>1, <2>2 DEF TickChecks, NothingStranded
<1>5. CASE TickRestarts
  BY <1>5 DEF TickRestarts, NothingStranded
<1>6. QED
  BY <1>1, <1>2, <1>3, <1>4, <1>5 DEF Tick

(***************************************************************************)
(* The flush, the host and the clock: they own nothing, and only empty the *)
(* queues and the ring.                                                    *)
(***************************************************************************)
OthersStep ==
  \/ FlushBegins \/ FlushGoesOn \/ TimePasses
  \/ \E d \in Dir : HostCancels(d)

LEMMA OthersOnlyEmpty == OthersStep /\ Pending' => Pending
<1> SUFFICES ASSUME OthersStep, Pending' PROVE Pending
  OBVIOUS
<1>1. CASE FlushBegins \/ TimePasses
  BY <1>1 DEF FlushBegins, TimePasses, Pending
<1>2. CASE FlushResets
  BY <1>2 DEF FlushResets, Pending
<1>3. ASSUME NEW d \in Dir, FlushCancels(d) PROVE Pending
  BY <1>3 DEF FlushCancels, Pending
<1>4. ASSUME NEW d \in Dir, HostCancels(d) PROVE Pending
  BY <1>4 DEF HostCancels, Pending
<1>5. QED
  BY <1>1, <1>2, <1>3, <1>4 DEF OthersStep, FlushGoesOn

LEMMA OthersKeepOwners ==
  OthersStep => UNCHANGED <<armed, timerQueued, acc, tick>>
  BY DEF OthersStep, FlushBegins, FlushGoesOn, FlushCancels, FlushResets,
         TimePasses, HostCancels, timerVars, tickVars

(***************************************************************************)
(* The invariant is inductive.                                             *)
(***************************************************************************)
LEMMA NextInv == IInv /\ [Next]_vars => IInv'
<1> SUFFICES ASSUME IInv, [Next]_vars PROVE IInv'
  OBVIOUS
<1>1. ASSUME NEW t \in Transfer, NEW d \in Dir, Schedule(t, d) PROVE IInv'
  BY <1>1, AcceptStep
<1>2. ASSUME NEW t \in Transfer, AcceptGoesOn(t) PROVE IInv'
  BY <1>2, AcceptStep DEF Dir
<1>3. CASE TimerFires \/ Tick
  BY <1>3, TimerStep
<1>4. CASE OthersStep
  BY <1>4, OthersOnlyEmpty, OthersKeepOwners
     DEF IInv, ActorTypes, Exclusive, Starting, NothingStranded
<1>5. CASE UNCHANGED vars
  BY <1>5 DEF vars, timerVars, tickVars, IInv, ActorTypes, Exclusive,
              Starting, NothingStranded, Pending
<1>6. QED
  BY <1>1, <1>2, <1>3, <1>4, <1>5 DEF Next, OthersStep

LEMMA InductiveInvariant == Spec => []IInv
  BY InitInv, NextInv, PTL DEF Spec

(***************************************************************************)
(* While ScoTimerArmed is set, exactly one of a starting kick, the timer   *)
(* and a running tick stands behind it, and while it is clear none does:   *)
(* the timer callback, which the framework does not serialise, never runs  *)
(* twice at once (DeckBtScoKickTimer, DeckBtEvtScoTimer).                  *)
(***************************************************************************)
THEOREM TimerHasOneOwner == Spec => []OneOwner
<1>1. IInv => OneOwner
  <2> SUFFICES ASSUME IInv PROVE OneOwner
    OBVIOUS
  <2> USE DEF IInv, Exclusive, Starting, OneOwner, Owners
  <2>1. CASE ~armed
    BY <2>1
  <2>2. CASE timerQueued
    <3>1. Owners = {"timer"}
      BY <2>2
    <3>2. QED
      BY <2>2, <3>1
  <2>3. CASE tick # "idle"
    <3>1. Owners = {"tick"}
      BY <2>3
    <3>2. QED
      BY <2>3, <3>1
  <2>4. ASSUME NEW t \in Transfer, acc[t] = "start" PROVE OneOwner
    <3>1. Owners = {t}
      BY <2>4
    <3>2. QED
      BY <2>4, <3>1
  <2>5. QED
    BY <2>1, <2>2, <2>3, <2>4
<1>2. QED
  BY <1>1, InductiveInvariant, PTL

(***************************************************************************)
(* A transfer parked during a tick is never stranded (the comment at       *)
(* DeckBtEvtScoTimer), and neither is voice in the OUT ring.               *)
(***************************************************************************)
THEOREM NothingIsStranded == Spec => []NothingStranded
<1>1. IInv => NothingStranded
  BY DEF IInv
<1>2. QED
  BY <1>1, InductiveInvariant, PTL

-----------------------------------------------------------------------------
(***************************************************************************)
(* The air rate.  A slot begins no sooner than its transfer arrived and    *)
(* where the one before ends, so the slots of one direction and stream are *)
(* disjoint; a completed one is over.  The ring is in the order of its     *)
(* frames, so that what the tick leaves in it is not yet over.             *)
(***************************************************************************)
Accepted(t) == acc[t] # "new"

Apart(t, u) ==
  \/ slot[t].due + slot[u].span <= slot[u].due
  \/ slot[u].due + slot[t].span <= slot[t].due

SlotInv ==
  /\ flush # "idle" => stream < MaxFlushes
  /\ tickNow <= now
  /\ \A t \in Transfer : stage[t] = "completed" => Accepted(t) /\ slot[t].due <= now
  /\ \A t \in Transfer : Accepted(t) =>
       /\ slot[t].arrived + slot[t].span <= slot[t].due
       /\ slot[t].stream <= stream
       /\ slot[t].stream = stream => slot[t].due <= nextFree[slot[t].dir]
  /\ \A t, u \in Transfer :
       /\ Accepted(t) /\ Accepted(u) /\ t # u
       /\ slot[t].dir = slot[u].dir /\ slot[t].stream = slot[u].stream
       => Apart(t, u)

QueueInv ==
  \A d \in Dir : \A i \in DOMAIN queue[d] :
    Accepted(queue[d][i]) /\ slot[queue[d][i]].dir = d

ChunkFits(c) ==
  /\ Accepted(c.xfer) /\ slot[c.xfer].dir = "out" /\ stage[c.xfer] # "completed"
  /\ c.due <= slot[c.xfer].due /\ c.due <= nextFree["out"]

InOrderOfDue(s) == \A i, j \in DOMAIN s : i <= j => s[i].due <= s[j].due

RingInv ==
  /\ \A i \in DOMAIN ring : ChunkFits(ring[i])
  /\ InOrderOfDue(ring)
  /\ tick = "out" => \A i \in DOMAIN ring : ring[i].due > tickNow

AirInv == TypeOK /\ SlotInv /\ QueueInv /\ RingInv

Chunk == [xfer : Transfer, due : Nat]

(***************************************************************************)
(* The air time of a packet is over no sooner than the frame it takes, and *)
(* no later than that of the whole transfer.                               *)
(***************************************************************************)
LEMMA CountIs ==
  ASSUME NEW t \in Transfer, NEW n \in 0..Len(Shape[t])
  PROVE  LET c == Cardinality({i \in 1..n : Shape[t][i] = "voice"})
         IN  c \in Nat /\ c <= n /\ AirTime(t, n) = VoiceSpan * c + (n - c)
<1> DEFINE V == {i \in 1..n : Shape[t][i] = "voice"}
<1>0. n \in Nat
  BY PacingAssumption
<1>1. IsFiniteSet(1..n) /\ Cardinality(1..n) = n
  BY <1>0, FS_Interval
<1>2. IsFiniteSet(V) /\ Cardinality(V) <= n
  BY <1>1, FS_Subset
<1>3. Cardinality(V) \in Nat
  BY <1>2, FS_CardinalityType
<1>4. QED
  BY <1>2, <1>3 DEF AirTime

LEMMA AirTimeIs ==
  ASSUME NEW t \in Transfer, NEW i \in 1..Len(Shape[t])
  PROVE  LET n == Len(Shape[t])
         IN  /\ AirTime(t, i) \in Nat /\ AirTime(t, n) \in Nat
             /\ 1 <= AirTime(t, i) /\ AirTime(t, i) <= AirTime(t, n)
<1> DEFINE n == Len(Shape[t])
           V(k) == {j \in 1..k : Shape[t][j] = "voice"}
           c == Cardinality(V(i))
           m == Cardinality(V(n))
<1>1. /\ i \in Nat /\ n \in Nat /\ 1 <= i /\ i <= n
      /\ VoiceSpan \in Nat /\ 1 <= VoiceSpan
  BY PacingAssumption
<1>2. c \in Nat /\ c <= i /\ AirTime(t, i) = VoiceSpan * c + (i - c)
  BY <1>1, CountIs
<1>3. m \in Nat /\ m <= n /\ AirTime(t, n) = VoiceSpan * m + (n - m)
  BY <1>1, CountIs
<1>4. c <= m /\ m - c <= n - i
  <2>1. V(i) \subseteq V(n) /\ V(n) \ V(i) \subseteq (i + 1)..n
    BY <1>1
  <2>2. IsFiniteSet(V(n)) /\ IsFiniteSet((i + 1)..n)
    <3>1. V(n) \subseteq 1..n
      OBVIOUS
    <3>2. IsFiniteSet(1..n) /\ IsFiniteSet((i + 1)..n)
      <4>1. 1 \in Int /\ i + 1 \in Int /\ n \in Int
        BY <1>1
      <4> HIDE DEF n
      <4>2. QED
        BY <4>1, FS_Interval
    <3>3. QED
      BY <3>1, <3>2, FS_Subset
  <2>3. Cardinality((i + 1)..n) = n - i
    BY <1>1, FS_Interval
  <2>4. c <= m
    BY <2>1, <2>2, FS_Subset
  <2>5. Cardinality(V(n) \ V(i)) <= n - i
    BY <2>1, <2>2, <2>3, FS_Subset
  <2>6. Cardinality(V(n) \ V(i)) = m - c
    <3>1. V(n) \cap V(i) = V(i)
      BY <2>1
    <3>2. QED
      BY <2>2, <3>1, FS_Difference
  <2>7. QED
    BY <2>4, <2>5, <2>6
<1> HIDE DEF c, m, n
<1>5. PICK d \in Nat : m = c + d
  BY <1>2, <1>3, <1>4
<1>6. VoiceSpan * m = VoiceSpan * c + VoiceSpan * d /\ VoiceSpan * d >= d
      /\ VoiceSpan * c >= c
      /\ VoiceSpan * c \in Nat /\ VoiceSpan * d \in Nat
  BY <1>1, <1>2, <1>5
<1>7. d \in Nat /\ d <= n - i
  BY <1>1, <1>2, <1>3, <1>4, <1>5
<1> DEFINE p == VoiceSpan * c
           q == VoiceSpan * d
<1>8. /\ p \in Nat /\ q \in Nat /\ q >= d /\ p >= c
      /\ AirTime(t, i) = p + (i - c) /\ AirTime(t, n) = (p + q) + (n - (c + d))
  BY <1>2, <1>3, <1>5, <1>6
<1> HIDE DEF p, q
<1>9. /\ AirTime(t, i) \in Nat /\ AirTime(t, n) \in Nat
      /\ 1 <= AirTime(t, i) /\ AirTime(t, i) <= AirTime(t, n)
  BY <1>1, <1>2, <1>7, <1>8
<1>10. QED
  BY <1>9 DEF n

LEMMA SpanIs ==
  ASSUME NEW t \in Transfer, NEW d \in Dir
  PROVE  Span(t, d) \in Nat
<1>1. Len(Shape[t]) \in Nat /\ Len(Shape[t]) >= 1
  BY PacingAssumption
<1>2. AirTime(t, Len(Shape[t])) \in Nat
  BY <1>1, AirTimeIs
<1>3. QED
  BY <1>1, <1>2 DEF Span

(***************************************************************************)
(* The chunks of a transfer are due one after the other within its slot.   *)
(***************************************************************************)
LEMMA ChunksAre ==
  ASSUME NEW t \in Transfer, NEW start \in Nat, NEW c \in Chunks(t, start)
  PROVE  /\ c \in Seq(Chunk)
         /\ \A i \in DOMAIN c : /\ c[i].xfer = t /\ start < c[i].due
                                /\ c[i].due <= start + Span(t, "out")
         /\ \A i, j \in DOMAIN c : i <= j => c[i].due <= c[j].due
<1> DEFINE P     == {p \in DOMAIN Shape[t] : Shape[t][p] = "voice"}
           f     == [i \in P |-> [xfer |-> t, due |-> start + AirTime(t, i)]]
           voice == {[xfer |-> t, due |-> start + AirTime(t, i)] : i \in P}
<1>1. DOMAIN Shape[t] = 1..Len(Shape[t]) /\ Len(Shape[t]) \in Nat
  BY PacingAssumption
<1>2. IsFiniteSet(P)
  <2>1. IsFiniteSet(1..Len(Shape[t]))
    BY <1>1, FS_Interval
  <2>2. P \subseteq 1..Len(Shape[t])
    BY <1>1
  <2>3. QED
    BY <2>1, <2>2, FS_Subset
<1>3. f \in Surjection(P, voice)
  BY Fun_IsSurj
<1>4. Cardinality(voice) \in Nat
  BY <1>2, <1>3, FS_Surjection, FS_CardinalityType
<1>5. \A v \in voice : v \in Chunk /\ v.xfer = t /\ start < v.due
                       /\ v.due <= start + Span(t, "out")
  BY <1>1, AirTimeIs DEF Span, Chunk
<1>6. /\ c \in [1..Cardinality(voice) -> voice]
      /\ \A i, j \in DOMAIN c : i < j => c[i].due < c[j].due
  BY DEF Chunks
<1> HIDE DEF voice
<1>7. c \in Seq(voice) /\ DOMAIN c = 1..Cardinality(voice)
  BY <1>4, <1>6
<1>8. \A i \in DOMAIN c : c[i] \in voice
  BY <1>6
<1>9. c \in Seq(Chunk)
  BY <1>4, <1>5, <1>6
<1>10. \A i, j \in DOMAIN c : i <= j => c[i].due <= c[j].due
  BY <1>4, <1>5, <1>6, <1>8 DEF Chunk
<1>11. QED
  BY <1>5, <1>8, <1>9, <1>10

(***************************************************************************)
(* The ring: what a push leaves in it is the end of what was there and     *)
(* came, and what a tick leaves in it, in order, is not yet over.          *)
(***************************************************************************)
LEMMA RestIs ==
  ASSUME NEW s \in Seq(Chunk), NEW k \in Nat, k <= Len(s)
  PROVE  LET r == SubSeq(s, k + 1, Len(s))
         IN  /\ r \in Seq(Chunk) /\ Len(r) = Len(s) - k
             /\ \A i \in DOMAIN r : k + i \in DOMAIN s /\ r[i] = s[k + i]
             /\ InOrderOfDue(s) => InOrderOfDue(r)
<1> DEFINE r == SubSeq(s, k + 1, Len(s))
<1>1. Len(s) \in Nat /\ DOMAIN s = 1..Len(s)
  OBVIOUS
<1>2. /\ r \in Seq(Chunk) /\ Len(r) = Len(s) - k
      /\ \A i \in 1..Len(r) : r[i] = s[k + i]
  <2>1. \A i \in (k + 1)..Len(s) : s[i] \in Chunk
    BY <1>1
  <2>2. k + 1 \in Int /\ Len(s) \in Int
    BY <1>1
  <2>3. /\ r \in Seq(Chunk)
        /\ Len(r) = IF k + 1 <= Len(s) THEN Len(s) - (k + 1) + 1 ELSE 0
        /\ \A i \in 1..(Len(s) - (k + 1) + 1) : r[i] = s[k + 1 + i - 1]
    BY <1>1, <2>1, <2>2
  <2> HIDE DEF r
  <2>4. Len(r) = Len(s) - k /\ Len(s) - (k + 1) + 1 = Len(s) - k
    <3>1. \A n \in Nat : k <= n =>
            /\ n - (k + 1) + 1 = n - k
            /\ (IF k + 1 <= n THEN n - (k + 1) + 1 ELSE 0) = n - k
      OBVIOUS
    <3>2. QED
      BY <1>1, <2>3, <3>1
  <2>5. \A i \in Int : k + 1 + i - 1 = k + i
    OBVIOUS
  <2>6. QED
    BY <2>3, <2>4, <2>5
<1>3. DOMAIN r = 1..Len(r) /\ Len(r) \in Nat
  BY <1>2
<1> HIDE DEF r
<1>4. \A i \in DOMAIN r : k + i \in DOMAIN s /\ r[i] = s[k + i]
  BY <1>1, <1>2, <1>3
<1>5. ASSUME InOrderOfDue(s) PROVE InOrderOfDue(r)
  <2>1. \A i, j \in DOMAIN r : i <= j => k + i <= k + j
    BY <1>3
  <2>2. QED
    BY <1>4, <1>5, <2>1 DEF InOrderOfDue
<1>6. QED
  BY <1>2, <1>4, <1>5 DEF r

LEMMA PushedAre ==
  ASSUME ring \in Seq(Chunk), NEW c \in Seq(Chunk)
  PROVE  /\ Pushed(c) \in Seq(Chunk) /\ Len(Pushed(c)) <= RingSlots
         /\ \A i \in DOMAIN Pushed(c) :
              \/ \E j \in DOMAIN ring : Pushed(c)[i] = ring[j]
              \/ \E j \in DOMAIN c : Pushed(c)[i] = c[j]
         /\ InOrderOfDue(ring \o c) => InOrderOfDue(Pushed(c))
<1> DEFINE all  == ring \o c
           lost == IF Len(all) > RingSlots THEN Len(all) - RingSlots ELSE 0
<1>1. /\ all \in Seq(Chunk) /\ Len(all) = Len(ring) + Len(c)
      /\ Len(ring) \in Nat /\ Len(c) \in Nat
      /\ DOMAIN ring = 1..Len(ring) /\ DOMAIN c = 1..Len(c)
  OBVIOUS
<1>2. \A i \in 1..Len(all) :
        all[i] = IF i <= Len(ring) THEN ring[i] ELSE c[i - Len(ring)]
  BY <1>1
<1>3. DOMAIN all = 1..Len(all)
  BY <1>1
<1> HIDE DEF all
<1>4. lost \in Nat /\ lost <= Len(all) /\ Len(all) - lost <= RingSlots
  BY <1>1, PacingAssumption
<1> HIDE DEF lost
<1>5. Pushed(c) = SubSeq(all, lost + 1, Len(all))
  BY DEF Pushed, all, lost
<1>6. /\ Pushed(c) \in Seq(Chunk) /\ Len(Pushed(c)) = Len(all) - lost
      /\ \A i \in DOMAIN Pushed(c) :
           lost + i \in DOMAIN all /\ Pushed(c)[i] = all[lost + i]
      /\ InOrderOfDue(all) => InOrderOfDue(Pushed(c))
  <2> DEFINE r == SubSeq(all, lost + 1, Len(all))
  <2>1. /\ r \in Seq(Chunk) /\ Len(r) = Len(all) - lost
        /\ \A i \in DOMAIN r : lost + i \in DOMAIN all /\ r[i] = all[lost + i]
        /\ InOrderOfDue(all) => InOrderOfDue(r)
    BY <1>1, <1>4, RestIs
  <2> HIDE DEF r
  <2>2. Pushed(c) = r
    BY <1>5 DEF r
  <2>3. QED
    BY <2>1, <2>2
<1>7. \A i \in DOMAIN all : \/ \E j \in DOMAIN ring : all[i] = ring[j]
                            \/ \E j \in DOMAIN c : all[i] = c[j]
  <2> SUFFICES ASSUME NEW i \in 1..Len(all)
               PROVE  \/ \E j \in DOMAIN ring : all[i] = ring[j]
                      \/ \E j \in DOMAIN c : all[i] = c[j]
    BY <1>3
  <2>1. CASE i <= Len(ring)
    <3>1. i \in DOMAIN ring /\ all[i] = ring[i]
      BY <1>1, <1>2, <2>1
    <3>2. QED
      BY <3>1
  <2>2. CASE ~(i <= Len(ring))
    <3>1. i - Len(ring) \in DOMAIN c /\ all[i] = c[i - Len(ring)]
      BY <1>1, <1>2, <2>2
    <3>2. QED
      BY <3>1
  <2>3. QED
    BY <2>1, <2>2
<1>8. \A i \in DOMAIN Pushed(c) :
        \/ \E j \in DOMAIN ring : Pushed(c)[i] = ring[j]
        \/ \E j \in DOMAIN c : Pushed(c)[i] = c[j]
  BY <1>6, <1>7
<1>9. Len(Pushed(c)) <= RingSlots
  BY <1>4, <1>6
<1>10. QED
  BY <1>6, <1>8, <1>9 DEF all

\* A ring in order, followed by chunks in order that are due later.
LEMMA AllInOrder ==
  ASSUME ring \in Seq(Chunk), NEW c \in Seq(Chunk),
         InOrderOfDue(ring), InOrderOfDue(c),
         \A i \in DOMAIN ring, j \in DOMAIN c : ring[i].due <= c[j].due
  PROVE  InOrderOfDue(ring \o c)
<1> DEFINE all == ring \o c
           n   == Len(ring)
<1>1. /\ n \in Nat /\ Len(c) \in Nat /\ Len(all) = n + Len(c)
      /\ DOMAIN ring = 1..n /\ DOMAIN c = 1..Len(c) /\ DOMAIN all = 1..Len(all)
  OBVIOUS
<1>2. \A i \in 1..Len(all) : all[i] = IF i <= n THEN ring[i] ELSE c[i - n]
  BY <1>1
<1> HIDE DEF all, n
<1> SUFFICES ASSUME NEW i \in 1..Len(all), NEW j \in 1..Len(all), i <= j
             PROVE  all[i].due <= all[j].due
  BY <1>1 DEF InOrderOfDue, all
<1>3. CASE j <= n
  <2>1. i \in DOMAIN ring /\ j \in DOMAIN ring /\ all[i] = ring[i] /\ all[j] = ring[j]
    BY <1>1, <1>2, <1>3
  <2>2. QED
    BY <2>1 DEF InOrderOfDue
<1>4. CASE i <= n /\ ~(j <= n)
  <2>1. i \in DOMAIN ring /\ j - n \in DOMAIN c /\ all[i] = ring[i] /\ all[j] = c[j - n]
    BY <1>1, <1>2, <1>4
  <2>2. QED
    BY <2>1
<1>5. CASE ~(i <= n)
  <2>1. /\ i - n \in DOMAIN c /\ j - n \in DOMAIN c /\ i - n <= j - n
        /\ all[i] = c[i - n] /\ all[j] = c[j - n]
    BY <1>1, <1>2, <1>5
  <2>2. QED
    BY <2>1 DEF InOrderOfDue
<1>6. QED
  BY <1>3, <1>4, <1>5

LEMMA ReleasedIs ==
  ASSUME ring \in Seq(Chunk), InOrderOfDue(ring), tickNow \in Nat
  PROVE  LET k == Cardinality({i \in DOMAIN ring :
                                 \A j \in 1..i : ring[j].due <= tickNow})
         IN  /\ k \in Nat /\ k <= Len(ring)
             /\ \A i \in DOMAIN ring : ring[i].due <= tickNow => i <= k
<1> DEFINE ended == {i \in DOMAIN ring : \A j \in 1..i : ring[j].due <= tickNow}
           k     == Cardinality(ended)
<1>1. DOMAIN ring = 1..Len(ring) /\ Len(ring) \in Nat
  OBVIOUS
<1>2. \A n \in Nat : IsFiniteSet(1..n) /\ Cardinality(1..n) = n
  BY FS_Interval
<1>3. IsFiniteSet(ended) /\ k <= Len(ring)
  <2>1. ended \subseteq 1..Len(ring)
    BY <1>1
  <2>2. QED
    BY <1>1, <1>2, <2>1, FS_Subset
<1>4. k \in Nat
  BY <1>3, FS_CardinalityType
<1>5. ASSUME NEW i \in DOMAIN ring, ring[i].due <= tickNow PROVE i <= k
  <2>1. i \in Nat /\ 1..i \subseteq DOMAIN ring
    BY <1>1
  <2>2. \A j \in 1..i : ring[j].due \in Nat /\ ring[i].due \in Nat
                        /\ ring[j].due <= ring[i].due
    <3> SUFFICES ASSUME NEW j \in 1..i
                 PROVE  ring[j].due \in Nat /\ ring[i].due \in Nat
                        /\ ring[j].due <= ring[i].due
      OBVIOUS
    <3>1. j \in DOMAIN ring /\ j <= i
      BY <2>1
    <3>2. ring[i] \in Chunk /\ ring[j] \in Chunk
      BY <3>1
    <3>3. QED
      BY <3>1, <3>2 DEF InOrderOfDue, Chunk
  <2>3. \A j \in 1..i : ring[j].due <= tickNow
    BY <1>5, <2>2
  <2>4. \A m \in 1..i : 1..m \subseteq 1..i
    BY <2>1
  <2>5. 1..i \subseteq ended
    BY <2>1, <2>3, <2>4
  <2> HIDE DEF ended
  <2>6. Cardinality(1..i) <= Cardinality(ended)
    BY <1>3, <2>5, FS_Subset
  <2>7. QED
    BY <1>2, <2>1, <2>6
<1>6. QED
  BY <1>3, <1>4, <1>5

-----------------------------------------------------------------------------
(***************************************************************************)
(* What a step that schedules nothing must respect, for each part of the   *)
(* invariant.                                                              *)
(***************************************************************************)
LEMMA SlotsKept ==
  ASSUME SlotInv, TypeOK, TypeOK', UNCHANGED <<nextFree, slot, stream>>,
         now <= now', tickNow' <= now', flush' # "idle" => stream < MaxFlushes,
         \A t \in Transfer : acc'[t] = "new" <=> acc[t] = "new",
         \A t \in Transfer : stage'[t] = "completed" =>
           \/ stage[t] = "completed"
           \/ Accepted(t) /\ slot[t].due <= now'
  PROVE  SlotInv'
<1>1. \A t \in Transfer : slot[t].due \in Nat /\ now \in Nat /\ now' \in Nat
  BY DEF TypeOK
<1>2. \A t \in Transfer :
        stage'[t] = "completed" => acc'[t] # "new" /\ slot'[t].due <= now'
  BY <1>1 DEF SlotInv, Accepted
<1>3. QED
  BY <1>2 DEF SlotInv, Accepted, Apart

LEMMA QueuesKept ==
  ASSUME QueueInv, UNCHANGED slot,
         \A t \in Transfer : acc'[t] = "new" <=> acc[t] = "new",
         \A d \in Dir : queue[d] \in Seq(Transfer),
         \A d \in Dir : \A i \in DOMAIN queue'[d] :
           \/ \E j \in DOMAIN queue[d] : queue'[d][i] = queue[d][j]
           \/ /\ queue'[d][i] \in Transfer /\ Accepted(queue'[d][i])
              /\ slot[queue'[d][i]].dir = d
  PROVE  QueueInv'
<1> SUFFICES ASSUME NEW d \in Dir, NEW i \in DOMAIN queue'[d]
             PROVE  acc'[queue'[d][i]] # "new" /\ slot'[queue'[d][i]].dir = d
  BY DEF QueueInv, Accepted
<1>1. CASE \E j \in DOMAIN queue[d] : queue'[d][i] = queue[d][j]
  <2>1. PICK j \in DOMAIN queue[d] : queue'[d][i] = queue[d][j]
    BY <1>1
  <2>2. queue[d][j] \in Transfer
    OBVIOUS
  <2>3. QED
    BY <2>1, <2>2 DEF QueueInv, Accepted
<1>2. QED
  BY <1>1 DEF Accepted

LEMMA RingTyped ==
  ASSUME TypeOK, NEW i \in DOMAIN ring
  PROVE  ring[i] \in Chunk /\ ring[i].xfer \in Transfer /\ ring[i].due \in Nat
<1>1. ring \in Seq(Chunk)
  BY DEF TypeOK, Chunk
<1>2. ring[i] \in Chunk
  BY <1>1
<1>3. QED
  BY <1>2 DEF Chunk

LEMMA RingKept ==
  ASSUME RingInv, TypeOK, UNCHANGED <<nextFree, slot, ring>>,
         \A t \in Transfer : acc'[t] = "new" <=> acc[t] = "new",
         \A i \in DOMAIN ring : stage[ring[i].xfer] # "completed" =>
           stage'[ring[i].xfer] # "completed",
         tick' = "out" => tick = "out" /\ tickNow' = tickNow
  PROVE  RingInv'
<1>1. \A i \in DOMAIN ring : ring[i].xfer \in Transfer
  BY RingTyped
<1>2. QED
  BY <1>1 DEF RingInv, InOrderOfDue, ChunkFits, Accepted

LEMMA InitAir == Init => AirInv
<1> SUFFICES ASSUME Init PROVE AirInv
  OBVIOUS
<1>1. TypeOK
  <2>1. 0 \in 0..MaxFlushes /\ MaxFlushes \in Nat /\ RingSlots \in Nat
    BY PacingAssumption
  <2>2. /\ now \in Nat /\ tickNow \in Nat /\ stream \in 0..MaxFlushes
        /\ nextFree \in [Dir -> Nat]
    BY <2>1 DEF Init
  <2>3. ring \in Seq([xfer: Transfer, due: Nat]) /\ Len(ring) <= RingSlots
    BY <2>1 DEF Init
  <2>4. queue \in [Dir -> Seq(Transfer)]
    BY DEF Init
  <2>5. slot \in [Transfer -> [dir: Dir, stream: 0..MaxFlushes, arrived: Nat,
                              span: Nat, due: Nat]]
    BY <2>1 DEF Init, NoSlot, Dir
  <2>6. QED
    BY <2>2, <2>3, <2>4, <2>5 DEF Init, TypeOK
<1>2. SlotInv
  BY DEF Init, SlotInv, Accepted
<1>3. QueueInv /\ RingInv
  BY DEF Init, QueueInv, RingInv, InOrderOfDue
<1>4. QED
  BY <1>1, <1>2, <1>3 DEF AirInv

(***************************************************************************)
(* The accepting callbacks.                                                *)
(***************************************************************************)
LEMMA ScheduleKeepsAir ==
  ASSUME AirInv, NEW t \in Transfer, NEW d \in Dir, Schedule(t, d)
  PROVE  AirInv'
<1> DEFINE start == SlotStart(d)
           due   == start + Span(t, d)
           s     == [dir |-> d, stream |-> stream, arrived |-> now,
                     span |-> Span(t, d), due |-> due]
<1> USE DEF AirInv
<1>1. /\ now \in Nat /\ tickNow \in Nat /\ tickNow <= now
      /\ stream \in 0..MaxFlushes /\ MaxFlushes \in Nat
      /\ nextFree \in [Dir -> Nat] /\ slot \in [Transfer ->
           [dir: Dir, stream: 0..MaxFlushes, arrived: Nat, span: Nat, due: Nat]]
      /\ ring \in Seq(Chunk)
  BY PacingAssumption DEF TypeOK, SlotInv, Chunk
<1>2. start \in Nat /\ now <= start /\ nextFree[d] <= start
  BY <1>1 DEF SlotStart, Later
<1>3. Span(t, d) \in Nat /\ due \in Nat /\ start <= due
  BY <1>2, SpanIs
<1> HIDE DEF start
<1>4. /\ acc[t] = "new" /\ acc' = [acc EXCEPT ![t] = "park"]
      /\ nextFree' = [nextFree EXCEPT ![d] = due]
      /\ slot' = [slot EXCEPT ![t] = s]
      /\ stage' = [stage EXCEPT ![t] = "scheduled"]
      /\ UNCHANGED <<now, queue, armed, timerQueued, tick, tickNow, flush, stream>>
      /\ IF d = "out" THEN \E c \in Chunks(t, start) : ring' = Pushed(c)
                      ELSE UNCHANGED ring
  BY DEF Schedule, start, timerVars, tickVars
<1> HIDE DEF due
<1>5. s \in [dir: Dir, stream: 0..MaxFlushes, arrived: Nat, span: Nat, due: Nat]
  BY <1>1, <1>3
<1>6. /\ \A u \in Transfer : u # t => slot'[u] = slot[u] /\ acc'[u] = acc[u]
                                     /\ stage'[u] = stage[u]
      /\ slot'[t] = s /\ acc'[t] = "park" /\ stage'[t] = "scheduled"
      /\ nextFree'[d] = due /\ \A e \in Dir : e # d => nextFree'[e] = nextFree[e]
  BY <1>1, <1>4 DEF TypeOK
<1>7. \A e \in Dir : nextFree[e] <= nextFree'[e]
  BY <1>1, <1>2, <1>3, <1>6
<1>8. /\ ring' \in Seq(Chunk) /\ Len(ring') <= RingSlots
      /\ \A i \in DOMAIN ring' :
           \/ \E j \in DOMAIN ring : ring'[i] = ring[j]
           \/ /\ ring'[i].xfer = t /\ start < ring'[i].due
              /\ ring'[i].due <= due /\ d = "out"
      /\ InOrderOfDue(ring')
  <2>1. CASE d = "out"
    <3>1. PICK c \in Chunks(t, start) : ring' = Pushed(c)
      BY <1>4, <2>1
    <3>2. /\ c \in Seq(Chunk) /\ InOrderOfDue(c)
          /\ \A i \in DOMAIN c : c[i].xfer = t /\ start < c[i].due /\ c[i].due <= due
      BY <1>2, <2>1, ChunksAre DEF InOrderOfDue, due
    <3>3. \A i \in DOMAIN ring, j \in DOMAIN c : ring[i].due <= c[j].due
      <4> SUFFICES ASSUME NEW i \in DOMAIN ring, NEW j \in DOMAIN c
                   PROVE  ring[i].due <= c[j].due
        OBVIOUS
      <4>1. ring[i] \in Chunk /\ c[j] \in Chunk
        BY <1>1, <3>2
      <4>2. ring[i].due <= nextFree["out"]
        BY DEF RingInv, ChunkFits
      <4>3. ring[i].due \in Nat /\ c[j].due \in Nat
        BY <4>1 DEF Chunk
      <4>4. nextFree["out"] \in Nat /\ nextFree["out"] <= start /\ start < c[j].due
        <5>1. nextFree[d] \in Nat /\ d = "out"
          BY <1>1, <2>1
        <5>2. QED
          BY <1>2, <3>2, <5>1
      <4>5. QED
        BY <1>2, <4>2, <4>3, <4>4
    <3>4. InOrderOfDue(ring \o c)
      BY <1>1, <3>2, <3>3, AllInOrder DEF RingInv
    <3>5. /\ Pushed(c) \in Seq(Chunk) /\ Len(Pushed(c)) <= RingSlots
          /\ InOrderOfDue(Pushed(c))
      BY <1>1, <3>2, <3>4, PushedAre
    <3>6. \A i \in DOMAIN Pushed(c) :
            \/ \E j \in DOMAIN ring : Pushed(c)[i] = ring[j]
            \/ \E j \in DOMAIN c : Pushed(c)[i] = c[j]
      BY <1>1, <3>2, PushedAre
    <3>7. QED
      BY <2>1, <3>1, <3>2, <3>5, <3>6
  <2>2. CASE d # "out"
    BY <1>1, <1>4, <2>2 DEF RingInv, TypeOK
  <2>3. QED
    BY <2>1, <2>2
<1>9. TypeOK'
  BY <1>1, <1>3, <1>4, <1>5, <1>8 DEF TypeOK, Chunk
<1>10. SlotInv'
  <2>1. flush' # "idle" => stream' < MaxFlushes
    BY <1>4 DEF SlotInv
  <2>2. tickNow' <= now'
    BY <1>1, <1>4
  <2>3. \A u \in Transfer : stage'[u] = "completed" =>
          acc'[u] # "new" /\ slot'[u].due <= now'
    BY <1>4, <1>6 DEF SlotInv, Accepted
  <2>4. ASSUME NEW u \in Transfer, acc'[u] # "new"
        PROVE  /\ slot'[u].arrived + slot'[u].span <= slot'[u].due
               /\ slot'[u].stream <= stream'
               /\ slot'[u].stream = stream' => slot'[u].due <= nextFree'[slot'[u].dir]
    <3>1. CASE u = t
      <4>1. now + Span(t, d) <= due
        BY <1>1, <1>2, <1>3 DEF due
      <4>2. QED
        BY <1>1, <1>3, <1>4, <1>6, <3>1, <4>1
    <3>2. CASE u # t
      <4>1. /\ slot[u].arrived + slot[u].span <= slot[u].due
            /\ slot[u].stream <= stream
            /\ slot[u].stream = stream => slot[u].due <= nextFree[slot[u].dir]
        BY <1>6, <2>4, <3>2 DEF SlotInv, Accepted
      <4>2. slot[u].due \in Nat /\ slot[u].dir \in Dir
        BY <1>1
      <4>3. nextFree[slot[u].dir] \in Nat /\ nextFree'[slot[u].dir] \in Nat
        BY <1>1, <4>2, <1>9 DEF TypeOK
      <4>4. QED
        BY <1>4, <1>6, <1>7, <3>2, <4>1, <4>2, <4>3
    <3>3. QED
      BY <3>1, <3>2
  <2>5. ASSUME NEW u \in Transfer, acc[u] # "new",
               slot[u].dir = d, slot[u].stream = stream
        PROVE  slot[u].due + Span(t, d) <= due
    <3>1. slot[u].due <= nextFree[d]
      BY <2>5 DEF SlotInv, Accepted
    <3>2. slot[u].due \in Nat /\ nextFree[d] \in Nat
      BY <1>1
    <3>3. due = start + Span(t, d)
      BY DEF due
    <3>4. QED
      BY <1>2, <1>3, <3>1, <3>2, <3>3
  <2>6. ASSUME NEW u \in Transfer, NEW w \in Transfer,
               acc'[u] # "new", acc'[w] # "new", u # w,
               slot'[u].dir = slot'[w].dir, slot'[u].stream = slot'[w].stream
        PROVE  \/ slot'[u].due + slot'[w].span <= slot'[w].due
               \/ slot'[w].due + slot'[u].span <= slot'[u].due
    <3>1. CASE u = t
      BY <1>6, <2>5, <2>6, <3>1
    <3>2. CASE w = t
      BY <1>6, <2>5, <2>6, <3>2
    <3>3. CASE u # t /\ w # t
      BY <1>6, <2>6, <3>3 DEF SlotInv, Accepted, Apart
    <3>4. QED
      BY <3>1, <3>2, <3>3
  <2>7. QED
    BY <2>1, <2>2, <2>3, <2>4, <2>6 DEF SlotInv, Accepted, Apart
<1>11. QueueInv'
  <2> SUFFICES ASSUME NEW e \in Dir, NEW i \in DOMAIN queue[e]
               PROVE  acc'[queue[e][i]] # "new" /\ slot'[queue[e][i]].dir = e
    BY <1>4 DEF QueueInv, Accepted
  <2>1. queue[e][i] \in Transfer
    BY DEF TypeOK
  <2>2. acc[queue[e][i]] # "new" /\ slot[queue[e][i]].dir = e
    BY DEF QueueInv, Accepted
  <2>3. QED
    BY <1>4, <1>6, <2>1, <2>2
<1>12. RingInv'
  <2>1. ASSUME NEW i \in DOMAIN ring'
        PROVE  /\ acc'[ring'[i].xfer] # "new" /\ slot'[ring'[i].xfer].dir = "out"
               /\ stage'[ring'[i].xfer] # "completed"
               /\ ring'[i].due <= slot'[ring'[i].xfer].due
               /\ ring'[i].due <= nextFree'["out"]
               /\ tick' = "out" => ring'[i].due > tickNow'
    <3>0. ring'[i] \in Chunk
      BY <1>8
    <3>1. CASE \E j \in DOMAIN ring : ring'[i] = ring[j]
      <4>1. PICK j \in DOMAIN ring : ring'[i] = ring[j]
        BY <3>1
      <4>2. /\ ChunkFits(ring[j])
            /\ tick = "out" => ring[j].due > tickNow
        BY DEF RingInv
      <4>3. ring[j].xfer \in Transfer /\ ring[j].due \in Nat
        BY <3>0, <4>1 DEF Chunk
      <4>4. ring[j].xfer # t
        BY <1>4, <4>2 DEF ChunkFits, Accepted
      <4>5. nextFree["out"] \in Nat /\ nextFree'["out"] \in Nat
            /\ nextFree["out"] <= nextFree'["out"]
        BY <1>1, <1>7, <1>9 DEF TypeOK, Dir
      <4>6. QED
        BY <1>4, <1>6, <4>1, <4>2, <4>3, <4>4, <4>5 DEF ChunkFits, Accepted
    <3>2. CASE /\ ring'[i].xfer = t /\ start < ring'[i].due
               /\ ring'[i].due <= due /\ d = "out"
      <4>1. ring'[i].due \in Nat
        BY <3>0 DEF Chunk
      <4>2. ring'[i].due > tickNow
        BY <1>1, <1>2, <3>2, <4>1
      <4>3. QED
        BY <1>4, <1>6, <3>2, <4>2
    <3>3. QED
      BY <1>8, <3>1, <3>2
  <2>2. QED
    BY <1>8, <2>1 DEF RingInv, ChunkFits, Accepted
<1>13. QED
  BY <1>9, <1>10, <1>11, <1>12

LEMMA AcceptKeepsAir ==
  ASSUME AirInv, NEW t \in Transfer, AcceptGoesOn(t)
  PROVE  AirInv'
<1> USE DEF AirInv
<1>1. /\ UNCHANGED <<now, nextFree, ring, tick, tickNow, flush, slot, stream>>
      /\ acc[t] \in {"park", "kick", "start"}
      /\ \E a \in {"kick", "start", "returned"} : acc' = [acc EXCEPT ![t] = a]
      /\ \/ stage' = stage
         \/ \E g \in {"parked", "unpaced"} : stage' = [stage EXCEPT ![t] = g]
      /\ armed' \in BOOLEAN /\ timerQueued' \in BOOLEAN
      /\ \/ queue' = queue
         \/ queue' = [queue EXCEPT ![DirOf(t)] = Append(@, t)]
  BY DEF AcceptGoesOn, Park, CannotPark, Kick, StartTimer, timerVars, tickVars,
         TypeOK
<1>2. /\ acc \in [Transfer -> {"new", "park", "kick", "start", "returned"}]
      /\ slot[t].dir \in Dir /\ queue \in [Dir -> Seq(Transfer)]
      /\ stage \in [Transfer -> {"none", "scheduled", "parked", "completed",
                                 "unpaced", "cancelled"}]
  BY DEF TypeOK
<1>3. \A u \in Transfer : acc'[u] = "new" <=> acc[u] = "new"
  BY <1>1, <1>2
<1>4. \A u \in Transfer : stage'[u] = "completed" => stage[u] = "completed"
  BY <1>1, <1>2
<1>5. /\ queue' \in [Dir -> Seq(Transfer)]
      /\ \A d \in Dir : \A i \in DOMAIN queue'[d] :
           \/ \E j \in DOMAIN queue[d] : queue'[d][i] = queue[d][j]
           \/ queue'[d][i] = t /\ slot[t].dir = d
  <2>1. CASE queue' = queue
    BY <1>2, <2>1
  <2>2. CASE queue' = [queue EXCEPT ![DirOf(t)] = Append(@, t)]
    <3>1. queue[slot[t].dir] \in Seq(Transfer)
      BY <1>2
    <3>2. /\ Append(queue[slot[t].dir], t) \in Seq(Transfer)
          /\ \A i \in DOMAIN Append(queue[slot[t].dir], t) :
               \/ \E j \in DOMAIN queue[slot[t].dir] :
                    Append(queue[slot[t].dir], t)[i] = queue[slot[t].dir][j]
               \/ Append(queue[slot[t].dir], t)[i] = t
      BY <3>1
    <3>3. /\ queue'[slot[t].dir] = Append(queue[slot[t].dir], t)
          /\ \A d \in Dir : d # slot[t].dir => queue'[d] = queue[d]
      BY <1>2, <2>2 DEF DirOf
    <3>4. queue' \in [Dir -> Seq(Transfer)]
      BY <1>2, <2>2, <3>2 DEF DirOf
    <3>5. QED
      BY <3>2, <3>3, <3>4
  <2>3. QED
    BY <1>1, <2>1, <2>2
<1>6. TypeOK'
  <2>1. /\ acc' \in [Transfer -> {"new", "park", "kick", "start", "returned"}]
        /\ stage' \in [Transfer -> {"none", "scheduled", "parked", "completed",
                                    "unpaced", "cancelled"}]
    BY <1>1, <1>2
  <2>2. QED
    BY <1>1, <1>5, <2>1 DEF TypeOK
<1>7. SlotInv'
  <2>1. flush' # "idle" => stream < MaxFlushes
    BY <1>1 DEF SlotInv
  <2>2. now <= now' /\ tickNow' <= now'
    BY <1>1 DEF SlotInv, TypeOK
  <2>3. QED
    BY <1>1, <1>3, <1>4, <1>6, <2>1, <2>2, SlotsKept
<1>8. QueueInv'
  BY <1>1, <1>2, <1>3, <1>5, QueuesKept DEF Accepted
<1>9. RingInv'
  BY <1>1, <1>3, <1>4, RingTyped, RingKept
<1>10. QED
  BY <1>6, <1>7, <1>8, <1>9

(***************************************************************************)
(* A queue that loses an element keeps the others.                         *)
(***************************************************************************)
LEMMA TailOf ==
  ASSUME NEW q \in Seq(Transfer), q # << >>
  PROVE  /\ Tail(q) \in Seq(Transfer) /\ Head(q) \in Transfer /\ Head(q) = q[1]
         /\ 1 \in DOMAIN q
         /\ \A i \in DOMAIN Tail(q) : \E j \in DOMAIN q : Tail(q)[i] = q[j]
<1>1. Tail(q) \in Seq(Transfer) /\ Head(q) \in Transfer /\ Head(q) = q[1]
      /\ 1 \in DOMAIN q
  OBVIOUS
<1>2. /\ Len(Tail(q)) = Len(q) - 1 /\ DOMAIN q = 1..Len(q)
      /\ DOMAIN Tail(q) = 1..Len(Tail(q)) /\ Len(q) \in Nat
      /\ \A i \in 1..Len(Tail(q)) : Tail(q)[i] = q[i + 1]
  OBVIOUS
<1>3. \A i \in DOMAIN Tail(q) : i + 1 \in DOMAIN q /\ Tail(q)[i] = q[i + 1]
  BY <1>2
<1>4. QED
  BY <1>1, <1>3

LEMMA WithoutOne ==
  ASSUME NEW q \in Seq(Transfer), NEW k \in DOMAIN q
  PROVE  /\ RemoveAt(q, k) \in Seq(Transfer)
         /\ \A i \in DOMAIN RemoveAt(q, k) :
              \E j \in DOMAIN q : RemoveAt(q, k)[i] = q[j]
<1> DEFINE a == SubSeq(q, 1, k - 1)
           b == SubSeq(q, k + 1, Len(q))
<1>1. DOMAIN q = 1..Len(q) /\ Len(q) \in Nat /\ k \in 1..Len(q)
  OBVIOUS
<1>2. /\ a \in Seq(Transfer) /\ Len(a) = k - 1
      /\ \A i \in 1..Len(a) : a[i] = q[i]
  BY <1>1
<1>3. /\ b \in Seq(Transfer) /\ Len(b) = Len(q) - k
      /\ \A i \in 1..Len(b) : b[i] = q[k + i]
  <2>1. b \in Seq(Transfer)
    BY <1>1
  <2>2. Len(b) = Len(q) - k
    BY <1>1
  <2>3. \A i \in 1..(Len(q) - k) : b[i] = q[k + 1 + i - 1] /\ k + 1 + i - 1 = k + i
    BY <1>1
  <2>4. QED
    BY <2>1, <2>2, <2>3
<1>4. RemoveAt(q, k) = a \o b
  BY DEF RemoveAt
<1> HIDE DEF a, b
<1>5. /\ a \o b \in Seq(Transfer) /\ DOMAIN (a \o b) = 1..(Len(a) + Len(b))
      /\ \A i \in 1..(Len(a) + Len(b)) :
           (a \o b)[i] = IF i <= Len(a) THEN a[i] ELSE b[i - Len(a)]
  BY <1>2, <1>3
<1>6. ASSUME NEW i \in DOMAIN (a \o b)
      PROVE  \E j \in DOMAIN q : (a \o b)[i] = q[j]
  <2>1. CASE i <= Len(a)
    <3>1. i \in DOMAIN q /\ (a \o b)[i] = q[i]
      BY <1>1, <1>2, <1>3, <1>5, <2>1
    <3>2. QED
      BY <3>1
  <2>2. CASE ~(i <= Len(a))
    <3>1. i - Len(a) \in 1..Len(b) /\ (a \o b)[i] = b[i - Len(a)]
      BY <1>1, <1>2, <1>3, <1>5, <2>2
    <3>2. PICK m \in 1..Len(b) : m = i - Len(a)
      BY <3>1
    <3>3. k + m \in DOMAIN q
      BY <1>1, <1>3
    <3>4. (a \o b)[i] = q[k + m]
      BY <1>3, <3>1, <3>2
    <3>5. QED
      BY <3>3, <3>4
  <2>3. QED
    BY <2>1, <2>2
<1>7. QED
  BY <1>4, <1>5, <1>6

(***************************************************************************)
(* The timer callback.                                                     *)
(***************************************************************************)
LEMMA ReleaseKeepsAir ==
  ASSUME AirInv, TickReleasesVoice
  PROVE  AirInv'
<1> DEFINE k == Cardinality({i \in DOMAIN ring :
                               \A j \in 1..i : ring[j].due <= tickNow})
<1> USE DEF AirInv
<1>1. /\ ring' = SubSeq(ring, k + 1, Len(ring)) /\ tick' = "out"
      /\ UNCHANGED <<now, nextFree, queue, armed, timerQueued, acc, tickNow,
                     flush, stage, slot, stream>>
  BY DEF TickReleasesVoice, timerVars
<1>2. ring \in Seq(Chunk) /\ Len(ring) <= RingSlots /\ InOrderOfDue(ring)
      /\ tickNow \in Nat /\ RingSlots \in Nat
  BY PacingAssumption DEF TypeOK, RingInv, Chunk
<1>3. /\ k \in Nat /\ k <= Len(ring)
      /\ \A i \in DOMAIN ring : ring[i].due <= tickNow => i <= k
  BY <1>2, ReleasedIs
<1> HIDE DEF k
<1>4. /\ ring' \in Seq(Chunk) /\ Len(ring') = Len(ring) - k /\ InOrderOfDue(ring')
      /\ \A i \in DOMAIN ring' : k + i \in DOMAIN ring /\ ring'[i] = ring[k + i]
  <2> DEFINE r == SubSeq(ring, k + 1, Len(ring))
  <2>1. /\ r \in Seq(Chunk) /\ Len(r) = Len(ring) - k /\ InOrderOfDue(r)
        /\ \A i \in DOMAIN r : k + i \in DOMAIN ring /\ r[i] = ring[k + i]
    BY <1>2, <1>3, RestIs
  <2> HIDE DEF r
  <2>2. ring' = r
    BY <1>1 DEF r
  <2>3. QED
    BY <2>1, <2>2
<1>5. Len(ring') <= RingSlots /\ Len(ring) \in Nat
  BY <1>2, <1>3, <1>4
<1>6. TypeOK'
  BY <1>1, <1>4, <1>5 DEF TypeOK, Chunk
<1>7. SlotInv' /\ QueueInv'
  BY <1>1 DEF SlotInv, QueueInv, Accepted, Apart
<1>8. \A i \in DOMAIN ring' : ring'[i].due > tickNow
  <2> SUFFICES ASSUME NEW i \in DOMAIN ring' PROVE ring'[i].due > tickNow
    OBVIOUS
  <2>1. i \in Nat /\ i >= 1
    BY <1>4
  <2>2. k + i \in DOMAIN ring /\ ring'[i] = ring[k + i] /\ ~(k + i <= k)
    BY <1>3, <1>4, <2>1
  <2>3. ring[k + i].due \in Nat /\ ~(ring[k + i].due <= tickNow)
    BY <1>3, <2>2, RingTyped
  <2>4. QED
    BY <1>2, <2>2, <2>3
<1>9. RingInv'
  BY <1>1, <1>4, <1>8 DEF RingInv, ChunkFits, Accepted
<1>10. QED
  BY <1>6, <1>7, <1>9

LEMMA CompleteKeepsAir ==
  ASSUME AirInv, NEW d \in Dir, TickCompletes(d)
  PROVE  AirInv'
<1> USE DEF AirInv
<1>1. /\ tick = d
      /\ UNCHANGED <<now, nextFree, ring, armed, timerQueued, acc, tickNow,
                     flush, slot, stream>>
  BY DEF TickCompletes, timerVars
<1>2. CASE ~(queue[d] # << >> /\ IsDue(Head(queue[d])))
  <2>1. tick' \in {"in", "check"} /\ queue' = queue /\ stage' = stage
    BY <1>2 DEF TickCompletes, After, Dir
  <2>2. TypeOK'
    BY <1>1, <2>1 DEF TypeOK
  <2>3. QED
    BY <1>1, <2>1, <2>2 DEF SlotInv, QueueInv, RingInv, ChunkFits, Accepted, Apart
<1>3. CASE queue[d] # << >> /\ IsDue(Head(queue[d]))
  <2> DEFINE t == Head(queue[d])
  <2>1. /\ queue' = [queue EXCEPT ![d] = Tail(@)]
        /\ stage' = [stage EXCEPT ![t] = "completed"] /\ tick' = tick
    BY <1>3 DEF TickCompletes
  <2>2. /\ queue \in [Dir -> Seq(Transfer)] /\ queue[d] \in Seq(Transfer)
        /\ stage \in [Transfer -> {"none", "scheduled", "parked", "completed",
                                   "unpaced", "cancelled"}]
        /\ now \in Nat /\ tickNow \in Nat /\ tickNow <= now
    BY DEF TypeOK, SlotInv
  <2>3. /\ Tail(queue[d]) \in Seq(Transfer) /\ t \in Transfer /\ t = queue[d][1]
        /\ 1 \in DOMAIN queue[d]
        /\ \A i \in DOMAIN Tail(queue[d]) :
             \E j \in DOMAIN queue[d] : Tail(queue[d])[i] = queue[d][j]
    BY <1>3, <2>2, TailOf
  <2>4. Accepted(t) /\ slot[t].dir = d /\ slot[t].due <= tickNow
    BY <1>3, <2>3 DEF QueueInv, IsDue
  <2> HIDE DEF t
  <2>5. /\ queue' \in [Dir -> Seq(Transfer)]
        /\ \A e \in Dir : \A i \in DOMAIN queue'[e] :
             \E j \in DOMAIN queue[e] : queue'[e][i] = queue[e][j]
    BY <2>1, <2>2, <2>3
  <2>6. /\ stage' \in [Transfer -> {"none", "scheduled", "parked", "completed",
                                    "unpaced", "cancelled"}]
        /\ \A u \in Transfer : u # t => stage'[u] = stage[u]
    BY <2>1, <2>2, <2>3
  <2>7. TypeOK'
    BY <1>1, <2>1, <2>5, <2>6 DEF TypeOK
  <2>8. slot[t].due \in Nat /\ slot[t].due <= now
    BY <2>2, <2>3, <2>4 DEF TypeOK
  <2>9. SlotInv'
    <3>1. flush' # "idle" => stream < MaxFlushes
      BY <1>1 DEF SlotInv
    <3>2. now <= now' /\ tickNow' <= now'
      BY <1>1, <2>2
    <3>3. \A u \in Transfer : stage'[u] = "completed" =>
            \/ stage[u] = "completed"
            \/ Accepted(u) /\ slot[u].due <= now'
      BY <1>1, <2>4, <2>6, <2>8
    <3>4. QED
      BY <1>1, <2>7, <3>1, <3>2, <3>3, SlotsKept
  <2>10. QueueInv'
    BY <1>1, <2>2, <2>5, QueuesKept
  <2>11. RingInv'
    \* A chunk of the transfer that completes would be over, and out.
    <3>1. \A i \in DOMAIN ring : ring[i].xfer # t
      <4> SUFFICES ASSUME NEW i \in DOMAIN ring, ring[i].xfer = t PROVE FALSE
        OBVIOUS
      <4>1. ChunkFits(ring[i]) /\ ring[i].due \in Nat
        BY RingTyped DEF RingInv
      <4>2. d = "out" /\ ring[i].due <= slot[t].due
        BY <2>4, <4>1 DEF ChunkFits
      <4>3. ring[i].due > tickNow
        BY <1>1, <4>2 DEF RingInv
      <4>4. QED
        BY <2>2, <2>4, <2>8, <4>1, <4>2, <4>3
    <3>2. \A i \in DOMAIN ring : stage'[ring[i].xfer] = stage[ring[i].xfer]
      BY <2>6, <3>1, RingTyped
    <3>3. QED
      BY <1>1, <2>1, <3>2, RingKept
  <2>12. QED
    BY <2>7, <2>9, <2>10, <2>11
<1>4. QED
  BY <1>2, <1>3

\* Steps that move no transfer and no voice.
LEMMA IdleKeepsAir ==
  ASSUME AirInv, TimerFires \/ TickChecks \/ TickRestarts \/ FlushBegins
                 \/ TimePasses \/ UNCHANGED vars
  PROVE  AirInv'
<1> USE DEF AirInv
<1>0. Pending \in BOOLEAN
  BY DEF Pending
<1>1. /\ UNCHANGED <<nextFree, ring, queue, acc, stage, slot, stream>>
      /\ armed' \in BOOLEAN /\ timerQueued' \in BOOLEAN
  BY <1>0 DEF TimerFires, TickChecks, TickRestarts, FlushBegins, TimePasses,
              timerVars, tickVars, vars, TypeOK
<1>2. /\ now' \in Nat /\ now <= now' /\ tickNow' \in Nat /\ tickNow' <= now'
      /\ tick' \in {"idle", "voice", "out", "in", "check", "restart"}
      /\ tick' = "out" => tick = "out" /\ tickNow' = tickNow
  BY DEF TimerFires, TickChecks, TickRestarts, FlushBegins, TimePasses,
         timerVars, tickVars, vars, TypeOK, SlotInv
<1>3. /\ flush' \in {"idle", "out", "in", "reset"}
      /\ flush' # "idle" => stream < MaxFlushes
  BY DEF TimerFires, TickChecks, TickRestarts, FlushBegins, TimePasses,
         timerVars, tickVars, vars, TypeOK, SlotInv
<1>4. TypeOK'
  BY <1>1, <1>2, <1>3 DEF TypeOK
<1>5. SlotInv'
  BY <1>1, <1>2, <1>3, <1>4, SlotsKept
<1>6. QueueInv'
  BY <1>1 DEF QueueInv, Accepted
<1>7. RingInv'
  BY <1>1, <1>2, RingKept
<1>8. QED
  BY <1>4, <1>5, <1>6, <1>7

(***************************************************************************)
(* The flush and the host.                                                 *)
(***************************************************************************)
LEMMA CancelKeepsAir ==
  ASSUME AirInv, NEW d \in Dir, FlushCancels(d) \/ HostCancels(d)
  PROVE  AirInv'
<1> USE DEF AirInv
<1>1. /\ queue \in [Dir -> Seq(Transfer)] /\ queue[d] \in Seq(Transfer)
      /\ stage \in [Transfer -> {"none", "scheduled", "parked", "completed",
                                 "unpaced", "cancelled"}]
  BY DEF TypeOK
<1>2. /\ UNCHANGED <<now, nextFree, ring, armed, timerQueued, acc, tick,
                     tickNow, slot, stream>>
      /\ flush' \in {"idle", "out", "in", "reset"}
      /\ flush' # "idle" => flush # "idle"
  BY DEF FlushCancels, HostCancels, timerVars, tickVars, TypeOK, Dir
<1>3. \/ queue' = queue /\ stage' = stage
      \/ \E t \in Transfer, q \in Seq(Transfer) :
           /\ queue' = [queue EXCEPT ![d] = q]
           /\ stage' = [stage EXCEPT ![t] = "cancelled"]
           /\ \A i \in DOMAIN q : \E j \in DOMAIN queue[d] : q[i] = queue[d][j]
  <2>1. CASE FlushCancels(d) /\ queue[d] # << >>
    <3>1. /\ queue' = [queue EXCEPT ![d] = Tail(queue[d])]
          /\ stage' = [stage EXCEPT ![Head(queue[d])] = "cancelled"]
      BY <2>1 DEF FlushCancels
    <3>2. QED
      BY <1>1, <2>1, <3>1, TailOf
  <2>2. CASE FlushCancels(d) /\ ~(queue[d] # << >>)
    BY <2>2 DEF FlushCancels
  <2>3. CASE HostCancels(d)
    <3>1. PICK i \in DOMAIN queue[d] :
            /\ queue' = [queue EXCEPT ![d] = RemoveAt(queue[d], i)]
            /\ stage' = [stage EXCEPT ![queue[d][i]] = "cancelled"]
      BY <2>3 DEF HostCancels
    <3>2. queue[d][i] \in Transfer
      BY <1>1
    <3>3. QED
      BY <1>1, <3>1, <3>2, WithoutOne
  <2>4. QED
    BY <2>1, <2>2, <2>3
<1>4. /\ queue' \in [Dir -> Seq(Transfer)]
      /\ stage' \in [Transfer -> {"none", "scheduled", "parked", "completed",
                                  "unpaced", "cancelled"}]
      /\ \A t \in Transfer : stage'[t] = "completed" => stage[t] = "completed"
      /\ \A e \in Dir : \A i \in DOMAIN queue'[e] :
           \E j \in DOMAIN queue[e] : queue'[e][i] = queue[e][j]
  <2>1. CASE queue' = queue /\ stage' = stage
    BY <1>1, <2>1
  <2>2. CASE ~(queue' = queue /\ stage' = stage)
    <3>1. PICK t \in Transfer, q \in Seq(Transfer) :
            /\ queue' = [queue EXCEPT ![d] = q]
            /\ stage' = [stage EXCEPT ![t] = "cancelled"]
            /\ \A i \in DOMAIN q : \E j \in DOMAIN queue[d] : q[i] = queue[d][j]
      BY <1>3, <2>2
    <3>2. QED
      BY <1>1, <3>1
  <2>3. QED
    BY <2>1, <2>2
<1>5. TypeOK'
  BY <1>2, <1>4 DEF TypeOK
<1>6. SlotInv'
  <2>1. flush' # "idle" => stream < MaxFlushes
    BY <1>2 DEF SlotInv
  <2>2. now <= now' /\ tickNow' <= now'
    BY <1>2 DEF SlotInv, TypeOK
  <2>3. QED
    BY <1>2, <1>4, <1>5, <2>1, <2>2, SlotsKept
<1>7. QueueInv'
  BY <1>1, <1>2, <1>4, QueuesKept
<1>8. RingInv'
  BY <1>2, <1>4, RingTyped, RingKept
<1>9. QED
  BY <1>5, <1>6, <1>7, <1>8

LEMMA ResetKeepsAir ==
  ASSUME AirInv, FlushResets
  PROVE  AirInv'
<1> USE DEF AirInv
<1>1. /\ flush = "reset" /\ flush' = "idle"
      /\ ring' = << >> /\ nextFree' = [d \in Dir |-> 0] /\ stream' = stream + 1
      /\ UNCHANGED <<now, queue, armed, timerQueued, acc, tick, tickNow, stage, slot>>
  BY DEF FlushResets, timerVars, tickVars
<1>2. stream \in 0..MaxFlushes /\ MaxFlushes \in Nat /\ stream < MaxFlushes
      /\ RingSlots \in Nat
  BY <1>1, PacingAssumption DEF TypeOK, SlotInv
<1>3. stream' \in 0..MaxFlushes /\ stream < stream'
  BY <1>1, <1>2
<1>4. TypeOK'
  <2>1. ring' \in Seq([xfer: Transfer, due: Nat]) /\ Len(ring') <= RingSlots
    BY <1>1, <1>2
  <2>2. nextFree' \in [Dir -> Nat]
    BY <1>1
  <2>3. QED
    BY <1>1, <1>3, <2>1, <2>2 DEF TypeOK
<1>5. SlotInv'
  <2>1. \A t \in Transfer : Accepted(t) =>
          slot[t].stream <= stream' /\ slot[t].stream # stream'
    <3> SUFFICES ASSUME NEW t \in Transfer, Accepted(t)
                 PROVE  slot[t].stream <= stream' /\ slot[t].stream # stream'
      OBVIOUS
    <3>1. slot[t].stream <= stream /\ slot[t].stream \in Nat
      BY <1>2 DEF SlotInv, TypeOK
    <3>2. QED
      BY <1>2, <1>3, <3>1
  <2>2. QED
    BY <1>1, <2>1 DEF SlotInv, Accepted, Apart
<1>6. QueueInv' /\ RingInv'
  BY <1>1 DEF QueueInv, RingInv, InOrderOfDue, Accepted
<1>7. QED
  BY <1>4, <1>5, <1>6

LEMMA NextAir == AirInv /\ [Next]_vars => AirInv'
<1> SUFFICES ASSUME AirInv, [Next]_vars PROVE AirInv'
  OBVIOUS
<1>1. ASSUME NEW t \in Transfer, NEW d \in Dir, Schedule(t, d) PROVE AirInv'
  BY <1>1, ScheduleKeepsAir
<1>2. ASSUME NEW t \in Transfer, AcceptGoesOn(t) PROVE AirInv'
  BY <1>2, AcceptKeepsAir
<1>3. ASSUME NEW d \in Dir, FlushCancels(d) \/ HostCancels(d) PROVE AirInv'
  BY <1>3, CancelKeepsAir
<1>4. ASSUME NEW d \in Dir, TickCompletes(d) PROVE AirInv'
  BY <1>4, CompleteKeepsAir
<1>5. CASE TickReleasesVoice
  BY <1>5, ReleaseKeepsAir
<1>6. CASE FlushResets
  BY <1>6, ResetKeepsAir
<1>7. CASE TimerFires \/ TickChecks \/ TickRestarts \/ FlushBegins
           \/ TimePasses \/ UNCHANGED vars
  BY <1>7, IdleKeepsAir
<1>8. QED
  BY <1>1, <1>2, <1>3, <1>4, <1>5, <1>6, <1>7 DEF Next, Tick, FlushGoesOn

LEMMA AirInvariant == Spec => []AirInv
  BY InitAir, NextAir, PTL DEF Spec

(***************************************************************************)
(* The frames of the slots of one stream and direction are all different,  *)
(* so that as many have passed as the slots that are over have.            *)
(***************************************************************************)
LEMMA FramesPassed ==
  ASSUME AirInv, NEW t \in Transfer, stage[t] = "completed"
  PROVE  JointSpan(Since(t)) <= now - slot[t].arrived
<1> DEFINE S     == Since(t)
           pairs == UNION {{u} \X (1..slot[u].span) : u \in S}
           a     == slot[t].arrived
           f     == [p \in pairs |-> slot[p[1]].due - slot[p[1]].span + p[2]]
<1> USE DEF AirInv
<1>1. now \in Nat /\ a \in Nat /\ Accepted(t) /\ a <= now
  <2>1. now \in Nat /\ slot[t] \in [dir: Dir, stream: 0..MaxFlushes, arrived: Nat,
                                    span: Nat, due: Nat]
    BY DEF TypeOK
  <2>2. Accepted(t) /\ slot[t].due <= now /\ slot[t].arrived + slot[t].span <= slot[t].due
    BY DEF SlotInv
  <2>3. QED
    BY <2>1, <2>2
<1>2. \A u \in S : /\ u \in Transfer /\ Accepted(u) /\ slot[u].due <= now
                   /\ slot[u].due \in Nat /\ slot[u].span \in Nat
                   /\ slot[u].arrived \in Nat /\ a <= slot[u].arrived
                   /\ slot[u].arrived + slot[u].span <= slot[u].due
                   /\ slot[u].dir = slot[t].dir /\ slot[u].stream = slot[t].stream
  <2> SUFFICES ASSUME NEW u \in S
               PROVE  /\ u \in Transfer /\ Accepted(u) /\ slot[u].due <= now
                      /\ slot[u].due \in Nat /\ slot[u].span \in Nat
                      /\ slot[u].arrived \in Nat /\ a <= slot[u].arrived
                      /\ slot[u].arrived + slot[u].span <= slot[u].due
                      /\ slot[u].dir = slot[t].dir
                      /\ slot[u].stream = slot[t].stream
    OBVIOUS
  <2>1. /\ u \in Transfer /\ stage[u] = "completed" /\ slot[u].dir = slot[t].dir
        /\ slot[u].stream = slot[t].stream /\ a <= slot[u].arrived
    <3>1. slot[u].arrived >= a => a <= slot[u].arrived
      BY <1>1 DEF TypeOK, Since
    <3>2. QED
      BY <3>1 DEF Since, DirOf
  <2>2. Accepted(u) /\ slot[u].due <= now
    BY <2>1 DEF SlotInv
  <2>3. slot[u] \in [dir: Dir, stream: 0..MaxFlushes, arrived: Nat,
                     span: Nat, due: Nat]
    BY <2>1 DEF TypeOK
  <2>4. QED
    BY <2>1, <2>2, <2>3 DEF SlotInv
<1> HIDE DEF S, a
<1>3. \A p \in pairs : p[1] \in S /\ p[2] \in 1..slot[p[1]].span
                       /\ p = <<p[1], p[2]>>
  OBVIOUS
<1> HIDE DEF pairs
<1>4. \A p \in pairs : f[p] \in (a + 1)..now
  <2> SUFFICES ASSUME NEW p \in pairs PROVE f[p] \in (a + 1)..now
    OBVIOUS
  <2> DEFINE due == slot[p[1]].due span == slot[p[1]].span
  <2>1. f[p] = due - span + p[2]
    OBVIOUS
  <2>2. /\ due \in Nat /\ span \in Nat /\ p[2] \in 1..span /\ due <= now
        /\ a + span <= due
    BY <1>1, <1>2, <1>3
  <2> HIDE DEF f, due, span
  <2>3. QED
    BY <1>1, <2>1, <2>2
<1>5. ASSUME NEW p \in pairs, NEW q \in pairs, f[p] = f[q] PROVE p = q
  <2> DEFINE u == p[1]
             w == q[1]
  <2>1. /\ u \in S /\ w \in S /\ p[2] \in 1..slot[u].span /\ q[2] \in 1..slot[w].span
        /\ p = <<u, p[2]>> /\ q = <<w, q[2]>>
    BY <1>3
  <2>2. slot[u].due - slot[u].span + p[2] = slot[w].due - slot[w].span + q[2]
    BY <1>5
  <2> HIDE DEF u, w, f
  <2>3. /\ u \in Transfer /\ w \in Transfer
        /\ slot[u].due \in Nat /\ slot[u].span \in Nat
        /\ slot[w].due \in Nat /\ slot[w].span \in Nat
    BY <1>2, <2>1
  <2>4. u = w
    <3> SUFFICES ASSUME u # w PROVE FALSE
      OBVIOUS
    <3>1. Apart(u, w)
      BY <1>2, <2>1, <2>3 DEF SlotInv
    <3>2. QED
      BY <2>1, <2>2, <2>3, <3>1 DEF Apart
  <2>5. p[2] = q[2]
    BY <2>1, <2>2, <2>3, <2>4
  <2>6. QED
    BY <2>1, <2>4, <2>5
<1>6. f \in Injection(pairs, (a + 1)..now)
  BY <1>4, <1>5, Fun_IsInj
<1>7. IsFiniteSet((a + 1)..now) /\ Cardinality((a + 1)..now) = now - a
  <2>1. a + 1 \in Int /\ now \in Int
    BY <1>1
  <2>2. /\ IsFiniteSet((a + 1)..now)
        /\ Cardinality((a + 1)..now) =
             IF a + 1 > now THEN 0 ELSE now - (a + 1) + 1
    BY <2>1, FS_Interval
  <2>3. (IF a + 1 > now THEN 0 ELSE now - (a + 1) + 1) = now - a
    BY <1>1
  <2>4. QED
    BY <2>2, <2>3
<1>8. Cardinality(pairs) <= now - a
  BY <1>6, <1>7, FS_Injection
<1>9. QED
  BY <1>8 DEF JointSpan, pairs, S, a

(***************************************************************************)
(* A transfer completes only once the air time it represents has passed    *)
(* (docs/ARCHITECTURE.md), for a whole stream: of the transfers that       *)
(* arrived since any one, those that are complete took at least their      *)
(* joint air time, however ticks and callbacks interleave; and an OUT      *)
(* transfer completes only after its voice has left the ring               *)
(* (ScoUsbSchedule, ScoUsbOutRelease, DeckBtScoCompleteDue).               *)
(***************************************************************************)
THEOREM TransfersFollowTheAir == Spec => []AirRate
<1>1. AirInv => AirRate
  <2> SUFFICES ASSUME AirInv PROVE AirRate
    OBVIOUS
  <2>1. TypeOK
    BY DEF AirInv
  <2>2. \A i \in DOMAIN ring : stage[ring[i].xfer] # "completed"
    BY DEF AirInv, RingInv, ChunkFits
  <2>3. QED
    BY <2>1, <2>2, FramesPassed DEF AirRate
<1>2. QED
  BY <1>1, AirInvariant, PTL

-----------------------------------------------------------------------------
(***************************************************************************)
(* Induction up to a bound, and what a recursive function is.              *)
(***************************************************************************)
\* The first of some places.
LEMMA FirstOf ==
  ASSUME NEW N \in Nat, NEW S, S \subseteq 1..N, S # {}
  PROVE  \E n \in S : n - 1 \notin S
<1> DEFINE T == {1..n : n \in S}
<1>0. IsFiniteSet(1..N)
  BY FS_Interval
<1>1. IsWellFoundedOn(StrictSubsetOrdering(1..N), SUBSET (1..N))
  BY <1>0, FS_StrictSubsetOrderingWellFounded, FS_FiniteSubsetsOfFinite
<1>2. T \subseteq SUBSET (1..N) /\ T # {}
  <2>1. \A n \in S : 1..n \subseteq 1..N
    OBVIOUS
  <2>2. QED
    BY <2>1
<1> HIDE DEF T
<1>3. \E s \in T : \A r \in T : ~(<<r, s>> \in StrictSubsetOrdering(1..N))
  BY <1>1, <1>2, WFMin
<1>4. PICK s \in T : \A r \in T : ~(<<r, s>> \in StrictSubsetOrdering(1..N))
  BY <1>3
<1>5. PICK n \in S : s = 1..n
  BY DEF T
<1>6. n - 1 \notin S
  <2> SUFFICES ASSUME n - 1 \in S PROVE FALSE
    OBVIOUS
  <2>1. 1..(n - 1) \in T
    BY DEF T
  <2>2. n \in Nat /\ 1..(n - 1) \subseteq 1..n /\ n \in 1..n /\ n \notin 1..(n - 1)
    OBVIOUS
  <2>3. <<1..(n - 1), s>> \in StrictSubsetOrdering(1..N)
    BY <1>2, <1>5, <2>1, <2>2 DEF StrictSubsetOrdering
  <2>4. QED
    BY <1>4, <2>1, <2>3
<1>7. QED
  BY <1>6

\* A set that holds 0, and with every number up to N the next one.
LEMMA UpTo ==
  ASSUME NEW N \in Nat, NEW S, 0 \in S,
         \A n \in 1..N : n - 1 \in S => n \in S
  PROVE  \A n \in 0..N : n \in S
<1> DEFINE bad == {n \in 1..N : n \notin S}
<1>1. bad = {}
  <2> SUFFICES ASSUME bad # {} PROVE FALSE
    OBVIOUS
  <2>1. bad \subseteq 1..N
    OBVIOUS
  <2>2. PICK n \in bad : n - 1 \notin bad
    <3> HIDE DEF bad
    <3>1. QED
      BY <2>1, FirstOf
  <2>3. n \in 1..N /\ n \notin S /\ (n - 1 \in 1..N => n - 1 \in S)
    BY <2>2
  <2>4. n - 1 \in 1..N \/ n - 1 = 0
    BY <2>3
  <2>5. QED
    BY <2>3, <2>4
<1>2. ASSUME NEW n \in 0..N PROVE n \in S
  <2>1. n = 0 \/ n \in 1..N
    OBVIOUS
  <2>2. QED
    BY <1>1, <2>1
<1>3. QED
  BY <1>2

\* A function may be given by its first value and a step from each value to
\* the next.
Unfolding(N, S, s, F) ==
  \E g \in [0..N -> S] : g[0] = s /\ \A n \in 1..N : g[n] = F[<<g[n - 1], n>>]

LEMMA Unfolds ==
  ASSUME NEW N \in Nat, NEW S, NEW s \in S, NEW F \in [S \X (1..N) -> S]
  PROVE  Unfolding(N, S, s, F)
<1> DEFINE Is(m, g) == g = [n \in 0..m |-> IF n = 0 THEN s ELSE F[<<g[n - 1], n>>]]
           M        == {m \in 0..N : \E g \in [0..m -> S] : Is(m, g)}
<1>1. 0 \in M
  <2> DEFINE g == [n \in 0..0 |-> s]
  <2>1. g \in [0..0 -> S] /\ Is(0, g)
    OBVIOUS
  <2>2. 0 \in 0..N
    OBVIOUS
  <2> HIDE DEF g, Is
  <2>3. QED
    BY <2>1, <2>2
<1>2. ASSUME NEW m \in 1..N, m - 1 \in M PROVE m \in M
  <2>1. PICK g \in [0..(m - 1) -> S] : Is(m - 1, g)
    BY <1>2
  <2> DEFINE h == [n \in 0..m |-> IF n = m THEN F[<<g[m - 1], m>>] ELSE g[n]]
  <2>2. m \in Nat /\ m # 0 /\ m - 1 \in 0..(m - 1) /\ g[m - 1] \in S
    <3>1. m \in Nat /\ m # 0 /\ m - 1 \in 0..(m - 1)
      OBVIOUS
    <3>2. QED
      BY <3>1
  <2>3. F[<<g[m - 1], m>>] \in S
    BY <2>2
  <2>4. h \in [0..m -> S]
    <3>1. \A n \in 0..m : n # m => n \in 0..(m - 1)
      BY <2>2
    <3>2. QED
      BY <2>3, <3>1
  <2>5. ASSUME NEW n \in 0..m
        PROVE  h[n] = IF n = 0 THEN s ELSE F[<<h[n - 1], n>>]
    <3>1. n # 0 => n - 1 \in 0..m /\ n - 1 # m
      BY <2>2
    <3>2. n # 0 => h[n - 1] = g[n - 1]
      BY <3>1
    <3>3. CASE n = m
      BY <2>2, <3>2, <3>3
    <3>4. CASE n # m
      <4>1. n \in 0..(m - 1) /\ h[n] = g[n]
        BY <2>2, <3>4
      <4>2. g[n] = IF n = 0 THEN s ELSE F[<<g[n - 1], n>>]
        BY <2>1, <4>1
      <4>3. QED
        BY <3>2, <4>1, <4>2
    <3>5. QED
      BY <3>3, <3>4
  <2>6. Is(m, h)
    <3>1. DOMAIN h = 0..m /\ h = [n \in 0..m |-> h[n]]
      OBVIOUS
    <3> HIDE DEF h
    <3>2. QED
      BY <2>5, <3>1
  <2>7. m \in 0..N
    OBVIOUS
  <2> HIDE DEF h, Is
  <2>8. QED
    BY <2>4, <2>6, <2>7
<1> HIDE DEF Is
<1>3. N \in M
  <2>1. \A m \in 1..N : m - 1 \in M => m \in M
    BY <1>2
  <2> HIDE DEF M
  <2>2. \A n \in 0..N : n \in M
    BY <1>1, <2>1, UpTo
  <2>3. QED
    BY <2>2
<1>4. PICK g \in [0..N -> S] : Is(N, g)
  BY <1>3
<1>5. g[0] = s
  BY <1>4 DEF Is
<1>6. \A n \in 1..N : g[n] = F[<<g[n - 1], n>>]
  <2>1. \A n \in 1..N : n \in 0..N /\ n # 0
    OBVIOUS
  <2>2. QED
    BY <1>4, <2>1 DEF Is
<1>7. QED
  BY <1>5, <1>6 DEF Unfolding

-----------------------------------------------------------------------------
(***************************************************************************)
(* The stream of the host.                                                 *)
(***************************************************************************)
LEMMA ElementIs ==
  ASSUME NEW S, NEW s \in Seq(S), NEW i \in 1..Len(s)
  PROVE  s[i] \in S
OBVIOUS

LEMMA AppendIs ==
  ASSUME NEW S, NEW s \in Seq(S), NEW e \in S
  PROVE  /\ Append(s, e) \in Seq(S) /\ Len(Append(s, e)) = Len(s) + 1
         /\ \A i \in 1..Len(s) : Append(s, e)[i] = s[i]
         /\ Append(s, e)[Len(s) + 1] = e
OBVIOUS

LEMMA TailIs ==
  ASSUME NEW S, NEW s \in Seq(S), s # << >>
  PROVE  /\ Tail(s) \in Seq(S) /\ Len(Tail(s)) = Len(s) - 1 /\ Len(s) \in Nat \ {0}
         /\ \A i \in 1..Len(s) - 1 : Tail(s)[i] = s[i + 1]
OBVIOUS

LEMMA SameSequence ==
  ASSUME NEW S, NEW s \in Seq(S), NEW t \in Seq(S), Len(s) = Len(t),
         \A i \in 1..Len(s) : s[i] = t[i]
  PROVE  s = t
OBVIOUS

LEMMA SentIs ==
  /\ Len(Sent) \in Nat /\ \A k \in 1..Len(Sent) : Sent[k].link \in Links /\ Sent[k].voice \in Nat
<1>1. Sent \in Seq([link : Links, voice : Nat])
  BY FramingAssumption
<1>2. \A k \in 1..Len(Sent) : Sent[k] \in [link : Links, voice : Nat]
  BY <1>1, ElementIs
<1>3. QED
  BY <1>1, <1>2

\* A packet starts where the one before it ends.
LEMMA StartIs ==
  /\ Start[1] = 1
  /\ \A k \in 1..Len(Sent) : Start[k + 1] = Start[k] + Header + Sent[k].voice
  /\ \A k \in 1..Len(Sent) + 1 : Start[k] \in Nat
<1> DEFINE N    == Len(Sent)
           F    == [x \in Nat \X (1..N) |-> x[1] + Header + Sent[x[2]].voice]
           E(h) == [k \in 1..(N + 1) |->
                      IF k = 1 THEN 1 ELSE h[k - 1] + Header + Sent[k - 1].voice]
<1>1. N \in Nat /\ \A k \in 1..N : Sent[k].voice \in Nat
  BY SentIs
<1>2. F \in [Nat \X (1..N) -> Nat]
  <2>1. ASSUME NEW x \in Nat \X (1..N) PROVE x[1] + Header + Sent[x[2]].voice \in Nat
    <3>1. x[1] \in Nat /\ Sent[x[2]].voice \in Nat
      BY <1>1
    <3>2. QED
      BY <3>1 DEF Header
  <2>2. QED
    BY <2>1
<1> HIDE DEF F
<1>3. \E g \in [0..N -> Nat] :
         g[0] = 1 /\ \A n \in 1..N : g[n] = F[<<g[n - 1], n>>]
  <2> HIDE DEF N
  <2>1. 1 \in Nat /\ N \in Nat
    BY <1>1
  <2>2. Unfolding(N, Nat, 1, F)
    BY <1>2, <2>1, Unfolds
  <2>3. QED
    BY <2>2 DEF Unfolding
<1>4. PICK g \in [0..N -> Nat] :
         g[0] = 1 /\ \A n \in 1..N : g[n] = F[<<g[n - 1], n>>]
  BY <1>3
<1> DEFINE h == [k \in 1..(N + 1) |-> g[k - 1]]
<1>5. h = E(h)
  <2> SUFFICES ASSUME NEW k \in 1..(N + 1)
               PROVE  h[k] = IF k = 1 THEN 1 ELSE h[k - 1] + Header + Sent[k - 1].voice
    OBVIOUS
  <2>1. k - 1 \in 0..N /\ (k # 1 => k - 1 \in 1..N /\ k - 1 \in 1..(N + 1) /\ k - 1 # 0
                                    /\ k - 1 - 1 \in 0..N)
    BY <1>1
  <2>2. h[k] = g[k - 1]
    OBVIOUS
  <2>3. CASE k = 1
    BY <1>4, <2>1, <2>2, <2>3
  <2>4. CASE k # 1
    <3>1. g[k - 1] = F[<<g[k - 1 - 1], k - 1>>]
      BY <1>4, <2>1, <2>4
    <3>2. F[<<g[k - 1 - 1], k - 1>>] = g[k - 1 - 1] + Header + Sent[k - 1].voice
      <4>1. g[k - 1 - 1] \in Nat
        BY <2>1, <2>4
      <4>2. <<g[k - 1 - 1], k - 1>> \in Nat \X (1..N)
        BY <2>1, <2>4, <4>1
      <4>3. QED
        BY <4>2 DEF F
    <3>3. h[k - 1] = g[k - 1 - 1]
      BY <2>1, <2>4
    <3>4. QED
      BY <2>2, <2>4, <3>1, <3>2, <3>3
  <2>5. QED
    BY <2>3, <2>4
<1> HIDE DEF h
<1>6. Start = E(Start)
  <2>1. Start = CHOOSE f : f = E(f)
    BY DEF Start
  <2> HIDE DEF E
  <2>2. QED
    BY <1>5, <2>1
<1>7. Start[1] = 1
  BY <1>1, <1>6
<1>8. \A k \in 1..N : Start[k + 1] = Start[k] + Header + Sent[k].voice
  <2> SUFFICES ASSUME NEW k \in 1..N
               PROVE  Start[k + 1] = Start[k] + Header + Sent[k].voice
    OBVIOUS
  <2>1. k + 1 \in 1..(N + 1) /\ k + 1 # 1 /\ k + 1 - 1 = k
    BY <1>1
  <2>2. QED
    BY <1>6, <2>1
<1>9. \A n \in 0..N : n \in {m \in 0..N : Start[m + 1] \in Nat}
  <2> DEFINE S == {m \in 0..N : Start[m + 1] \in Nat}
  <2>1. 0 \in S
    BY <1>1, <1>7
  <2>2. ASSUME NEW n \in 1..N, n - 1 \in S PROVE n \in S
    <3>1. Start[n] \in Nat /\ Sent[n].voice \in Nat
      BY <1>1, <2>2
    <3>2. Start[n + 1] = Start[n] + Header + Sent[n].voice
      BY <1>8
    <3>3. Start[n + 1] \in Nat
      BY <3>1, <3>2 DEF Header
    <3>4. QED
      BY <3>3
  <2>3. \A n \in 1..N : n - 1 \in S => n \in S
    BY <2>2
  <2> HIDE DEF S, N
  <2>4. \A n \in 0..N : n \in S
    BY <1>1, <2>1, <2>3, UpTo
  <2>5. QED
    BY <2>4 DEF S
<1>10. ASSUME NEW k \in 1..N + 1 PROVE Start[k] \in Nat
  <2>1. k - 1 \in 0..N /\ k - 1 + 1 = k
    BY <1>1
  <2>2. QED
    BY <1>9, <2>1
<1>11. QED
  BY <1>7, <1>8, <1>10

\* Starts rise, and never by less than a header.
LEMMA StartsRise ==
  \A j, k \in 1..(Len(Sent) + 1) :
     /\ Start[j] \in Nat /\ Start[j] >= 1
     /\ j <= k => Start[j] <= Start[k]
     /\ j < k => Start[j] + Header <= Start[k] /\ Start[j + 1] <= Start[k]
     /\ Start[j] < Start[k] => j < k
     /\ Start[j] <= Start[k] => j <= k
<1> DEFINE N == Len(Sent)
<1>1. N \in Nat /\ \A k \in 1..N : Sent[k].voice \in Nat
  BY SentIs
<1>2. /\ Start[1] = 1
      /\ \A k \in 1..N : Start[k + 1] = Start[k] + 3 + Sent[k].voice
      /\ \A k \in 1..N + 1 : Start[k] \in Nat
  BY StartIs DEF Header
<1> HIDE DEF N
<1>3. ASSUME NEW j \in 1..(N + 1)
      PROVE  \A n \in 0..N : j <= n + 1 => Start[j] <= Start[n + 1]
  <2> DEFINE S == {n \in 0..N : j <= n + 1 => Start[j] <= Start[n + 1]}
  <2>1. 0 \in S
    BY <1>1, <1>2
  <2>2. ASSUME NEW n \in 1..N, n - 1 \in S PROVE n \in S
    <3>1. n \in Nat /\ n - 1 + 1 = n /\ n \in 0..N /\ (j <= n => Start[j] <= Start[n])
      BY <1>1, <2>2
    <3>2. /\ Start[n + 1] = Start[n] + 3 + Sent[n].voice
          /\ Start[n] \in Nat /\ Sent[n].voice \in Nat /\ Start[j] \in Nat
      BY <1>1, <1>2
    <3>3. j <= n \/ ~(j <= n + 1) \/ j = n + 1
      BY <1>1, <3>1
    <3>4. j <= n + 1 => Start[j] <= Start[n + 1]
      BY <3>1, <3>2, <3>3
    <3>5. QED
      BY <3>1, <3>4
  <2>3. \A n \in 1..N : n - 1 \in S => n \in S
    BY <2>2
  <2> HIDE DEF S
  <2>4. \A n \in 0..N : n \in S
    BY <1>1, <2>1, <2>3, UpTo
  <2>5. QED
    BY <2>4 DEF S
<1>4. ASSUME NEW j \in 1..(N + 1), NEW k \in 1..(N + 1), j <= k
      PROVE  Start[j] <= Start[k]
  <2>1. k - 1 \in 0..N /\ k - 1 + 1 = k
    BY <1>1
  <2>2. QED
    BY <1>3, <1>4, <2>1
<1>5. ASSUME NEW j \in 1..(N + 1), NEW k \in 1..(N + 1), j < k
      PROVE  Start[j] + 3 <= Start[k] /\ Start[j + 1] <= Start[k]
  <2>1. j \in 1..N /\ j + 1 \in 1..(N + 1) /\ j + 1 <= k
    BY <1>1, <1>5
  <2>2. Start[j + 1] <= Start[k]
    BY <1>4, <2>1
  <2>3. /\ Start[j + 1] = Start[j] + 3 + Sent[j].voice /\ Sent[j].voice \in Nat
        /\ Start[j] \in Nat /\ Start[k] \in Nat
    BY <1>1, <1>2, <2>1
  <2>4. QED
    BY <2>2, <2>3
<1>6. ASSUME NEW j \in 1..(N + 1) PROVE Start[j] \in Nat /\ Start[j] >= 1
  <2>1. 1 \in 1..(N + 1) /\ 1 <= j
    BY <1>1
  <2>2. QED
    BY <1>2, <1>4, <2>1
<1>7. ASSUME NEW j \in 1..(N + 1), NEW k \in 1..(N + 1)
      PROVE  /\ Start[j] < Start[k] => j < k
             /\ Start[j] <= Start[k] => j <= k
  <2>1. Start[j] \in Nat /\ Start[k] \in Nat /\ j \in Int /\ k \in Int
    BY <1>6
  <2>2. k <= j => Start[k] <= Start[j]
    BY <1>4
  <2>3. k < j => Start[k] + 3 <= Start[j]
    BY <1>5
  <2>4. QED
    BY <2>1, <2>2, <2>3
<1>8. QED
  BY <1>4, <1>5, <1>6, <1>7 DEF N, Header

\* A place is in one packet.
LEMMA PlaceIsIn ==
  ASSUME NEW k \in 1..Len(Sent), NEW p \in Nat, Start[k] <= p, p < Start[k + 1]
  PROVE  PacketOf(p) = k /\ PlaceOf(p) = p - Start[k]
<1>1. k \in Nat /\ k + 1 \in 1..(Len(Sent) + 1) /\ k \in 1..(Len(Sent) + 1) /\ Len(Sent) \in Nat
  BY SentIs
<1>2. ASSUME NEW j \in 1..Len(Sent), Start[j] <= p, p < Start[j + 1]
      PROVE  j = k
  <2>1. j \in Nat /\ j + 1 \in 1..(Len(Sent) + 1) /\ j \in 1..(Len(Sent) + 1)
    BY <1>1
  <2>2. Start[j] \in Nat /\ Start[k] \in Nat /\ Start[j + 1] \in Nat /\ Start[k + 1] \in Nat
    BY <1>1, <2>1, StartsRise
  <2>3. Start[j] < Start[k + 1] /\ Start[k] < Start[j + 1]
    BY <1>2, <2>2
  <2>4. j < k + 1 /\ k < j + 1
    BY <1>1, <2>1, <2>3, StartsRise
  <2>5. QED
    BY <1>1, <2>1, <2>4
<1>3. PacketOf(p) = k
  BY <1>2 DEF PacketOf
<1>4. QED
  BY <1>3 DEF PlaceOf

\* Every byte of the host is in a packet.
LEMMA InAPacket ==
  ASSUME NEW p \in Nat, 1 <= p, p < Start[Len(Sent) + 1]
  PROVE  \E k \in 1..Len(Sent) : Start[k] <= p /\ p < Start[k + 1]
<1> DEFINE N == Len(Sent)
           Q(n) == \E k \in 1..N : Start[k] <= p /\ p < Start[k + 1]
           S == {n \in 0..N : p < Start[n + 1] => \E k \in 1..N : Start[k] <= p /\ p < Start[k + 1]}
<1>1. N \in Nat
  BY SentIs
<1>2. 0 \in S
  BY <1>1, StartIs
<1>3. ASSUME NEW n \in 1..N, n - 1 \in S PROVE n \in S
  <2>1. n - 1 + 1 = n /\ n \in 0..N /\ n \in 1..(N + 1)
    BY <1>1
  <2>2. p < Start[n] => \E k \in 1..N : Start[k] <= p /\ p < Start[k + 1]
    BY <1>3, <2>1
  <2>3. Start[n] \in Nat
    BY <2>1, StartsRise
  <2>4. QED
    BY <2>1, <2>2, <2>3
<1>4. \A n \in 1..N : n - 1 \in S => n \in S
  BY <1>3
<1>5. N \in S
  <2> HIDE DEF S, N
  <2>1. \A n \in 0..N : n \in S
    BY <1>1, <1>2, <1>4, UpTo
  <2>2. QED
    BY <1>1, <2>1
<1>6. QED
  BY <1>5

\* A set of numbers has a least one.
LEMMA LeastIs ==
  ASSUME NEW S, S \subseteq Nat, S # {}
  PROVE  Min(S) \in S /\ \A x \in S : Min(S) <= x
<1>1. \E x \in S : \A y \in S : x <= y
  <2> SUFFICES ASSUME \A x \in S : \E y \in S : ~(x <= y) PROVE FALSE
    OBVIOUS
  <2>1. PICK m \in S : TRUE
    OBVIOUS
  <2> DEFINE Q == {n \in 0..m : \A y \in S : y > n}
  <2>2. m \in Nat
    OBVIOUS
  <2>3. 0 \in Q
    <3>1. 0 \notin S
      OBVIOUS
    <3>2. QED
      BY <2>2, <3>1
  <2>4. ASSUME NEW n \in 1..m, n - 1 \in Q PROVE n \in Q
    <3>1. n \in Nat /\ n \in 0..m /\ \A y \in S : y \in Nat /\ y > n - 1
      BY <2>2, <2>4
    <3>2. \A y \in S : n <= y
      BY <3>1
    <3>3. n \notin S
      BY <3>2
    <3>4. \A y \in S : y > n
      BY <3>1, <3>2, <3>3
    <3>5. QED
      BY <3>1, <3>4
  <2>5. \A n \in 1..m : n - 1 \in Q => n \in Q
    BY <2>4
  <2>6. m \in Q
    <3> HIDE DEF Q
    <3>1. \A n \in 0..m : n \in Q
      BY <2>2, <2>3, <2>5, UpTo
    <3>2. m \in 0..m
      BY <2>2
    <3>3. QED
      BY <3>1, <3>2
  <2>7. m > m
    BY <2>1, <2>6
  <2>8. QED
    BY <2>2, <2>7
<1>2. QED
  BY <1>1 DEF Min

-----------------------------------------------------------------------------
(***************************************************************************)
(* The ring: chunks one behind the other, up to the next byte of the host. *)
(* A packet that begins an isochronous packet begins its chunk.            *)
(***************************************************************************)
Pieces == [from : Nat, n : Nat]

FrontOf(row, end) == IF row = << >> THEN end ELSE row[1].from

Contiguous(row, end) ==
  /\ row \in Seq(Pieces)
  /\ \A i \in 1..Len(row) :
        /\ row[i].n \in 1..MaxIso /\ row[i].from >= 1 /\ row[i].from < end
        /\ row[i].from + row[i].n = IF i = Len(row) THEN end ELSE row[i + 1].from
        /\ \A j \in 1..Len(row) : i < j => row[i].from + row[i].n <= row[j].from

Placed(row, end, al) ==
  \A j \in al :
     /\ Start[j] < end
     /\ FrontOf(row, end) <= Start[j] =>
          \E i \in 1..Len(row) : row[i].from = Start[j] /\ row[i].n >= 2

LEMMA RingTail ==
  ASSUME NEW row, NEW end \in Nat, row # << >>, Contiguous(row, end)
  PROVE  /\ Contiguous(Tail(row), end)
         /\ FrontOf(Tail(row), end) = row[1].from + row[1].n
         /\ Len(Tail(row)) = Len(row) - 1
         /\ FrontOf(Tail(row), end) \in Nat /\ FrontOf(Tail(row), end) > row[1].from
         /\ FrontOf(Tail(row), end) <= end
<1> DEFINE t == Tail(row)
<1>1. row \in Seq(Pieces)
  BY DEF Contiguous
<1>2. /\ t \in Seq(Pieces) /\ Len(t) = Len(row) - 1 /\ Len(row) \in Nat \ {0}
      /\ \A i \in 1..Len(row) - 1 : t[i] = row[i + 1]
  BY <1>1, TailIs
<1>3. \A i \in 1..Len(row) : row[i] \in Pieces
  BY <1>1, ElementIs
<1>4. \A i \in 1..Len(row) : row[i].from \in Nat /\ row[i].n \in Nat
  BY <1>3 DEF Pieces
<1>5. \A i \in 1..Len(row) :
        /\ row[i].n \in 1..MaxIso /\ row[i].from >= 1 /\ row[i].from < end
        /\ row[i].from + row[i].n = IF i = Len(row) THEN end ELSE row[i + 1].from
        /\ \A j \in 1..Len(row) : i < j => row[i].from + row[i].n <= row[j].from
  BY DEF Contiguous
<1> HIDE DEF t
<1>6. 1 \in 1..Len(row)
  BY <1>2
<1>7. FrontOf(t, end) = row[1].from + row[1].n
  <2>1. CASE Len(row) = 1
    <3>1. Len(t) = 0
      BY <1>2, <2>1
    <3>2. t = << >>
      BY <1>2, <3>1
    <3>3. QED
      BY <1>5, <1>6, <2>1, <3>2 DEF FrontOf
  <2>2. CASE Len(row) # 1
    <3>1. 1 \in 1..Len(row) - 1 /\ Len(t) # 0
      BY <1>2, <2>2
    <3>2. t # << >> /\ t[1] = row[2]
      BY <1>2, <3>1
    <3>3. 1 + 1 = 2
      OBVIOUS
    <3>4. QED
      BY <1>5, <1>6, <2>2, <3>2, <3>3 DEF FrontOf
  <2>3. QED
    BY <2>1, <2>2
<1>8. ASSUME NEW i \in 1..Len(t)
      PROVE  /\ t[i].n \in 1..MaxIso /\ t[i].from >= 1 /\ t[i].from < end
             /\ t[i].from + t[i].n = IF i = Len(t) THEN end ELSE t[i + 1].from
             /\ \A j \in 1..Len(t) : i < j => t[i].from + t[i].n <= t[j].from
  <2>1. i \in Nat /\ i + 1 \in 1..Len(row) /\ i \in 1..Len(row) - 1
    BY <1>2
  <2>2. t[i] = row[i + 1]
    BY <1>2, <2>1
  <2>3. (i = Len(t) <=> i + 1 = Len(row)) /\ (i # Len(t) => t[i + 1] = row[i + 2] /\ i + 1 + 1 = i + 2)
    BY <1>2, <2>1
  <2>4. ASSUME NEW j \in 1..Len(t), i < j
        PROVE  t[i].from + t[i].n <= t[j].from
    <3>1. j + 1 \in 1..Len(row) /\ j \in 1..Len(row) - 1 /\ i + 1 < j + 1
      BY <1>2, <2>1, <2>4
    <3>2. t[j] = row[j + 1]
      BY <1>2, <3>1
    <3>3. QED
      BY <1>5, <2>1, <2>2, <3>1, <3>2
  <2>5. QED
    BY <1>5, <2>1, <2>2, <2>3, <2>4
<1>9. Contiguous(t, end)
  BY <1>2, <1>8 DEF Contiguous
<1>10. /\ row[1].from + row[1].n > row[1].from
       /\ row[1].from + row[1].n \in Nat /\ row[1].from + row[1].n <= end
  <2>1. row[1].n >= 1 /\ row[1].n \in Nat /\ row[1].from \in Nat
    BY <1>4, <1>5, <1>6, FramingAssumption
  <2>2. ASSUME Len(row) # 1
        PROVE  /\ row[2].from < end /\ row[2].from \in Nat
               /\ row[1].from + row[1].n = row[2].from
    <3>1. PICK len \in Nat : len = Len(row) /\ len # 0
      BY <1>2
    <3>2. 2 \in 1..len /\ 1 + 1 = 2
      BY <2>2, <3>1
    <3>3. QED
      BY <1>4, <1>5, <1>6, <2>2, <3>1, <3>2
  <2>3. Len(row) = 1 => row[1].from + row[1].n = end
    BY <1>5, <1>6
  <2>4. QED
    BY <2>1, <2>2, <2>3
<1>11. QED
  BY <1>2, <1>7, <1>9, <1>10 DEF t

LEMMA RingAppend ==
  ASSUME NEW row, NEW end \in Nat, end >= 1, Contiguous(row, end), NEW n \in 1..MaxIso
  PROVE  LET c == [from |-> end, n |-> n] IN
         /\ Contiguous(Append(row, c), end + n)
         /\ FrontOf(Append(row, c), end + n) = FrontOf(row, end)
         /\ Len(Append(row, c)) = Len(row) + 1
<1> DEFINE c == [from |-> end, n |-> n]
           t == Append(row, c)
<1>1. row \in Seq(Pieces) /\ n \in Nat /\ n >= 1
  BY FramingAssumption DEF Contiguous
<1>2. c \in Pieces /\ c.from = end /\ c.n = n
  BY <1>1 DEF Pieces
<1> HIDE DEF c
<1>3. /\ t \in Seq(Pieces) /\ Len(t) = Len(row) + 1 /\ Len(row) \in Nat
      /\ \A i \in 1..Len(row) : t[i] = row[i]
      /\ t[Len(row) + 1] = c
  BY <1>1, <1>2, AppendIs
<1> HIDE DEF t
<1>4. \A i \in 1..Len(row) : row[i].from \in Nat /\ row[i].n \in Nat
  <2>1. \A i \in 1..Len(row) : row[i] \in Pieces
    BY <1>1, ElementIs
  <2>2. QED
    BY <2>1 DEF Pieces
<1>5. \A i \in 1..Len(row) :
        /\ row[i].n \in 1..MaxIso /\ row[i].from >= 1 /\ row[i].from < end
        /\ row[i].from + row[i].n = IF i = Len(row) THEN end ELSE row[i + 1].from
        /\ \A j \in 1..Len(row) : i < j => row[i].from + row[i].n <= row[j].from
  BY DEF Contiguous
<1>6. \A i \in 1..Len(row) : row[i].from + row[i].n <= end
  <2> SUFFICES ASSUME NEW i \in 1..Len(row) PROVE row[i].from + row[i].n <= end
    OBVIOUS
  <2>1. CASE i = Len(row)
    BY <1>5, <2>1
  <2>2. CASE i # Len(row)
    <3>1. Len(row) \in 1..Len(row) /\ i < Len(row)
      BY <1>3, <2>2
    <3>2. row[i].from + row[i].n <= row[Len(row)].from /\ row[Len(row)].from < end
      BY <1>5, <3>1
    <3>3. QED
      BY <1>4, <3>1, <3>2
  <2>3. QED
    BY <2>1, <2>2
<1>7. ASSUME NEW i \in 1..Len(t)
      PROVE  /\ t[i].n \in 1..MaxIso /\ t[i].from >= 1 /\ t[i].from < end + n
             /\ t[i].from + t[i].n = IF i = Len(t) THEN end + n ELSE t[i + 1].from
             /\ \A j \in 1..Len(t) : i < j => t[i].from + t[i].n <= t[j].from
  <2>1. CASE i = Len(row) + 1
    <3>1. t[i] = c /\ i = Len(t) /\ \A j \in 1..Len(t) : ~(i < j)
      BY <1>3, <2>1
    <3>2. QED
      BY <1>1, <1>2, <3>1
  <2>2. CASE i # Len(row) + 1
    <3>1. i \in 1..Len(row) /\ i # Len(t) /\ t[i] = row[i]
      BY <1>3, <2>2
    <3>2. /\ t[i].n \in 1..MaxIso /\ t[i].from >= 1 /\ t[i].from < end
          /\ t[i].from \in Nat
      BY <1>4, <1>5, <3>1
    <3>3. t[i].from + t[i].n = t[i + 1].from
      <4>1. CASE i = Len(row)
        BY <1>2, <1>3, <1>5, <3>1, <4>1
      <4>2. CASE i # Len(row)
        <5>1. i + 1 \in 1..Len(row)
          BY <1>3, <3>1, <4>2
        <5>2. QED
          BY <1>3, <1>5, <3>1, <4>2, <5>1
      <4>3. QED
        BY <4>1, <4>2
    <3>4. ASSUME NEW j \in 1..Len(t), i < j
          PROVE  t[i].from + t[i].n <= t[j].from
      <4>1. CASE j \in 1..Len(row)
        BY <1>3, <1>5, <3>1, <3>4, <4>1
      <4>2. CASE j \notin 1..Len(row)
        <5>1. j = Len(row) + 1
          BY <1>3, <4>2
        <5>2. QED
          BY <1>2, <1>3, <1>6, <3>1, <5>1
      <4>3. QED
        BY <4>1, <4>2
    <3>5. t[i].from < end + n
      BY <1>1, <3>2
    <3>6. QED
      BY <3>1, <3>2, <3>3, <3>4, <3>5
  <2>3. QED
    BY <2>1, <2>2
<1>8. Contiguous(t, end + n)
  BY <1>3, <1>7 DEF Contiguous
<1>9. FrontOf(t, end + n) = FrontOf(row, end)
  <2>0. t # << >>
    BY <1>3
  <2>1. CASE row = << >>
    <3>1. Len(row) + 1 = 1
      BY <2>1
    <3>2. QED
      BY <1>2, <1>3, <2>0, <2>1, <3>1 DEF FrontOf
  <2>2. CASE row # << >>
    <3>1. 1 \in 1..Len(row)
      BY <1>1, <1>3, <2>2
    <3>2. QED
      BY <1>3, <2>0, <2>2, <3>1 DEF FrontOf
  <2>3. QED
    BY <2>1, <2>2
<1>10. QED
  BY <1>3, <1>8, <1>9 DEF c, t

\* The front is at most the next byte.
LEMMA FrontIs ==
  ASSUME NEW row, NEW end \in Nat, end >= 1, Contiguous(row, end)
  PROVE  FrontOf(row, end) \in Nat /\ FrontOf(row, end) >= 1 /\ FrontOf(row, end) <= end
<1>1. row \in Seq(Pieces)
  BY DEF Contiguous
<1>2. CASE row = << >>
  BY <1>2 DEF FrontOf
<1>3. CASE row # << >>
  <2>1. 1 \in 1..Len(row)
    BY <1>1, <1>3
  <2>2. row[1].from \in Nat
    <3>1. row[1] \in Pieces
      BY <1>1, <2>1, ElementIs
    <3>2. QED
      BY <3>1 DEF Pieces
  <2>3. row[1].from >= 1 /\ row[1].from < end
    BY <2>1 DEF Contiguous
  <2>4. QED
    BY <1>3, <2>2, <2>3 DEF FrontOf
<1>4. QED
  BY <1>2, <1>3

-----------------------------------------------------------------------------
(***************************************************************************)
(* Reassembling.                                                           *)
(***************************************************************************)
States(heard) == [packet : Seq(Nat), last : heard, emitted : Seq(Seq(Nat))]

Named == {HandleOf(p, q) : p, q \in Nat}

LEMMA ReassembleTypes ==
  ASSUME NEW heard, Named \subseteq heard, NEW st \in States(heard), NEW p \in Nat
  PROVE  Reassemble(st, p) \in States(heard)
<1> DEFINE pk == Append(st.packet, p)
<1>1. st.packet \in Seq(Nat) /\ st.last \in heard /\ st.emitted \in Seq(Seq(Nat))
  BY DEF States
<1>2. pk \in Seq(Nat) /\ Len(pk) \in Nat
  BY <1>1, AppendIs
<1> HIDE DEF pk
<1>3. << >> \in Seq(Nat)
  OBVIOUS
<1>4. CASE Len(pk) >= Header /\ Len(pk) = Header + LengthAt(pk[3])
  <2>1. 1 \in 1..Len(pk) /\ 2 \in 1..Len(pk)
    BY <1>2, <1>4 DEF Header
  <2>2. pk[1] \in Nat /\ pk[2] \in Nat
    BY <1>2, <2>1, ElementIs
  <2>3. HandleOf(pk[1], pk[2]) \in heard
    BY <2>2 DEF Named
  <2>4. Append(st.emitted, pk) \in Seq(Seq(Nat))
    BY <1>1, <1>2, AppendIs
  <2>5. Reassemble(st, p) = [packet |-> << >>, last |-> HandleOf(pk[1], pk[2]),
                             emitted |-> Append(st.emitted, pk)]
    BY <1>4 DEF Reassemble, Emit, pk
  <2>6. QED
    BY <1>3, <2>3, <2>4, <2>5 DEF States
<1>5. CASE ~(Len(pk) >= Header /\ Len(pk) = Header + LengthAt(pk[3]))
  <2>1. Reassemble(st, p) = [st EXCEPT !.packet = pk]
    BY <1>5 DEF Reassemble, pk
  <2>2. QED
    BY <1>1, <1>2, <2>1 DEF States
<1>6. QED
  BY <1>4, <1>5

Now == [packet |-> packet, last |-> last, emitted |-> emitted]

LEMMA ReassembledIs ==
  ASSUME packet \in Seq(Nat), emitted \in Seq(Seq(Nat)), chunks[1].from \in Nat
  PROVE  /\ Reassembled[0] = Now
         /\ \A n \in 1..MaxIso :
               Reassembled[n] = Reassemble(Reassembled[n - 1], chunks[1].from + n - 1)
         /\ \A n \in 0..MaxIso : Reassembled[n] \in States(Named \cup {last})
<1> DEFINE heard == Named \cup {last}
           S     == States(heard)
           first == chunks[1].from
           F     == [x \in S \X (1..MaxIso) |-> Reassemble(x[1], first + x[2] - 1)]
           E(h)  == [n \in 0..MaxIso |->
                       IF n = 0 THEN [packet |-> packet, last |-> last, emitted |-> emitted]
                       ELSE Reassemble(h[n - 1], first + n - 1)]
<1>1. MaxIso \in Nat
  BY FramingAssumption
<1>2. Now \in S
  BY DEF States, Now
<1>3. F \in [S \X (1..MaxIso) -> S]
  <2>1. ASSUME NEW x \in S \X (1..MaxIso) PROVE Reassemble(x[1], first + x[2] - 1) \in S
    <3>1. x[1] \in S /\ first + x[2] - 1 \in Nat /\ Named \subseteq heard
      BY <1>1
    <3> HIDE DEF heard, first
    <3>2. QED
      BY <3>1, ReassembleTypes
  <2> HIDE DEF S
  <2>2. QED
    BY <2>1
<1> HIDE DEF S, first
<1>4. Unfolding(MaxIso, S, Now, F)
  <2> HIDE DEF F
  <2>1. QED
    BY <1>1, <1>2, <1>3, Unfolds
<1>5. PICK g \in [0..MaxIso -> S] :
         g[0] = Now /\ \A n \in 1..MaxIso : g[n] = F[<<g[n - 1], n>>]
  <2> HIDE DEF F
  <2>1. QED
    BY <1>4 DEF Unfolding
<1>6. \A n \in 1..MaxIso : g[n] = Reassemble(g[n - 1], first + n - 1)
  <2> SUFFICES ASSUME NEW n \in 1..MaxIso
               PROVE  g[n] = Reassemble(g[n - 1], first + n - 1)
    OBVIOUS
  <2>1. g[n - 1] \in S
    BY <1>1
  <2>2. F[<<g[n - 1], n>>] = Reassemble(g[n - 1], first + n - 1)
    <3>1. <<g[n - 1], n>> \in S \X (1..MaxIso)
      BY <2>1
    <3>2. QED
      BY <3>1
  <2>3. QED
    BY <1>5, <2>2
<1> HIDE DEF F
<1>7. g = E(g)
  <2>1. ASSUME NEW n \in 0..MaxIso
        PROVE  g[n] = IF n = 0 THEN [packet |-> packet, last |-> last, emitted |-> emitted]
                      ELSE Reassemble(g[n - 1], first + n - 1)
    <3>1. n = 0 \/ n \in 1..MaxIso
      BY <1>1
    <3>2. QED
      BY <1>5, <1>6, <3>1 DEF Now
  <2>2. QED
    BY <2>1
<1>8. Reassembled = E(Reassembled)
  <2>1. Reassembled = CHOOSE h : h = E(h)
    BY DEF Reassembled, first
  <2> HIDE DEF E
  <2>2. QED
    BY <1>7, <2>1
<1>9. Reassembled[0] = Now
  <2>1. 0 \in 0..MaxIso
    BY <1>1
  <2>2. QED
    BY <1>8, <2>1 DEF Now
<1>10. \A n \in 1..MaxIso : Reassembled[n] = Reassemble(Reassembled[n - 1], first + n - 1)
  <2> SUFFICES ASSUME NEW n \in 1..MaxIso
               PROVE  Reassembled[n] = Reassemble(Reassembled[n - 1], first + n - 1)
    OBVIOUS
  <2>1. n \in 0..MaxIso /\ n # 0
    BY <1>1
  <2>2. QED
    BY <1>8, <2>1
<1>11. \A n \in 0..MaxIso : n \in {m \in 0..MaxIso : Reassembled[m] \in S}
  <2> DEFINE T == {m \in 0..MaxIso : Reassembled[m] \in S}
  <2>1. 0 \in T
    BY <1>1, <1>2, <1>9
  <2>2. ASSUME NEW n \in 1..MaxIso, n - 1 \in T PROVE n \in T
    <3>1. Reassembled[n - 1] \in S /\ first + n - 1 \in Nat /\ n \in 0..MaxIso
      BY <1>1, <2>2 DEF first
    <3>2. Named \subseteq heard
      OBVIOUS
    <3> HIDE DEF heard
    <3>3. Reassemble(Reassembled[n - 1], first + n - 1) \in S
      BY <3>1, <3>2, ReassembleTypes DEF S
    <3>4. QED
      BY <1>10, <3>1, <3>3
  <2>3. \A n \in 1..MaxIso : n - 1 \in T => n \in T
    BY <2>2
  <2> HIDE DEF T
  <2>4. QED
    BY <1>1, <2>1, <2>3, UpTo DEF T
<1>12. QED
  BY <1>9, <1>10, <1>11 DEF first, S

\* What is put together of packet k when the byte at f is next, and what has
\* been emitted: packets before it.
Assembled(k, f, st) ==
  /\ k \in 1..(Len(Sent) + 1)
  /\ st.packet \in Seq(Nat) /\ st.emitted \in Seq(Seq(Nat))
  /\ st.last \in Links \cup {NoLink}
  /\ Start[k] + Len(st.packet) = f
  /\ \A i \in 1..Len(st.packet) : st.packet[i] = Start[k] + i - 1
  /\ k <= Len(Sent) => f < Start[k + 1]
  /\ k = Len(Sent) + 1 => f = Start[k]
  /\ \A i \in 1..Len(st.emitted) : \E j \in 1..(k - 1) : st.emitted[i] = Whole(j)
  /\ \A i, j \in 1..Len(st.emitted) : i < j => st.emitted[i][1] < st.emitted[j][1]

HeardFrom(a, k, st) ==
  \A m \in a..(k - 1) : \E i \in 1..Len(st.emitted) : st.emitted[i] = Whole(m)

LEMMA WholeIs ==
  ASSUME NEW k \in 1..Len(Sent)
  PROVE  /\ Whole(k) \in Seq(Nat) /\ Len(Whole(k)) = Header + Sent[k].voice
         /\ \A i \in 1..(Header + Sent[k].voice) : Whole(k)[i] = Start[k] + i - 1
         /\ Whole(k)[1] = Start[k]
<1>1. Start[k] \in Nat /\ Sent[k].voice \in Nat
  <2>1. k \in 1..(Len(Sent) + 1)
    BY SentIs
  <2>2. QED
    BY <2>1, SentIs, StartIs
<1>2. Header + Sent[k].voice \in Nat /\ 1 \in 1..(Header + Sent[k].voice)
  BY <1>1 DEF Header
<1>3. \A i \in 1..(Header + Sent[k].voice) : Start[k] + i - 1 \in Nat
  BY <1>1, <1>2
<1>4. Whole(k)[1] = Start[k] + 1 - 1
  BY <1>2 DEF Whole
<1>5. QED
  BY <1>1, <1>2, <1>3, <1>4 DEF Whole

LEMMA ReassembleStep ==
  ASSUME NEW heard, NEW st \in States(heard), NEW k, NEW f \in Nat,
         Assembled(k, f, st), f < Start[Len(Sent) + 1]
  PROVE  LET t == Reassemble(st, f) IN
         \E l \in 1..(Len(Sent) + 1) :
            /\ k <= l
            /\ Assembled(l, f + 1, t)
            /\ \A a \in 1..(Len(Sent) + 1) : HeardFrom(a, k, st) => HeardFrom(a, l, t)
<1> DEFINE t  == Reassemble(st, f)
           pk == Append(st.packet, f)
           N  == Len(Sent)
<1>1. /\ N \in Nat /\ k \in 1..(N + 1) /\ k \in Nat
      /\ st.packet \in Seq(Nat) /\ st.emitted \in Seq(Seq(Nat)) /\ st.last \in Links \cup {NoLink}
      /\ Len(st.packet) \in Nat /\ Len(st.emitted) \in Nat
  BY SentIs DEF Assembled
<1>2. k \in 1..N /\ f < Start[k + 1]
  <2>0. k = N + 1 => f = Start[N + 1]
    BY DEF Assembled
  <2>1. k # N + 1
    BY <2>0
  <2>2. k \in 1..N
    BY <1>1, <2>1
  <2>3. QED
    BY <2>2 DEF Assembled
<1>3. /\ Start[k] \in Nat /\ Start[k] + Len(st.packet) = f /\ Start[k + 1] = Start[k] + 3 + Sent[k].voice
      /\ Sent[k].voice \in Nat /\ Sent[k].link \in Links
  BY <1>1, <1>2, SentIs, StartIs DEF Assembled, Header
<1>4. /\ pk \in Seq(Nat) /\ Len(pk) = Len(st.packet) + 1
      /\ \A i \in 1..Len(st.packet) : pk[i] = st.packet[i]
      /\ pk[Len(st.packet) + 1] = f
  BY <1>1, AppendIs
<1> HIDE DEF pk
<1>5. \A i \in 1..Len(pk) : pk[i] = Start[k] + i - 1
  <2> SUFFICES ASSUME NEW i \in 1..Len(pk) PROVE pk[i] = Start[k] + i - 1
    OBVIOUS
  <2>1. CASE i \in 1..Len(st.packet)
    BY <1>4, <2>1 DEF Assembled
  <2>2. CASE i \notin 1..Len(st.packet)
    <3>1. i = Len(st.packet) + 1
      BY <1>1, <1>4, <2>2
    <3>2. QED
      BY <1>1, <1>3, <1>4, <3>1
  <2>3. QED
    BY <2>1, <2>2
<1>6. ASSUME Len(pk) >= 3 PROVE LengthAt(pk[3]) = Sent[k].voice
  <2>1. pk[3] = Start[k] + 2
    <3>1. 3 \in 1..Len(pk)
      BY <1>1, <1>4, <1>6
    <3>2. pk[3] = Start[k] + 3 - 1
      BY <1>5, <3>1
    <3>3. QED
      BY <1>3, <3>2
  <2>2. PacketOf(pk[3]) = k /\ PlaceOf(pk[3]) = pk[3] - Start[k]
    <3>1. pk[3] \in Nat /\ Start[k] <= pk[3] /\ pk[3] < Start[k + 1]
      BY <1>3, <2>1
    <3>2. QED
      BY <1>2, <3>1, PlaceIsIn
  <2>3. PlaceOf(pk[3]) = 2
    BY <1>3, <2>1, <2>2
  <2>4. QED
    BY <2>2, <2>3 DEF LengthAt
<1>7. CASE Len(pk) >= 3 /\ Len(pk) = 3 + Sent[k].voice
  <2>1. t = [packet |-> << >>, last |-> HandleOf(pk[1], pk[2]),
             emitted |-> Append(st.emitted, pk)]
    BY <1>6, <1>7 DEF Reassemble, Emit, Header, pk
  <2>2. pk = Whole(k)
    <3>1. Whole(k) \in Seq(Nat) /\ Len(Whole(k)) = Len(pk)
          /\ \A i \in 1..Len(pk) : Whole(k)[i] = Start[k] + i - 1
      BY <1>2, <1>7, WholeIs DEF Header
    <3>2. QED
      BY <1>4, <1>5, <3>1, SameSequence
  <2>3. HandleOf(pk[1], pk[2]) = Sent[k].link
    <3>1. 1 \in 1..Len(pk) /\ 2 \in 1..Len(pk)
      <4>1. Len(pk) \in Nat /\ Len(pk) >= 3
        BY <1>4, <1>7
      <4>2. QED
        BY <4>1
    <3>2. pk[1] = Start[k] + 1 - 1 /\ pk[2] = Start[k] + 2 - 1
      BY <1>5, <3>1
    <3>3. pk[1] = Start[k] /\ pk[2] = pk[1] + 1
      BY <1>3, <3>2
    <3>4. PacketOf(pk[1]) = k /\ PlaceOf(pk[1]) = pk[1] - Start[k]
      <4>1. pk[1] \in Nat /\ Start[k] <= pk[1] /\ pk[1] < Start[k + 1]
        BY <1>3, <3>3
      <4>2. QED
        BY <1>2, <4>1, PlaceIsIn
    <3>5. PlaceOf(pk[1]) = 0
      BY <1>3, <3>3, <3>4
    <3>6. QED
      BY <3>3, <3>4, <3>5 DEF HandleOf
  <2>4. /\ t.emitted \in Seq(Seq(Nat)) /\ Len(t.emitted) = Len(st.emitted) + 1
        /\ \A i \in 1..Len(st.emitted) : t.emitted[i] = st.emitted[i]
        /\ t.emitted[Len(st.emitted) + 1] = Whole(k)
    <3>1. t.emitted = Append(st.emitted, Whole(k))
      BY <2>1, <2>2
    <3>2. Whole(k) \in Seq(Nat) /\ st.emitted \in Seq(Seq(Nat))
      BY <1>1, <1>4, <2>2
    <3> HIDE DEF t
    <3>3. QED
      BY <3>1, <3>2, AppendIs
  <2>5. t.packet = << >> /\ Len(t.packet) = 0 /\ t.packet \in Seq(Nat) /\ t.last = Sent[k].link
    BY <2>1, <2>3
  <2> HIDE DEF t
  <2>6. k + 1 \in 1..(N + 1) /\ k <= k + 1
    BY <1>1, <1>2
  <2>7. f + 1 = Start[k + 1]
    <3>1. PICK have \in Nat : have = Len(st.packet)
      BY <1>1
    <3>2. PICK voice \in Nat : voice = Sent[k].voice
      BY <1>3
    <3>3. PICK s \in Nat : s = Start[k]
      BY <1>3
    <3>4. have + 1 = 3 + voice /\ s + have = f /\ Start[k + 1] = s + 3 + voice
      BY <1>3, <1>4, <1>7, <3>1, <3>2, <3>3
    <3> HIDE <1>7
    <3>5. QED
      BY <3>4
  <2>8. Assembled(k + 1, f + 1, t)
    <3>1. \A i \in 1..Len(t.emitted) : i \in 1..Len(st.emitted) \/ i = Len(st.emitted) + 1
      BY <1>1, <2>4
    <3>2. ASSUME NEW i \in 1..Len(t.emitted)
          PROVE  \E j \in 1..(k + 1 - 1) : t.emitted[i] = Whole(j)
      <4>1. CASE i \in 1..Len(st.emitted)
        <5>1. PICK j \in 1..(k - 1) : st.emitted[i] = Whole(j)
          BY <4>1 DEF Assembled
        <5>2. j \in 1..(k + 1 - 1)
          BY <1>1
        <5>3. QED
          BY <2>4, <4>1, <5>1, <5>2
      <4>2. CASE i = Len(st.emitted) + 1
        <5>1. k \in 1..(k + 1 - 1)
          BY <1>1
        <5>2. QED
          BY <2>4, <4>2, <5>1
      <4>3. QED
        BY <3>1, <4>1, <4>2
    <3>3. ASSUME NEW i \in 1..Len(t.emitted), NEW j \in 1..Len(t.emitted), i < j
          PROVE  t.emitted[i][1] < t.emitted[j][1]
      <4>1. i \in 1..Len(st.emitted)
        BY <1>1, <2>4, <3>3
      <4>2. CASE j \in 1..Len(st.emitted)
        BY <2>4, <3>3, <4>1, <4>2 DEF Assembled
      <4>3. CASE j = Len(st.emitted) + 1
        <5>1. PICK m \in 1..(k - 1) : st.emitted[i] = Whole(m)
          BY <4>1 DEF Assembled
        <5>2. m \in 1..N /\ m \in 1..(N + 1) /\ m < k
          BY <1>1, <1>2
        <5>3. Start[m] + 3 <= Start[k] /\ Start[m] \in Nat
          BY <1>1, <5>2, StartsRise DEF Header
        <5>4. Whole(m)[1] = Start[m] /\ Whole(k)[1] = Start[k]
          BY <1>2, <5>2, WholeIs
        <5>5. t.emitted[i][1] = Start[m] /\ t.emitted[j][1] = Start[k]
          BY <2>4, <4>1, <4>3, <5>1, <5>4
        <5>6. Start[m] < Start[k]
          BY <1>3, <5>3
        <5>7. QED
          BY <5>5, <5>6
      <4>4. QED
        BY <3>1, <4>2, <4>3
    <3>4. k + 1 <= N => f + 1 < Start[k + 1 + 1]
      <4> SUFFICES ASSUME k + 1 <= N PROVE f + 1 < Start[k + 1 + 1]
        OBVIOUS
      <4>1. k + 1 \in 1..N /\ k + 1 \in 1..(N + 1)
        BY <1>1, <2>6
      <4>2. /\ Start[k + 1 + 1] = Start[k + 1] + 3 + Sent[k + 1].voice
            /\ Start[k + 1] \in Nat /\ Sent[k + 1].voice \in Nat
        BY <4>1, SentIs, StartIs DEF Header
      <4>3. QED
        BY <2>7, <4>2
    <3>5. Start[k + 1] + Len(t.packet) = f + 1
      <4>1. f + 1 + 0 = f + 1
        OBVIOUS
      <4>2. QED
        BY <2>5, <2>7, <4>1
    <3>6. \A i \in 1..Len(t.packet) : t.packet[i] = Start[k + 1] + i - 1
      BY <2>5
    <3>7. QED
      BY <1>3, <2>4, <2>5, <2>6, <2>7, <3>2, <3>3, <3>4, <3>5, <3>6 DEF Assembled
  <2>9. ASSUME NEW a \in 1..(N + 1), HeardFrom(a, k, st)
        PROVE  HeardFrom(a, k + 1, t)
    <3>1. ASSUME NEW m \in a..(k + 1 - 1)
          PROVE  \E i \in 1..Len(t.emitted) : t.emitted[i] = Whole(m)
      <4>1. CASE m = k
        <5>1. Len(st.emitted) + 1 \in 1..Len(t.emitted)
          BY <1>1, <2>4
        <5>2. QED
          BY <2>4, <4>1, <5>1
      <4>2. CASE m # k
        <5>1. m \in a..(k - 1)
          BY <1>1, <4>2
        <5>2. PICK i \in 1..Len(st.emitted) : st.emitted[i] = Whole(m)
          BY <2>9, <5>1 DEF HeardFrom
        <5>3. i \in 1..Len(t.emitted)
          BY <1>1, <2>4
        <5>4. QED
          BY <2>4, <5>2, <5>3
      <4>3. QED
        BY <4>1, <4>2
    <3>2. \A m \in a..(k + 1 - 1) : \E i \in 1..Len(t.emitted) : t.emitted[i] = Whole(m)
      BY <3>1
    <3>3. QED
      BY <1>1, <3>2 DEF HeardFrom
  <2>10. QED
    BY <2>6, <2>8, <2>9 DEF t
<1>8. CASE ~(Len(pk) >= 3 /\ Len(pk) = 3 + Sent[k].voice)
  <2>1. t = [st EXCEPT !.packet = pk]
    BY <1>6, <1>8 DEF Reassemble, Header, pk
  <2>2. t.packet = pk /\ t.last = st.last /\ t.emitted = st.emitted
    BY <2>1 DEF States
  <2> HIDE DEF t
  <2>3. Start[k] + Len(pk) = f + 1
    <3>1. \A b, l \in Nat : b + (l + 1) = b + l + 1
      OBVIOUS
    <3>2. Start[k] + (Len(st.packet) + 1) = Start[k] + Len(st.packet) + 1
      BY <1>1, <1>3, <3>1
    <3>3. QED
      BY <1>3, <1>4, <3>2
  <2>4. f + 1 < Start[k + 1]
    <3>1. Len(pk) # 3 + Sent[k].voice /\ Len(pk) \in Nat
      <4>1. Len(pk) \in Nat
        BY <1>4
      <4>2. PICK voice \in Nat : voice = Sent[k].voice
        BY <1>3
      <4>3. ~(Len(pk) >= 3 /\ Len(pk) = 3 + voice)
        BY <1>8, <4>2
      <4> HIDE <1>8
      <4>4. Len(pk) # 3 + voice
        BY <4>1, <4>3
      <4>5. QED
        BY <4>1, <4>2, <4>4
    <3>2. \A b, l, v, g \in Nat : b + l = g + 1 /\ g < b + 3 + v /\ l # 3 + v => g + 1 < b + 3 + v
      OBVIOUS
    <3>3. QED
      BY <1>2, <1>3, <2>3, <3>1, <3>2
  <2>5. Assembled(k, f + 1, t)
    <3>1. k # N + 1
      BY <1>1, <1>2
    <3>2. QED
      BY <1>1, <1>4, <1>5, <2>2, <2>3, <2>4, <3>1 DEF Assembled
  <2>6. \A a \in 1..(N + 1) : HeardFrom(a, k, st) => HeardFrom(a, k, t)
    BY <2>2 DEF HeardFrom
  <2>7. k <= k
    BY <1>1
  <2>8. QED
    BY <1>1, <2>5, <2>6, <2>7 DEF t
<1>9. QED
  BY <1>7, <1>8

\* A chunk, byte by byte.
LEMMA ChunkAssembles ==
  ASSUME packet \in Seq(Nat), emitted \in Seq(Seq(Nat)), chunks[1].from \in Nat,
         NEW k \in 1..(Len(Sent) + 1), Assembled(k, chunks[1].from, Now),
         NEW n \in 1..MaxIso, chunks[1].from + n <= Start[Len(Sent) + 1]
  PROVE  \E l \in 1..(Len(Sent) + 1) :
            /\ Assembled(l, chunks[1].from + n, Reassembled[n])
            /\ \A a \in 1..(Len(Sent) + 1) :
                  HeardFrom(a, k, Now) => HeardFrom(a, l, Reassembled[n])
<1> DEFINE first == chunks[1].from
           N     == Len(Sent)
           Good(l, i) == /\ Assembled(l, first + i, Reassembled[i])
                         /\ \A a \in 1..(N + 1) :
                               HeardFrom(a, k, Now) => HeardFrom(a, l, Reassembled[i])
           S     == {i \in 0..n : \E l \in 1..(N + 1) : Good(l, i)}
<1>1. n \in Nat /\ MaxIso \in Nat /\ n <= MaxIso /\ N \in Nat /\ first \in Nat
  BY FramingAssumption, SentIs
<1>2. /\ Reassembled[0] = Now
      /\ \A i \in 1..MaxIso : Reassembled[i] = Reassemble(Reassembled[i - 1], first + i - 1)
      /\ \A i \in 0..MaxIso : Reassembled[i] \in States(Named \cup {last})
  BY ReassembledIs
<1>3. Start[N + 1] \in Nat
  <2>1. N + 1 \in 1..(N + 1)
    BY <1>1
  <2>2. QED
    BY <2>1, StartsRise
<1>4. Assembled(k, first, Now) /\ first + n <= Start[N + 1]
  OBVIOUS
<1> HIDE DEF first
<1>5. 0 \in S
  <2>1. first + 0 = first /\ 0 \in 0..n
    BY <1>1
  <2>2. Good(k, 0)
    BY <1>2, <1>4, <2>1
  <2> HIDE DEF Good
  <2>3. QED
    BY <2>1, <2>2
<1>6. ASSUME NEW i \in 1..n, i - 1 \in S PROVE i \in S
  <2>1. /\ i \in 0..n /\ i \in 1..MaxIso /\ i - 1 \in 0..MaxIso
        /\ first + i - 1 \in Nat /\ first + (i - 1) = first + i - 1 /\ first + i - 1 + 1 = first + i
        /\ first + i - 1 < Start[N + 1]
    BY <1>1, <1>3, <1>4
  <2>2. PICK m \in 1..(N + 1) : Good(m, i - 1)
    <3> HIDE DEF Good
    <3>1. QED
      BY <1>6
  <2> DEFINE s == Reassembled[i - 1]
             f == first + i - 1
  <2>3. Assembled(m, f, s) /\ \A a \in 1..(N + 1) : HeardFrom(a, k, Now) => HeardFrom(a, m, s)
    BY <2>1, <2>2
  <2>4. s \in States(Named \cup {last}) /\ f \in Nat /\ f < Start[N + 1]
    BY <1>2, <2>1
  <2>5. Reassembled[i] = Reassemble(s, f) /\ f + 1 = first + i
    BY <1>2, <2>1
  <2> HIDE DEF s, f, N
  <2>6. \E l \in 1..(N + 1) :
            /\ m <= l
            /\ Assembled(l, f + 1, Reassemble(s, f))
            /\ \A a \in 1..(N + 1) : HeardFrom(a, m, s) => HeardFrom(a, l, Reassemble(s, f))
    <3>1. Assembled(m, f, s) /\ f < Start[Len(Sent) + 1]
      BY <2>3, <2>4 DEF N
    <3>2. QED
      BY <2>4, <3>1, ReassembleStep DEF N
  <2>7. PICK l \in 1..(N + 1) :
            /\ Assembled(l, f + 1, Reassemble(s, f))
            /\ \A a \in 1..(N + 1) : HeardFrom(a, m, s) => HeardFrom(a, l, Reassemble(s, f))
    BY <2>6
  <2>8. Good(l, i)
    BY <2>3, <2>5, <2>7
  <2> HIDE DEF Good
  <2>9. QED
    BY <2>1, <2>8
<1>7. \A i \in 1..n : i - 1 \in S => i \in S
  BY <1>6
<1>8. n \in S
  <2> HIDE DEF S
  <2>1. \A i \in 0..n : i \in S
    BY <1>1, <1>5, <1>7, UpTo
  <2>2. QED
    BY <1>1, <2>1
<1>9. QED
  BY <1>8 DEF first

LEMMA PlacedTail ==
  ASSUME NEW row, NEW end \in Nat, NEW al, al \subseteq 1..Len(Sent), row # << >>,
         Contiguous(row, end), Placed(row, end, al)
  PROVE  Placed(Tail(row), end, al)
<1>1. row \in Seq(Pieces)
  BY DEF Contiguous
<1>2. /\ Len(Tail(row)) = Len(row) - 1 /\ Len(row) \in Nat \ {0}
      /\ \A i \in 1..Len(row) - 1 : Tail(row)[i] = row[i + 1]
  BY <1>1, TailIs
<1>3. /\ FrontOf(Tail(row), end) \in Nat /\ FrontOf(Tail(row), end) > row[1].from
      /\ FrontOf(row, end) = row[1].from
  BY RingTail DEF FrontOf
<1>4. row[1].from \in Nat
  <2>1. row[1] \in Pieces
    BY <1>1, <1>2, ElementIs
  <2>2. QED
    BY <2>1 DEF Pieces
<1>5. ASSUME NEW j \in al, FrontOf(Tail(row), end) <= Start[j]
      PROVE  \E i \in 1..Len(Tail(row)) : Tail(row)[i].from = Start[j] /\ Tail(row)[i].n >= 2
  <2>1. j \in 1..(Len(Sent) + 1)
    BY SentIs
  <2>2. Start[j] \in Nat
    BY <2>1, StartsRise
  <2>3. FrontOf(row, end) <= Start[j] /\ Start[j] # row[1].from
    BY <1>3, <1>4, <1>5, <2>2
  <2>4. PICK i \in 1..Len(row) : row[i].from = Start[j] /\ row[i].n >= 2
    BY <2>3 DEF Placed
  <2>5. i # 1
    BY <2>3, <2>4
  <2>6. i - 1 \in 1..Len(row) - 1 /\ i - 1 + 1 = i
    BY <1>2, <2>5
  <2>7. Tail(row)[i - 1] = row[i]
    BY <1>2, <2>6
  <2>8. i - 1 \in 1..Len(Tail(row))
    BY <1>2, <2>6
  <2>9. QED
    BY <2>4, <2>7, <2>8
<1>6. QED
  BY <1>5 DEF Placed

LEMMA PlacedAppend ==
  ASSUME NEW row, NEW end \in Nat, end >= 1, NEW al, al \subseteq 1..Len(Sent),
         Contiguous(row, end), Placed(row, end, al), NEW n \in 1..MaxIso,
         NEW new, new \subseteq 1..Len(Sent),
         \A j \in new : j \in al \/ (Start[j] = end /\ n >= 2)
  PROVE  Placed(Append(row, [from |-> end, n |-> n]), end + n, new)
<1> DEFINE c == [from |-> end, n |-> n]
           t == Append(row, c)
<1>1. row \in Seq(Pieces) /\ n \in Nat /\ n >= 1
  BY FramingAssumption DEF Contiguous
<1>2. c \in Pieces /\ c.from = end /\ c.n = n
  BY <1>1 DEF Pieces
<1>3. FrontOf(t, end + n) = FrontOf(row, end)
  BY RingAppend
<1> HIDE DEF c
<1>4. /\ Len(t) = Len(row) + 1 /\ Len(row) \in Nat
      /\ \A i \in 1..Len(row) : t[i] = row[i]
      /\ t[Len(row) + 1] = c
  BY <1>1, <1>2, AppendIs
<1> HIDE DEF t
<1>5. ASSUME NEW j \in new
      PROVE  /\ Start[j] < end + n
             /\ FrontOf(row, end) <= Start[j] =>
                  \E i \in 1..Len(t) : t[i].from = Start[j] /\ t[i].n >= 2
  <2>1. j \in 1..(Len(Sent) + 1)
    BY SentIs
  <2>2. Start[j] \in Nat
    BY <2>1, StartsRise
  <2>3. CASE j \in al
    <3>1. Start[j] < end
      BY <2>3 DEF Placed
    <3>2. FrontOf(row, end) <= Start[j] =>
             \E i \in 1..Len(row) : row[i].from = Start[j] /\ row[i].n >= 2
      BY <2>3 DEF Placed
    <3>3. \A i \in 1..Len(row) : i \in 1..Len(t)
      BY <1>4
    <3>4. QED
      BY <1>1, <1>4, <2>2, <3>1, <3>2, <3>3
  <2>4. CASE Start[j] = end /\ n >= 2
    <3>1. Len(row) + 1 \in 1..Len(t)
      BY <1>4
    <3>2. QED
      BY <1>1, <1>2, <1>4, <2>4, <3>1
  <2>5. QED
    BY <2>3, <2>4
<1>6. QED
  BY <1>3, <1>5 DEF Placed, t, c

-----------------------------------------------------------------------------
(***************************************************************************)
(* The invariant of the OUT half.  Until a chunk is lost early, what is    *)
(* put together is the beginning of one packet, and every packet before it *)
(* from a restart on was emitted; while the loss is waited out, nothing is *)
(* put together and no restart has gone by.                                *)
(***************************************************************************)
Oldest == FrontOf(chunks, next)

PiecesInv ==
  /\ next \in Nat /\ next >= 1 /\ next <= Start[Len(Sent) + 1]
  /\ Contiguous(chunks, next) /\ Len(chunks) <= OutSlots
  /\ aligned \subseteq 1..Len(Sent) /\ Placed(chunks, next, aligned)

InOrder ==
  \A i, j \in 1..Len(emitted) : i < j => emitted[i][1] < emitted[j][1]

Waiting ==
  /\ packet = << >> /\ last \in Links /\ drop.dropped /\ drop.link = last
  /\ \A i \in 1..Len(emitted) :
        \E j \in 1..Len(Sent) : emitted[i] = Whole(j) /\ Start[j] < Oldest
  /\ InOrder
  /\ \A j \in 1..Len(Sent) : Restarts(j) => Oldest <= Start[j]

Assembling ==
  \E k \in 1..(Len(Sent) + 1) :
     /\ Assembled(k, Oldest, Now)
     /\ \A j \in 1..Len(Sent) : Restarts(j) => HeardFrom(j, k, Now)

PacketInv ==
  /\ packet \in Seq(Nat) /\ emitted \in Seq(Seq(Nat)) /\ resync \in BOOLEAN
  /\ ~drop.early => IF resync THEN Waiting ELSE Assembling

OutInv == PiecesInv /\ PacketInv

LEMMA NowIs == Now.packet = packet /\ Now.last = last /\ Now.emitted = emitted
BY DEF Now

\* Where nothing is put together yet and packet k is next.
LEMMA FreshIs ==
  ASSUME NEW k \in 1..(Len(Sent) + 1), NEW st, st.packet = << >>,
         st.last \in Links \cup {NoLink}, st.emitted \in Seq(Seq(Nat)),
         \A i \in 1..Len(st.emitted) :
            \E j \in 1..Len(Sent) : st.emitted[i] = Whole(j) /\ Start[j] < Start[k],
         \A i, j \in 1..Len(st.emitted) : i < j => st.emitted[i][1] < st.emitted[j][1]
  PROVE  Assembled(k, Start[k], st)
<1>1. Len(Sent) \in Nat /\ k \in Nat /\ Start[k] \in Nat /\ Start[k] + 0 = Start[k]
  BY SentIs, StartsRise
<1>2. st.packet \in Seq(Nat) /\ Len(st.packet) = 0
  OBVIOUS
<1>3. ASSUME NEW i \in 1..Len(st.emitted)
      PROVE  \E j \in 1..(k - 1) : st.emitted[i] = Whole(j)
  <2>1. PICK j \in 1..Len(Sent) : st.emitted[i] = Whole(j) /\ Start[j] < Start[k]
    OBVIOUS
  <2>2. j \in 1..(Len(Sent) + 1)
    BY <1>1
  <2>3. j < k
    BY <2>1, <2>2, StartsRise
  <2>4. j \in 1..(k - 1)
    BY <1>1, <2>3
  <2>5. QED
    BY <2>1, <2>4
<1>4. k <= Len(Sent) => Start[k] < Start[k + 1]
  <2> SUFFICES ASSUME k <= Len(Sent) PROVE Start[k] < Start[k + 1]
    OBVIOUS
  <2>1. k + 1 \in 1..(Len(Sent) + 1) /\ k < k + 1
    BY <1>1
  <2>2. Start[k] + 3 <= Start[k + 1] /\ Start[k + 1] \in Nat
    BY <2>1, StartsRise DEF Header
  <2>3. QED
    BY <1>1, <2>2
<1>5. QED
  BY <1>1, <1>2, <1>3, <1>4 DEF Assembled

\* From the place of packet k on there is nothing to hear yet.
LEMMA NothingToHear ==
  ASSUME NEW k \in 1..(Len(Sent) + 1), NEW j \in 1..Len(Sent), Start[k] <= Start[j], NEW st
  PROVE  HeardFrom(j, k, st)
<1>1. j \in 1..(Len(Sent) + 1) /\ j \in Nat /\ k \in Nat
  BY SentIs
<1>2. k <= j
  BY <1>1, StartsRise
<1>3. \A m \in j..(k - 1) : FALSE
  BY <1>1, <1>2
<1>4. QED
  BY <1>3 DEF HeardFrom

LEMMA InitOut == FramingInit => OutInv
<1> SUFFICES ASSUME FramingInit PROVE OutInv
  OBVIOUS
<1>1. /\ next = 1 /\ chunks = << >> /\ packet = << >> /\ resync = FALSE
      /\ last = NoLink /\ emitted = << >> /\ drop = NoDrop(1) /\ aligned = {}
  BY DEF FramingInit
<1>2. Len(Sent) \in Nat /\ 1 \in 1..(Len(Sent) + 1) /\ Len(Sent) + 1 \in 1..(Len(Sent) + 1)
      /\ Start[1] = 1
  BY SentIs, StartIs
<1>3. 1 <= Start[Len(Sent) + 1]
  BY <1>2, StartsRise
<1>4. PiecesInv
  <2>1. Len(chunks) <= OutSlots
    <3>1. Len(<< >>) = 0 /\ OutSlots \in Nat
      BY FramingAssumption
    <3>2. QED
      BY <1>1, <3>1
  <2>2. Contiguous(<< >>, 1) /\ Placed(<< >>, 1, {})
    BY DEF Contiguous, Placed
  <2>3. QED
    BY <1>1, <1>3, <2>1, <2>2 DEF PiecesInv
<1>5. Oldest = Start[1] /\ drop.from = 1
  BY <1>1, <1>2 DEF Oldest, FrontOf, NoDrop
<1>6. Assembled(1, Oldest, Now)
  <2>1. Now.packet = << >> /\ Now.last \in Links \cup {NoLink} /\ Now.emitted = << >>
    BY <1>1, NowIs
  <2>2. Now.emitted \in Seq(Seq(Nat)) /\ Len(Now.emitted) = 0
    BY <2>1
  <2>3. \A i \in 1..Len(Now.emitted) : FALSE
    BY <2>2
  <2> HIDE DEF Now
  <2>4. Assembled(1, Start[1], Now)
    BY <1>2, <2>1, <2>2, <2>3, FreshIs
  <2>5. QED
    BY <1>5, <2>4
<1>7. ASSUME NEW j \in 1..Len(Sent), Restarts(j) PROVE HeardFrom(j, 1, Now)
  <2>1. Start[1] <= Start[j]
    BY <1>2, <1>5, <1>7 DEF Restarts
  <2>2. QED
    BY <1>2, <2>1, NothingToHear
<1>8. PacketInv
  <2>1. Assembling
    BY <1>2, <1>6, <1>7 DEF Assembling
  <2>2. << >> \in Seq(Nat) /\ << >> \in Seq(Seq(Nat))
    OBVIOUS
  <2>3. QED
    BY <1>1, <2>1, <2>2 DEF PacketInv
<1>9. QED
  BY <1>4, <1>8 DEF OutInv

LEMMA PushKeeps ==
  ASSUME OutInv, NEW n \in Cuts, Push(n)
  PROVE  OutInv'
<1> DEFINE N == Len(Sent)
           c == [from |-> next, n |-> n]
           full == Len(chunks) = OutSlots
           r == IF full THEN Tail(chunks) ELSE chunks
<1>1. /\ next + n <= Start[N + 1] /\ next' = next + n
      /\ chunks' = Append(r, c)
      /\ packet' = (IF full THEN << >> ELSE packet)
      /\ resync' = (resync \/ full)
      /\ last' = last /\ emitted' = emitted
      /\ aligned' = IF PlaceOf(next) = 0 /\ n >= 2
                    THEN aligned \cup {PacketOf(next)} ELSE aligned
  BY DEF Push, Enqueue
<1>2. drop' = IF Len(chunks) < OutSlots THEN drop
              ELSE [from |-> chunks[1].from + chunks[1].n, dropped |-> TRUE,
                    link |-> last, early |-> drop.early \/ last = NoLink]
  BY DEF Push
<1>3. n \in Nat /\ n >= 1 /\ n \in 1..MaxIso /\ MaxIso \in Nat /\ OutSlots \in Nat /\ OutSlots >= 1
  BY FramingAssumption
<1>4. /\ next \in Nat /\ next >= 1 /\ next <= Start[N + 1]
      /\ Contiguous(chunks, next) /\ Len(chunks) <= OutSlots
      /\ aligned \subseteq 1..N /\ Placed(chunks, next, aligned)
  BY DEF OutInv, PiecesInv
<1>5. /\ packet \in Seq(Nat) /\ emitted \in Seq(Seq(Nat)) /\ resync \in BOOLEAN
      /\ ~drop.early => IF resync THEN Waiting ELSE Assembling
  BY DEF OutInv, PacketInv
<1>6. chunks \in Seq(Pieces) /\ Len(chunks) \in Nat
  BY <1>4 DEF Contiguous
<1>7. full => chunks # << >>
  <2>1. Len(<< >>) = 0
    OBVIOUS
  <2>2. QED
    BY <1>3, <2>1
<1>8. N \in Nat /\ N + 1 \in 1..(N + 1) /\ Start[N + 1] \in Nat
  <2>1. N \in Nat /\ N + 1 \in 1..(N + 1)
    BY SentIs
  <2>2. QED
    BY <2>1, StartsRise
\* The packet that begins this isochronous packet.
<1>9. PICK h \in 1..N : Start[h] <= next /\ next < Start[h + 1]
  <2>1. next < Start[N + 1]
    BY <1>1, <1>3, <1>4, <1>8
  <2>2. QED
    BY <1>4, <2>1, InAPacket
<1>10. PacketOf(next) = h /\ PlaceOf(next) = next - Start[h]
  BY <1>4, <1>9, PlaceIsIn
<1>11. /\ aligned' \subseteq 1..N
       /\ \A j \in aligned' : j \in aligned \/ (Start[j] = next /\ n >= 2)
  <2>1. h \in 1..(N + 1)
    BY <1>8
  <2>2. Start[h] \in Nat
    BY <2>1, StartsRise
  <2>3. PlaceOf(next) = 0 => Start[h] = next
    BY <1>4, <1>10, <2>2
  <2>4. QED
    BY <1>1, <1>4, <1>10, <2>3
<1>12. /\ Contiguous(r, next) /\ Placed(r, next, aligned)
       /\ Len(r) + 1 <= OutSlots
       /\ FrontOf(r, next) = IF full THEN chunks[1].from + chunks[1].n ELSE Oldest
       /\ full => Oldest < FrontOf(r, next) /\ Oldest \in Nat /\ FrontOf(r, next) \in Nat
  <2>1. CASE full
    <3>1. /\ Contiguous(Tail(chunks), next) /\ Len(Tail(chunks)) = Len(chunks) - 1
          /\ FrontOf(Tail(chunks), next) = chunks[1].from + chunks[1].n
          /\ FrontOf(Tail(chunks), next) > chunks[1].from
          /\ FrontOf(Tail(chunks), next) \in Nat
      BY <1>4, <1>7, <2>1, RingTail
    <3>2. Placed(Tail(chunks), next, aligned)
      BY <1>4, <1>7, <2>1, PlacedTail
    <3>3. Oldest = chunks[1].from /\ Oldest \in Nat
      <4>1. Oldest \in Nat
        BY <1>4, FrontIs DEF Oldest
      <4>2. QED
        BY <1>7, <2>1, <4>1 DEF Oldest, FrontOf
    <3>4. QED
      BY <1>3, <1>6, <2>1, <3>1, <3>2, <3>3
  <2>2. CASE ~full
    BY <1>3, <1>4, <1>6, <2>2 DEF Oldest
  <2>3. QED
    BY <2>1, <2>2
<1> HIDE DEF r, full
<1>13. Oldest' = FrontOf(r, next) /\ Contiguous(chunks', next') /\ Len(chunks') <= OutSlots
  <2>1. /\ Contiguous(Append(r, c), next + n)
        /\ FrontOf(Append(r, c), next + n) = FrontOf(r, next)
        /\ Len(Append(r, c)) = Len(r) + 1
    BY <1>3, <1>4, <1>12, RingAppend
  <2> HIDE DEF c
  <2>2. QED
    BY <1>1, <1>12, <2>1 DEF Oldest
<1>14. Placed(chunks', next', aligned')
  <2>1. Placed(Append(r, c), next + n, aligned')
    BY <1>3, <1>4, <1>11, <1>12, PlacedAppend
  <2> HIDE DEF c
  <2>2. QED
    BY <1>1, <2>1
<1>15. PiecesInv'
  <2>1. next' \in Nat /\ next' >= 1
    BY <1>1, <1>3, <1>4
  <2> HIDE DEF c
  <2>2. QED
    BY <1>1, <1>11, <1>13, <1>14, <2>1 DEF PiecesInv
<1>16. Oldest \in Nat /\ Oldest <= next
  BY <1>4, FrontIs DEF Oldest
<1>17. CASE full
  <2>1. drop' = [from |-> chunks[1].from + chunks[1].n, dropped |-> TRUE,
                 link |-> last, early |-> drop.early \/ last = NoLink]
    BY <1>2, <1>3, <1>17 DEF full
  <2>2. Oldest' = drop'.from /\ Oldest < Oldest' /\ Oldest' \in Nat /\ drop'.dropped /\ drop'.link = last
        /\ (drop'.early <=> drop.early \/ last = NoLink)
    BY <1>12, <1>13, <1>17, <2>1
  <2>3. packet' = << >> /\ resync' = TRUE
    BY <1>1, <1>17
  <2>4. ASSUME ~drop'.early PROVE Waiting'
    <3>1. ~drop.early /\ last # NoLink
      BY <2>2, <2>4
    <3>2. CASE resync
      <4>1. Waiting
        BY <1>5, <3>1, <3>2
      <4>2. \A i \in 1..Len(emitted) :
               \E j \in 1..N : emitted[i] = Whole(j) /\ Start[j] < Oldest'
        <5> SUFFICES ASSUME NEW i \in 1..Len(emitted)
                     PROVE  \E j \in 1..N : emitted[i] = Whole(j) /\ Start[j] < Oldest'
          OBVIOUS
        <5>1. PICK j \in 1..N : emitted[i] = Whole(j) /\ Start[j] < Oldest
          BY <4>1 DEF Waiting
        <5>2. j \in 1..(N + 1)
          BY <1>8
        <5>3. Start[j] \in Nat
          BY <5>2, StartsRise
        <5>4. QED
          BY <1>16, <2>2, <5>1, <5>3
      <4>3. \A j \in 1..N : Restarts(j)' => Oldest' <= Start[j]
        BY <2>2 DEF Restarts
      <4>4. QED
        BY <1>1, <2>2, <2>3, <4>1, <4>2, <4>3 DEF Waiting, InOrder
    <3>3. CASE ~resync
      <4>1. PICK k \in 1..(N + 1) : Assembled(k, Oldest, Now)
        BY <1>5, <3>1, <3>3 DEF Assembling
      <4>2. /\ last \in Links
            /\ \A i \in 1..Len(emitted) : \E j \in 1..(k - 1) : emitted[i] = Whole(j)
            /\ \A i, j \in 1..Len(emitted) : i < j => emitted[i][1] < emitted[j][1]
            /\ Len(packet) \in Nat /\ Start[k] + Len(packet) = Oldest
        BY <1>5, <3>1, <4>1, NowIs DEF Assembled
      <4>3. \A i \in 1..Len(emitted) :
               \E j \in 1..N : emitted[i] = Whole(j) /\ Start[j] < Oldest'
        <5> SUFFICES ASSUME NEW i \in 1..Len(emitted)
                     PROVE  \E j \in 1..N : emitted[i] = Whole(j) /\ Start[j] < Oldest'
          OBVIOUS
        <5>1. PICK j \in 1..(k - 1) : emitted[i] = Whole(j)
          BY <4>2
        <5>2. j \in 1..N /\ j \in 1..(N + 1) /\ j < k
          BY <1>8
        <5>3. Start[j] \in Nat /\ Start[k] \in Nat /\ Start[j] <= Start[k]
          BY <5>2, StartsRise
        <5>4. Start[j] < Oldest'
          BY <1>16, <2>2, <4>2, <5>3
        <5>5. QED
          BY <5>1, <5>2, <5>4
      <4>4. \A j \in 1..N : Restarts(j)' => Oldest' <= Start[j]
        BY <2>2 DEF Restarts
      <4>5. QED
        BY <1>1, <2>2, <2>3, <4>2, <4>3, <4>4 DEF Waiting, InOrder
    <3>4. QED
      BY <3>2, <3>3
  <2>5. QED
    BY <1>1, <1>5, <1>15, <2>3, <2>4 DEF OutInv, PacketInv
<1>18. CASE ~full
  <2>1. drop' = drop /\ packet' = packet /\ resync' = resync /\ Oldest' = Oldest
    BY <1>1, <1>2, <1>3, <1>4, <1>5, <1>6, <1>12, <1>13, <1>18 DEF full
  <2>2. Now' = Now
    BY <1>1, <2>1 DEF Now
  <2>3. ASSUME NEW j \in 1..N, Restarts(j)' PROVE Restarts(j) \/ next = Start[j]
    BY <1>11, <2>1, <2>3 DEF Restarts
  <2>4. ASSUME ~drop.early, resync PROVE Waiting'
    <3>1. Waiting
      BY <1>5, <2>4
    <3>2. \A j \in 1..N : Restarts(j)' => Oldest' <= Start[j]
      BY <1>16, <2>1, <2>3, <3>1 DEF Waiting
    <3>3. QED
      BY <1>1, <2>1, <3>1, <3>2 DEF Waiting, InOrder
  <2>5. ASSUME ~drop.early, ~resync PROVE Assembling'
    <3>1. PICK k \in 1..(N + 1) :
             /\ Assembled(k, Oldest, Now)
             /\ \A j \in 1..N : Restarts(j) => HeardFrom(j, k, Now)
      BY <1>5, <2>5 DEF Assembling
    <3>2. Start[k] <= Oldest /\ Start[k] \in Nat
      <4>1. Start[k] \in Nat
        BY StartsRise
      <4>2. Len(packet) \in Nat /\ Start[k] + Len(packet) = Oldest
        BY <1>5, <3>1, NowIs DEF Assembled
      <4>3. QED
        BY <4>1, <4>2
    <3>3. ASSUME NEW j \in 1..N, Restarts(j)' PROVE HeardFrom(j, k, Now)
      <4>1. CASE Restarts(j)
        BY <3>1, <4>1
      <4>2. CASE next = Start[j]
        <5>1. Start[k] <= Start[j]
          BY <1>4, <1>16, <3>2, <4>2
        <5>2. QED
          BY <5>1, NothingToHear
      <4>3. QED
        BY <2>3, <3>3, <4>1, <4>2
    <3>4. \A j \in 1..N : Restarts(j)' => HeardFrom(j, k, Now')
      BY <2>2, <3>3
    <3>5. Assembled(k, Oldest', Now')
      BY <2>1, <2>2, <3>1
    <3>6. QED
      BY <3>4, <3>5 DEF Assembling
  <2>6. QED
    BY <1>1, <1>5, <1>15, <2>1, <2>4, <2>5 DEF OutInv, PacketInv
<1>19. QED
  BY <1>17, <1>18

LEMMA ReleaseKeeps ==
  ASSUME OutInv, Release
  PROVE  OutInv'
<1> DEFINE N  == Len(Sent)
           c  == chunks[1]
           st == Reassembled[IF Skips(c) THEN 0 ELSE c.n]
<1>1. /\ chunks # << >> /\ chunks' = Tail(chunks)
      /\ packet' = st.packet /\ last' = st.last /\ emitted' = st.emitted
      /\ resync' = (resync /\ Skips(c))
      /\ next' = next /\ drop' = drop /\ aligned' = aligned
  BY DEF Release, StillResyncing
<1>2. /\ next \in Nat /\ next >= 1 /\ next <= Start[N + 1]
      /\ Contiguous(chunks, next) /\ Len(chunks) <= OutSlots
      /\ aligned \subseteq 1..N /\ Placed(chunks, next, aligned)
  BY DEF OutInv, PiecesInv
<1>3. /\ packet \in Seq(Nat) /\ emitted \in Seq(Seq(Nat)) /\ resync \in BOOLEAN
      /\ ~drop.early => IF resync THEN Waiting ELSE Assembling
  BY DEF OutInv, PacketInv
<1>4. /\ chunks \in Seq(Pieces) /\ Len(chunks) \in Nat /\ 1 \in 1..Len(chunks)
      /\ c.n \in 1..MaxIso /\ c.from >= 1 /\ c.from < next
  <2>1. chunks \in Seq(Pieces)
    BY <1>2 DEF Contiguous
  <2>2. Len(chunks) \in Nat /\ 1 \in 1..Len(chunks)
    BY <1>1, <2>1
  <2>3. QED
    BY <1>2, <2>1, <2>2 DEF Contiguous
<1>5. c.from \in Nat /\ c.n \in Nat /\ c.n >= 1 /\ MaxIso \in Nat
  <2>1. c \in Pieces
    BY <1>4, ElementIs
  <2>2. QED
    BY <1>4, <2>1, FramingAssumption DEF Pieces
<1>6. /\ Contiguous(Tail(chunks), next) /\ Len(Tail(chunks)) = Len(chunks) - 1
      /\ FrontOf(Tail(chunks), next) = c.from + c.n
      /\ FrontOf(Tail(chunks), next) \in Nat /\ FrontOf(Tail(chunks), next) > c.from
      /\ FrontOf(Tail(chunks), next) <= next
  BY <1>1, <1>2, RingTail
<1>7. Placed(Tail(chunks), next, aligned)
  BY <1>1, <1>2, PlacedTail
<1>8. PiecesInv'
  <2>1. Len(Tail(chunks)) <= OutSlots
    BY <1>2, <1>4, <1>6, FramingAssumption
  <2>2. QED
    BY <1>1, <1>2, <1>6, <1>7, <2>1 DEF PiecesInv
<1>9. Oldest = c.from /\ Oldest' = c.from + c.n
  BY <1>1, <1>6 DEF Oldest, FrontOf
<1>10. N \in Nat /\ N + 1 \in 1..(N + 1) /\ Start[N + 1] \in Nat
  <2>1. N \in Nat /\ N + 1 \in 1..(N + 1)
    BY SentIs
  <2>2. QED
    BY <2>1, StartsRise
<1>11. c.from < Start[N + 1] /\ c.from + c.n <= Start[N + 1]
  BY <1>2, <1>4, <1>5, <1>6, <1>10
<1>12. /\ Reassembled[0] = Now
       /\ \A n \in 0..MaxIso : Reassembled[n] \in States(Named \cup {last})
  BY <1>3, <1>5, ReassembledIs
<1>13. Now' = st /\ packet' \in Seq(Nat) /\ emitted' \in Seq(Seq(Nat))
  <2>1. (IF Skips(c) THEN 0 ELSE c.n) \in 0..MaxIso
    BY <1>4, <1>5
  <2>2. st \in States(Named \cup {last})
    BY <1>12, <2>1
  <2> HIDE DEF st
  <2>3. /\ st = [packet |-> st.packet, last |-> st.last, emitted |-> st.emitted]
        /\ st.packet \in Seq(Nat) /\ st.emitted \in Seq(Seq(Nat))
    BY <2>2 DEF States
  <2>4. QED
    BY <1>1, <2>3 DEF Now
<1>14. \A j \in 1..N : Restarts(j)' <=> Restarts(j)
  BY <1>1 DEF Restarts
<1>15. CASE Skips(c)
  <2>1. st = Now
    BY <1>12, <1>15
  <2>2. packet' = packet /\ last' = last /\ emitted' = emitted /\ resync' /\ resync
        /\ (resync' \in BOOLEAN)
    BY <1>1, <1>15, <2>1, NowIs DEF Skips
  <2> HIDE DEF st
  <2>3. ASSUME ~drop.early PROVE Waiting'
    <3>1. Waiting
      BY <1>3, <2>2, <2>3
    <3>2. ASSUME NEW j \in 1..N, Restarts(j) PROVE Oldest' <= Start[j]
      <4>1. j \in 1..(N + 1) /\ j + 1 \in 1..(N + 1) /\ j < j + 1
        BY <1>10
      <4>2. Start[j] \in Nat /\ Start[j + 1] \in Nat /\ Start[j] + 3 <= Start[j + 1]
        BY <4>1, StartsRise DEF Header
      <4>3. c.from <= Start[j]
        BY <1>9, <3>1, <3>2 DEF Waiting
      <4>4. j \in aligned /\ Sent[j].link = last
        BY <3>1, <3>2 DEF Restarts, Waiting
      <4>5. PICK i \in 1..Len(chunks) : chunks[i].from = Start[j] /\ chunks[i].n >= 2
        BY <1>2, <1>9, <4>3, <4>4 DEF Placed, Oldest
      <4>6. CASE i = 1
        <5>1. c.from = Start[j] /\ c.n >= 2
          BY <4>5, <4>6
        <5>2. PacketOf(c.from) = j /\ PlaceOf(c.from) = c.from - Start[j]
          <6>1. Start[j] <= c.from /\ c.from < Start[j + 1]
            BY <4>2, <5>1
          <6>2. QED
            BY <1>5, <6>1, PlaceIsIn
        <5>3. PlaceOf(c.from) = 0
          BY <4>2, <5>1, <5>2
        <5>4. HandleOf(c.from, c.from + 1) = last
          BY <4>4, <5>2, <5>3 DEF HandleOf
        <5>5. FALSE
          BY <1>5, <1>15, <5>1, <5>4 DEF Skips
        <5>6. QED
          BY <5>5
      <4>7. CASE i # 1
        <5>1. 1 < i
          BY <4>7
        <5>2. c.from + c.n <= chunks[i].from
          BY <1>2, <1>4, <5>1 DEF Contiguous
        <5>3. QED
          BY <1>9, <4>5, <5>2
      <4>8. QED
        BY <4>6, <4>7
    <3>3. \A i \in 1..Len(emitted) :
             \E j \in 1..N : emitted[i] = Whole(j) /\ Start[j] < Oldest'
      <4> SUFFICES ASSUME NEW i \in 1..Len(emitted)
                   PROVE  \E j \in 1..N : emitted[i] = Whole(j) /\ Start[j] < Oldest'
        OBVIOUS
      <4>1. PICK j \in 1..N : emitted[i] = Whole(j) /\ Start[j] < Oldest
        BY <3>1 DEF Waiting
      <4>2. j \in 1..(N + 1)
        BY <1>10
      <4>3. Start[j] \in Nat
        BY <4>2, StartsRise
      <4>4. Start[j] < Oldest'
        BY <1>5, <1>9, <4>1, <4>3
      <4>5. QED
        BY <4>1, <4>4
    <3>4. QED
      BY <1>1, <1>14, <2>2, <3>1, <3>2, <3>3 DEF Waiting, InOrder
  <2>4. QED
    BY <1>1, <1>8, <1>13, <2>2, <2>3 DEF OutInv, PacketInv
<1>16. CASE ~Skips(c)
  <2>1. st = Reassembled[c.n] /\ ~resync' /\ resync' \in BOOLEAN
    BY <1>1, <1>16
  <2> HIDE DEF st
  <2>2. ASSUME ~drop.early PROVE Assembling'
    <3>1. \E k \in 1..(N + 1) :
             /\ Assembled(k, c.from, Now)
             /\ \A j \in 1..N : Restarts(j) => HeardFrom(j, k, Now)
      <4>1. CASE ~resync
        BY <1>3, <1>9, <2>2, <4>1 DEF Assembling
      <4>2. CASE resync
        <5>1. Waiting
          BY <1>3, <2>2, <4>2
        <5>2. last \in Links /\ last # NoLink /\ last # Garbage
          BY <5>1, FramingAssumption DEF Waiting
        <5>3. HandleOf(c.from, c.from + 1) = last
          BY <1>16, <4>2, <5>2 DEF Skips
        <5>4. PICK m \in 1..N : Start[m] <= c.from /\ c.from < Start[m + 1]
          BY <1>4, <1>5, <1>11, InAPacket
        <5>5. m \in 1..(N + 1)
          BY <1>10
        <5>6. c.from = Start[m]
          <6>1. PlaceOf(c.from) = c.from - Start[m]
            BY <1>5, <5>4, PlaceIsIn
          <6>2. PlaceOf(c.from) = 0
            BY <5>2, <5>3 DEF HandleOf
          <6>3. Start[m] \in Nat
            BY <5>5, StartsRise
          <6>4. QED
            BY <1>5, <6>1, <6>2, <6>3
        <5>7. Assembled(m, Start[m], Now)
          <6>1. Now.packet = << >> /\ Now.last \in Links \cup {NoLink} /\ Now.emitted = emitted
            BY <5>1, NowIs DEF Waiting
          <6>2. /\ \A i \in 1..Len(emitted) :
                      \E j \in 1..N : emitted[i] = Whole(j) /\ Start[j] < Start[m]
                /\ \A i, j \in 1..Len(emitted) : i < j => emitted[i][1] < emitted[j][1]
            BY <1>9, <5>1, <5>6 DEF Waiting, InOrder
          <6> HIDE DEF Now
          <6>3. QED
            BY <1>3, <5>5, <6>1, <6>2, FreshIs
        <5>8. ASSUME NEW j \in 1..N, Restarts(j) PROVE HeardFrom(j, m, Now)
          <6>1. Start[m] <= Start[j]
            BY <1>9, <5>1, <5>6, <5>8 DEF Waiting
          <6>2. QED
            BY <5>5, <6>1, NothingToHear
        <5>9. QED
          BY <5>5, <5>6, <5>7, <5>8
      <4>3. QED
        BY <4>1, <4>2
    <3>2. PICK k \in 1..(N + 1) :
             /\ Assembled(k, c.from, Now)
             /\ \A j \in 1..N : Restarts(j) => HeardFrom(j, k, Now)
      BY <3>1
    <3>3. PICK l \in 1..(N + 1) :
             /\ Assembled(l, c.from + c.n, Reassembled[c.n])
             /\ \A a \in 1..(N + 1) :
                   HeardFrom(a, k, Now) => HeardFrom(a, l, Reassembled[c.n])
      <4> HIDE DEF Now
      <4>1. QED
        BY <1>3, <1>4, <1>5, <1>11, <3>2, ChunkAssembles
    <3>4. \A j \in 1..N : j \in 1..(N + 1)
      BY <1>10
    <3>5. \A j \in 1..N : Restarts(j)' => HeardFrom(j, l, st)
      BY <1>14, <2>1, <3>2, <3>3, <3>4
    <3>6. Assembled(l, Oldest', Now')
      BY <1>9, <1>13, <2>1, <3>3
    <3>7. QED
      BY <1>13, <3>5, <3>6 DEF Assembling
  <2>3. QED
    BY <1>1, <1>8, <1>13, <2>1, <2>2 DEF OutInv, PacketInv
<1>17. QED
  BY <1>15, <1>16

LEMMA FlushKeepsOut ==
  ASSUME OutInv, Flush
  PROVE  OutInv'
<1> DEFINE N == Len(Sent)
           Q == {Start[k] : k \in 1..(N + 1)} \ 1..(next - 1)
<1>1. /\ next' = Min(Q)
      /\ chunks' = << >> /\ packet' = << >> /\ resync' = FALSE
      /\ last' = NoLink /\ emitted' = << >> /\ drop' = NoDrop(next') /\ aligned' = aligned
  BY DEF Flush
<1>2. /\ next \in Nat /\ next >= 1 /\ next <= Start[N + 1]
      /\ aligned \subseteq 1..N /\ Placed(chunks, next, aligned)
  BY DEF OutInv, PiecesInv
<1>3. N \in Nat /\ N + 1 \in 1..(N + 1) /\ \A k \in 1..(N + 1) : Start[k] \in Nat /\ Start[k] >= 1
  <2>1. N \in Nat /\ N + 1 \in 1..(N + 1)
    BY SentIs
  <2>2. QED
    BY <2>1, StartsRise
<1>4. next' \in Q
  <2>1. Q \subseteq Nat
    BY <1>3
  <2>2. Start[N + 1] \in Q
    BY <1>2, <1>3
  <2> HIDE DEF Q
  <2>3. QED
    BY <1>1, <2>1, <2>2, LeastIs
<1>5. PICK k \in 1..(N + 1) : next' = Start[k] /\ Start[k] \notin 1..(next - 1)
  BY <1>4
<1>6. next' \in Nat /\ next' >= 1 /\ next <= next' /\ next' <= Start[N + 1]
  <2>1. Start[k] \in Nat /\ Start[k] >= 1
    BY <1>3
  <2>2. k <= N + 1
    BY <1>3
  <2>3. Start[k] <= Start[N + 1]
    BY <1>3, <2>2, StartsRise
  <2>4. QED
    BY <1>2, <1>5, <2>1, <2>3
<1> HIDE DEF Q
<1>7. Oldest' = next'
  BY <1>1 DEF Oldest, FrontOf
<1>8. PiecesInv'
  <2>1. Len(<< >>) = 0 /\ 0 <= OutSlots
    BY FramingAssumption
  <2>2. Contiguous(<< >>, next')
    BY DEF Contiguous
  <2>3. ASSUME NEW j \in aligned PROVE Start[j] < next'
    <3>1. Start[j] < next
      BY <1>2 DEF Placed
    <3>2. j \in 1..(N + 1)
      BY <1>2, <1>3
    <3>3. Start[j] \in Nat
      BY <1>3, <3>2
    <3>4. QED
      BY <1>2, <1>6, <3>1, <3>3
  <2>4. Placed(<< >>, next', aligned)
    <3>1. ASSUME NEW j \in aligned PROVE ~(next' <= Start[j])
      <4>1. j \in 1..(N + 1)
        BY <1>2, <1>3
      <4>2. Start[j] \in Nat
        BY <1>3, <4>1
      <4>3. QED
        BY <1>6, <2>3, <4>2
    <3>2. FrontOf(<< >>, next') = next'
      BY DEF FrontOf
    <3>3. QED
      BY <2>3, <3>1, <3>2 DEF Placed
  <2>5. QED
    BY <1>1, <1>2, <1>6, <2>1, <2>2, <2>4 DEF PiecesInv
<1>9. << >> \in Seq(Nat) /\ << >> \in Seq(Seq(Nat)) /\ Len(<< >>) = 0
  OBVIOUS
<1>10. Assembled(k, Oldest', Now')
  <2>1. Now'.packet = << >> /\ Now'.last \in Links \cup {NoLink} /\ Now'.emitted = << >>
    BY <1>1 DEF Now
  <2> HIDE DEF Now
  <2>2. Now'.emitted \in Seq(Seq(Nat)) /\ \A i \in 1..Len(Now'.emitted) : FALSE
    BY <1>9, <2>1
  <2>3. Assembled(k, Start[k], Now')
    BY <2>1, <2>2, FreshIs
  <2>4. QED
    BY <1>5, <1>7, <2>3
<1>11. ASSUME NEW j \in 1..N, Restarts(j)' PROVE HeardFrom(j, k, Now')
  <2>1. Start[k] <= Start[j]
    BY <1>1, <1>5, <1>11 DEF Restarts, NoDrop
  <2>2. QED
    BY <2>1, NothingToHear
<1>12. Assembling'
  BY <1>10, <1>11 DEF Assembling
<1>13. PacketInv'
  BY <1>1, <1>9, <1>12 DEF PacketInv
<1>14. QED
  BY <1>8, <1>13 DEF OutInv

LEMMA OutStands ==
  ASSUME OutInv, UNCHANGED outVars
  PROVE  OutInv'
<1>1. /\ next' = next /\ chunks' = chunks /\ packet' = packet /\ resync' = resync
      /\ last' = last /\ emitted' = emitted /\ drop' = drop /\ aligned' = aligned
  BY DEF outVars
<1>2. Oldest' = Oldest /\ Now' = Now
  BY <1>1 DEF Oldest, Now
<1>3. \A j \in 1..Len(Sent) : Restarts(j)' <=> Restarts(j)
  BY <1>1 DEF Restarts
<1>4. PiecesInv'
  BY <1>1 DEF OutInv, PiecesInv
<1>5. Waiting => Waiting'
  BY <1>1, <1>2, <1>3 DEF Waiting, InOrder
<1>6. Assembling => Assembling'
  BY <1>2, <1>3 DEF Assembling
<1>7. QED
  BY <1>1, <1>4, <1>5, <1>6 DEF OutInv, PacketInv

LEMMA OutInductive == FramingSpec => []OutInv
<1>1. OutInv /\ [FramingNext]_framingVars => OutInv'
  <2> SUFFICES ASSUME OutInv, [FramingNext]_framingVars PROVE OutInv'
    OBVIOUS
  <2>1. ASSUME NEW n \in Cuts, Push(n) PROVE OutInv'
    BY <2>1, PushKeeps
  <2>2. CASE Release
    BY <2>2, ReleaseKeeps
  <2>3. CASE Arrive
    BY <2>3, OutStands DEF Arrive
  <2>4. ASSUME NEW c \in Capacities, Fill(c) PROVE OutInv'
    <3>1. UNCHANGED outVars
      BY <2>4 DEF Fill
    <3>2. QED
      BY <3>1, OutStands
  <2>5. CASE UsbReset
    BY <2>5, FlushKeepsOut DEF UsbReset
  <2>6. ASSUME NEW size \in Settings, SelectSetting(size) PROVE OutInv'
    BY <2>6, FlushKeepsOut DEF SelectSetting
  <2>7. CASE UNCHANGED framingVars
    BY <2>7, OutStands DEF framingVars
  <2>8. QED
    BY <2>1, <2>2, <2>3, <2>4, <2>5, <2>6, <2>7 DEF FramingNext, FillIn
<1>2. QED
  BY <1>1, InitOut, PTL DEF FramingSpec

\* Whatever the cuts and whatever the ring loses, the controller is given
\* packets of the host, whole and in their order (ScoUsbOutPush,
\* ScoUsbOutRelease).
THEOREM HostPacketsStayWhole == FramingSpec => []OutWhole
<1>1. OutInv => OutWhole
  <2> SUFFICES ASSUME OutInv, ~drop.early PROVE OutWhole
    BY DEF OutWhole
  <2>1. emitted \in Seq(Seq(Nat)) /\ (IF resync THEN Waiting ELSE Assembling)
    BY DEF OutInv, PacketInv
  <2>2. DOMAIN emitted = 1..Len(emitted)
    BY <2>1
  <2>3. CASE resync
    <3>1. Waiting
      BY <2>1, <2>3
    <3>2. QED
      BY <2>2, <3>1 DEF Waiting, InOrder, OutWhole
  <2>4. CASE ~resync
    <3>1. PICK k \in 1..(Len(Sent) + 1) : Assembled(k, Oldest, Now)
      BY <2>1, <2>4 DEF Assembling
    <3>2. /\ \A i \in 1..Len(emitted) : \E j \in 1..(k - 1) : emitted[i] = Whole(j)
          /\ \A i, j \in 1..Len(emitted) : i < j => emitted[i][1] < emitted[j][1]
      BY <3>1, NowIs DEF Assembled
    <3>3. \A j \in 1..(k - 1) : j \in 1..Len(Sent)
      BY SentIs
    <3>4. QED
      BY <2>2, <3>2, <3>3 DEF OutWhole
  <2>5. QED
    BY <2>3, <2>4
<1>2. QED
  BY <1>1, OutInductive, PTL

\* After a loss the framer waits for a packet of the link last heard that
\* begins an isochronous packet, and from that packet on nothing is missing
\* (ScoUsbOutRelease).
THEOREM VoiceIsHeardAgain == FramingSpec => []AfterDropHeard
<1>1. OutInv => AfterDropHeard
  <2> SUFFICES ASSUME OutInv, NEW j \in 1..Len(Sent), NEW k \in 1..Len(Sent),
                      ~drop.early, j <= k, Restarts(j), Behind(k)
               PROVE  \E i \in 1..Len(emitted) : emitted[i] = Whole(k)
    BY DEF AfterDropHeard
  <2>1. IF resync THEN Waiting ELSE Assembling
    BY DEF OutInv, PacketInv
  <2>2. Start[k + 1] <= Oldest
    BY DEF Behind, Oldest, FrontOf
  <2>3. /\ Len(Sent) \in Nat /\ k \in Nat /\ j \in Nat
        /\ j \in 1..(Len(Sent) + 1) /\ k \in 1..(Len(Sent) + 1) /\ k + 1 \in 1..(Len(Sent) + 1)
        /\ j < k + 1
    BY SentIs
  <2>4. Start[j] \in Nat /\ Start[k + 1] \in Nat /\ Start[j] + 3 <= Start[k + 1]
    BY <2>3, StartsRise DEF Header
  <2>5. Oldest \in Nat
    BY FrontIs DEF OutInv, PiecesInv, Oldest
  <2>6. CASE resync
    <3>1. Oldest <= Start[j]
      BY <2>1, <2>6 DEF Waiting
    <3>2. FALSE
      BY <2>2, <2>4, <2>5, <3>1
    <3>3. QED
      BY <3>2
  <2>7. CASE ~resync
    <3>1. PICK m \in 1..(Len(Sent) + 1) : Assembled(m, Oldest, Now) /\ HeardFrom(j, m, Now)
      BY <2>1, <2>7 DEF Assembling
    <3>2. k < m
      <4>1. CASE m = Len(Sent) + 1
        BY <2>3, <4>1
      <4>2. CASE m # Len(Sent) + 1
        <5>1. m \in Nat /\ m <= Len(Sent) /\ m + 1 \in 1..(Len(Sent) + 1)
          BY <2>3, <4>2
        <5>2. Oldest < Start[m + 1]
          BY <3>1, <5>1 DEF Assembled
        <5>3. Start[m + 1] \in Nat
          BY <5>1, StartsRise
        <5>4. Start[k + 1] < Start[m + 1]
          BY <2>2, <2>4, <2>5, <5>2, <5>3
        <5>5. k + 1 < m + 1
          BY <2>3, <5>1, <5>4, StartsRise
        <5>6. QED
          BY <2>3, <5>1, <5>5
      <4>3. QED
        BY <4>1, <4>2
    <3>3. k \in j..(m - 1)
      BY <2>3, <3>2
    <3>4. QED
      BY <3>1, <3>3, NowIs DEF HeardFrom
  <2>8. QED
    BY <2>6, <2>7
<1>2. QED
  BY <1>1, OutInductive, PTL

-----------------------------------------------------------------------------
(***************************************************************************)
(* The IN half.                                                            *)
(***************************************************************************)
Bytes == Nat \X Nat

LEMMA ByteIs ==
  ASSUME NEW b \in Bytes
  PROVE  b[1] \in Nat /\ b[2] \in Nat
BY DEF Bytes

LEMMA JoinIs ==
  ASSUME NEW S, NEW s \in Seq(S), NEW t \in Seq(S)
  PROVE  /\ s \o t \in Seq(S) /\ Len(s \o t) = Len(s) + Len(t)
         /\ Len(s) \in Nat /\ Len(t) \in Nat
         /\ \A i \in 1..Len(s) : (s \o t)[i] = s[i]
         /\ \A i \in 1..Len(t) : (s \o t)[Len(s) + i] = t[i]
<1>1. /\ s \o t \in Seq(S) /\ Len(s \o t) = Len(s) + Len(t)
      /\ Len(s) \in Nat /\ Len(t) \in Nat
      /\ \A i \in 1..Len(s) + Len(t) :
            (s \o t)[i] = IF i <= Len(s) THEN s[i] ELSE t[i - Len(s)]
  BY ConcatProperties
<1>2. ASSUME NEW i \in 1..Len(t) PROVE (s \o t)[Len(s) + i] = t[i]
  <2>1. Len(s) + i \in 1..Len(s) + Len(t) /\ ~(Len(s) + i <= Len(s)) /\ Len(s) + i - Len(s) = i
    BY <1>1
  <2>2. QED
    BY <1>1, <2>1
<1>3. ASSUME NEW i \in 1..Len(s) PROVE (s \o t)[i] = s[i]
  <2>1. i \in 1..Len(s) + Len(t) /\ i <= Len(s)
    BY <1>1
  <2>2. QED
    BY <1>1, <2>1
<1>4. QED
  BY <1>1, <1>2, <1>3

LEMMA CutIs ==
  ASSUME NEW S, NEW s \in Seq(S), NEW n \in 0..Len(s)
  PROVE  /\ SubSeq(s, 1, n) \in Seq(S) /\ Len(SubSeq(s, 1, n)) = n
         /\ \A i \in 1..n : SubSeq(s, 1, n)[i] = s[i]
         /\ SubSeq(s, n + 1, Len(s)) \in Seq(S)
         /\ Len(SubSeq(s, n + 1, Len(s))) = Len(s) - n
         /\ \A i \in 1..Len(s) - n : SubSeq(s, n + 1, Len(s))[i] = s[n + i]
         /\ SubSeq(s, 1, n) \o SubSeq(s, n + 1, Len(s)) = s
<1>1. Len(s) \in Nat /\ n \in Nat /\ n <= Len(s) /\ \A i \in 1..Len(s) : s[i] \in S
  BY ElementIs
<1>2. /\ SubSeq(s, 1, n) \in Seq(S) /\ Len(SubSeq(s, 1, n)) = n
      /\ \A i \in 1..n : SubSeq(s, 1, n)[i] = s[i]
  <2>1. \A i \in 1..n : s[i] \in S /\ 1 + i - 1 = i
    BY <1>1
  <2>2. 1 \in Int /\ n \in Int /\ n - 1 + 1 = n /\ (~(1 <= n) => n = 0)
    BY <1>1
  <2>3. QED
    BY <2>1, <2>2, SubSeqProperties
<1>3. /\ SubSeq(s, n + 1, Len(s)) \in Seq(S)
      /\ Len(SubSeq(s, n + 1, Len(s))) = Len(s) - n
      /\ \A i \in 1..Len(s) - n : SubSeq(s, n + 1, Len(s))[i] = s[n + i]
  <2>1. PICK m \in Int : m = n + 1
    BY <1>1
  <2>2. PICK l \in Int : l = Len(s)
    BY <1>1
  <2>3. \A i \in m..l : s[i] \in S
    BY <1>1, <2>1, <2>2
  <2>4. /\ SubSeq(s, m, l) \in Seq(S)
        /\ Len(SubSeq(s, m, l)) = IF m <= l THEN l - m + 1 ELSE 0
        /\ \A i \in 1..l - m + 1 : SubSeq(s, m, l)[i] = s[m + i - 1]
    BY ONLY <2>3, SubSeqProperties
  <2>5. /\ l - m + 1 = Len(s) - n
        /\ ~(m <= l) => Len(s) - n = 0
        /\ \A i \in 1..Len(s) - n : m + i - 1 = n + i
    BY <1>1, <2>1, <2>2
  <2>6. SubSeq(s, n + 1, Len(s)) = SubSeq(s, m, l)
    BY <2>1, <2>2
  <2>7. QED
    BY <2>4, <2>5, <2>6
<1>4. SubSeq(s, 1, n) \o SubSeq(s, n + 1, Len(s)) = s
  <2>1. 1 \in 1..Len(s) + 1 /\ n \in 1 - 1..Len(s) /\ Len(s) \in n..Len(s)
    BY <1>1
  <2>2. SubSeq(s, 1, n) \o SubSeq(s, n + 1, Len(s)) = SubSeq(s, 1, Len(s))
    BY <2>1, ConcatAdjacentSubSeq
  <2>3. QED
    BY <2>2, SubSeqFull
<1>5. QED
  BY <1>2, <1>3, <1>4

LEMMA AirIs ==
  Len(Air) \in Nat /\ \A k \in 1..Len(Air) : Air[k].voice \in Nat
<1>1. Air \in Seq([link : Links, voice : Nat, whole : BOOLEAN])
  BY FramingAssumption
<1>2. \A k \in 1..Len(Air) : Air[k] \in [link : Links, voice : Nat, whole : BOOLEAN]
  BY <1>1, ElementIs
<1>3. QED
  BY <1>1, <1>2

LEMMA VoiceOfIs ==
  ASSUME NEW k \in 1..Len(Air)
  PROVE  /\ VoiceOf(k) \in Seq(Bytes) /\ Len(VoiceOf(k)) = Air[k].voice /\ Air[k].voice \in Nat
         /\ \A i \in 1..Air[k].voice : VoiceOf(k)[i] = <<k, i>>
<1>1. Air[k].voice \in Nat /\ k \in Nat
  BY AirIs
<1>2. \A i \in 1..Air[k].voice : <<k, i>> \in Bytes
  BY <1>1 DEF Bytes
<1>3. QED
  BY <1>1, <1>2 DEF VoiceOf

-----------------------------------------------------------------------------
(***************************************************************************)
(* What waits, given what the host has or will have: voice of one link in  *)
(* its order, and where it may go on.                                      *)
(***************************************************************************)
Ended(a, f) ==
  a[2] = Air[a[1]].voice \/ \E x \in a[1]..f : Air[x].link # Air[a[1]].link

Queued(g, q, f, payload) ==
  /\ f \in 0..Len(Air) /\ g \in Seq(Bytes) /\ q \in Seq(Bytes)
  /\ f = 0 => g = << >> /\ q = << >>
  /\ \A i \in 1..Len(q) :
        /\ q[i][1] \in 1..f /\ IsVoice(q[i]) /\ Air[q[i][1]].link = Air[f].link
        /\ payload <= i => q[i][1] = f
        /\ i < Len(q) => Follows(q[i], q[i + 1])
  /\ g # << >> => g[Len(g)][1] \in 1..f
  /\ g # << >> /\ q = << >> => Ended(g[Len(g)], f)
  /\ g # << >> /\ q # << >> => Follows(g[Len(g)], q[1])
  /\ q # << >> => Ended(q[Len(q)], f)

LEMMA GoesOn ==
  ASSUME NEW f \in Nat, NEW k \in Nat, f < k, NEW a, a[1] \in 1..f
  PROVE  /\ Ended(a, f) => Ended(a, k) /\ Follows(a, <<k, 1>>)
         /\ Air[f].link # Air[k].link => Ended(a, k) /\ Follows(a, <<k, 1>>)
<1>1. a[1] \in Nat /\ a[1] < k /\ f \in a[1]..k /\ k \in a[1]..k
      /\ \A x \in a[1]..f : x \in a[1]..k
  OBVIOUS
<1>2. <<k, 1>>[1] = k /\ <<k, 1>>[2] = 1
  OBVIOUS
<1>3. CASE Ended(a, f)
  <2>1. Ended(a, k)
    BY <1>1, <1>3 DEF Ended
  <2>2. QED
    BY <1>1, <1>2, <2>1 DEF Ended, Follows
<1>4. CASE Air[f].link # Air[k].link
  <2>1. \E x \in a[1]..k : Air[x].link # Air[a[1]].link
    BY <1>1, <1>4
  <2>2. QED
    BY <1>1, <1>2, <2>1 DEF Ended, Follows
<1>5. QED
  BY <1>3, <1>4

LEMMA AcceptKeeps ==
  ASSUME NEW g, NEW q, NEW f, NEW payload \in Nat, Queued(g, q, f, payload),
         NEW k \in 1..Len(Air), f < k, Len(q) < payload
  PROVE  LET in == Accept([field |-> f, fifo |-> q], k) IN
         Queued(g, in.fifo, in.field, payload)
<1> DEFINE in == Accept([field |-> f, fifo |-> q], k)
           v  == VoiceOf(k)
           n  == Air[k].voice
<1> SUFFICES Queued(g, in.fifo, in.field, payload)
  OBVIOUS
<1>1. /\ f \in 0..Len(Air) /\ g \in Seq(Bytes) /\ q \in Seq(Bytes)
      /\ (f = 0 => g = << >> /\ q = << >>)
  BY DEF Queued
<1>2. \A i \in 1..Len(q) :
        /\ q[i][1] \in 1..f /\ IsVoice(q[i]) /\ Air[q[i][1]].link = Air[f].link
        /\ i < Len(q) => Follows(q[i], q[i + 1])
  BY DEF Queued
<1>3. /\ (g # << >> => g[Len(g)][1] \in 1..f)
      /\ (g # << >> /\ q = << >> => Ended(g[Len(g)], f))
      /\ (g # << >> /\ q # << >> => Follows(g[Len(g)], q[1]))
      /\ (q # << >> => Ended(q[Len(q)], f))
  BY DEF Queued
<1>4. Len(Air) \in Nat /\ k \in Nat /\ f \in Nat /\ Len(q) \in Nat /\ Len(g) \in Nat
  BY <1>1, AirIs
<1>5. /\ v \in Seq(Bytes) /\ Len(v) = n /\ n \in Nat
      /\ \A i \in 1..n : v[i] = <<k, i>>
  BY VoiceOfIs
<1>6. \A i \in 1..n : v[i][1] = k /\ v[i][2] = i /\ IsVoice(v[i])
  <2>1. \A i \in 1..n : <<k, i>>[1] = k /\ <<k, i>>[2] = i /\ i # 0
    OBVIOUS
  <2>2. QED
    BY <1>5, <2>1 DEF IsVoice
<1>7. \A i \in 1..n : i < n => Follows(v[i], v[i + 1])
  <2> SUFFICES ASSUME NEW i \in 1..n, i < n PROVE Follows(v[i], v[i + 1])
    OBVIOUS
  <2>1. i + 1 \in 1..n
    BY <1>5
  <2>2. v[i + 1] = <<k, i + 1>> /\ v[i][1] = k /\ v[i][2] = i
    BY <1>5, <1>6, <2>1
  <2>3. QED
    BY <2>2 DEF Follows
<1>8. n > 0 => v # << >> /\ v[1] = <<k, 1>> /\ v[n][1] = k /\ v[n][2] = n /\ 1 \in 1..n /\ n \in 1..n
  <2> SUFFICES ASSUME n > 0
               PROVE  v # << >> /\ v[1] = <<k, 1>> /\ v[n][1] = k /\ v[n][2] = n /\ 1 \in 1..n /\ n \in 1..n
    OBVIOUS
  <2>1. 1 \in 1..n /\ n \in 1..n /\ Len(v) # 0
    BY <1>5
  <2>2. QED
    BY <1>5, <1>6, <2>1
<1>9. n = 0 => v = << >>
  BY <1>5
<1>10. \A a : a[2] = n /\ a[1] = k => Ended(a, k)
  BY DEF Ended
<1> HIDE DEF v, n
<1>11. CASE ~Air[k].whole
  <2>1. in.fifo = q /\ in.field = f
    BY <1>11 DEF Accept
  <2>2. QED
    BY <2>1
<1>12. CASE Air[k].whole /\ f # 0 /\ Air[f].link # Air[k].link
  <2>1. in.fifo = v /\ in.field = k
    BY <1>12 DEF Accept, v
  <2> HIDE DEF in
  <2>2. \A i \in 1..Len(v) :
          /\ v[i][1] \in 1..k /\ IsVoice(v[i]) /\ Air[v[i][1]].link = Air[k].link
          /\ payload <= i => v[i][1] = k
          /\ i < Len(v) => Follows(v[i], v[i + 1])
    BY <1>4, <1>5, <1>6, <1>7
  <2>3. g # << >> => /\ g[Len(g)][1] \in 1..k
                     /\ Ended(g[Len(g)], k) /\ Follows(g[Len(g)], <<k, 1>>)
    <3> SUFFICES ASSUME g # << >>
                 PROVE  /\ g[Len(g)][1] \in 1..k
                        /\ Ended(g[Len(g)], k) /\ Follows(g[Len(g)], <<k, 1>>)
      OBVIOUS
    <3>1. g[Len(g)][1] \in 1..f
      BY <1>3
    <3>2. QED
      BY <1>4, <1>12, <3>1, GoesOn
  <2>4. v # << >> => v[1] = <<k, 1>> /\ Ended(v[Len(v)], k)
    BY <1>5, <1>8, <1>9, <1>10
  <2>5. k \in 0..Len(Air) /\ k # 0
    BY <1>4
  <2>6. v # << >> /\ g # << >> => Follows(g[Len(g)], v[1])
    BY <2>3, <2>4
  <2>7. v \in Seq(Bytes) /\ g \in Seq(Bytes) /\ (k = 0 => g = << >> /\ v = << >>)
    BY <1>1, <1>5, <2>5
  <2>8. Queued(g, v, k, payload)
    BY ONLY <2>2, <2>3, <2>4, <2>5, <2>6, <2>7 DEF Queued
  <2>9. QED
    BY <2>1, <2>8
<1>13. CASE Air[k].whole /\ ~(f # 0 /\ Air[f].link # Air[k].link)
  <2> DEFINE w == q \o v
  <2>1. in.fifo = w /\ in.field = k
    BY <1>13 DEF Accept, v
  <2> HIDE DEF in
  <2>2. /\ w \in Seq(Bytes) /\ Len(w) = Len(q) + n
        /\ \A i \in 1..Len(q) : w[i] = q[i]
        /\ \A i \in 1..n : w[Len(q) + i] = v[i]
    <3>1. q \in Seq(Bytes) /\ v \in Seq(Bytes) /\ Len(v) = n
      BY <1>1, <1>5
    <3>2. \A u \in Seq(Bytes) :
             /\ q \o u \in Seq(Bytes) /\ Len(q \o u) = Len(q) + Len(u)
             /\ \A i \in 1..Len(q) : (q \o u)[i] = q[i]
             /\ \A i \in 1..Len(u) : (q \o u)[Len(q) + i] = u[i]
      <4> SUFFICES ASSUME NEW u \in Seq(Bytes)
                   PROVE  /\ q \o u \in Seq(Bytes) /\ Len(q \o u) = Len(q) + Len(u)
                          /\ \A i \in 1..Len(q) : (q \o u)[i] = q[i]
                          /\ \A i \in 1..Len(u) : (q \o u)[Len(q) + i] = u[i]
        OBVIOUS
      <4>1. QED
        BY <3>1, JoinIs
    <3>3. PICK u \in Seq(Bytes) : u = v
      BY <3>1
    <3>4. QED
      BY <3>1, <3>2, <3>3 DEF w
  <2> HIDE DEF w
  <2>3. \A i \in 1..Len(w) : i \in 1..Len(q) \/ \E j \in 1..n : i = Len(q) + j
    <3> SUFFICES ASSUME NEW i \in 1..Len(w), i \notin 1..Len(q)
                 PROVE  \E j \in 1..n : i = Len(q) + j
      OBVIOUS
    <3>1. i - Len(q) \in 1..n /\ i = Len(q) + (i - Len(q))
      BY <1>4, <1>5, <2>2
    <3>2. QED
      BY <3>1
  <2>4. q # << >> => /\ Len(q) \in 1..Len(q) /\ 1 \in 1..Len(q) /\ f # 0
                     /\ Ended(q[Len(q)], k) /\ Follows(q[Len(q)], <<k, 1>>)
    <3> SUFFICES ASSUME q # << >>
                 PROVE  /\ Len(q) \in 1..Len(q) /\ 1 \in 1..Len(q) /\ f # 0
                        /\ Ended(q[Len(q)], k) /\ Follows(q[Len(q)], <<k, 1>>)
      OBVIOUS
    <3>1. Len(q) \in 1..Len(q) /\ 1 \in 1..Len(q) /\ f # 0
      <4>1. Len(q) # 0
        BY <1>1
      <4>2. QED
        BY <1>1, <1>4, <4>1
    <3>2. q[Len(q)][1] \in 1..f /\ Ended(q[Len(q)], f)
      BY <1>2, <1>3, <3>1
    <3>3. QED
      BY <1>4, <3>1, <3>2, GoesOn
  <2>5. ASSUME NEW i \in 1..Len(w)
        PROVE  /\ w[i][1] \in 1..k /\ IsVoice(w[i]) /\ Air[w[i][1]].link = Air[k].link
               /\ payload <= i => w[i][1] = k
               /\ i < Len(w) => Follows(w[i], w[i + 1])
    <3>1. CASE i \in 1..Len(q)
      <4>1. w[i] = q[i] /\ ~(payload <= i)
        BY <1>4, <2>2, <3>1
      <4>2. f # 0
        BY <1>1, <3>1
      <4>3. w[i][1] \in 1..k /\ IsVoice(w[i]) /\ Air[w[i][1]].link = Air[k].link
        <5>1. q[i][1] \in 1..f /\ IsVoice(q[i]) /\ Air[q[i][1]].link = Air[f].link
          BY <1>2, <3>1
        <5>2. q[i][1] \in 1..k
          BY <1>4, <5>1
        <5>3. QED
          BY <1>13, <4>1, <4>2, <5>1, <5>2
      <4>4. i < Len(w) => Follows(w[i], w[i + 1])
        <5>1. CASE i < Len(q)
          <6>1. i + 1 \in 1..Len(q)
            BY <1>4, <3>1, <5>1
          <6>2. QED
            BY <1>2, <2>2, <3>1, <4>1, <5>1, <6>1
        <5>2. CASE ~(i < Len(q))
          <6>1. i = Len(q)
            BY <1>4, <3>1, <5>2
          <6>2. i < Len(w) => n > 0
            BY <1>4, <1>5, <2>2, <6>1
          <6>3. n > 0 => w[i + 1] = <<k, 1>>
            BY <1>8, <2>2, <6>1
          <6>4. Follows(q[Len(q)], <<k, 1>>)
            BY <2>4, <3>1
          <6>5. QED
            BY <4>1, <6>1, <6>2, <6>3, <6>4
        <5>3. QED
          BY <5>1, <5>2
      <4>5. QED
        BY <4>1, <4>3, <4>4
    <3>2. CASE i \notin 1..Len(q)
      <4>1. PICK j \in 1..n : i = Len(q) + j
        BY <2>3, <3>2
      <4>2. w[i] = v[j]
        BY <2>2, <4>1
      <4>3. i < Len(w) => j < n /\ j + 1 \in 1..n /\ i + 1 = Len(q) + (j + 1)
        BY <1>4, <1>5, <2>2, <4>1
      <4>4. i < Len(w) => w[i + 1] = v[j + 1]
        BY <2>2, <4>3
      <4>5. k \in 1..k
        BY <1>4
      <4>6. QED
        BY <1>6, <1>7, <4>2, <4>3, <4>4, <4>5
    <3>3. QED
      BY <3>1, <3>2
  <2>6. CASE n = 0
    <3>1. w = q
      <4>1. Len(w) = Len(q)
        BY <1>4, <2>2, <2>6
      <4>2. \A i \in 1..Len(w) : w[i] = q[i]
        BY <2>2, <4>1
      <4>3. QED
        BY <1>1, <2>2, <4>1, <4>2, SeqEqual
    <3>2. g # << >> => g[Len(g)][1] \in 1..k
      BY <1>3, <1>4
    <3>3. g # << >> /\ q = << >> => Ended(g[Len(g)], k)
      BY <1>3, <1>4, GoesOn
    <3>4. k \in 0..Len(Air) /\ k # 0
      BY <1>4
    <3>5. /\ w # << >> /\ g # << >> => Follows(g[Len(g)], w[1])
          /\ w # << >> => Ended(w[Len(w)], k)
      BY <1>3, <2>4, <3>1
    <3>6. w \in Seq(Bytes) /\ g \in Seq(Bytes) /\ (k = 0 => g = << >> /\ w = << >>)
      BY <1>1, <2>2, <3>4
    <3>7. Queued(g, w, k, payload)
      <4>1. g # << >> /\ w = << >> => Ended(g[Len(g)], k)
        BY <3>1, <3>3
      <4>2. QED
        BY ONLY <2>5, <3>2, <3>4, <3>5, <3>6, <4>1 DEF Queued
    <3>8. QED
      BY <2>1, <3>7
  <2>7. CASE n # 0
    <3>1. n > 0 /\ Len(q) + n \in Nat /\ w # << >>
      <4>1. n > 0 /\ Len(q) + n # 0
        BY <1>4, <1>5, <2>7
      <4>2. QED
        BY <1>4, <1>5, <2>2, <4>1
    <3>2. Ended(w[Len(w)], k)
      BY <1>8, <1>10, <2>2, <3>1
    <3>3. g # << >> => g[Len(g)][1] \in 1..k /\ Follows(g[Len(g)], w[1])
      <4> SUFFICES ASSUME g # << >>
                   PROVE  g[Len(g)][1] \in 1..k /\ Follows(g[Len(g)], w[1])
        OBVIOUS
      <4>1. g[Len(g)][1] \in 1..f /\ g[Len(g)][1] \in 1..k
        BY <1>3, <1>4
      <4>2. CASE q = << >>
        <5>1. Ended(g[Len(g)], f) /\ Len(q) = 0
          BY <1>3, <4>2
        <5>2. w[1] = <<k, 1>>
          <6>1. Len(q) + 1 = 1
            BY <5>1
          <6>2. QED
            BY <1>8, <2>2, <3>1, <6>1
        <5>3. QED
          BY <1>4, <4>1, <5>1, <5>2, GoesOn
      <4>3. CASE q # << >>
        BY <1>3, <2>2, <2>4, <4>1, <4>3
      <4>4. QED
        BY <4>2, <4>3
    <3>4. k \in 0..Len(Air) /\ k # 0
      BY <1>4
    <3>5. w \in Seq(Bytes) /\ g \in Seq(Bytes) /\ (k = 0 => g = << >> /\ w = << >>)
      BY <1>1, <2>2, <3>4
    <3>6. Queued(g, w, k, payload)
      BY ONLY <2>5, <3>1, <3>2, <3>3, <3>4, <3>5 DEF Queued
    <3>7. QED
      BY <2>1, <3>6
  <2>8. QED
    BY <2>6, <2>7
<1>14. QED
  BY <1>11, <1>12, <1>13

-----------------------------------------------------------------------------
(***************************************************************************)
(* The pulls of one fill.                                                  *)
(***************************************************************************)
\* The packets that wait in the bridge came behind packet f, in their order.
Rising(s, f, top) ==
  /\ s \in Seq(1..Len(Air))
  /\ \A i \in 1..Len(s) : f < s[i] /\ s[i] <= top
  /\ \A i, j \in 1..Len(s) : i < j => s[i] < s[j]

Framing == [field : Nat, fifo : Seq(Bytes)]

LEMMA AcceptTypes ==
  ASSUME NEW in \in Framing, NEW k \in 1..Len(Air)
  PROVE  Accept(in, k) \in Framing
<1>1. k \in Nat /\ VoiceOf(k) \in Seq(Bytes)
  BY AirIs, VoiceOfIs
<1>2. in.field \in Nat /\ in.fifo \in Seq(Bytes)
  BY DEF Framing
<1>3. in.fifo \o VoiceOf(k) \in Seq(Bytes)
  BY <1>1, <1>2, ConcatProperties
<1>4. QED
  BY <1>1, <1>2, <1>3 DEF Accept, Framing

LEMMA PulledIs ==
  ASSUME source \in Seq(1..Len(Air)), field \in Nat, fifo \in Seq(Bytes)
  PROVE  /\ Pulled[0] = [field |-> field, fifo |-> fifo]
         /\ \A n \in 1..Len(source) : Pulled[n] = Accept(Pulled[n - 1], source[n])
<1> DEFINE N    == Len(source)
           s0   == [field |-> field, fifo |-> fifo]
           F    == [x \in Framing \X (1..N) |-> Accept(x[1], source[x[2]])]
           E(h) == [n \in 0..N |->
                      IF n = 0 THEN [field |-> field, fifo |-> fifo]
                      ELSE Accept(h[n - 1], source[n])]
<1>1. N \in Nat
  OBVIOUS
<1>2. s0 \in Framing
  BY DEF Framing
<1>3. F \in [Framing \X (1..N) -> Framing]
  <2>1. ASSUME NEW x \in Framing \X (1..N) PROVE Accept(x[1], source[x[2]]) \in Framing
    <3>1. x[1] \in Framing /\ x[2] \in 1..Len(source)
      OBVIOUS
    <3>2. source[x[2]] \in 1..Len(Air)
      BY <3>1, ElementIs
    <3>3. QED
      BY <3>1, <3>2, AcceptTypes
  <2>2. QED
    BY <2>1
<1> HIDE DEF N, s0
<1>4. Unfolding(N, Framing, s0, F)
  <2> HIDE DEF F
  <2>1. QED
    BY <1>1, <1>2, <1>3, Unfolds
<1>5. PICK g \in [0..N -> Framing] :
         g[0] = s0 /\ \A n \in 1..N : g[n] = F[<<g[n - 1], n>>]
  <2> HIDE DEF F
  <2>1. QED
    BY <1>4 DEF Unfolding
<1>6. \A n \in 1..N : g[n] = Accept(g[n - 1], source[n])
  <2> SUFFICES ASSUME NEW n \in 1..N PROVE g[n] = Accept(g[n - 1], source[n])
    OBVIOUS
  <2>1. g[n - 1] \in Framing
    BY <1>1
  <2>2. F[<<g[n - 1], n>>] = Accept(g[n - 1], source[n])
    <3>1. <<g[n - 1], n>> \in Framing \X (1..N)
      BY <2>1
    <3>2. QED
      BY <3>1
  <2>3. QED
    BY <1>5, <2>2
<1> HIDE DEF F
<1>7. g = E(g)
  <2>1. ASSUME NEW n \in 0..N
        PROVE  g[n] = IF n = 0 THEN [field |-> field, fifo |-> fifo]
                      ELSE Accept(g[n - 1], source[n])
    <3>1. n = 0 \/ n \in 1..N
      BY <1>1
    <3>2. QED
      BY <1>5, <1>6, <3>1 DEF s0
  <2>2. QED
    BY <2>1
<1>8. Pulled = E(Pulled)
  <2>1. Pulled = CHOOSE h : h = E(h)
    BY DEF Pulled, N
  <2> HIDE DEF E
  <2>2. QED
    BY <1>7, <2>1
<1>9. Pulled[0] = [field |-> field, fifo |-> fifo]
  <2>1. 0 \in 0..N
    BY <1>1
  <2>2. QED
    BY <1>8, <2>1
<1>10. \A n \in 1..N : Pulled[n] = Accept(Pulled[n - 1], source[n])
  <2> SUFFICES ASSUME NEW n \in 1..N PROVE Pulled[n] = Accept(Pulled[n - 1], source[n])
    OBVIOUS
  <2>1. n \in 0..N /\ n # 0
    BY <1>1
  <2>2. QED
    BY <1>8, <2>1
<1>11. QED
  BY <1>9, <1>10 DEF N

\* As far as a fill pulls, what waits stays voice of one link in its order.
PulledWell(n, g, payload) ==
  /\ Pulled[n] \in Framing
  /\ Queued(g, Pulled[n].fifo, Pulled[n].field, payload)
  /\ Pulled[n].field <= arrived
  /\ \A m \in 1..Len(source) : n < m => Pulled[n].field < source[m]

LEMMA PullsKeep ==
  ASSUME NEW g, NEW payload \in Nat, Queued(g, fifo, field, payload),
         Rising(source, field, arrived), arrived \in Nat, field <= arrived
  PROVE  /\ Pulls(payload) \in 0..Len(source)
         /\ PulledWell(0, g, payload) /\ PulledWell(Pulls(payload), g, payload)
<1> DEFINE p  == Pulls(payload)
           PW == {n \in 0..p : PulledWell(n, g, payload)}
<1>1. /\ source \in Seq(1..Len(Air)) /\ Len(source) \in Nat /\ Len(Air) \in Nat
      /\ \A i \in 1..Len(source) : field < source[i] /\ source[i] <= arrived
      /\ \A i, j \in 1..Len(source) : i < j => source[i] < source[j]
  BY AirIs DEF Rising
<1>2. field \in Nat /\ fifo \in Seq(Bytes)
  BY <1>1 DEF Queued
<1>3. /\ Pulled[0] = [field |-> field, fifo |-> fifo]
      /\ \A n \in 1..Len(source) : Pulled[n] = Accept(Pulled[n - 1], source[n])
  BY <1>1, <1>2, PulledIs
<1>4. p \in 0..Len(source) /\ \A n \in 0..(p - 1) : ~(Len(Pulled[n].fifo) >= payload)
  <2> DEFINE S == {n \in 0..Len(source) : n = Len(source) \/ Len(Pulled[n].fifo) >= payload}
  <2>1. Len(source) \in S /\ S \subseteq Nat
    BY <1>1
  <2>2. p = Min(S)
    BY DEF Pulls
  <2>3. p \in S /\ \A x \in S : p <= x
    <3> HIDE DEF S, p
    <3>1. S # {}
      BY <2>1
    <3>2. QED
      BY <2>1, <2>2, <3>1, LeastIs
  <2> HIDE DEF p
  <2>4. \A n \in 0..(p - 1) : n \notin S /\ n \in 0..Len(source)
    BY <1>1, <2>3
  <2>5. QED
    BY <2>3, <2>4
<1> HIDE DEF p
<1>5. PulledWell(0, g, payload)
  <2>1. Pulled[0] \in Framing
    BY <1>2, <1>3 DEF Framing
  <2>2. Pulled[0].field = field /\ Pulled[0].fifo = fifo
    BY <1>3
  <2>3. QED
    BY <1>1, <2>1, <2>2 DEF PulledWell
<1>6. ASSUME NEW n \in 1..p, PulledWell(n - 1, g, payload)
      PROVE  PulledWell(n, g, payload)
  <2> DEFINE in == Pulled[n - 1]
             k  == source[n]
  <2>1. /\ n \in 1..Len(source) /\ n - 1 \in 0..(p - 1) /\ p \in Nat
        /\ n \in Nat /\ n - 1 < n
    BY <1>1, <1>4
  <2>2. k \in 1..Len(Air)
    BY <1>1, <2>1, ElementIs
  <2>3. /\ in \in Framing /\ Queued(g, in.fifo, in.field, payload)
        /\ in.field <= arrived /\ in.field < k
        /\ \A m \in 1..Len(source) : n - 1 < m => in.field < source[m]
    BY <1>6, <2>1 DEF PulledWell
  <2>4. /\ in.field \in Nat /\ in.fifo \in Seq(Bytes) /\ Len(in.fifo) \in Nat
        /\ in = [field |-> in.field, fifo |-> in.fifo]
    BY <2>3 DEF Framing
  <2>5. Len(in.fifo) < payload
    BY <1>4, <2>1, <2>4
  <2>6. Pulled[n] = Accept(in, k)
    BY <1>3, <2>1
  <2>7. Pulled[n] \in Framing
    BY <2>2, <2>3, <2>6, AcceptTypes
  <2> HIDE DEF in, k
  <2>8. Queued(g, Accept(in, k).fifo, Accept(in, k).field, payload)
    <3>1. PICK q : q = in.fifo
      OBVIOUS
    <3>2. PICK f : f = in.field
      OBVIOUS
    <3>3. Queued(g, q, f, payload) /\ f < k /\ Len(q) < payload
      BY <2>3, <2>5, <3>1, <3>2
    <3>4. Queued(g, Accept([field |-> f, fifo |-> q], k).fifo,
                 Accept([field |-> f, fifo |-> q], k).field, payload)
      BY ONLY <2>2, <3>3, payload \in Nat, AcceptKeeps
    <3>5. QED
      BY <2>4, <3>1, <3>2, <3>4
  <2>9. Accept(in, k).field \in {in.field, k}
    BY DEF Accept
  <2>10. k <= arrived /\ \A m \in 1..Len(source) : n < m => in.field < source[m] /\ k < source[m]
    <3>1. \A m \in 1..Len(source) : n < m => n - 1 < m
      BY <2>1
    <3>2. QED
      BY <1>1, <2>1, <2>3, <3>1 DEF k
  <2>11. /\ Pulled[n].field <= arrived
         /\ \A m \in 1..Len(source) : n < m => Pulled[n].field < source[m]
    BY <2>3, <2>6, <2>9, <2>10
  <2>12. QED
    BY <2>6, <2>7, <2>8, <2>11 DEF PulledWell
<1>7. \A n \in 0..p : n \in PW
  <2>1. p \in Nat /\ 0 \in PW
    BY <1>4, <1>5
  <2>2. \A n \in 1..p : n - 1 \in PW => n \in PW
    <3> SUFFICES ASSUME NEW n \in 1..p, n - 1 \in PW PROVE n \in PW
      OBVIOUS
    <3>1. n \in 0..p
      BY <2>1
    <3>2. QED
      BY <1>6, <3>1
  <2> HIDE DEF PW
  <2>3. QED
    BY <2>1, <2>2, UpTo
<1>8. p \in 0..p
  BY <1>4
<1>9. QED
  BY <1>4, <1>5, <1>7, <1>8 DEF p

-----------------------------------------------------------------------------
(***************************************************************************)
(* The frames, one behind the other.                                       *)
(***************************************************************************)
LEMMA Multiple ==
  ASSUME NEW n \in Nat \ {0}, NEW l \in Nat, l % n = 0
  PROVE  /\ \A r \in 0..(n - 1) : (l + r) % n = r
         /\ (l + n) % n = 0
<1>1. \A r \in 0..(n - 1) : (l + r) % n = r
  OBVIOUS
<1>2. PICK k \in Nat : l = k * n
  <2>1. l \div n \in Nat /\ l = (l \div n) * n
    OBVIOUS
  <2>2. QED
    BY <2>1
<1>3. l + n = (k + 1) * n
  BY <1>2
<1>4. ((k + 1) * n) % n = 0
  OBVIOUS
<1>5. QED
  BY <1>1, <1>3, <1>4

\* InFaithful of any sequence of bytes; and of whole frames, the last of which
\* ends in voice.
Geometry(g, size) ==
  /\ \A i \in 1..Len(g) : IsVoice(g[i]) <=> (i - 1) % size >= Header
  /\ \A i, j \in 1..Len(g) :
        (/\ i < j /\ IsVoice(g[i]) /\ IsVoice(g[j])
         /\ \A x \in (i + 1)..(j - 1) : ~IsVoice(g[x]))
        => Follows(g[i], g[j])
  /\ \A i \in 1..Len(g) :
        (i - 1) % size = 0 /\ i + size - 1 <= Len(g) =>
          /\ g[i + size - 1][1] = g[i][1]
          /\ \A x \in i..(i + size - 1) : Air[g[x][1]].link = Air[g[i][1]].link

Frames(g, size) ==
  /\ g \in Seq(Bytes) /\ Len(g) % size = 0
  /\ g # << >> => IsVoice(g[Len(g)])
  /\ Geometry(g, size)

LEMMA FramedIs ==
  ASSUME NEW g \in Seq(Bytes), NEW in \in Framing, NEW payload \in Nat \ {0},
         payload <= Len(in.fifo)
  PROVE  /\ Framed(in, payload) \in Seq(Bytes)
         /\ g \o Framed(in, payload) \in Seq(Bytes)
         /\ Len(g \o Framed(in, payload)) = Len(g) + (Header + payload)
         /\ \A i \in 1..Len(g) : (g \o Framed(in, payload))[i] = g[i]
         /\ \A i \in 1..Header : (g \o Framed(in, payload))[Len(g) + i] = <<in.field, 0>>
         /\ \A i \in 1..payload :
               (g \o Framed(in, payload))[Len(g) + (Header + i)] = in.fifo[i]
<1> DEFINE bytes == Framed(in, payload)
           h   == g \o bytes
           top == [i \in 1..Header |-> <<in.field, 0>>]
           cut == SubSeq(in.fifo, 1, payload)
<1>1. in.field \in Nat /\ in.fifo \in Seq(Bytes) /\ Len(in.fifo) \in Nat /\ Len(g) \in Nat
  BY DEF Framing
<1>2. Header = 3
  BY DEF Header
<1>3. top \in Seq(Bytes) /\ Len(top) = Header /\ \A i \in 1..Header : top[i] = <<in.field, 0>>
  <2>1. <<in.field, 0>> \in Bytes
    BY <1>1 DEF Bytes
  <2>2. QED
    BY <1>2, <2>1
<1>4. cut \in Seq(Bytes) /\ Len(cut) = payload /\ \A i \in 1..payload : cut[i] = in.fifo[i]
  <2>1. payload \in 0..Len(in.fifo)
    BY <1>1
  <2>2. PICK q \in Seq(Bytes) : q = in.fifo
    BY <1>1
  <2>3. payload \in 0..Len(q)
    BY <2>1, <2>2
  <2>4. /\ SubSeq(q, 1, payload) \in Seq(Bytes) /\ Len(SubSeq(q, 1, payload)) = payload
        /\ \A i \in 1..payload : SubSeq(q, 1, payload)[i] = q[i]
    BY ONLY <2>3, q \in Seq(Bytes), CutIs
  <2>5. QED
    BY <2>2, <2>4
<1>5. bytes = top \o cut
  BY DEF Framed
<1> HIDE DEF bytes, top, cut
<1>6. /\ bytes \in Seq(Bytes) /\ Len(bytes) = Header + payload
      /\ \A i \in 1..Header : bytes[i] = top[i]
      /\ \A i \in 1..payload : bytes[Header + i] = cut[i]
  <2>1. PICK a \in Seq(Bytes), b \in Seq(Bytes) : a = top /\ b = cut
    BY <1>3, <1>4
  <2>2. /\ a \o b \in Seq(Bytes) /\ Len(a \o b) = Len(a) + Len(b)
        /\ \A i \in 1..Len(a) : (a \o b)[i] = a[i]
        /\ \A i \in 1..Len(b) : (a \o b)[Len(a) + i] = b[i]
    BY JoinIs
  <2>3. QED
    BY <1>3, <1>4, <1>5, <2>1, <2>2
<1>7. /\ h \in Seq(Bytes) /\ Len(h) = Len(g) + Len(bytes)
      /\ \A i \in 1..Len(g) : h[i] = g[i]
      /\ \A i \in 1..Len(bytes) : h[Len(g) + i] = bytes[i]
  <2>1. PICK b \in Seq(Bytes) : b = bytes
    BY <1>6
  <2>2. /\ g \o b \in Seq(Bytes) /\ Len(g \o b) = Len(g) + Len(b)
        /\ \A i \in 1..Len(g) : (g \o b)[i] = g[i]
        /\ \A i \in 1..Len(b) : (g \o b)[Len(g) + i] = b[i]
    BY JoinIs
  <2>3. QED
    BY <2>1, <2>2
<1> HIDE DEF h
<1>8. \A i \in 1..Header : h[Len(g) + i] = <<in.field, 0>>
  <2>1. \A i \in 1..Header : i \in 1..Len(bytes)
    BY <1>2, <1>6
  <2>2. QED
    BY <1>3, <1>6, <1>7, <2>1
<1>9. \A i \in 1..payload : h[Len(g) + (Header + i)] = in.fifo[i]
  <2>1. \A i \in 1..payload : Header + i \in 1..Len(bytes)
    BY <1>2, <1>6
  <2>2. QED
    BY <1>4, <1>6, <1>7, <2>1
<1>10. QED
  BY <1>6, <1>7, <1>8, <1>9 DEF h, bytes

LEMMA FrameQueued ==
  ASSUME NEW g, NEW in \in Framing, NEW payload \in Nat \ {0},
         payload <= Len(in.fifo), Queued(g, in.fifo, in.field, payload)
  PROVE  Queued(g \o Framed(in, payload),
                SubSeq(in.fifo, payload + 1, Len(in.fifo)), in.field, payload)
<1>1. PICK q \in Seq(Bytes), f \in 0..Len(Air) : q = in.fifo /\ f = in.field
  BY DEF Queued
<1>2. /\ g \in Seq(Bytes) /\ payload <= Len(q) /\ Len(q) \in Nat /\ Len(g) \in Nat
      /\ Len(Air) \in Nat /\ f \in Nat
  BY <1>1, AirIs DEF Queued
<1>3. /\ \A i \in 1..Len(q) :
           /\ q[i][1] \in 1..f /\ IsVoice(q[i]) /\ Air[q[i][1]].link = Air[f].link
           /\ payload <= i => q[i][1] = f
           /\ i < Len(q) => Follows(q[i], q[i + 1])
      /\ q # << >> => Ended(q[Len(q)], f)
  BY <1>1 DEF Queued
<1> DEFINE h == g \o Framed(in, payload)
           w == SubSeq(q, payload + 1, Len(q))
<1>4. /\ h \in Seq(Bytes) /\ Len(h) = Len(g) + (Header + payload)
      /\ \A i \in 1..payload : h[Len(g) + (Header + i)] = q[i]
  <2>1. /\ h \in Seq(Bytes) /\ Len(h) = Len(g) + (Header + payload)
        /\ \A i \in 1..payload : h[Len(g) + (Header + i)] = in.fifo[i]
    BY <1>2, FramedIs
  <2>2. QED
    BY <1>1, <2>1
<1>5. /\ w \in Seq(Bytes) /\ Len(w) = Len(q) - payload
      /\ \A i \in 1..Len(q) - payload : w[i] = q[payload + i]
  <2>1. payload \in 0..Len(q)
    BY <1>2
  <2>2. QED
    BY <2>1, CutIs
<1> HIDE DEF h, w
<1>6. /\ payload \in 1..Len(q) /\ Len(q) \in 1..Len(q) /\ q # << >> /\ payload \in 1..payload
      /\ Header = 3
  <2>1. Len(q) # 0
    BY <1>2
  <2>2. QED
    BY <1>2, <2>1 DEF Header
<1>7. h[Len(h)] = q[payload] /\ h # << >> /\ h[Len(h)][1] = f /\ f \in 1..f /\ f # 0
  <2>1. q[payload][1] = f /\ q[payload][1] \in 1..f
    BY <1>3, <1>6
  <2>2. Len(h) # 0
    BY <1>2, <1>4, <1>6
  <2>3. QED
    BY <1>2, <1>4, <1>6, <2>1, <2>2
<1>8. \A i \in 1..Len(w) :
        /\ w[i][1] \in 1..f /\ IsVoice(w[i]) /\ Air[w[i][1]].link = Air[f].link
        /\ payload <= i => w[i][1] = f
        /\ i < Len(w) => Follows(w[i], w[i + 1])
  <2> SUFFICES ASSUME NEW i \in 1..Len(w)
               PROVE  /\ w[i][1] \in 1..f /\ IsVoice(w[i]) /\ Air[w[i][1]].link = Air[f].link
                      /\ payload <= i => w[i][1] = f
                      /\ i < Len(w) => Follows(w[i], w[i + 1])
    OBVIOUS
  <2>1. /\ payload + i \in 1..Len(q) /\ payload <= payload + i
        /\ w[i] = q[payload + i]
    BY <1>2, <1>5
  <2>2. w[i][1] \in 1..f /\ IsVoice(w[i]) /\ Air[w[i][1]].link = Air[f].link /\ w[i][1] = f
    BY <1>3, <2>1
  <2>3. ASSUME i < Len(w) PROVE Follows(w[i], w[i + 1])
    <3>1. i + 1 \in 1..Len(q) - payload /\ payload + i < Len(q)
          /\ payload + (i + 1) = (payload + i) + 1
      BY <1>2, <1>5, <2>3
    <3>2. w[i + 1] = q[(payload + i) + 1]
      BY <1>5, <3>1
    <3>3. QED
      BY <1>3, <2>1, <3>1, <3>2
  <2>4. QED
    BY <2>2, <2>3
<1>9. w = << >> => Ended(h[Len(h)], f)
  <2> SUFFICES ASSUME w = << >> PROVE Ended(h[Len(h)], f)
    OBVIOUS
  <2>1. Len(w) = 0
    OBVIOUS
  <2>2. payload = Len(q)
    BY <1>2, <1>5, <2>1
  <2>3. QED
    BY <1>3, <1>6, <1>7, <2>2
<1>10. w # << >> => Follows(h[Len(h)], w[1]) /\ Ended(w[Len(w)], f)
  <2> SUFFICES ASSUME w # << >> PROVE Follows(h[Len(h)], w[1]) /\ Ended(w[Len(w)], f)
    OBVIOUS
  <2>1. Len(w) # 0
    BY <1>5
  <2>2. /\ 1 \in 1..Len(q) - payload /\ Len(w) \in 1..Len(q) - payload /\ payload < Len(q)
        /\ payload + Len(w) = Len(q)
    BY <1>2, <1>5, <2>1
  <2>3. w[1] = q[payload + 1] /\ w[Len(w)] = q[Len(q)]
    BY <1>5, <2>2
  <2>4. QED
    BY <1>3, <1>6, <1>7, <2>2, <2>3
<1>11. Queued(h, w, f, payload)
  BY ONLY f \in 0..Len(Air), <1>4, <1>5, <1>7, <1>8, <1>9, <1>10 DEF Queued
<1>12. QED
  BY <1>1, <1>11 DEF h, w

LEMMA FrameAdded ==
  ASSUME NEW g, NEW in \in Framing, NEW payload \in Nat \ {0},
         payload <= Len(in.fifo), Queued(g, in.fifo, in.field, payload),
         Frames(g, Header + payload)
  PROVE  Frames(g \o Framed(in, payload), Header + payload)
<1> DEFINE size == Header + payload
           h    == g \o Framed(in, payload)
           q    == in.fifo
           f    == in.field
           L    == Len(g)
<1>1. /\ g \in Seq(Bytes) /\ L \in Nat /\ L % size = 0
      /\ (g # << >> => IsVoice(g[L])) /\ Geometry(g, size)
  BY DEF Frames
<1>2. Header = 3 /\ payload \in Nat \ {0} /\ size \in Nat \ {0} /\ size = 3 + payload /\ size > 3
  BY DEF Header
<1>3. /\ h \in Seq(Bytes) /\ Len(h) = L + size
      /\ \A i \in 1..L : h[i] = g[i]
      /\ \A i \in 1..Header : h[L + i] = <<f, 0>>
      /\ \A i \in 1..payload : h[L + (Header + i)] = q[i]
  <2>1. /\ h \in Seq(Bytes) /\ Len(h) = Len(g) + (Header + payload)
        /\ \A i \in 1..Len(g) : h[i] = g[i]
        /\ \A i \in 1..Header : h[Len(g) + i] = <<in.field, 0>>
        /\ \A i \in 1..payload : h[Len(g) + (Header + i)] = in.fifo[i]
    <3>1. g \in Seq(Bytes)
      BY <1>1
    <3> HIDE DEF size, q, f, L
    <3>2. QED
      BY <3>1, FramedIs
  <2>2. QED
    BY <2>1
<1>4. /\ \A i \in 1..payload :
           /\ q[i][1] \in 1..f /\ IsVoice(q[i]) /\ Air[q[i][1]].link = Air[f].link
           /\ payload <= i => q[i][1] = f
           /\ i < payload => Follows(q[i], q[i + 1])
      /\ g # << >> => Follows(g[L], q[1])
  <2>1. /\ \A i \in 1..payload : i \in 1..Len(q) /\ (i < payload => i < Len(q))
        /\ q # << >>
    BY DEF Framing
  <2> HIDE DEF q, f, L
  <2>2. /\ \A i \in 1..Len(q) :
             /\ q[i][1] \in 1..f /\ IsVoice(q[i]) /\ Air[q[i][1]].link = Air[f].link
             /\ payload <= i => q[i][1] = f
             /\ i < Len(q) => Follows(q[i], q[i + 1])
        /\ g # << >> /\ q # << >> => Follows(g[L], q[1])
    BY DEF Queued, q, f, L
  <2>3. QED
    BY <2>1, <2>2
<1>5. /\ \A r \in 0..(size - 1) : (L + r) % size = r
      /\ (L + size) % size = 0
  <2> HIDE DEF size, L
  <2>1. QED
    BY <1>1, <1>2, Multiple
<1> HIDE DEF size, h, q, f, L
<1>6. \A i \in 1..Len(h) : i \in 1..L \/ \E r \in 1..size : i = L + r
  <2> SUFFICES ASSUME NEW i \in 1..Len(h), i \notin 1..L
               PROVE  \E r \in 1..size : i = L + r
    OBVIOUS
  <2>1. i - L \in 1..size /\ i = L + (i - L)
    BY <1>1, <1>2, <1>3
  <2>2. QED
    BY <2>1
<1>7. \A r \in 1..size : r \in 1..Header \/ \E x \in 1..payload : r = Header + x
  <2> SUFFICES ASSUME NEW r \in 1..size, r \notin 1..Header
               PROVE  \E x \in 1..payload : r = Header + x
    OBVIOUS
  <2>1. r - Header \in 1..payload /\ r = Header + (r - Header)
    BY <1>2
  <2>2. QED
    BY <2>1
<1>8. \A r \in 1..size : /\ L + r \in 1..Len(h) /\ (L + r - 1) % size = r - 1
  <2> SUFFICES ASSUME NEW r \in 1..size PROVE L + r \in 1..Len(h) /\ (L + r - 1) % size = r - 1
    OBVIOUS
  <2>1. r - 1 \in 0..(size - 1) /\ L + (r - 1) = L + r - 1
    BY <1>1, <1>2
  <2>2. (L + (r - 1)) % size = r - 1
    BY <1>5, <2>1
  <2>3. QED
    BY <1>1, <1>2, <1>3, <2>1, <2>2
<1>9. \A r \in 1..size : Air[h[L + r][1]].link = Air[f].link
  <2> SUFFICES ASSUME NEW r \in 1..size PROVE Air[h[L + r][1]].link = Air[f].link
    OBVIOUS
  <2>1. CASE r \in 1..Header
    <3>1. h[L + r] = <<f, 0>> /\ <<f, 0>>[1] = f
      BY <1>3, <2>1
    <3>2. QED
      BY <3>1
  <2>2. CASE \E x \in 1..payload : r = Header + x
    BY <1>3, <1>4, <2>2
  <2>3. QED
    BY <1>7, <2>1, <2>2
<1>10. \A r \in 1..size : IsVoice(h[L + r]) <=> r > Header
  <2> SUFFICES ASSUME NEW r \in 1..size PROVE IsVoice(h[L + r]) <=> r > Header
    OBVIOUS
  <2>1. CASE r \in 1..Header
    <3>1. h[L + r] = <<f, 0>> /\ <<f, 0>>[2] = 0 /\ ~(r > Header)
      BY <1>2, <1>3, <2>1
    <3>2. QED
      BY <3>1 DEF IsVoice
  <2>2. CASE \E x \in 1..payload : r = Header + x
    <3>1. PICK x \in 1..payload : r = Header + x
      BY <2>2
    <3>2. h[L + r] = q[x] /\ r > Header
      BY <1>2, <1>3, <3>1
    <3>3. QED
      BY <1>4, <3>2
  <2>3. QED
    BY <1>7, <2>1, <2>2
<1>11. \A i \in 1..Len(h) : IsVoice(h[i]) <=> (i - 1) % size >= Header
  <2> SUFFICES ASSUME NEW i \in 1..Len(h) PROVE IsVoice(h[i]) <=> (i - 1) % size >= Header
    OBVIOUS
  <2>1. CASE i \in 1..L
    <3>1. IsVoice(g[i]) <=> (i - 1) % size >= Header
      BY <1>1, <2>1 DEF Geometry, L
    <3>2. QED
      BY <1>3, <2>1, <3>1
  <2>2. CASE \E r \in 1..size : i = L + r
    <3>1. PICK r \in 1..size : i = L + r
      BY <2>2
    <3>2. (i - 1) % size = r - 1
      <4>1. (L + r - 1) % size = r - 1
        BY <1>8
      <4>2. i - 1 = L + r - 1
        BY <1>1, <3>1
      <4>3. QED
        BY <4>1, <4>2
    <3>3. r - 1 >= Header <=> r > Header
      BY <1>2
    <3>4. QED
      BY <1>10, <3>1, <3>2, <3>3
  <2>3. QED
    BY <1>6, <2>1, <2>2
<1>12. ASSUME NEW i \in 1..Len(h), NEW j \in 1..Len(h), i < j, IsVoice(h[i]), IsVoice(h[j]),
              \A x \in (i + 1)..(j - 1) : ~IsVoice(h[x])
       PROVE  Follows(h[i], h[j])
  <2>1. CASE j \in 1..L
    <3>1. i \in 1..L /\ h[i] = g[i] /\ h[j] = g[j]
      BY <1>1, <1>3, <1>12, <2>1
    <3>2. \A x \in (i + 1)..(j - 1) : ~IsVoice(g[x])
      <4>1. \A x \in (i + 1)..(j - 1) : x \in 1..L
        BY <1>1, <2>1, <3>1
      <4>2. QED
        BY <1>3, <1>12, <4>1
    <3>3. QED
      BY <1>1, <1>12, <2>1, <3>1, <3>2 DEF Geometry, L
  <2>2. CASE \E r \in 1..size : j = L + r
    <3>1. PICK r \in 1..size : j = L + r
      BY <2>2
    <3>2. r > Header
      BY <1>10, <1>12, <3>1
    <3>3. PICK y \in 1..payload : r = Header + y
      BY <1>2, <1>7, <3>2
    <3>4. h[j] = q[y]
      BY <1>3, <3>1, <3>3
    <3>5. CASE y = 1
      <4>1. \A x \in 1..Header : ~IsVoice(h[L + x])
        BY <1>2, <1>10
      <4>2. i \in 1..L
        <5>1. ASSUME NEW x \in 1..size, i = L + x PROVE FALSE
          <6>1. x \in 1..Header
            BY <1>1, <1>2, <1>12, <3>1, <3>3, <3>5, <5>1
          <6>2. QED
            BY <1>12, <4>1, <5>1, <6>1
        <5>2. QED
          BY <1>6, <5>1
      <4>3. L \in 1..L /\ g # << >> /\ h[L] = g[L] /\ L < j
        BY <1>1, <1>2, <1>3, <3>1, <4>2 DEF L
      <4>4. i = L
        <5> SUFFICES ASSUME i # L PROVE FALSE
          OBVIOUS
        <5>1. L \in (i + 1)..(j - 1)
          BY <1>1, <4>2, <4>3
        <5>2. QED
          BY <1>1, <1>12, <4>3, <5>1
      <4>5. QED
        BY <1>4, <3>4, <3>5, <4>3, <4>4
    <3>6. CASE y # 1
      <4>1. /\ y - 1 \in 1..payload /\ y - 1 < payload /\ (y - 1) + 1 = y
            /\ j - 1 = L + (Header + (y - 1)) /\ j - 1 \in 1..Len(h)
        <5>1. y \in 1..payload /\ y - 1 \in 1..payload /\ y - 1 < payload /\ (y - 1) + 1 = y
          BY <1>2, <3>6
        <5>2. j - 1 = L + (Header + (y - 1))
          BY <1>1, <1>2, <3>1, <3>3, <5>1
        <5>3. j - 1 \in 1..Len(h)
          BY <1>1, <1>2, <1>3, <5>1, <5>2
        <5>4. QED
          BY <5>1, <5>2, <5>3
      <4>2. h[j - 1] = q[y - 1] /\ IsVoice(h[j - 1])
        BY <1>3, <1>4, <4>1
      <4>3. i = j - 1
        <5> SUFFICES ASSUME i # j - 1 PROVE FALSE
          OBVIOUS
        <5>1. j - 1 \in (i + 1)..(j - 1)
          BY <1>12
        <5>2. QED
          BY <1>12, <4>2, <5>1
      <4>4. QED
        BY <1>4, <3>4, <4>1, <4>2, <4>3
    <3>7. QED
      BY <3>5, <3>6
  <2>3. QED
    BY <1>6, <2>1, <2>2
<1>13. ASSUME NEW i \in 1..Len(h), (i - 1) % size = 0, i + size - 1 <= Len(h)
       PROVE  /\ h[i + size - 1][1] = h[i][1]
              /\ \A x \in i..(i + size - 1) : Air[h[x][1]].link = Air[h[i][1]].link
  <2>1. CASE i + size - 1 <= L
    <3>1. \A x \in i..(i + size - 1) : x \in 1..L
      BY <1>1, <1>2, <2>1
    <3>2. i \in 1..L /\ i + size - 1 \in 1..L
      BY <1>1, <1>2, <2>1
    <3>3. /\ g[i + size - 1][1] = g[i][1]
          /\ \A x \in i..(i + size - 1) : Air[g[x][1]].link = Air[g[i][1]].link
      BY <1>1, <1>13, <2>1, <3>2 DEF Geometry, L
    <3>4. QED
      BY <1>3, <3>1, <3>2, <3>3
  <2>2. CASE ~(i + size - 1 <= L)
    <3>1. i = L + 1
      <4> SUFFICES ASSUME i # L + 1 PROVE FALSE
        OBVIOUS
      <4>1. PICK d \in Nat : d = L - (i - 1)
        BY <1>1, <1>2, <1>3, <1>13
      <4>2. d \in 0..(size - 1) /\ d # 0 /\ i - 1 \in Nat /\ L = (i - 1) + d
        BY <1>1, <1>2, <1>3, <1>13, <2>2, <4>1
      <4>3. \A r \in 0..(size - 1) : ((i - 1) + r) % size = r
        <5>1. PICK l \in Nat : l = i - 1
          BY <4>2
        <5>2. \A r \in 0..(size - 1) : (l + r) % size = r
          BY <1>2, <1>13, <5>1, Multiple
        <5>3. QED
          BY <5>1, <5>2
      <4>4. L % size = d
        BY <4>2, <4>3
      <4>5. QED
        BY <1>1, <4>2, <4>4
    <3>2. \A x \in i..(i + size - 1) : \E r \in 1..size : x = L + r
      <4> SUFFICES ASSUME NEW x \in i..(i + size - 1) PROVE \E r \in 1..size : x = L + r
        OBVIOUS
      <4>1. x - L \in 1..size /\ x = L + (x - L)
        BY <1>1, <1>2, <3>1
      <4>2. QED
        BY <4>1
    <3>3. 1 \in 1..size /\ 1 \in 1..Header /\ payload \in 1..payload
          /\ i + size - 1 = L + (Header + payload) /\ size = Header + payload
      BY <1>1, <1>2, <3>1
    <3>4. h[i][1] = f /\ h[i + size - 1][1] = f
      <4>1. h[i] = <<f, 0>> /\ <<f, 0>>[1] = f
        BY <1>3, <3>1, <3>3
      <4>2. h[i + size - 1] = q[payload] /\ q[payload][1] = f
        BY <1>2, <1>3, <1>4, <3>3
      <4>3. QED
        BY <4>1, <4>2
    <3>5. QED
      BY <1>9, <3>2, <3>4
  <2>3. QED
    BY <2>1, <2>2
<1>14. Len(h) % size = 0
  BY <1>3, <1>5
<1>15. IsVoice(h[Len(h)])
  <2>1. size \in 1..size /\ size > Header
    BY <1>2
  <2>2. QED
    BY <1>3, <1>10, <2>1
<1>16. Geometry(h, size)
  BY <1>11, <1>12, <1>13 DEF Geometry
<1>17. Frames(h, size)
  BY <1>3, <1>14, <1>15, <1>16 DEF Frames
<1>18. QED
  BY <1>17 DEF h, size

-----------------------------------------------------------------------------
(***************************************************************************)
(* The invariant: what the host has, and what is framed for it, is whole   *)
(* frames; what waits may follow it, and what the bridge has came later.   *)
(***************************************************************************)
InInv ==
  /\ arrived \in 0..Len(Air) /\ field <= arrived /\ setting \in Settings
  /\ Rising(source, field, arrived)
  /\ got \in Seq(Bytes) /\ frame \in Seq(Bytes)
  /\ Queued(got \o frame, fifo, field, Payload(setting))
  /\ Frames(got \o frame, Header + Payload(setting))

LEMMA PayloadIs ==
  ASSUME NEW m \in Settings
  PROVE  m \in Nat /\ Payload(m) \in Nat
<1>1. m \in Nat
  BY FramingAssumption
<1>2. QED
  BY <1>1 DEF Payload, Header

LEMMA NothingYet ==
  ASSUME NEW payload \in Nat
  PROVE  /\ Queued(<< >> \o << >>, << >>, 0, payload)
         /\ Frames(<< >> \o << >>, Header + payload)
<1>1. << >> \in Seq(Bytes) /\ Len(<< >>) = 0 /\ << >> \o << >> = << >>
  OBVIOUS
<1>2. 0 \in 0..Len(Air)
  BY AirIs
<1>3. Queued(<< >>, << >>, 0, payload)
  BY <1>1, <1>2 DEF Queued
<1>4. 0 % (Header + payload) = 0
  BY DEF Header
<1>5. Frames(<< >>, Header + payload)
  BY <1>1, <1>4 DEF Frames, Geometry
<1>6. QED
  BY <1>1, <1>3, <1>5

LEMMA InitIn == FramingInit => InInv
<1> SUFFICES ASSUME FramingInit PROVE InInv
  OBVIOUS
<1>1. /\ arrived = 0 /\ source = << >> /\ fifo = << >> /\ field = 0 /\ frame = << >>
      /\ setting \in Settings /\ got = << >>
  BY DEF FramingInit
<1>2. Payload(setting) \in Nat
  BY <1>1, PayloadIs
<1>3. /\ Queued(<< >> \o << >>, << >>, 0, Payload(setting))
      /\ Frames(<< >> \o << >>, Header + Payload(setting))
  BY <1>2, NothingYet
<1>4. Rising(<< >>, 0, 0)
  BY DEF Rising
<1>5. arrived \in 0..Len(Air) /\ field <= arrived
  BY <1>1, AirIs
<1>6. got \in Seq(Bytes) /\ frame \in Seq(Bytes)
  BY <1>1
<1>7. QED
  BY <1>1, <1>3, <1>4, <1>5, <1>6 DEF InInv

LEMMA FlushKeepsIn ==
  ASSUME InInv, UsbReset \/ \E size \in Settings : SelectSetting(size)
  PROVE  InInv'
<1>1. /\ fifo' = << >> /\ field' = 0 /\ frame' = << >> /\ got' = << >> /\ arrived' = arrived
      /\ setting' \in Settings /\ source' \in {<< >>, source}
  BY DEF UsbReset, SelectSetting, Flush, InInv
<1>2. Payload(setting') \in Nat
  BY <1>1, PayloadIs
<1>3. /\ Queued(<< >> \o << >>, << >>, 0, Payload(setting'))
      /\ Frames(<< >> \o << >>, Header + Payload(setting'))
  BY <1>2, NothingYet
<1>4. arrived \in Nat /\ field \in Nat /\ Len(Air) \in Nat
  BY AirIs DEF InInv, Queued
<1>5. Rising(<< >>, 0, arrived) /\ Rising(source, 0, arrived)
  <2>1. /\ source \in Seq(1..Len(Air)) /\ Len(source) \in Nat
        /\ \A i \in 1..Len(source) : field < source[i] /\ source[i] <= arrived /\ source[i] \in Nat
        /\ \A i, j \in 1..Len(source) : i < j => source[i] < source[j]
    BY <1>4, ElementIs DEF InInv, Rising
  <2>2. \A i \in 1..Len(source) : 0 < source[i]
    BY <1>4, <2>1
  <2>3. QED
    BY <2>1, <2>2 DEF Rising
<1>6. Rising(source', 0, arrived)
  BY <1>1, <1>5
<1>7. arrived' \in 0..Len(Air) /\ field' <= arrived'
  BY <1>1, <1>4 DEF InInv
<1>8. /\ got' \in Seq(Bytes) /\ frame' \in Seq(Bytes)
      /\ Queued(got' \o frame', fifo', field', Payload(setting'))
      /\ Frames(got' \o frame', Header + Payload(setting'))
  BY <1>1, <1>3
<1>9. Rising(source', field', arrived')
  BY <1>1, <1>6
<1>10. QED
  BY <1>1, <1>7, <1>8, <1>9 DEF InInv, Queued, Frames, Geometry, Rising, Payload

LEMMA ArriveKeeps ==
  ASSUME InInv, Arrive
  PROVE  InInv'
<1>1. /\ arrived \in 0..Len(Air) /\ arrived < Len(Air) /\ arrived' = arrived + 1
      /\ source' = Append(IF Len(source) = SourceDepth THEN Tail(source) ELSE source, arrived + 1)
      /\ fifo' = fifo /\ field' = field /\ frame' = frame /\ setting' = setting /\ got' = got
  BY DEF Arrive, InInv
<1>2. /\ source \in Seq(1..Len(Air)) /\ Len(source) \in Nat
      /\ \A i \in 1..Len(source) : field < source[i] /\ source[i] <= arrived /\ source[i] \in Nat
      /\ \A i, j \in 1..Len(source) : i < j => source[i] < source[j]
  BY ElementIs DEF InInv, Rising
<1>3. field \in Nat /\ field <= arrived /\ arrived \in Nat /\ Len(Air) \in Nat
      /\ SourceDepth \in Nat \ {0}
  BY AirIs, FramingAssumption DEF InInv, Queued
<1> DEFINE s == IF Len(source) = SourceDepth THEN Tail(source) ELSE source
<1>4. /\ s \in Seq(1..Len(Air)) /\ Len(s) \in Nat
      /\ \A i \in 1..Len(s) : field < s[i] /\ s[i] <= arrived /\ s[i] \in Nat
      /\ \A i, j \in 1..Len(s) : i < j => s[i] < s[j]
  <2>1. CASE Len(source) = SourceDepth
    <3>1. source # << >>
      BY <1>3, <2>1
    <3>2. /\ s \in Seq(1..Len(Air)) /\ Len(s) = Len(source) - 1 /\ Len(source) \in Nat \ {0}
          /\ \A i \in 1..Len(source) - 1 : s[i] = source[i + 1]
      BY <1>2, <2>1, <3>1, TailIs
    <3> HIDE DEF s
    <3>3. \A i \in 1..Len(s) : i + 1 \in 1..Len(source) /\ s[i] = source[i + 1]
      BY <3>2
    <3>4. \A i, j \in 1..Len(s) : i < j => i + 1 < j + 1
      BY <3>2
    <3>5. Len(s) \in Nat
      BY <3>2
    <3>6. \A i \in 1..Len(s) : field < s[i] /\ s[i] <= arrived /\ s[i] \in Nat
      BY <1>2, <3>3
    <3>7. \A i, j \in 1..Len(s) : i < j => s[i] < s[j]
      <4> SUFFICES ASSUME NEW i \in 1..Len(s), NEW j \in 1..Len(s), i < j PROVE s[i] < s[j]
        OBVIOUS
      <4>1. i + 1 \in 1..Len(source) /\ j + 1 \in 1..Len(source) /\ i + 1 < j + 1
        BY <3>3, <3>4
      <4>2. QED
        BY <1>2, <3>3, <4>1
    <3>8. QED
      BY <3>2, <3>5, <3>6, <3>7
  <2>2. CASE Len(source) # SourceDepth
    BY <1>2, <2>2
  <2>3. QED
    BY <2>1, <2>2
<1>5. source' = Append(s, arrived + 1)
  BY <1>1
<1> HIDE DEF s
<1>6. arrived + 1 \in 1..Len(Air)
  BY <1>1, <1>3
<1>7. /\ source' \in Seq(1..Len(Air)) /\ Len(source') = Len(s) + 1
      /\ \A i \in 1..Len(s) : source'[i] = s[i]
      /\ source'[Len(s) + 1] = arrived + 1
  BY <1>4, <1>5, <1>6, AppendIs
<1>8. \A i \in 1..Len(source') : i \in 1..Len(s) \/ i = Len(s) + 1
  BY <1>4, <1>7
<1>9. ASSUME NEW i \in 1..Len(source')
      PROVE  field < source'[i] /\ source'[i] <= arrived + 1
  <2>1. CASE i \in 1..Len(s)
    <3>1. field < s[i] /\ s[i] <= arrived /\ s[i] \in Nat /\ source'[i] = s[i]
      BY <1>4, <1>7, <2>1
    <3>2. QED
      BY <1>3, <3>1
  <2>2. CASE i = Len(s) + 1
    BY <1>3, <1>7, <2>2
  <2>3. QED
    BY <1>8, <2>1, <2>2
<1>10. ASSUME NEW i \in 1..Len(source'), NEW j \in 1..Len(source'), i < j
       PROVE  source'[i] < source'[j]
  <2>1. i \in 1..Len(s)
    BY <1>4, <1>7, <1>10
  <2>2. CASE j \in 1..Len(s)
    BY <1>4, <1>7, <1>10, <2>1, <2>2
  <2>3. CASE j = Len(s) + 1
    <3>1. s[i] <= arrived /\ s[i] \in Nat /\ source'[i] = s[i] /\ source'[j] = arrived + 1
      BY <1>4, <1>7, <2>1, <2>3
    <3>2. QED
      BY <1>3, <3>1
  <2>4. QED
    BY <1>8, <2>2, <2>3
<1>11. Rising(source', field', arrived')
  BY <1>1, <1>7, <1>9, <1>10 DEF Rising
<1>12. arrived' \in 0..Len(Air) /\ field' <= arrived'
  BY <1>1, <1>3
<1>13. /\ setting' \in Settings /\ got' \in Seq(Bytes) /\ frame' \in Seq(Bytes)
       /\ Queued(got' \o frame', fifo', field', Payload(setting'))
       /\ Frames(got' \o frame', Header + Payload(setting'))
  BY <1>1 DEF InInv
<1>14. QED
  BY <1>11, <1>12, <1>13 DEF InInv

LEMMA RisingCut ==
  ASSUME NEW s, NEW f, NEW top, Rising(s, f, top), NEW p \in 0..Len(s), NEW e,
         \A m \in 1..Len(s) : p < m => e < s[m]
  PROVE  Rising(SubSeq(s, p + 1, Len(s)), e, top)
<1> DEFINE w == SubSeq(s, p + 1, Len(s))
<1>1. /\ s \in Seq(1..Len(Air)) /\ Len(s) \in Nat
      /\ \A i \in 1..Len(s) : s[i] <= top
      /\ \A i, j \in 1..Len(s) : i < j => s[i] < s[j]
  BY DEF Rising
<1>2. /\ w \in Seq(1..Len(Air)) /\ Len(w) = Len(s) - p
      /\ \A i \in 1..Len(s) - p : w[i] = s[p + i]
  BY <1>1, CutIs
<1> HIDE DEF w
<1>3. \A i \in 1..Len(w) : p + i \in 1..Len(s) /\ p < p + i /\ w[i] = s[p + i]
  BY <1>1, <1>2
<1>4. \A i, j \in 1..Len(w) : i < j => p + i < p + j
  BY <1>1, <1>2
<1>5. Rising(w, e, top)
  BY <1>1, <1>2, <1>3, <1>4 DEF Rising
<1>6. QED
  BY <1>5 DEF w

\* What is taken of a packet, and what is left of it.
LEMMA TakenIs ==
  ASSUME NEW g \in Seq(Bytes), NEW bytes \in Seq(Bytes), NEW n \in 0..Len(bytes)
  PROVE  /\ g \o SubSeq(bytes, 1, n) \in Seq(Bytes)
         /\ SubSeq(bytes, n + 1, Len(bytes)) \in Seq(Bytes)
         /\ (g \o SubSeq(bytes, 1, n)) \o SubSeq(bytes, n + 1, Len(bytes)) = g \o bytes
<1>1. PICK a \in Seq(Bytes), b \in Seq(Bytes) :
         a = SubSeq(bytes, 1, n) /\ b = SubSeq(bytes, n + 1, Len(bytes))
  BY CutIs
<1>2. a \o b = bytes
  BY <1>1, CutIs
<1>3. g \o a \in Seq(Bytes)
  BY ConcatProperties
<1>4. (g \o a) \o b = g \o (a \o b)
  BY ConcatAssociative
<1>5. QED
  BY <1>1, <1>2, <1>3, <1>4

LEMMA FillKeeps ==
  ASSUME InInv, NEW c \in Capacities, Fill(c)
  PROVE  InInv'
<1> DEFINE payload == Payload(setting)
           pulls   == IF frame = << >> THEN Pulls(payload) ELSE 0
           in      == Pulled[pulls]
           frames  == frame = << >> /\ Len(in.fifo) >= payload
           bytes     == IF frames THEN Framed(in, payload) ELSE frame
           n       == Min({Len(bytes), setting, c})
           g       == got \o frame
           rest    == IF frames THEN SubSeq(in.fifo, payload + 1, Len(in.fifo)) ELSE in.fifo
<1>1. /\ payload > 0 /\ source' = SubSeq(source, pulls + 1, Len(source))
      /\ field' = in.field /\ fifo' = rest
      /\ frame' = SubSeq(bytes, n + 1, Len(bytes)) /\ got' = got \o SubSeq(bytes, 1, n)
      /\ arrived' = arrived /\ setting' = setting
  BY DEF Fill
<1>2. /\ arrived \in 0..Len(Air) /\ field <= arrived /\ setting \in Settings
      /\ Rising(source, field, arrived) /\ got \in Seq(Bytes) /\ frame \in Seq(Bytes)
      /\ Queued(g, fifo, field, payload) /\ Frames(g, Header + payload)
  BY DEF InInv
<1>3. setting \in Nat /\ payload \in Nat \ {0} /\ arrived \in Nat /\ Len(source) \in Nat /\ c \in Nat
  <2>1. setting \in Nat /\ Payload(setting) \in Nat
    BY <1>2, PayloadIs
  <2>2. arrived \in Nat /\ Len(source) \in Nat
    BY <1>2, AirIs DEF Rising
  <2>3. c \in Nat
    BY FramingAssumption
  <2>4. QED
    BY <1>1, <2>1, <2>2, <2>3
<1> HIDE DEF payload, g
<1>4. pulls \in 0..Len(source) /\ PulledWell(pulls, g, payload)
  <2>1. /\ Pulls(payload) \in 0..Len(source)
        /\ PulledWell(0, g, payload) /\ PulledWell(Pulls(payload), g, payload)
    BY <1>2, <1>3, PullsKeep
  <2>2. 0 \in 0..Len(source)
    BY <1>3
  <2>3. QED
    BY <2>1, <2>2
<1> HIDE DEF pulls
<1>5. /\ in \in Framing /\ Queued(g, in.fifo, in.field, payload) /\ in.field <= arrived
      /\ \A m \in 1..Len(source) : pulls < m => in.field < source[m]
  BY <1>4 DEF PulledWell
<1>6. Rising(source', field', arrived')
  <2>1. PICK p \in 0..Len(source) : p = pulls
    BY <1>4
  <2>2. PICK e : e = in.field
    OBVIOUS
  <2>3. \A m \in 1..Len(source) : p < m => e < source[m]
    BY <1>5, <2>1, <2>2
  <2>4. Rising(SubSeq(source, p + 1, Len(source)), e, arrived)
    BY <1>2, <2>3, RisingCut
  <2>5. QED
    BY <1>1, <2>1, <2>2, <2>4
<1> HIDE DEF in
<1>7. /\ bytes \in Seq(Bytes)
      /\ Queued(got \o bytes, rest, in.field, payload) /\ Frames(got \o bytes, Header + payload)
  <2>1. CASE frames
    <3>1. g = got
      BY <1>2, <2>1, ConcatEmptySeq DEF g
    <3>2. Len(in.fifo) \in Nat /\ payload <= Len(in.fifo)
      BY <1>3, <1>5, <2>1 DEF Framing
    <3>3. bytes = Framed(in, payload) /\ rest = SubSeq(in.fifo, payload + 1, Len(in.fifo))
      BY <2>1
    <3> HIDE DEF bytes, rest, frames
    <3>4. Framed(in, payload) \in Seq(Bytes)
      BY <1>2, <1>3, <1>5, <3>2, FramedIs
    <3>5. Queued(g \o Framed(in, payload),
                 SubSeq(in.fifo, payload + 1, Len(in.fifo)), in.field, payload)
      BY <1>3, <1>5, <3>2, FrameQueued
    <3>6. Frames(g \o Framed(in, payload), Header + payload)
      BY <1>2, <1>3, <1>5, <3>2, FrameAdded
    <3>7. QED
      BY <3>1, <3>3, <3>4, <3>5, <3>6
  <2>2. CASE ~frames
    <3>1. bytes = frame /\ rest = in.fifo
      BY <2>2
    <3>2. QED
      BY <1>2, <1>5, <3>1 DEF g
  <2>3. QED
    BY <2>1, <2>2
<1> HIDE DEF bytes, rest, frames
<1>8. n \in 0..Len(bytes)
  <2>1. {Len(bytes), setting, c} \subseteq Nat /\ Len(bytes) \in Nat
    BY <1>3, <1>7
  <2>2. n \in {Len(bytes), setting, c} /\ n <= Len(bytes)
    <3>1. \A x \in {Len(bytes), setting, c} : n <= x
      BY <2>1, LeastIs
    <3>2. n \in {Len(bytes), setting, c}
      BY <2>1, LeastIs
    <3>3. QED
      BY <3>1, <3>2
  <2>3. QED
    BY <2>1, <2>2
<1> HIDE DEF n
<1>9. got' \in Seq(Bytes) /\ frame' \in Seq(Bytes) /\ got' \o frame' = got \o bytes
  BY <1>1, <1>2, <1>7, <1>8, TakenIs
<1>10. field' <= arrived' /\ arrived' \in 0..Len(Air) /\ setting' \in Settings
  BY <1>1, <1>2, <1>5
<1>11. /\ Queued(got' \o frame', fifo', field', Payload(setting'))
       /\ Frames(got' \o frame', Header + Payload(setting'))
  BY <1>1, <1>7, <1>9 DEF payload
<1>12. QED
  BY <1>6, <1>9, <1>10, <1>11 DEF InInv

LEMMA InStands == InInv /\ [FramingNext]_framingVars => InInv'
<1> SUFFICES ASSUME InInv, [FramingNext]_framingVars PROVE InInv'
  OBVIOUS
<1>1. CASE UNCHANGED inVars
  BY <1>1 DEF InInv, inVars
<1>2. ASSUME NEW n \in Cuts, Push(n) PROVE InInv'
  BY <1>1, <1>2 DEF Push
<1>3. CASE Release
  BY <1>1, <1>3 DEF Release
<1>4. CASE Arrive
  BY <1>4, ArriveKeeps
<1>5. CASE FillIn
  BY <1>5, FillKeeps DEF FillIn
<1>6. CASE UsbReset \/ \E size \in Settings : SelectSetting(size)
  BY <1>6, FlushKeepsIn
<1>7. CASE UNCHANGED framingVars
  BY <1>1, <1>7 DEF framingVars
<1>8. QED
  BY <1>2, <1>3, <1>4, <1>5, <1>6, <1>7 DEF FramingNext

LEMMA InInductive == FramingSpec => []InInv
<1>1. QED
  BY InitIn, InStands, PTL DEF FramingSpec

\* The host's bytes are whole packets of the setting's geometry, each voice of
\* one link in its order, under the header of the packet that brought the last
\* of it: ScoUsbInAccept and ScoUsbInFill, src/src/common/sco_usb.c.
THEOREM VoiceInIsFaithful == FramingSpec => []InFaithful
<1>1. InInv => InFaithful
  <2> SUFFICES ASSUME InInv PROVE InFaithful
    OBVIOUS
  <2> DEFINE size == Header + Payload(setting)
             g    == got \o frame
  <2>1. got \in Seq(Bytes) /\ frame \in Seq(Bytes) /\ Geometry(g, size)
    BY DEF InInv, Frames
  <2>2. /\ Len(g) = Len(got) + Len(frame) /\ Len(got) \in Nat /\ Len(frame) \in Nat
        /\ \A i \in 1..Len(got) : g[i] = got[i]
    BY <2>1, JoinIs
  <2>3. setting \in Nat /\ Payload(setting) \in Nat
    BY PayloadIs DEF InInv
  <2>4. size \in Nat /\ size > 0
    BY <2>3 DEF Header
  <2> HIDE DEF g, size
  <2>5. \A i \in 1..Len(got) : i \in 1..Len(g)
    BY <2>2
  <2>6. \A i \in 1..Len(got) : IsVoice(got[i]) <=> (i - 1) % size >= Header
    BY <2>1, <2>2, <2>5 DEF Geometry
  <2>7. ASSUME NEW i \in 1..Len(got), NEW j \in 1..Len(got),
               i < j, IsVoice(got[i]), IsVoice(got[j]),
               \A x \in (i + 1)..(j - 1) : ~IsVoice(got[x])
        PROVE  Follows(got[i], got[j])
    <3>1. \A x \in (i + 1)..(j - 1) : x \in 1..Len(got)
      BY <2>2
    <3>2. \A x \in (i + 1)..(j - 1) : ~IsVoice(g[x])
      BY <2>2, <2>7, <3>1
    <3>3. QED
      BY <2>1, <2>2, <2>5, <2>7, <3>2 DEF Geometry
  <2>8. ASSUME NEW i \in 1..Len(got), (i - 1) % size = 0, i + size - 1 <= Len(got)
        PROVE  /\ got[i + size - 1][1] = got[i][1]
               /\ \A x \in i..(i + size - 1) : Air[got[x][1]].link = Air[got[i][1]].link
    <3>1. \A x \in i..(i + size - 1) : x \in 1..Len(got)
      BY <2>2, <2>4, <2>8
    <3>2. i + size - 1 \in i..(i + size - 1) /\ i + size - 1 <= Len(g)
      BY <2>2, <2>4, <2>8
    <3>3. /\ g[i + size - 1][1] = g[i][1]
          /\ \A x \in i..(i + size - 1) : Air[g[x][1]].link = Air[g[i][1]].link
      BY <2>1, <2>5, <2>8, <3>2 DEF Geometry
    <3>4. QED
      BY <2>2, <3>1, <3>2, <3>3
  <2>9. QED
    BY <2>6, <2>7, <2>8 DEF InFaithful, size
<1>2. QED
  BY <1>1, InInductive, PTL

-----------------------------------------------------------------------------
(***************************************************************************)
(* Types.  A handle the framer reads is one the host sent, or garbage,     *)
(* since every byte of a packet is one the host has sent.                  *)
(***************************************************************************)
Handles == Links \cup {NoLink, Garbage}

SentBytes(s, end) == \A i \in 1..Len(s) : s[i] \in 1..(end - 1)

TypesInv ==
  /\ dir \in {"out", "in"} /\ flushes \in 0..MaxStreams /\ last \in Handles
  /\ SentBytes(packet, next) /\ Len(source) <= SourceDepth

LEMMA HandleIs ==
  ASSUME NEW p \in Nat, NEW q, 1 <= p, p < Start[Len(Sent) + 1]
  PROVE  HandleOf(p, q) \in Handles
<1>1. PICK k \in 1..Len(Sent) : Start[k] <= p /\ p < Start[k + 1]
  BY InAPacket
<1>2. PacketOf(p) = k
  BY <1>1, PlaceIsIn
<1>3. Sent[k].link \in Links
  BY SentIs
<1>4. QED
  BY <1>2, <1>3 DEF HandleOf, Handles

LEMMA ReassembleSent ==
  ASSUME NEW heard, NEW st \in States(heard), st.last \in Handles,
         NEW end \in Nat, end <= Start[Len(Sent) + 1], SentBytes(st.packet, end),
         NEW p \in 1..(end - 1)
  PROVE  Reassemble(st, p).last \in Handles /\ SentBytes(Reassemble(st, p).packet, end)
<1> DEFINE pk == Append(st.packet, p)
<1>1. st.packet \in Seq(Nat) /\ p \in Nat /\ Start[Len(Sent) + 1] \in Nat
  <2>1. Len(Sent) + 1 \in 1..(Len(Sent) + 1)
    BY SentIs
  <2>2. Start[Len(Sent) + 1] \in Nat
    BY <2>1, StartsRise
  <2>3. st.packet \in Seq(Nat)
    BY DEF States
  <2>4. QED
    BY <2>2, <2>3
<1>2. /\ pk \in Seq(Nat) /\ Len(pk) = Len(st.packet) + 1 /\ Len(st.packet) \in Nat
      /\ \A i \in 1..Len(st.packet) : pk[i] = st.packet[i]
      /\ pk[Len(st.packet) + 1] = p
  BY <1>1, AppendIs
<1> HIDE DEF pk
<1>3. SentBytes(pk, end)
  <2> SUFFICES ASSUME NEW i \in 1..Len(pk) PROVE pk[i] \in 1..(end - 1)
    BY DEF SentBytes
  <2>1. i \in 1..Len(st.packet) \/ i = Len(st.packet) + 1
    BY <1>2
  <2>2. QED
    BY <1>2, <2>1 DEF SentBytes
<1>4. CASE Len(pk) >= Header /\ Len(pk) = Header + LengthAt(pk[3])
  <2>1. Reassemble(st, p) = [packet |-> << >>, last |-> HandleOf(pk[1], pk[2]),
                             emitted |-> Append(st.emitted, pk)]
    BY <1>4 DEF Reassemble, Emit, pk
  <2>2. pk[1] \in 1..(end - 1)
    <3>1. 1 \in 1..Len(pk)
      BY <1>2, <1>4 DEF Header
    <3>2. QED
      BY <1>3, <3>1 DEF SentBytes
  <2>3. pk[1] \in Nat /\ 1 <= pk[1] /\ pk[1] < Start[Len(Sent) + 1]
    BY <1>1, <2>2
  <2>4. HandleOf(pk[1], pk[2]) \in Handles
    BY <2>3, HandleIs
  <2>5. SentBytes(<< >>, end)
    BY DEF SentBytes
  <2>6. QED
    BY <2>1, <2>4, <2>5
<1>5. CASE ~(Len(pk) >= Header /\ Len(pk) = Header + LengthAt(pk[3]))
  <2>1. Reassemble(st, p) = [st EXCEPT !.packet = pk]
    BY <1>5 DEF Reassemble, pk
  <2>2. [st EXCEPT !.packet = pk].last = st.last /\ [st EXCEPT !.packet = pk].packet = pk
    BY DEF States
  <2>3. QED
    BY <1>3, <2>1, <2>2
<1>6. QED
  BY <1>4, <1>5

LEMMA ReleaseKeepsTypes ==
  ASSUME OutInv, TypesInv, Release
  PROVE  last' \in Handles /\ SentBytes(packet', next')
<1> DEFINE first == chunks[1].from
           m     == IF Skips(chunks[1]) THEN 0 ELSE chunks[1].n
           heard == Named \cup {last}
           S     == {n \in 0..m : /\ Reassembled[n].last \in Handles
                                  /\ SentBytes(Reassembled[n].packet, next)}
<1>1. /\ chunks # << >> /\ next' = next
      /\ packet' = Reassembled[m].packet /\ last' = Reassembled[m].last
  BY DEF Release
<1>2. /\ next \in Nat /\ next >= 1 /\ next <= Start[Len(Sent) + 1]
      /\ Contiguous(chunks, next) /\ packet \in Seq(Nat) /\ emitted \in Seq(Seq(Nat))
  BY DEF OutInv, PiecesInv, PacketInv
<1>3. MaxIso \in Nat
  BY FramingAssumption
<1>4. /\ first \in Nat /\ first >= 1 /\ chunks[1].n \in 1..MaxIso
      /\ first + chunks[1].n <= next
  <2>1. 1 \in 1..Len(chunks)
    BY <1>1, <1>2 DEF Contiguous
  <2>2. chunks[1] \in Pieces
    BY <1>2, <2>1, ElementIs DEF Contiguous
  <2>3. chunks[1].n \in 1..MaxIso /\ first >= 1
    BY <1>2, <2>1 DEF Contiguous
  <2>4. first \in Nat
    BY <2>2 DEF Pieces
  <2>5. FrontOf(Tail(chunks), next) = first + chunks[1].n /\ FrontOf(Tail(chunks), next) <= next
    BY <1>1, <1>2, RingTail
  <2>6. QED
    BY <2>3, <2>4, <2>5
<1>5. /\ Reassembled[0] = Now
      /\ \A n \in 1..MaxIso : Reassembled[n] = Reassemble(Reassembled[n - 1], first + n - 1)
      /\ \A n \in 0..MaxIso : Reassembled[n] \in States(heard)
  BY <1>2, <1>4, ReassembledIs
<1>6. m \in 0..MaxIso /\ m <= chunks[1].n
  BY <1>3, <1>4
<1> HIDE DEF m, first, heard
<1>7. 0 \in S
  <2>1. Reassembled[0].last = last /\ Reassembled[0].packet = packet
    BY <1>5, NowIs
  <2>2. QED
    BY <1>6, <2>1 DEF TypesInv
<1>8. ASSUME NEW n \in 1..m, n - 1 \in S PROVE n \in S
  <2>1. n \in 1..MaxIso /\ n - 1 \in 0..MaxIso /\ n \in 0..m
    BY <1>3, <1>6
  <2>2. first + n - 1 \in 1..(next - 1)
    BY <1>2, <1>4, <1>6 DEF first
  <2>3. /\ Reassembled[n - 1] \in States(heard) /\ Reassembled[n - 1].last \in Handles
        /\ SentBytes(Reassembled[n - 1].packet, next)
    BY <1>5, <1>8, <2>1
  <2>4. PICK st \in States(heard), p \in 1..(next - 1) :
           st = Reassembled[n - 1] /\ p = first + n - 1
    BY <2>2, <2>3
  <2>5. /\ Reassemble(st, p).last \in Handles
        /\ SentBytes(Reassemble(st, p).packet, next)
    BY <1>2, <2>3, <2>4, ReassembleSent
  <2>6. Reassembled[n] = Reassemble(st, p)
    BY <1>5, <2>1, <2>4
  <2>7. QED
    BY <2>1, <2>5, <2>6
<1>9. m \in S
  <2>1. \A n \in 1..m : n - 1 \in S => n \in S
    BY <1>8
  <2>2. m \in Nat /\ m \in 0..m
    BY <1>3, <1>6
  <2> HIDE DEF S
  <2>3. QED
    BY <1>7, <2>1, <2>2, UpTo
<1>10. QED
  BY <1>1, <1>9

LEMMA TypesNext ==
  ASSUME OutInv, InInv, TypesInv, [FramingNext]_framingVars
  PROVE  TypesInv'
<1>1. /\ next \in Nat /\ next >= 1 /\ packet \in Seq(Nat) /\ Len(source) \in Nat
      /\ source \in Seq(1..Len(Air)) /\ SourceDepth \in Nat \ {0} /\ MaxStreams \in Nat
      /\ flushes \in Nat
  BY FramingAssumption DEF OutInv, PiecesInv, PacketInv, InInv, Rising, TypesInv
<1>2. SentBytes(<< >>, next')
  BY DEF SentBytes
<1>3. Len(<< >>) <= SourceDepth /\ NoLink \in Handles
  BY <1>1 DEF Handles
<1>4. ASSUME NEW n \in Cuts, Push(n) PROVE TypesInv'
  <2>1. /\ dir' = dir /\ flushes' = flushes /\ last' = last /\ source' = source
        /\ next' = next + n /\ packet' \in {<< >>, packet}
    BY <1>4 DEF Push, Enqueue, inVars
  <2>2. n \in Nat
    BY FramingAssumption
  <2>3. SentBytes(packet, next')
    <3> SUFFICES ASSUME NEW i \in 1..Len(packet) PROVE packet[i] \in 1..(next' - 1)
      BY DEF SentBytes
    <3>1. packet[i] \in 1..(next - 1)
      BY DEF TypesInv, SentBytes
    <3>2. QED
      BY <1>1, <2>1, <2>2, <3>1
  <2>4. SentBytes(packet', next')
    BY <1>2, <2>1, <2>3
  <2>5. QED
    BY <2>1, <2>4 DEF TypesInv
<1>5. CASE Release
  <2>1. dir' = dir /\ flushes' = flushes /\ source' = source
    BY <1>5 DEF Release, inVars
  <2>2. last' \in Handles /\ SentBytes(packet', next')
    BY <1>5, ReleaseKeepsTypes
  <2>3. QED
    BY <2>1, <2>2 DEF TypesInv
<1>6. ASSUME UNCHANGED <<dir, flushes, outVars>>, Len(source') <= SourceDepth PROVE TypesInv'
  BY <1>6 DEF TypesInv, outVars
<1>7. CASE Arrive
  <2> DEFINE s == IF Len(source) = SourceDepth THEN Tail(source) ELSE source
  <2>1. s \in Seq(1..Len(Air)) /\ Len(s) + 1 <= SourceDepth /\ Len(s) \in Nat
    <3>1. CASE Len(source) = SourceDepth
      <4>1. source # << >>
        BY <1>1, <3>1
      <4>2. Tail(source) \in Seq(1..Len(Air)) /\ Len(Tail(source)) = Len(source) - 1
        BY <1>1, <4>1, TailIs
      <4>3. QED
        BY <1>1, <3>1, <4>2
    <3>2. CASE Len(source) # SourceDepth
      BY <1>1, <3>2 DEF TypesInv
    <3>3. QED
      BY <3>1, <3>2
  <2>2. source' = Append(s, arrived + 1)
    BY <1>7 DEF Arrive
  <2>3. arrived + 1 \in 1..Len(Air)
    BY <1>7, AirIs DEF Arrive, InInv
  <2> HIDE DEF s
  <2>4. Len(source') = Len(s) + 1
    BY <2>1, <2>2, <2>3, AppendIs
  <2>5. Len(source') <= SourceDepth
    BY <2>1, <2>4
  <2>6. QED
    BY <1>6, <1>7, <2>5 DEF Arrive
<1>8. ASSUME NEW c \in Capacities, Fill(c) PROVE TypesInv'
  <2>1. setting \in Nat /\ Payload(setting) \in Nat
    BY PayloadIs DEF InInv
  <2>2. Pulls(Payload(setting)) \in 0..Len(source)
    <3>1. arrived \in Nat
      BY AirIs DEF InInv
    <3>2. QED
      BY <2>1, <3>1, PullsKeep DEF InInv
  <2>3. PICK p \in 0..Len(source) : source' = SubSeq(source, p + 1, Len(source))
    <3>1. 0 \in 0..Len(source)
      BY <1>1
    <3>2. source' = SubSeq(source, (IF frame = << >> THEN Pulls(Payload(setting)) ELSE 0) + 1,
                           Len(source))
      BY <1>8 DEF Fill
    <3>3. QED
      BY <2>2, <3>1, <3>2
  <2>4. Len(source') = Len(source) - p
    BY <1>1, <2>3, CutIs
  <2>5. Len(source') <= SourceDepth
    BY <1>1, <2>4 DEF TypesInv
  <2>6. QED
    BY <1>6, <1>8, <2>5 DEF Fill
<1>9. CASE UsbReset \/ \E size \in Settings : SelectSetting(size)
  <2>1. /\ dir' = dir /\ flushes < MaxStreams /\ flushes' = flushes + 1 /\ last' = NoLink
        /\ packet' = << >> /\ source' \in {<< >>, source}
    BY <1>9 DEF UsbReset, SelectSetting, Flush
  <2>2. flushes' \in 0..MaxStreams
    BY <1>1, <2>1
  <2>3. Len(source') <= SourceDepth
    BY <1>3, <2>1 DEF TypesInv
  <2>4. QED
    BY <1>2, <1>3, <2>1, <2>2, <2>3 DEF TypesInv
<1>10. CASE UNCHANGED framingVars
  BY <1>10 DEF TypesInv, framingVars, outVars, inVars
<1>11. QED
  BY <1>4, <1>5, <1>7, <1>8, <1>9, <1>10 DEF FramingNext, FillIn

\* The framers' state has its types in every reachable state, the bounds of
\* the OUT ring and of the bridge's FIFO among them.
THEOREM FramingTypes == FramingSpec => []FramingTypeOK
<1>1. FramingInit => TypesInv
  <2> SUFFICES ASSUME FramingInit PROVE TypesInv
    OBVIOUS
  <2>1. /\ dir \in {"out", "in"} /\ flushes = 0 /\ last = NoLink /\ packet = << >>
        /\ source = << >>
    BY DEF FramingInit
  <2>2. MaxStreams \in Nat /\ SourceDepth \in Nat
    BY FramingAssumption
  <2>3. QED
    BY <2>1, <2>2 DEF TypesInv, Handles, SentBytes
<1>2. OutInv /\ InInv /\ TypesInv /\ [FramingNext]_framingVars => TypesInv'
  BY TypesNext
<1>3. OutInv /\ InInv /\ TypesInv => FramingTypeOK
  <2> SUFFICES ASSUME OutInv, InInv, TypesInv PROVE FramingTypeOK
    OBVIOUS
  <2>1. next \in 1..Start[Len(Sent) + 1]
    BY SentIs, StartsRise DEF OutInv, PiecesInv
  <2>2. arrived \in 0..Len(Air) /\ field \in 0..arrived
    <3>1. Len(Air) \in Nat /\ field \in Nat /\ arrived \in 0..Len(Air) /\ field <= arrived
      BY AirIs DEF InInv, Queued
    <3>2. QED
      BY <3>1
  <2>3. QED
    BY <2>1, <2>2
       DEF FramingTypeOK, TypesInv, Handles, OutInv, PiecesInv, PacketInv, InInv
<1>4. QED
  BY <1>1, <1>2, <1>3, OutInductive, InInductive, PTL DEF FramingSpec
=============================================================================
