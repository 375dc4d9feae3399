------------------------ MODULE EndpointDrainProofs -------------------------
(***************************************************************************)
(* Theorems about EndpointDrain, for every set of readers, every depth of  *)
(* the FIFO and every number of packets and resets.                        *)
(***************************************************************************)
EXTENDS EndpointDrain, TLAPS

\* A drain works on nothing else than these steps, one after the other.
DrainPoints ==
  pc \in [Drainer -> {"idle", "check", "take", "pop", "complete"}]

IInv == DrainPoints /\ NoLostWakeup

(***************************************************************************)
(* A thread that feeds an empty FIFO queues at least one packet, and so    *)
(* goes on to drain; otherwise the wakeup is not its concern.              *)
(***************************************************************************)
LEMMA ReadStep ==
  ASSUME IInv, NEW w \in Drainer, NEW n \in Nat \ {0}, Arrives(w, n)
  PROVE  IInv'
<1> USE DrainAssumption
<1>1. DrainPoints'
  BY DEF IInv, DrainPoints, Arrives, Feed, Moves
<1>2. CASE pc'[w] = "check"
  <2>1. NoLostWakeup'
    BY <1>2 DEF NoLostWakeup
  <2>2. QED
    BY <1>1, <2>1 DEF IInv
<1>3. CASE pc'[w] # "check"
  <2>1. pc' = pc
    BY <1>3 DEF IInv, DrainPoints, Arrives, Feed, Moves
  <2>2. parked' = parked
    BY DEF Arrives
  <2>3. fifo # << >>
    <3> SUFFICES ASSUME fifo = << >> PROVE FALSE
      OBVIOUS
    <3>1. Len(fifo) = 0 /\ n \in Nat \ {0}
      OBVIOUS
    <3>2. Moves(w, "idle", "check")
      BY <3>1 DEF Arrives, Feed
    <3>3. QED
      BY <1>3, <3>2 DEF Moves, IInv, DrainPoints
  <2>4. QED
    BY <1>1, <2>1, <2>2, <2>3 DEF IInv, NoLostWakeup
<1>4. QED
  BY <1>2, <1>3

(***************************************************************************)
(* The host's submissions and cancellations, the control endpoint and the  *)
(* USB reset.                                                              *)
(***************************************************************************)
LEMMA HostStep ==
  ASSUME IInv,
         \/ \E r \in Reader : PostReader(r) \/ PostFails(r)
         \/ \E c \in Control : UartCommand(c)
         \/ HostCancels \/ UsbReset
  PROVE  IInv'
<1> USE DEF IInv, DrainPoints, NoLostWakeup
<1>1. ASSUME NEW r \in Reader, PostReader(r) PROVE IInv'
  <2>1. r \in Drainer
    BY DEF Drainer
  <2>2. DrainPoints' /\ pc'[r] = "check"
    BY <1>1, <2>1 DEF PostReader, Moves
  <2>3. QED
    BY <2>1, <2>2
<1>2. ASSUME NEW r \in Reader, PostFails(r) PROVE IInv'
  BY <1>2 DEF PostFails
<1>3. CASE HostCancels
  <2>1. pc' = pc /\ fifo' = fifo /\ parked # << >>
    BY <1>3 DEF HostCancels
  <2>2. QED
    BY <2>1
<1>4. ASSUME NEW c \in Control, UartCommand(c) PROVE IInv'
  <2>1. c \in Drainer
    BY DEF Drainer
  <2>2. DrainPoints' /\ pc'[c] = "check"
    BY <1>4, <2>1 DEF UartCommand, Moves
  <2>3. QED
    BY <2>1, <2>2
<1>5. CASE UsbReset
  BY <1>5 DEF UsbReset
<1>6. QED
  BY <1>1, <1>2, <1>3, <1>4, <1>5

(***************************************************************************)
(* DeckBtDrainStream: a drain goes idle only beside an empty queue.        *)
(***************************************************************************)
LEMMA DrainStep ==
  ASSUME IInv, NEW d \in Drainer, Drain(d)
  PROVE  IInv'
<1> USE DEF IInv, DrainPoints, NoLostWakeup, Moves
<1>1. CASE Check(d)
  <2>1. CASE fifo = << >>
    BY <1>1, <2>1 DEF Check
  <2>2. CASE fifo # << >>
    BY <1>1, <2>2 DEF Check
  <2>3. QED
    BY <2>1, <2>2
<1>2. CASE NothingParked(d)
  BY <1>2 DEF NothingParked
<1>3. CASE Take(d)
  BY <1>3 DEF Take
<1>4. CASE NoBuffer(d)
  BY <1>4 DEF NoBuffer
<1>5. CASE Pop(d)
  BY <1>5 DEF Pop
<1>6. CASE Complete(d)
  BY <1>6 DEF Complete
<1>7. QED
  BY <1>1, <1>2, <1>3, <1>4, <1>5, <1>6 DEF Drain

(***************************************************************************)
(* A parked reader and a queued packet are never left beside each other    *)
(* with no thread to pair them, whatever callbacks, read completions,      *)
(* cancellations and resets interleave (DeckBtDrainStream and its callers).*)
(***************************************************************************)
THEOREM NoWakeupIsLost == Spec => []NoLostWakeup
<1>1. Init => IInv
  BY DEF Init, IInv, DrainPoints, NoLostWakeup
<1>2. IInv /\ [Next]_vars => IInv'
  <2> SUFFICES ASSUME IInv, [Next]_vars PROVE IInv'
    OBVIOUS
  <2>0. ASSUME NEW n \in 1..MaxPackets, ReadCompletes(n) PROVE IInv'
    <3>1. "wire" \in Drainer /\ n \in Nat \ {0} /\ Arrives("wire", n)
      BY <2>0, DrainAssumption DEF ReadCompletes, Drainer
    <3>2. QED
      BY <3>1, ReadStep
  <2>1. ASSUME NEW c \in Control, StubCommand(c) PROVE IInv'
    <3>1. c \in Drainer /\ 1 \in Nat \ {0} /\ Arrives(c, 1)
      BY <2>1 DEF StubCommand, Drainer
    <3>2. QED
      BY <3>1, ReadStep
  <2>2. ASSUME NEW d \in Drainer, Drain(d) PROVE IInv'
    BY <2>2, DrainStep
  <2>3. CASE UNCHANGED vars
    BY <2>3 DEF vars, IInv, DrainPoints, NoLostWakeup
  <2>4. QED
    BY <2>0, <2>1, <2>2, <2>3, HostStep DEF Next
<1>3. IInv => NoLostWakeup
  BY DEF IInv
<1>4. QED
  BY <1>1, <1>2, <1>3, PTL DEF Spec

-----------------------------------------------------------------------------
(***************************************************************************)
(* EndpointDrain keeps the promise of PacketPipe.  What makes it so is     *)
(* that a transfer is in one place: not yet submitted, parked once, in the *)
(* hands of one drain, or answered; and that a drain has a packet only     *)
(* while it has the transfer that gets it.                                 *)
(***************************************************************************)
Holding(d) == pc[d] \in {"pop", "complete"}

HandsFit ==
  \A d \in Drainer :
    /\ hand[d] # NoReader <=> Holding(d)
    /\ got[d] # 0 => pc[d] = "complete"

OneHand ==
  \A d, e \in Drainer : hand[d] = hand[e] /\ hand[d] # NoReader => d = e

ParkedOnce ==
  /\ \A i, j \in DOMAIN parked : parked[i] = parked[j] => i = j
  /\ \A i \in DOMAIN parked, d \in Drainer : parked[i] # hand[d]

SubmittedFirst ==
  /\ \A i \in DOMAIN parked : parked[i] \in posted
  /\ \A d \in Drainer : hand[d] # NoReader => hand[d] \in posted

Unanswered ==
  /\ \A i \in DOMAIN parked : answer[parked[i]].packet = 0
  /\ \A d \in Drainer : hand[d] # NoReader => answer[hand[d]].packet = 0
  /\ \A r \in Reader \ posted : answer[r].packet = 0

PInv == TypeOK /\ HandsFit /\ OneHand /\ ParkedOnce /\ SubmittedFirst /\ Unanswered

-----------------------------------------------------------------------------
LEMMA PInvInit == Init => PInv
<1> SUFFICES ASSUME Init PROVE PInv
  OBVIOUS
<1> USE DrainAssumption DEF Init
<1>1. \A r \in Reader : answer[r] = [how |-> "pending", packet |-> 0]
  BY DEF Pending, Ended
<1>2. TypeOK
  <2>1. << >> \in Seq(Nat \ {0}) /\ << >> \in Seq(Reader) /\ Len(<< >>) = 0
    OBVIOUS
  <2>2. answer \in [Reader -> Answer]
    BY DEF Pending, Ended, Answer
  <2>3. QED
    BY <2>1, <2>2 DEF TypeOK
<1>3. HandsFit /\ OneHand
  BY DEF HandsFit, OneHand, Holding
<1>4. ParkedOnce /\ SubmittedFirst
  BY DEF ParkedOnce, SubmittedFirst
<1>5. Unanswered
  BY <1>1 DEF Unanswered
<1>6. QED
  BY <1>2, <1>3, <1>4, <1>5 DEF PInv

\* A thread that holds no transfer goes to another point where it holds none.
LEMMA PacesOnly ==
  ASSUME PInv, NEW d \in Drainer, pc[d] \in {"idle", "check", "take"},
         NEW v \in {"idle", "check", "take"}, pc' = [pc EXCEPT ![d] = v],
         UNCHANGED <<fifo, parked, hand, got, posted, answer, arrived>>
  PROVE  PInv'
<1>1. TypeOK' /\ HandsFit'
  BY DEF PInv, TypeOK, HandsFit, Holding
<1>2. QED
  BY <1>1 DEF PInv, OneHand, ParkedOnce, SubmittedFirst, Unanswered

\* Packets arrive: only the FIFO and the pace of the thread change.
LEMMA PInvArrives ==
  ASSUME PInv, NEW w \in Drainer, NEW n \in Nat \ {0}, Arrives(w, n)
  PROVE  PInv'
<1> USE DrainAssumption
<1>1. PICK k \in 0..n :
        /\ Len(fifo) + k <= Depth
        /\ fifo' = fifo \o [i \in 1..k |-> arrived + i]
  <2>1. Len(fifo) \in Nat /\ Len(fifo) <= Depth
    BY DEF PInv, TypeOK
  <2>2. CASE n <= Depth - Len(fifo)
    <3>1. fifo' = fifo \o [i \in 1..n |-> arrived + i]
      BY <2>2 DEF Arrives, Feed
    <3>2. n \in 0..n /\ Len(fifo) + n <= Depth
      BY <2>1, <2>2
    <3>3. QED
      BY <3>1, <3>2
  <2>3. CASE ~(n <= Depth - Len(fifo))
    <3>1. fifo' = fifo \o [i \in 1..(Depth - Len(fifo)) |-> arrived + i]
      BY <2>3 DEF Arrives, Feed
    <3>2. (Depth - Len(fifo)) \in 0..n /\ Len(fifo) + (Depth - Len(fifo)) <= Depth
      BY <2>1, <2>3
    <3>3. QED
      BY <3>1, <3>2
  <2>4. QED
    BY <2>2, <2>3
<1>2. fifo' \in Seq(Nat \ {0}) /\ Len(fifo') <= Depth
  <2>1. [i \in 1..k |-> arrived + i] \in Seq(Nat \ {0})
    BY DEF PInv, TypeOK
  <2>2. Len([i \in 1..k |-> arrived + i]) = k
    OBVIOUS
  <2>3. QED
    BY <1>1, <2>1, <2>2 DEF PInv, TypeOK
<1>3. /\ UNCHANGED <<parked, hand, got, posted, answer>> /\ arrived' \in Nat
      /\ pc' = pc \/ (pc[w] = "idle" /\ pc' = [pc EXCEPT ![w] = "check"])
  BY DEF PInv, TypeOK, Arrives, Feed, Moves
<1>4. TypeOK'
  BY <1>2, <1>3 DEF PInv, TypeOK
<1>5. HandsFit'
  BY <1>3 DEF PInv, TypeOK, HandsFit, Holding
<1>6. QED
  BY <1>3, <1>4, <1>5
     DEF PInv, OneHand, ParkedOnce, SubmittedFirst, Unanswered

\* A transfer is parked for the first time, or fails before it is.
LEMMA PInvPosts ==
  ASSUME PInv, NEW r \in Reader, PostReader(r) \/ PostFails(r)
  PROVE  PInv'
<1> USE DEF PInv
<1>1. r \notin posted /\ posted' = posted \cup {r} /\ hand' = hand /\ got' = got
  BY DEF PostReader, PostFails
<1>2. answer[r].packet = 0 /\ \A d \in Drainer : hand[d] # r
  <2>1. r # NoReader
    BY DrainAssumption
  <2>2. QED
    BY <1>1, <2>1 DEF Unanswered, SubmittedFirst
<1>3. CASE PostReader(r)
  <2>1. parked' = Append(parked, r) /\ answer' = answer
    BY <1>3 DEF PostReader
  <2>2. \A i \in DOMAIN parked : parked[i] # r
    BY <1>1 DEF SubmittedFirst
  <2>3. /\ parked' \in Seq(Reader) /\ DOMAIN parked' = DOMAIN parked \cup {Len(parked) + 1}
        /\ parked'[Len(parked) + 1] = r
        /\ \A i \in DOMAIN parked : parked'[i] = parked[i]
    BY <2>1 DEF TypeOK
  <2>4. r \in Drainer
    BY DEF Drainer
  <2>5. TypeOK'
    BY <1>3, <2>3, <2>4 DEF TypeOK, PostReader, Moves
  <2>6. HandsFit'
    BY <1>3, <2>4 DEF TypeOK, HandsFit, Holding, PostReader, Moves
  <2>7. ParkedOnce'
    BY <1>1, <1>2, <2>2, <2>3 DEF ParkedOnce
  <2>8. OneHand' /\ SubmittedFirst'
    BY <1>1, <2>3 DEF OneHand, SubmittedFirst
  <2>9. Unanswered'
    BY <1>1, <1>2, <2>1, <2>3 DEF Unanswered
  <2>10. QED
    BY <2>5, <2>6, <2>7, <2>8, <2>9
<1>4. CASE PostFails(r)
  <2>1. /\ parked' = parked /\ pc' = pc /\ fifo' = fifo /\ arrived' = arrived
        /\ answer' = [answer EXCEPT ![r] = [how |-> "failed", packet |-> 0]]
    BY <1>4 DEF PostFails, Ended
  <2>2. answer' \in [Reader -> Answer]
    BY <2>1 DEF TypeOK, Answer
  <2>3. \A q \in Reader : answer'[q].packet = answer[q].packet
    BY <1>2, <2>1 DEF TypeOK
  <2>4. TypeOK' /\ HandsFit' /\ OneHand' /\ ParkedOnce' /\ SubmittedFirst'
    BY <1>1, <2>1, <2>2
       DEF TypeOK, HandsFit, Holding, OneHand, ParkedOnce, SubmittedFirst
  <2>5. Unanswered'
    BY <1>1, <2>1, <2>3 DEF Unanswered, TypeOK
  <2>6. QED
    BY <2>4, <2>5
<1>5. QED
  BY <1>3, <1>4

\* The host cancels a parked transfer, and the reset empties the FIFO.
LEMMA PInvHost ==
  ASSUME PInv, HostCancels \/ UsbReset
  PROVE  PInv'
<1> USE DEF PInv
<1>1. CASE UsbReset
  <2>1. << >> \in Seq(Nat \ {0}) /\ Len(<< >>) = 0
    OBVIOUS
  <2>2. TypeOK'
    BY <1>1, <2>1, DrainAssumption DEF UsbReset, TypeOK
  <2>3. QED
    BY <1>1, <2>2 DEF UsbReset, HandsFit, Holding, OneHand, ParkedOnce,
                      SubmittedFirst, Unanswered
<1>2. CASE HostCancels
  <2>1. PICK i \in DOMAIN parked :
          /\ parked' = RemoveAt(parked, i)
          /\ answer' = [answer EXCEPT ![parked[i]] = [how |-> "cancelled", packet |-> 0]]
          /\ UNCHANGED <<fifo, pc, hand, got, posted, arrived>>
    BY <1>2 DEF HostCancels, Ended
  <2>2. /\ parked' \in Seq(Reader) /\ DOMAIN parked' = 1..(Len(parked) - 1)
        /\ \A j \in DOMAIN parked' :
             parked'[j] = parked[IF j < i THEN j ELSE j + 1]
    <3>1. Len(parked) \in Nat /\ i \in 1..Len(parked)
      BY <2>1 DEF TypeOK
    <3>2. SubSeq(parked, 1, i - 1) \in Seq(Reader)
          /\ Len(SubSeq(parked, 1, i - 1)) = i - 1
          /\ \A j \in 1..(i - 1) : SubSeq(parked, 1, i - 1)[j] = parked[j]
      BY <3>1 DEF TypeOK
    <3>3. SubSeq(parked, i + 1, Len(parked)) \in Seq(Reader)
          /\ Len(SubSeq(parked, i + 1, Len(parked))) = Len(parked) - i
          /\ \A j \in 1..(Len(parked) - i) :
               SubSeq(parked, i + 1, Len(parked))[j] = parked[i + j]
      BY <3>1 DEF TypeOK
    <3>4. parked' = SubSeq(parked, 1, i - 1) \o SubSeq(parked, i + 1, Len(parked))
      BY <2>1 DEF RemoveAt
    <3>5. DEFINE a == SubSeq(parked, 1, i - 1)
                 b == SubSeq(parked, i + 1, Len(parked))
    <3>6. /\ a \in Seq(Reader) /\ b \in Seq(Reader) /\ parked' = a \o b
          /\ Len(a) = i - 1 /\ Len(b) = Len(parked) - i
      BY <3>2, <3>3, <3>4
    <3>7. \A j \in 1..Len(a) : a[j] = parked[j]
      BY <3>2, <3>6
    <3>8. \A j \in 1..Len(b) : b[j] = parked[i + j]
      BY <3>3, <3>6
    <3> HIDE DEF a, b
    <3>9. parked' \in Seq(Reader) /\ DOMAIN parked' = 1..(Len(parked) - 1)
      BY <3>1, <3>6
    <3>10. ASSUME NEW j \in DOMAIN parked'
           PROVE  parked'[j] = parked[IF j < i THEN j ELSE j + 1]
      <4>1. CASE j < i
        BY <3>1, <3>6, <3>7, <3>9, <4>1
      <4>2. CASE ~(j < i)
        <5>1. (j - Len(a)) \in 1..Len(b) /\ i + (j - Len(a)) = j + 1
          BY <3>1, <3>6, <3>9, <4>2
        <5>2. parked'[j] = b[j - Len(a)]
          <6>1. j \in 1..(Len(a) + Len(b)) /\ ~(j <= Len(a))
            BY <3>1, <3>6, <3>9, <4>2
          <6>2. (a \o b)[j] = b[j - Len(a)]
            BY <3>6, <6>1
          <6>3. QED
            BY <3>6, <6>2
        <5>3. QED
          BY <3>8, <4>2, <5>1, <5>2
      <4>3. QED
        BY <4>1, <4>2
    <3>11. QED
      BY <3>9, <3>10
  <2>3. \A j \in DOMAIN parked' : (IF j < i THEN j ELSE j + 1) \in DOMAIN parked
    BY <2>1, <2>2 DEF TypeOK
  <2>4. parked[i] \in Reader /\ answer[parked[i]].packet = 0
    BY <2>1 DEF TypeOK, Unanswered
  <2>5. \A r \in Reader : answer'[r].packet = answer[r].packet
    BY <2>1, <2>4 DEF TypeOK
  <2>6. TypeOK' /\ HandsFit' /\ OneHand'
    <3>1. answer' \in [Reader -> Answer]
      BY <2>1, <2>4 DEF TypeOK, Answer
    <3>2. QED
      BY <2>1, <2>2, <3>1 DEF TypeOK, HandsFit, Holding, OneHand
  <2>7. ParkedOnce'
    <3> SUFFICES ASSUME NEW j \in DOMAIN parked', NEW k \in DOMAIN parked',
                        parked'[j] = parked'[k]
                 PROVE  j = k
      BY <2>1, <2>2, <2>3 DEF ParkedOnce
    <3>1. (IF j < i THEN j ELSE j + 1) = (IF k < i THEN k ELSE k + 1)
      BY <2>2, <2>3 DEF ParkedOnce
    <3>2. j \in Int /\ k \in Int /\ i \in Int
      BY <2>1, <2>2 DEF TypeOK
    <3>3. QED
      BY <3>1, <3>2
  <2>8. SubmittedFirst'
    BY <2>1, <2>2, <2>3 DEF SubmittedFirst
  <2>9. Unanswered'
    <3>1. \A j \in DOMAIN parked' : parked'[j] \in Reader /\ answer[parked'[j]].packet = 0
      BY <2>2, <2>3 DEF Unanswered, TypeOK
    <3>2. \A d \in Drainer : hand[d] # NoReader => hand[d] \in Reader
      BY DEF TypeOK
    <3>3. QED
      BY <2>1, <2>5, <3>1, <3>2 DEF Unanswered
  <2>10. QED
    BY <2>6, <2>7, <2>8, <2>9
<1>3. QED
  BY <1>1, <1>2

\* DeckBtDrainStream hands a transfer on from the queue to its answer.
LEMMA PInvDrain ==
  ASSUME PInv, NEW d \in Drainer, Drain(d)
  PROVE  PInv'
<1> USE DEF PInv
<1>1. CASE Check(d) \/ NothingParked(d)
  <2>1. /\ pc[d] \in {"check", "take"}
        /\ pc' = [pc EXCEPT ![d] = "idle"] \/ pc' = [pc EXCEPT ![d] = "take"]
        /\ UNCHANGED <<fifo, parked, hand, got, posted, answer, arrived>>
    BY <1>1 DEF Check, NothingParked, Moves
  <2>2. QED
    BY <2>1, PacesOnly
<1>2. CASE Take(d)
  <2>1. /\ parked # << >> /\ parked' = Tail(parked) /\ pc[d] = "take"
        /\ pc' = [pc EXCEPT ![d] = "pop"] /\ hand' = [hand EXCEPT ![d] = Head(parked)]
        /\ UNCHANGED <<fifo, got, posted, answer, arrived>>
    BY <1>2 DEF Take, Moves
  <2>2. /\ 1 \in DOMAIN parked /\ Head(parked) = parked[1] /\ parked[1] \in Reader
        /\ parked' \in Seq(Reader) /\ DOMAIN parked' = 1..(Len(parked) - 1)
        /\ \A i \in DOMAIN parked' : parked'[i] = parked[i + 1] /\ i + 1 \in DOMAIN parked
                                   /\ i + 1 # 1
    BY <2>1 DEF TypeOK
  <2>3. hand[d] = NoReader /\ parked[1] # NoReader
    BY <2>1, <2>2, DrainAssumption DEF HandsFit, Holding
  <2>4. TypeOK'
    BY <2>1, <2>2 DEF TypeOK
  <2>5. HandsFit'
    BY <2>1, <2>2, <2>3 DEF TypeOK, HandsFit, Holding
  <2>6. OneHand'
    BY <2>1, <2>2, <2>3 DEF TypeOK, OneHand, ParkedOnce
  <2>7. ParkedOnce'
    BY <2>1, <2>2 DEF TypeOK, ParkedOnce
  <2>8. SubmittedFirst'
    BY <2>1, <2>2 DEF TypeOK, SubmittedFirst
  <2>9. Unanswered'
    BY <2>1, <2>2 DEF TypeOK, Unanswered
  <2>10. QED
    BY <2>4, <2>5, <2>6, <2>7, <2>8, <2>9
<1>3. CASE Pop(d)
  <2>1. /\ pc[d] = "pop" /\ pc' = [pc EXCEPT ![d] = "complete"]
        /\ got' = [got EXCEPT ![d] = IF Popped(d) THEN Head(fifo) ELSE 0]
        /\ fifo' = IF Popped(d) THEN Tail(fifo) ELSE fifo
        /\ UNCHANGED <<parked, hand, posted, answer, arrived>>
    BY <1>3 DEF Pop, Moves
  <2>2. /\ fifo' \in Seq(Nat \ {0}) /\ Len(fifo') <= Depth
        /\ Popped(d) => Head(fifo) \in Nat
    BY <2>1, DrainAssumption DEF TypeOK, Popped
  <2>3. TypeOK' /\ HandsFit'
    BY <2>1, <2>2 DEF TypeOK, HandsFit, Holding
  <2>4. QED
    BY <2>1, <2>3 DEF OneHand, ParkedOnce, SubmittedFirst, Unanswered
<1>4. CASE NoBuffer(d) \/ Complete(d)
  <2>1. /\ pc[d] \in {"pop", "complete"} /\ pc' = [pc EXCEPT ![d] = "check"]
        /\ hand' = [hand EXCEPT ![d] = NoReader]
        /\ got' = [got EXCEPT ![d] = 0] \/ (got' = got /\ pc[d] = "pop")
        /\ UNCHANGED <<fifo, parked, posted, arrived>>
    BY <1>4 DEF NoBuffer, Complete, Moves
  <2>2. PICK v \in Answer : answer' = [answer EXCEPT ![hand[d]] = v]
    BY <1>4 DEF NoBuffer, Complete, Ended, Answer, TypeOK
  <2>3. hand[d] \in Reader /\ hand[d] # NoReader /\ hand[d] \in posted
    BY <2>1 DEF TypeOK, HandsFit, Holding, SubmittedFirst
  <2>4. got'[d] = 0
    BY <2>1 DEF TypeOK, HandsFit
  <2>5. TypeOK' /\ HandsFit'
    BY <2>1, <2>2, <2>3, <2>4 DEF TypeOK, HandsFit, Holding
  <2>6. OneHand' /\ ParkedOnce' /\ SubmittedFirst'
    <3>1. OneHand'
      BY <2>1 DEF TypeOK, OneHand
    <3>2. \A i \in DOMAIN parked : parked[i] # NoReader
      BY DrainAssumption DEF TypeOK
    <3>3. QED
      BY <2>1, <3>1, <3>2 DEF TypeOK, ParkedOnce, SubmittedFirst
  <2>7. \A r \in Reader : r # hand[d] => answer'[r] = answer[r]
    BY <2>2, <2>3 DEF TypeOK
  <2>8. Unanswered'
    <3>1. \A i \in DOMAIN parked : parked[i] \in Reader /\ parked[i] # hand[d]
      BY DEF TypeOK, ParkedOnce
    <3>2. \A e \in Drainer : hand'[e] # NoReader => hand'[e] = hand[e] /\ hand[e] # hand[d]
      BY <2>1, <2>3 DEF TypeOK, OneHand
    <3>3. \A e \in Drainer : hand[e] # NoReader => hand[e] \in Reader
      BY DEF TypeOK
    <3>4. QED
      BY <2>1, <2>3, <2>7, <3>1, <3>2, <3>3 DEF Unanswered
  <2>9. QED
    BY <2>5, <2>6, <2>8
<1>5. QED
  BY <1>1, <1>2, <1>3, <1>4 DEF Drain

\* The commands of the control endpoint either feed the FIFO or only drain.
LEMMA PInvNext == PInv /\ [Next]_vars => PInv'
<1> SUFFICES ASSUME PInv, [Next]_vars PROVE PInv'
  OBVIOUS
<1>1. ASSUME NEW n \in 1..MaxPackets, ReadCompletes(n) PROVE PInv'
  <2>1. "wire" \in Drainer /\ n \in Nat \ {0} /\ Arrives("wire", n)
    BY <1>1, DrainAssumption DEF ReadCompletes, Drainer
  <2>2. QED
    BY <2>1, PInvArrives
<1>2. ASSUME NEW c \in Control, StubCommand(c) PROVE PInv'
  <2>1. c \in Drainer /\ 1 \in Nat \ {0} /\ Arrives(c, 1)
    BY <1>2 DEF StubCommand, Drainer
  <2>2. QED
    BY <2>1, PInvArrives
<1>3. ASSUME NEW c \in Control, UartCommand(c) PROVE PInv'
  <2>1. /\ c \in Drainer /\ pc[c] = "idle" /\ pc' = [pc EXCEPT ![c] = "check"]
        /\ UNCHANGED <<fifo, parked, hand, got, posted, answer, arrived>>
    BY <1>3 DEF UartCommand, Moves, Drainer
  <2>2. QED
    BY <2>1, PacesOnly
<1>4. ASSUME NEW r \in Reader, PostReader(r) \/ PostFails(r) PROVE PInv'
  BY <1>4, PInvPosts
<1>5. CASE HostCancels \/ UsbReset
  BY <1>5, PInvHost
<1>6. ASSUME NEW d \in Drainer, Drain(d) PROVE PInv'
  BY <1>6, PInvDrain
<1>7. CASE UNCHANGED vars
  BY <1>7 DEF vars, PInv, TypeOK, HandsFit, Holding, OneHand, ParkedOnce,
              SubmittedFirst, Unanswered
<1>8. QED
  BY <1>1, <1>2, <1>3, <1>4, <1>5, <1>6, <1>7 DEF Next

-----------------------------------------------------------------------------
(***************************************************************************)
(* The packet of a transfer is what its one drain has for it, or else its  *)
(* answer.                                                                 *)
(***************************************************************************)
GivenFits ==
  \A r \in Reader :
    /\ \A d \in Drainer : hand[d] = r /\ got[d] # 0 => Given[r] = got[d]
    /\ (\A d \in Drainer : hand[d] = r => got[d] = 0) => Given[r] = answer[r].packet

LEMMA GivenIs == PInv => GivenFits
<1> SUFFICES ASSUME PInv, NEW r \in Reader
             PROVE  /\ \A d \in Drainer : hand[d] = r /\ got[d] # 0 => Given[r] = got[d]
                    /\ (\A d \in Drainer : hand[d] = r => got[d] = 0)
                         => Given[r] = answer[r].packet
  BY DEF GivenFits
<1>1. Given[r] = IF Bearer(r) = {} THEN answer[r].packet
                 ELSE got[CHOOSE d \in Bearer(r) : TRUE]
  BY DEF Given
<1>2. ASSUME NEW d \in Drainer, hand[d] = r, got[d] # 0 PROVE Given[r] = got[d]
  <2>1. r # NoReader
    BY DrainAssumption
  <2>2. Bearer(r) = {d}
    BY <1>2, <2>1 DEF Bearer, PInv, OneHand
  <2>3. (CHOOSE e \in Bearer(r) : TRUE) = d
    BY <2>2
  <2>4. QED
    BY <1>1, <2>2, <2>3
<1>3. ASSUME \A d \in Drainer : hand[d] = r => got[d] = 0
      PROVE  Given[r] = answer[r].packet
  BY <1>1, <1>3 DEF Bearer
<1>4. QED
  BY <1>2, <1>3

LEMMA GivenIsNext == PInv' => GivenFits'
BY GivenIs, PTL

\* As long as hands, packets in them and answers' packets stay, so does Given.
LEMMA GivenStays ==
  ASSUME PInv, PInv', UNCHANGED <<hand, got>>,
         \A r \in Reader : answer'[r].packet = answer[r].packet
  PROVE  Given' = Given
<1>1. GivenFits /\ GivenFits'
  BY GivenIs, GivenIsNext
<1>2. \A r \in Reader : Given'[r] = Given[r]
  BY <1>1 DEF GivenFits
<1>3. QED
  BY <1>2 DEF Given

-----------------------------------------------------------------------------
LEMMA PipeInit == Init => Pipe!Init
<1> SUFFICES ASSUME Init PROVE Pipe!Init
  OBVIOUS
<1>1. PInv
  BY PInvInit
<1>2. \A r \in Reader : Given[r] = 0
  <2>1. \A d \in Drainer : got[d] = 0
    BY DEF Init
  <2>2. \A r \in Reader : answer[r].packet = 0
    BY DEF Init, Pending, Ended
  <2>3. GivenFits
    BY <1>1, GivenIs
  <2>4. QED
    BY <2>1, <2>2, <2>3 DEF GivenFits
<1>3. Given = [r \in Reader |-> 0]
  BY <1>2 DEF Given
<1>4. QED
  BY <1>3 DEF Init, Pipe!Init

\* What is fed is what the abstract queue takes.
LEMMA ArrivesInPipe ==
  ASSUME PInv, PInv', NEW w \in Drainer, NEW n \in 1..MaxPackets, Arrives(w, n)
  PROVE  Pipe!Next
<1> USE DrainAssumption
<1>1. Given' = Given
  BY GivenStays DEF Arrives
<1>2. Len(fifo) \in Nat /\ Len(fifo) <= Depth /\ n \in Nat
  BY DEF PInv, TypeOK
<1>3. CASE n <= Depth - Len(fifo)
  <2>1. Pipe!Arrive(n, n)
    BY <1>1, <1>2, <1>3 DEF Pipe!Arrive, Arrives, Feed
  <2>2. QED
    BY <1>2, <2>1 DEF Pipe!Next
<1>4. CASE ~(n <= Depth - Len(fifo))
  <2>1. Pipe!Arrive(n, Depth - Len(fifo))
    BY <1>1, <1>2, <1>4 DEF Pipe!Arrive, Arrives, Feed
  <2>2. (Depth - Len(fifo)) \in 0..MaxPackets
    BY <1>2, <1>4
  <2>3. QED
    BY <2>1, <2>2 DEF Pipe!Next
<1>5. QED
  BY <1>3, <1>4

\* A drain that pops delivers; one that answers, or finds nothing, stutters.
LEMMA DrainInPipe ==
  ASSUME PInv, PInv', NEW d \in Drainer, Drain(d)
  PROVE  Pipe!Next \/ UNCHANGED Pipe!vars
<1> USE DEF PInv, Pipe!vars
<1>1. CASE Check(d) \/ NothingParked(d)
  <2>1. UNCHANGED <<fifo, arrived, dropped>> /\ Given' = Given
    BY <1>1, GivenStays DEF Check, NothingParked
  <2>2. QED
    BY <2>1
<1>2. CASE Take(d)
  <2>1. /\ pc[d] = "take" /\ hand' = [hand EXCEPT ![d] = Head(parked)]
        /\ UNCHANGED <<fifo, arrived, dropped, got, answer>>
    BY <1>2 DEF Take, Moves
  <2>2. hand[d] = NoReader /\ got[d] = 0
    BY <2>1 DEF HandsFit, Holding
  <2>3. GivenFits /\ GivenFits'
    BY GivenIs, GivenIsNext
  <2>4. \A r \in Reader : Given'[r] = Given[r]
    <3> SUFFICES ASSUME NEW r \in Reader PROVE Given'[r] = Given[r]
      OBVIOUS
    <3>1. \A e \in Drainer : got[e] # 0 => hand'[e] = hand[e]
      BY <2>1, <2>2 DEF TypeOK
    <3>2. QED
      BY <2>1, <2>3, <3>1 DEF GivenFits
  <2>5. QED
    BY <2>1, <2>4 DEF Given
<1>3. CASE Pop(d)
  <2>1. /\ pc[d] = "pop"
        /\ got' = [got EXCEPT ![d] = IF Popped(d) THEN Head(fifo) ELSE 0]
        /\ fifo' = IF Popped(d) THEN Tail(fifo) ELSE fifo
        /\ UNCHANGED <<hand, answer, arrived, dropped>>
    BY <1>3 DEF Pop, Moves
  <2>2. got[d] = 0 /\ hand[d] \in Reader /\ hand[d] # NoReader
    BY <2>1 DEF TypeOK, HandsFit, Holding
  <2>3. CASE ~Popped(d)
    <3>1. got' = got
      BY <2>1, <2>2, <2>3 DEF TypeOK
    <3>2. Given' = Given
      BY <2>1, <3>1, GivenStays
    <3>3. QED
      BY <2>1, <2>3, <3>2
  <2>4. CASE Popped(d)
    <3>1. fifo # << >> /\ Head(fifo) \in Nat \ {0}
      BY <2>4 DEF Popped, TypeOK
    <3>2. GivenFits /\ GivenFits'
      BY GivenIs, GivenIsNext
    <3>3. \A e \in Drainer : hand[e] = hand[d] => e = d
      BY <2>2 DEF OneHand
    <3>4. Given[hand[d]] = 0
      BY <2>2, <3>2, <3>3 DEF GivenFits, Unanswered
    <3>5. got'[d] = Head(fifo)
      BY <2>1, <2>4 DEF TypeOK
    <3>6. Given'[hand[d]] = Head(fifo)
      BY <2>1, <2>2, <3>1, <3>2, <3>5 DEF GivenFits
    <3>7. ASSUME NEW r \in Reader, r # hand[d] PROVE Given'[r] = Given[r]
      <4>1. \A e \in Drainer : hand[e] = r => got'[e] = got[e]
        BY <2>1, <3>7 DEF TypeOK
      <4>2. QED
        BY <2>1, <3>2, <4>1 DEF GivenFits
    <3>8. Given' = [Given EXCEPT ![hand[d]] = Head(fifo)]
      BY <2>2, <3>6, <3>7 DEF Given
    <3>9. Pipe!Deliver(hand[d])
      BY <2>1, <2>4, <3>1, <3>4, <3>8 DEF Pipe!Deliver
    <3>10. QED
      BY <2>2, <3>9 DEF Pipe!Next
  <2>5. QED
    BY <2>3, <2>4
<1>4. CASE NoBuffer(d) \/ Complete(d)
  <2>1. /\ pc[d] \in {"pop", "complete"} /\ hand' = [hand EXCEPT ![d] = NoReader]
        /\ got' = [got EXCEPT ![d] = 0] \/ (got' = got /\ pc[d] = "pop")
        /\ UNCHANGED <<fifo, arrived, dropped>>
    BY <1>4 DEF NoBuffer, Complete, Moves
  <2>2. hand[d] \in Reader /\ hand[d] # NoReader
    BY <2>1 DEF TypeOK, HandsFit, Holding
  <2>3. /\ answer'[hand[d]].packet = got[d]
        /\ \A r \in Reader : r # hand[d] => answer'[r] = answer[r]
    <3>1. CASE Complete(d)
      BY <2>2, <3>1 DEF Complete, Ended, TypeOK
    <3>2. CASE NoBuffer(d)
      <4>1. got[d] = 0
        BY <3>2 DEF NoBuffer, Moves, HandsFit
      <4>2. QED
        BY <2>2, <3>2, <4>1 DEF NoBuffer, Ended, TypeOK
    <3>3. QED
      BY <1>4, <3>1, <3>2
  <2>4. GivenFits /\ GivenFits'
    BY GivenIs, GivenIsNext
  <2>5. \A e \in Drainer : hand[e] = hand[d] => e = d
    BY <2>2 DEF OneHand
  <2>6. got'[d] = 0 /\ \A e \in Drainer : e # d => got'[e] = got[e] /\ hand'[e] = hand[e]
    BY <2>1 DEF TypeOK, HandsFit
  <2>7. Given'[hand[d]] = Given[hand[d]]
    <3>1. Given'[hand[d]] = got[d]
      BY <2>2, <2>3, <2>4, <2>5, <2>6 DEF GivenFits
    <3>2. Given[hand[d]] = got[d]
      BY <2>2, <2>4, <2>5 DEF GivenFits, Unanswered
    <3>3. QED
      BY <3>1, <3>2
  <2>8. ASSUME NEW r \in Reader, r # hand[d] PROVE Given'[r] = Given[r]
    <3>1. r # NoReader
      BY DrainAssumption
    <3>2. \A e \in Drainer : (hand'[e] = r <=> hand[e] = r) /\ (hand[e] = r => got'[e] = got[e])
      BY <2>1, <2>6, <2>8, <3>1 DEF TypeOK
    <3>3. QED
      BY <2>3, <2>4, <2>8, <3>2 DEF GivenFits
  <2>9. Given' = Given
    BY <2>7, <2>8 DEF Given
  <2>10. QED
    BY <2>1, <2>9
<1>5. QED
  BY <1>1, <1>2, <1>3, <1>4 DEF Drain

\* Submissions and cancellations are not seen; a reset clears the queue.
LEMMA HostInPipe ==
  ASSUME PInv, PInv',
         \/ \E r \in Reader : PostReader(r) \/ PostFails(r)
         \/ \E c \in Control : UartCommand(c)
         \/ HostCancels \/ UsbReset
  PROVE  Pipe!Next \/ UNCHANGED Pipe!vars
<1>1. UNCHANGED <<hand, got>>
  BY DEF PostReader, PostFails, UartCommand, HostCancels, UsbReset
<1>2. \A r \in Reader : answer'[r].packet = answer[r].packet
  <2>1. ASSUME NEW q \in Reader, answer[q].packet = 0,
               NEW how, answer' = [answer EXCEPT ![q] = Ended(how, 0)]
        PROVE  \A r \in Reader : answer'[r].packet = answer[r].packet
    BY <2>1 DEF Ended, PInv, TypeOK
  <2>2. ASSUME NEW q \in Reader, PostFails(q)
        PROVE  \A r \in Reader : answer'[r].packet = answer[r].packet
    BY <2>1, <2>2 DEF PostFails, PInv, Unanswered
  <2>3. ASSUME HostCancels
        PROVE  \A r \in Reader : answer'[r].packet = answer[r].packet
    BY <2>1, <2>3 DEF HostCancels, PInv, Unanswered, TypeOK
  <2>4. QED
    BY <2>2, <2>3 DEF PostReader, UartCommand, UsbReset
<1>3. Given' = Given
  BY <1>1, <1>2, GivenStays
<1>4. CASE UsbReset
  BY <1>3, <1>4 DEF UsbReset, Pipe!Next, Pipe!Clear
<1>5. CASE ~UsbReset
  BY <1>3, <1>5 DEF PostReader, PostFails, UartCommand, HostCancels, Pipe!vars
<1>6. QED
  BY <1>4, <1>5

(***************************************************************************)
(* The threads that drain one stream, with no lock across a drain, keep    *)
(* together the promise of one bounded queue: no packet is duplicated,     *)
(* reordered or lost unless the FIFO was full or a reset came, and each is *)
(* given to one transfer (DeckBtDrainStream and its callers).              *)
(***************************************************************************)
THEOREM DrainImplementsPipe == Spec => ImplementsPipe
<1>1. PInv /\ [Next]_vars => PInv'
  BY PInvNext
<1>2. PInv /\ PInv' /\ [Next]_vars => [Pipe!Next]_(Pipe!vars)
  <2> SUFFICES ASSUME PInv, PInv', [Next]_vars
               PROVE  Pipe!Next \/ UNCHANGED Pipe!vars
    OBVIOUS
  <2>1. ASSUME NEW n \in 1..MaxPackets, ReadCompletes(n) PROVE Pipe!Next
    BY <2>1, ArrivesInPipe DEF ReadCompletes, Drainer
  <2>2. ASSUME NEW c \in Control, StubCommand(c) PROVE Pipe!Next
    <3>1. c \in Drainer /\ 1 \in 1..MaxPackets /\ Arrives(c, 1)
      BY <2>2, DrainAssumption DEF StubCommand, Arrives, Drainer, PInv, TypeOK
    <3>2. QED
      BY <3>1, ArrivesInPipe
  <2>3. ASSUME NEW d \in Drainer, Drain(d)
        PROVE  Pipe!Next \/ UNCHANGED Pipe!vars
    BY <2>3, DrainInPipe
  <2>4. CASE UNCHANGED vars
    <3>1. Given' = Given
      BY <2>4, GivenStays DEF vars
    <3>2. QED
      BY <2>4, <3>1 DEF vars, Pipe!vars
  <2>5. QED
    BY <2>1, <2>2, <2>3, <2>4, HostInPipe DEF Next
<1>3. QED
  BY PInvInit, PipeInit, <1>1, <1>2, PTL DEF Spec, ImplementsPipe, Pipe!Spec

\* The queue never outgrows its depth, and what is parked, in hand and given
\* are transfers and packets.
THEOREM StreamTypes == Spec => []TypeOK
<1>1. PInv => TypeOK
  BY DEF PInv
<1>2. QED
  BY PInvInit, PInvNext, <1>1, PTL DEF Spec
=============================================================================
