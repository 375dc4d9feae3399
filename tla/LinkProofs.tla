----------------------------- MODULE LinkProofs -----------------------------
(***************************************************************************)
(* Theorems about the bridge.  First HciBridge, under any input: for every *)
(* set of handles, every table size and every counter width.  Then         *)
(* BridgeLink, for every number of buffers, commands, USB resets and       *)
(* sessions, and for a host that counts its credits as for one that does   *)
(* not; its proofs cite the lemmas about the bridge's operators.           *)
(***************************************************************************)
EXTENDS BridgeLink, FiniteSetTheorems, SequenceTheorems, TLAPS

-----------------------------------------------------------------------------
(***************************************************************************)
(* 16-bit arithmetic and the clamp.                                        *)
(***************************************************************************)

\* Wrapped values fit a counter, and a value that fits is not changed.
LEMMA WrapFits ==
  ASSUME NEW n \in Int
  PROVE  /\ Wrap(n) \in U16
         /\ n \in U16 => Wrap(n) = n
BY ConstantsAssumption DEF Wrap, U16

\* A clamped credit count fits a counter and respects the ceiling.
LEMMA ClampRespectsCeiling ==
  ASSUME NEW avail \in U16, NEW total \in U16, NEW flying \in U16
  PROVE  /\ ClampCredits(avail, total, flying) \in U16
         /\ ClampCredits(avail, total, flying) # 0
              => ClampCredits(avail, total, flying) + flying <= total
BY ConstantsAssumption DEF ClampCredits, Lesser, U16

-----------------------------------------------------------------------------
(***************************************************************************)
(* The number of packets in flight.                                        *)
(***************************************************************************)

LEMMA InFlightType ==
  ASSUME NEW used \in SUBSET Handle, NEW out
  PROVE  /\ IsFiniteSet(InFlightPackets(used, out))
         /\ InFlight(used, out) \in Nat
<1>1. IsFiniteSet(used)
  BY FS_Subset, ConstantsAssumption
<1>2. IsFiniteSet(1..U16Max)
  BY FS_Interval, ConstantsAssumption
<1>3. IsFiniteSet(used \X (1..U16Max))
  BY <1>1, <1>2, FS_Product
<1>4. IsFiniteSet(InFlightPackets(used, out))
  BY <1>3, FS_Subset DEF InFlightPackets
<1>5. QED
  BY <1>4, FS_CardinalityType DEF InFlight

\* Nothing is in flight when no slot is in use.
LEMMA InFlightOfEmptyTable ==
  ASSUME NEW out
  PROVE  InFlight({}, out) = 0
<1>1. InFlightPackets({}, out) = {}
  BY DEF InFlightPackets
<1>2. QED
  BY <1>1, FS_EmptySet DEF InFlight

\* Freeing slots and lowering counts never raises the sum.
LEMMA InFlightMonotone ==
  ASSUME NEW used \in SUBSET Handle, NEW out \in [Handle -> U16],
         NEW used2 \in SUBSET used, NEW out2 \in [Handle -> U16],
         \A h \in used2 : out2[h] <= out[h]
  PROVE  InFlight(used2, out2) <= InFlight(used, out)
<1>1. InFlightPackets(used2, out2) \subseteq InFlightPackets(used, out)
  <2> SUFFICES ASSUME NEW p \in InFlightPackets(used2, out2)
               PROVE  p \in InFlightPackets(used, out)
    OBVIOUS
  <2>1. p \in used2 \X (1..U16Max) /\ p[2] <= out2[p[1]]
    BY DEF InFlightPackets
  <2>2. p[1] \in used2 /\ p[2] \in 1..U16Max
    BY <2>1
  <2>3. out2[p[1]] \in Nat /\ out[p[1]] \in Nat /\ out2[p[1]] <= out[p[1]]
    BY <2>2 DEF U16
  <2>4. p[2] <= out[p[1]]
    BY <2>1, <2>2, <2>3
  <2>5. QED
    BY <2>1, <2>4 DEF InFlightPackets
<1>2. QED
  BY <1>1, InFlightType, FS_Subset DEF InFlight

\* Every packet of a tracked handle is counted.
LEMMA OutstandingIsInFlight ==
  ASSUME NEW used \in SUBSET Handle, NEW out \in [Handle -> U16],
         NEW h \in used
  PROVE  out[h] <= InFlight(used, out)
<1> DEFINE S == 1..out[h]
           T == InFlightPackets(used, out)
           f == [i \in S |-> <<h, i>>]
<1>1. out[h] \in Nat /\ out[h] <= U16Max
  BY DEF U16
<1>2. \A i \in S : <<h, i>> \in T
  BY <1>1, ConstantsAssumption DEF InFlightPackets
<1>3. f \in Injection(S, T)
  BY <1>2 DEF Injection, IsInjective
<1>4. Cardinality(S) <= Cardinality(T)
  BY <1>3, InFlightType, FS_Injection
<1>5. Cardinality(S) = out[h]
  BY <1>1, FS_Interval
<1>6. QED
  BY <1>4, <1>5 DEF InFlight

\* Reserving a slot adds nothing to the sum.
LEMMA ReserveKeepsInFlight ==
  ASSUME NEW used \in SUBSET Handle, NEW out \in [Handle -> U16],
         NEW h \in Handle \ used
  PROVE  InFlight(used \cup {h}, [out EXCEPT ![h] = 0]) = InFlight(used, out)
<1>1. InFlightPackets(used \cup {h}, [out EXCEPT ![h] = 0])
        = InFlightPackets(used, out)
  BY DEF InFlightPackets, U16
<1>2. QED
  BY <1>1 DEF InFlight

\* One more packet on one handle adds one to the sum.
LEMMA ChargeAddsOne ==
  ASSUME NEW used \in SUBSET Handle, NEW out \in [Handle -> U16],
         NEW h \in used, out[h] + 1 <= U16Max
  PROVE  InFlight(used, [out EXCEPT ![h] = out[h] + 1])
           = InFlight(used, out) + 1
<1> DEFINE new  == <<h, out[h] + 1>>
           out2 == [out EXCEPT ![h] = out[h] + 1]
<1>1. out[h] \in Nat /\ out[h] + 1 \in 1..U16Max
  BY ConstantsAssumption DEF U16
<1>2. new \notin InFlightPackets(used, out)
  BY <1>1 DEF InFlightPackets
<1>3. InFlightPackets(used, out2) = InFlightPackets(used, out) \cup {new}
  <2>1. ASSUME NEW p \in used \X (1..U16Max)
        PROVE  p[2] <= out2[p[1]] <=> (p[2] <= out[p[1]] \/ p = new)
    <3>1. p = <<p[1], p[2]>> /\ p[1] \in used /\ p[2] \in 1..U16Max
      BY <2>1
    <3>2. CASE p[1] = h
      BY <3>1, <3>2, <1>1 DEF U16
    <3>3. CASE p[1] # h
      BY <3>1, <3>3 DEF U16
    <3>4. QED
      BY <3>2, <3>3
  <2>2. new \in used \X (1..U16Max)
    BY <1>1
  <2>3. QED
    BY <2>1, <2>2 DEF InFlightPackets
<1>4. QED
  BY <1>2, <1>3, InFlightType, FS_AddElement DEF InFlight

-----------------------------------------------------------------------------
(***************************************************************************)
(* The credit part of the state.  CreditInv is inductive on its own: the   *)
(* ceiling bounds a charge, and the bound on what is in flight is what     *)
(* keeps the 16-bit operations exact, so neither is inductive alone.       *)
(***************************************************************************)
CreditTypeOK ==
  /\ totalAcl \in U16
  /\ availAcl \in U16
  /\ inUse \in SUBSET Handle /\ Cardinality(inUse) <= MaxHandles
  /\ outstanding \in [Handle -> U16]

CreditInv == CreditTypeOK /\ CreditCeiling /\ NoWrap

\* An empty table leaves every credit available.
LEMMA EmptyTableInv ==
  ASSUME inUse' = {}, outstanding' = NoneOutstanding,
         totalAcl' \in U16, availAcl' \in U16, availAcl' <= totalAcl'
  PROVE  CreditInv'
<1>1. InFlight(inUse', outstanding') = 0
  BY InFlightOfEmptyTable
<1>2. CreditTypeOK'
  BY FS_EmptySet, ConstantsAssumption DEF CreditTypeOK, NoneOutstanding, U16
<1>3. CreditCeiling' /\ NoWrap'
  BY <1>1, <1>2 DEF CreditCeiling, NoWrap, CreditTypeOK, U16, NoneOutstanding
<1>4. QED
  BY <1>2, <1>3 DEF CreditInv

\* Credits that were clamped after the table only shrank satisfy CreditInv.
LEMMA ClampedInv ==
  ASSUME CreditInv,
         totalAcl' \in U16,
         inUse' \in SUBSET inUse, outstanding' \in [Handle -> U16],
         \A h \in inUse' : outstanding'[h] <= outstanding[h],
         \A h \in Handle \ inUse' : outstanding'[h] = 0,
         NEW avail \in U16,
         availAcl' = ClampCredits(avail, totalAcl',
                                  TotalInFlight(inUse', outstanding'))
  PROVE  CreditInv'
<1> DEFINE flying == InFlight(inUse', outstanding')
<1>1. /\ flying \in Nat
      /\ flying <= InFlight(inUse, outstanding)
  BY InFlightType, InFlightMonotone DEF CreditInv, CreditTypeOK
<1>2. InFlight(inUse, outstanding) \in Nat
  BY InFlightType DEF CreditInv, CreditTypeOK
<1>3. flying \in U16
  BY <1>1, <1>2, ConstantsAssumption DEF CreditInv, CreditTypeOK, NoWrap, U16
<1>4. TotalInFlight(inUse', outstanding') = flying
  BY <1>3, WrapFits DEF TotalInFlight, U16
<1>5. /\ availAcl' \in U16
      /\ availAcl' # 0 => availAcl' + flying <= totalAcl'
  BY <1>3, <1>4, ClampRespectsCeiling
<1>6. Cardinality(inUse') <= MaxHandles
  <2>1. IsFiniteSet(inUse)
    BY FS_Subset, ConstantsAssumption DEF CreditInv, CreditTypeOK
  <2>2. Cardinality(inUse') <= Cardinality(inUse)
    BY <2>1, FS_Subset
  <2>3. Cardinality(inUse') \in Nat /\ Cardinality(inUse) \in Nat
    BY <2>1, FS_Subset, FS_CardinalityType
  <2>4. QED
    BY <2>2, <2>3, ConstantsAssumption DEF CreditInv, CreditTypeOK
<1>7. CreditTypeOK'
  BY <1>5, <1>6 DEF CreditInv, CreditTypeOK
<1>8. CreditCeiling'
  BY <1>5 DEF CreditCeiling
<1>9. NoWrap'
  BY <1>3, <1>5, ConstantsAssumption DEF NoWrap, U16
<1>10. QED
  BY <1>7, <1>8, <1>9 DEF CreditInv

-----------------------------------------------------------------------------
(***************************************************************************)
(* One lemma per operation that touches the credit state.                  *)
(***************************************************************************)

\* A packet that is taken moves one credit into flight; nothing else changes.
LEMMA SubmitAclMovesCredit ==
  ASSUME CreditInv, NEW h \in Handle, NEW wireTakes \in BOOLEAN,
         SubmitAcl(h, wireTakes)
  PROVE  /\ totalAcl' = totalAcl
         /\ CreditTypeOK'
         /\ availAcl' # 0 => availAcl # 0
         /\ availAcl' + InFlight(inUse', outstanding')
              = availAcl + InFlight(inUse, outstanding)
         /\ \A g \in Handle \ inUse' : outstanding'[g] = 0
         /\ outstanding' = IF AclAdmitted(h) /\ wireTakes
                           THEN [outstanding EXCEPT ![h] = outstanding[h] + 1]
                           ELSE outstanding
<1> USE DEF CreditInv, CreditTypeOK
<1> DEFINE used   == inUse \cup {h}
           flying == InFlight(inUse, outstanding)
<1>1. totalAcl' = totalAcl
  BY DEF SubmitAcl
<1>2. CASE ~AclAdmitted(h)
  BY <1>1, <1>2 DEF SubmitAcl, NoWrap
<1>3. ASSUME AclAdmitted(h)
      PROVE  /\ used \in SUBSET Handle /\ Cardinality(used) <= MaxHandles
             /\ InFlight(used, outstanding) = flying
             /\ h \notin inUse => [outstanding EXCEPT ![h] = 0] = outstanding
  <2>1. IsFiniteSet(inUse) /\ Cardinality(inUse) \in Nat
    BY FS_Subset, FS_CardinalityType, ConstantsAssumption
  <2>2. CASE h \in inUse
    <3>1. used = inUse
      BY <2>2
    <3>2. QED
      BY <2>2, <3>1
  <2>3. CASE h \notin inUse
    <3>1. Cardinality(inUse) < MaxHandles
      BY <1>3, <2>3 DEF AclAdmitted, HasSlot
    <3>2. Cardinality(used) = Cardinality(inUse) + 1
      BY <2>1, <2>3, FS_AddElement
    <3>3. [outstanding EXCEPT ![h] = 0] = outstanding
      BY <2>3 DEF NoWrap
    <3>4. InFlight(used, outstanding) = flying
      BY <2>3, <3>3, ReserveKeepsInFlight
    <3>5. QED
      BY <2>1, <3>1, <3>2, <3>3, <3>4, ConstantsAssumption
  <2>4. QED
    BY <2>2, <2>3
<1>4. CASE AclAdmitted(h) /\ ~wireTakes
  <2>1. Reserve(h) /\ UNCHANGED availAcl
    BY <1>4 DEF SubmitAcl
  <2>2. inUse' = used /\ outstanding' = outstanding
    BY <1>3, <1>4, <2>1 DEF Reserve
  <2>3. QED
    BY <1>1, <1>3, <1>4, <2>1, <2>2 DEF NoWrap
<1>5. CASE AclAdmitted(h) /\ wireTakes
  <2>1. ReserveAndCharge(h)
    BY <1>5 DEF SubmitAcl
  <2>2. /\ flying \in Nat
        /\ availAcl # 0 /\ availAcl + flying <= totalAcl
        /\ totalAcl <= U16Max
    BY <1>5, InFlightType DEF AclAdmitted, CreditCeiling, U16
  <2>3. outstanding[h] <= flying
    BY <1>3, <1>5, OutstandingIsInFlight
  <2>4. outstanding[h] \in Nat /\ outstanding[h] + 1 <= U16Max
    BY <2>2, <2>3, ConstantsAssumption DEF U16
  <2>5. outstanding' = [outstanding EXCEPT ![h] = outstanding[h] + 1]
    <3>1. CASE h \in inUse
      <4>1. Wrap(outstanding[h] + 1) = outstanding[h] + 1
        BY <2>4, WrapFits DEF U16
      <4>2. QED
        BY <2>1, <3>1, <4>1 DEF ReserveAndCharge
    <3>2. CASE h \notin inUse
      <4>1. outstanding[h] + 1 = 1
        BY <3>2 DEF NoWrap
      <4>2. QED
        BY <2>1, <3>2, <4>1 DEF ReserveAndCharge
    <3>3. QED
      BY <3>1, <3>2
  <2>6. inUse' = used
    BY <2>1 DEF ReserveAndCharge
  <2>7. InFlight(inUse', outstanding') = flying + 1
    <3>1. h \in used
      OBVIOUS
    <3> HIDE DEF used
    <3>2. InFlight(used, [outstanding EXCEPT ![h] = outstanding[h] + 1])
            = InFlight(used, outstanding) + 1
      BY <1>3, <1>5, <2>4, <3>1, ChargeAddsOne
    <3>3. QED
      BY <1>3, <1>5, <2>5, <2>6, <3>2
  <2>8. availAcl' = availAcl - 1 /\ availAcl' \in U16
    <3>1. availAcl - 1 \in U16
      BY <2>2, ConstantsAssumption DEF U16
    <3>2. QED
      BY <2>1, <3>1, WrapFits DEF ReserveAndCharge, U16
  <2>9. outstanding' \in [Handle -> U16]
    BY <2>4, <2>5, ConstantsAssumption DEF U16
  <2>10. \A g \in Handle \ inUse' : outstanding'[g] = 0
    BY <2>5, <2>6 DEF NoWrap
  <2>11. availAcl' + InFlight(inUse', outstanding') = availAcl + flying
    BY <2>2, <2>7, <2>8, ConstantsAssumption DEF U16
  <2>12. QED
    BY <1>1, <1>3, <1>5, <2>2, <2>5, <2>6, <2>8, <2>9, <2>10, <2>11
<1>6. QED
  BY <1>2, <1>4, <1>5

LEMMA SubmitAclInv ==
  ASSUME CreditInv, NEW h \in Handle, NEW wireTakes \in BOOLEAN,
         SubmitAcl(h, wireTakes)
  PROVE  CreditInv'
<1>1. InFlight(inUse, outstanding) \in Nat
  BY InFlightType DEF CreditInv, CreditTypeOK
<1>2. QED
  BY <1>1, SubmitAclMovesCredit DEF CreditInv, CreditCeiling, NoWrap

LEMMA LearnBufferSizeInv ==
  ASSUME CreditInv, NEW total \in U16, LearnBufferSize(total)
  PROVE  CreditInv'
<1>1. CASE totalAcl = 0
  <2>1. inUse' = {} /\ outstanding' = NoneOutstanding /\ totalAcl' = total
    BY <1>1 DEF LearnBufferSize
  <2>2. TotalInFlight(inUse', outstanding') = 0
    <3>1. 0 \in U16
      BY ConstantsAssumption DEF U16
    <3>2. QED
      BY <2>1, <3>1, InFlightOfEmptyTable, WrapFits DEF TotalInFlight
  <2>3. availAcl' = ClampCredits(total, total, 0)
    BY <1>1, <2>2 DEF LearnBufferSize
  <2>4. availAcl' \in U16 /\ availAcl' <= totalAcl'
    BY <2>1, <2>3, ConstantsAssumption DEF ClampCredits, Lesser, U16
  <2>5. QED
    BY <2>1, <2>4, EmptyTableInv
<1>2. CASE totalAcl # 0
  <2>1. inUse' = inUse /\ outstanding' = outstanding /\ totalAcl' = total
    BY <1>2 DEF LearnBufferSize
  <2>2. availAcl' = ClampCredits(availAcl, totalAcl',
                                 TotalInFlight(inUse', outstanding'))
    BY <1>2 DEF LearnBufferSize
  <2>3. \A h \in inUse' : outstanding'[h] <= outstanding[h]
    BY <2>1 DEF CreditInv, CreditTypeOK, U16
  <2>4. QED
    BY <2>1, <2>2, <2>3, ClampedInv
       DEF CreditInv, CreditTypeOK, NoWrap
<1>3. QED
  BY <1>1, <1>2

LEMMA RecordAclCompletedInv ==
  ASSUME CreditInv, NEW done \in [Handle -> U16], RecordAclCompleted(done)
  PROVE  CreditInv'
<1> USE DEF CreditInv, CreditTypeOK
<1>1. \A h \in Handle : /\ Actual(h, done) \in 0..outstanding[h]
                        /\ h \notin inUse => Actual(h, done) = 0
                        /\ done[h] = 0 => Actual(h, done) = 0
  BY DEF Actual, Lesser, U16
<1>2. outstanding' = [h \in Handle |-> outstanding[h] - Actual(h, done)]
  BY DEF RecordAclCompleted
<1>3. /\ outstanding' \in [Handle -> U16]
      /\ \A h \in Handle : outstanding'[h] <= outstanding[h]
  BY <1>1, <1>2, ConstantsAssumption DEF U16
<1>4. totalAcl' = totalAcl /\ inUse' = inUse
  BY DEF RecordAclCompleted
<1>5. CASE \E h \in inUse : done[h] > 0
  <2> DEFINE avail == Wrap(availAcl + InFlight(inUse, outstanding)
                                    - InFlight(inUse, outstanding'))
  <2>1. avail \in U16
    BY <1>3, InFlightType, WrapFits DEF U16
  <2>2. availAcl' = ClampCredits(avail, totalAcl',
                                 TotalInFlight(inUse', outstanding'))
    BY <1>4, <1>5 DEF RecordAclCompleted
  <2>3. \A h \in Handle \ inUse' : outstanding'[h] = 0
    BY <1>1, <1>2, <1>4 DEF NoWrap
  <2> HIDE DEF avail
  <2>4. QED
    BY <1>3, <1>4, <2>1, <2>2, <2>3, ClampedInv
<1>6. CASE ~ \E h \in inUse : done[h] > 0
  <2>1. \A h \in Handle : Actual(h, done) = 0
    BY <1>1, <1>6 DEF U16
  <2>2. outstanding' = outstanding
    BY <1>2, <2>1 DEF U16
  <2>3. availAcl' = availAcl
    BY <1>6 DEF RecordAclCompleted
  <2>4. QED
    BY <1>4, <2>2, <2>3 DEF CreditCeiling, NoWrap
<1>7. QED
  BY <1>5, <1>6

LEMMA RecordDisconnectionInv ==
  ASSUME CreditInv, NEW h \in Handle, RecordDisconnection(h)
  PROVE  CreditInv'
<1> USE DEF CreditInv, CreditTypeOK
<1>1. CASE h \notin inUse
  BY <1>1 DEF RecordDisconnection, CreditCeiling, NoWrap
<1>2. CASE h \in inUse
  <2>1. /\ inUse' = inUse \ {h} /\ totalAcl' = totalAcl
        /\ outstanding' = [outstanding EXCEPT ![h] = 0]
    BY <1>2 DEF RecordDisconnection
  <2>2. availAcl' = ClampCredits(Wrap(availAcl + outstanding[h]), totalAcl',
                                 TotalInFlight(inUse', outstanding'))
    BY <1>2, <2>1 DEF RecordDisconnection
  <2>3. Wrap(availAcl + outstanding[h]) \in U16
    BY WrapFits DEF U16
  <2>4. /\ outstanding' \in [Handle -> U16]
        /\ \A g \in inUse' : outstanding'[g] <= outstanding[g]
        /\ \A g \in Handle \ inUse' : outstanding'[g] = 0
    BY <2>1, ConstantsAssumption DEF NoWrap, U16
  <2>5. QED
    BY <2>1, <2>2, <2>3, <2>4, ClampedInv
<1>3. QED
  BY <1>1, <1>2

LEMMA CreditStep ==
  ASSUME CreditInv, [Next]_bridgeVars
  PROVE  CreditInv'
<1>1. CASE UNCHANGED creditVars
  BY <1>1 DEF creditVars, CreditInv, CreditTypeOK, CreditCeiling, NoWrap
<1>2. ASSUME NEW h \in Handle, NEW wireTakes \in BOOLEAN,
             SubmitAcl(h, wireTakes)
      PROVE  CreditInv'
  BY <1>2, SubmitAclInv
<1>3. CASE Reset
  BY <1>3, EmptyTableInv DEF Reset, CreditInv, CreditTypeOK, U16
<1>4. CASE Reinitialise
  BY <1>4, EmptyTableInv, ConstantsAssumption DEF Reinitialise, U16
<1>5. ASSUME NEW e \in Event, OnEvent(e)
      PROVE  CreditInv'
  <2>1. CASE e.type = "bufferSize" /\ LearnBufferSize(e.total)
    BY <2>1, EventAssumption, LearnBufferSizeInv
  <2>2. CASE e.type = "completed" /\ RecordAclCompleted(e.done)
    BY <2>2, EventAssumption, RecordAclCompletedInv
  <2>3. CASE e.type = "disconnect" /\ RecordDisconnection(e.handle)
    BY <2>3, EventAssumption, RecordDisconnectionInv
  <2>4. CASE e.type \notin CreditType /\ UNCHANGED creditVars
    BY <1>1, <2>4
  <2>5. QED
    BY <1>5, <2>1, <2>2, <2>3, <2>4 DEF OnEvent, Snoop
<1>6. CASE Host
  <2>1. ASSUME NEW c \in Cmd, SubmitCommand(c) PROVE UNCHANGED creditVars
    BY <2>1 DEF SubmitCommand
  <2>2. ASSUME NEW p \in ScoPkt, NEW n \in 0..ScoOutDepth, SubmitSco(p, n)
        PROVE  UNCHANGED creditVars
    BY <2>2 DEF SubmitSco
  <2>3. CASE PopEvent \/ PopAcl \/ PopSco
    BY <1>1, <2>3 DEF PopEvent, PopAcl, PopSco
  <2>4. QED
    BY <1>1, <1>2, <1>3, <1>6, <2>1, <2>2, <2>3 DEF Host
<1>7. CASE Wire
  <2>1. ASSUME NEW p \in AclPkt, OnAcl(p) PROVE UNCHANGED creditVars
    BY <2>1 DEF OnAcl
  <2>2. ASSUME NEW p \in ScoPkt, OnSco(p) PROVE UNCHANGED creditVars
    BY <2>2 DEF OnSco
  <2>3. QED
    BY <1>1, <1>5, <1>7, <2>1, <2>2 DEF Wire
<1>8. CASE Session
  <2>1. ASSUME NEW n \in 0..ScoOutDepth, BecomeReady(n)
        PROVE  UNCHANGED creditVars
    BY <2>1 DEF BecomeReady
  <2>2. BecomeUnready => UNCHANGED creditVars
    BY DEF BecomeUnready
  <2>3. QED
    BY <1>1, <1>4, <1>8, <2>1, <2>2 DEF Session
<1>9. CASE UNCHANGED bridgeVars
  BY <1>1, <1>9 DEF bridgeVars, creditVars
<1>10. QED
  BY <1>6, <1>7, <1>8, <1>9 DEF Next

-----------------------------------------------------------------------------
(***************************************************************************)
(* The queues and the hold slot.                                           *)
(***************************************************************************)
QueueInv ==
  /\ ready \in BOOLEAN
  /\ held \in Cmd \cup {NoCmd}
  /\ eventFifo \in Seq(Event) /\ Len(eventFifo) <= EventDepth
  /\ aclInFifo \in Seq(AclPkt) /\ Len(aclInFifo) <= AclInDepth
  /\ scoInFifo \in Seq(ScoPkt) /\ Len(scoInFifo) <= ScoInDepth
  /\ scoOutFifo \in Seq(ScoPkt) /\ Len(scoOutFifo) <= ScoOutDepth
  /\ HeldOnlyUnready

\* Popping keeps a queue typed and within its depth.
LEMMA TailBounded ==
  ASSUME NEW S, NEW fifo \in Seq(S), NEW depth \in Nat,
         Len(fifo) <= depth, fifo # << >>
  PROVE  Tail(fifo) \in Seq(S) /\ Len(Tail(fifo)) <= depth
BY HeadTailProperties, LenProperties

\* Overwriting the oldest packet keeps a queue within its depth.
LEMMA OverwriteBounded ==
  ASSUME NEW S, NEW fifo \in Seq(S), NEW p \in S, NEW depth \in Nat \ {0},
         Len(fifo) <= depth
  PROVE  /\ OverwriteOldest(fifo, p, depth) \in Seq(S)
         /\ Len(OverwriteOldest(fifo, p, depth)) <= depth
<1>1. Len(fifo) \in Nat
  OBVIOUS
<1>2. CASE Len(fifo) >= depth
  <2>1. fifo # << >>
    BY <1>2
  <2>2. Tail(fifo) \in Seq(S) /\ Len(Tail(fifo)) = Len(fifo) - 1
    BY <2>1, HeadTailProperties
  <2>3. QED
    BY <1>1, <1>2, <2>2 DEF OverwriteOldest
<1>3. CASE Len(fifo) < depth
  BY <1>1, <1>3 DEF OverwriteOldest
<1>4. QED
  BY <1>1, <1>2, <1>3

\* Draining leaves a suffix.
LEMMA DrainBounded ==
  ASSUME NEW S, NEW fifo \in Seq(S), NEW depth \in Nat,
         Len(fifo) <= depth, NEW n \in 0..Len(fifo)
  PROVE  /\ SubSeq(fifo, n + 1, Len(fifo)) \in Seq(S)
         /\ Len(SubSeq(fifo, n + 1, Len(fifo))) <= depth
<1>1. Len(fifo) \in Nat
  OBVIOUS
<1>2. \A i \in (n + 1)..Len(fifo) : fifo[i] \in S
  BY <1>1
<1>3. QED
  BY <1>1, <1>2, SubSeqProperties

LEMMA QueueStep ==
  ASSUME QueueInv, [Next]_bridgeVars
  PROVE  QueueInv'
<1> USE DEF QueueInv, HeldOnlyUnready
<1>1. ASSUME NEW c \in Cmd, SubmitCommand(c) PROVE QueueInv'
  <2>1. CASE ready
    BY <1>1, <2>1 DEF SubmitCommand, scoVars
  <2>2. CASE ~ready
    BY <1>1, <2>2 DEF SubmitCommand, scoVars
  <2>3. QED
    BY <2>1, <2>2
<1>2. ASSUME NEW h \in Handle, NEW wireTakes \in BOOLEAN,
             SubmitAcl(h, wireTakes)
      PROVE  QueueInv'
  BY <1>2 DEF SubmitAcl, scoVars
<1>3. ASSUME NEW p \in ScoPkt, NEW n \in 0..ScoOutDepth, SubmitSco(p, n)
      PROVE  QueueInv'
  <2>1. CASE ready
    <3> DEFINE fifo == OverwriteOldest(scoOutFifo, p, ScoOutDepth)
    <3>1. fifo \in Seq(ScoPkt) /\ Len(fifo) <= ScoOutDepth
      BY OverwriteBounded, ConstantsAssumption
    <3>2. n \in 0..Len(fifo) /\ scoOutFifo' = SubSeq(fifo, n + 1, Len(fifo))
      BY <1>3, <2>1 DEF SubmitSco, DrainOutboundSco
    <3> HIDE DEF fifo
    <3>3. scoOutFifo' \in Seq(ScoPkt) /\ Len(scoOutFifo') <= ScoOutDepth
      BY <3>1, <3>2, DrainBounded, ConstantsAssumption
    <3>4. QED
      BY <1>3, <3>3 DEF SubmitSco
  <2>2. CASE ~ready
    BY <1>3, <2>2 DEF SubmitSco
  <2>3. QED
    BY <2>1, <2>2
<1>4. CASE PopEvent
  BY <1>4, TailBounded, ConstantsAssumption DEF PopEvent, scoVars
<1>5. CASE PopAcl
  BY <1>5, TailBounded, ConstantsAssumption DEF PopAcl, scoVars
<1>6. CASE PopSco
  BY <1>6, TailBounded, ConstantsAssumption DEF PopSco
<1>7. CASE Reset
  BY <1>7, EmptySeq, ConstantsAssumption DEF Reset
<1>8. CASE Reinitialise
  <2>1. ready' \in BOOLEAN /\ held' \in Cmd \cup {NoCmd} /\ HeldOnlyUnready'
    BY <1>8 DEF Reinitialise
  <2>2. QED
    BY <1>8, <2>1, EmptySeq, ConstantsAssumption DEF Reinitialise
<1>9. ASSUME NEW e \in Event, OnEvent(e) PROVE QueueInv'
  <2>1. eventFifo' \in Seq(Event) /\ Len(eventFifo') <= EventDepth
    BY <1>9, ConstantsAssumption DEF OnEvent, EventQueued
  <2>2. QED
    BY <1>9, <2>1 DEF OnEvent, scoVars
<1>10. ASSUME NEW p \in AclPkt, OnAcl(p) PROVE QueueInv'
  <2>1. aclInFifo' \in Seq(AclPkt) /\ Len(aclInFifo') <= AclInDepth
    BY <1>10, ConstantsAssumption DEF OnAcl
  <2>2. QED
    BY <1>10, <2>1 DEF OnAcl, scoVars
<1>11. ASSUME NEW p \in ScoPkt, OnSco(p) PROVE QueueInv'
  <2>1. scoInFifo' \in Seq(ScoPkt) /\ Len(scoInFifo') <= ScoInDepth
    BY <1>11, OverwriteBounded, ConstantsAssumption DEF OnSco
  <2>2. QED
    BY <1>11, <2>1 DEF OnSco
<1>12. ASSUME NEW n \in 0..ScoOutDepth, BecomeReady(n) PROVE QueueInv'
  <2>1. scoOutFifo' \in Seq(ScoPkt) /\ Len(scoOutFifo') <= ScoOutDepth
    BY <1>12, DrainBounded, ConstantsAssumption
       DEF BecomeReady, DrainOutboundSco
  <2>2. QED
    BY <1>12, <2>1 DEF BecomeReady
<1>13. CASE BecomeUnready
  BY <1>13 DEF BecomeUnready, scoVars
<1>14. CASE UNCHANGED bridgeVars
  BY <1>14 DEF bridgeVars
<1>15. QED
  BY <1>1, <1>2, <1>3, <1>4, <1>5, <1>6, <1>7, <1>8, <1>9, <1>10, <1>11,
     <1>12, <1>13, <1>14 DEF Next, Host, Wire, Session

-----------------------------------------------------------------------------
(***************************************************************************)
(* The inductive invariant of the bridge and what follows from it.         *)
(***************************************************************************)
IInv == QueueInv /\ CreditInv

LEMMA InitialInvariant ==
  ASSUME Init
  PROVE  IInv
<1>1. QueueInv
  <2>1. ready \in BOOLEAN /\ held \in Cmd \cup {NoCmd} /\ HeldOnlyUnready
    BY DEF Init, HeldOnlyUnready
  <2>2. QED
    BY <2>1, EmptySeq, ConstantsAssumption DEF Init, QueueInv
<1>2. InFlight(inUse, outstanding) = 0
  BY InFlightOfEmptyTable DEF Init
<1>3. CreditInv
  BY <1>2, FS_EmptySet, ConstantsAssumption
     DEF Init, CreditInv, CreditTypeOK, CreditCeiling, NoWrap,
         NoneOutstanding, U16
<1>4. QED
  BY <1>1, <1>3 DEF IInv

LEMMA InductiveInvariant == Spec => []IInv
<1>1. Init => IInv
  BY InitialInvariant
<1>2. IInv /\ [Next]_bridgeVars => IInv'
  BY QueueStep, CreditStep DEF IInv
<1>3. QED
  BY <1>1, <1>2, PTL DEF Spec

(***************************************************************************)
(* Every variable of the bridge keeps its type: no queue outgrows its      *)
(* array and the handle table never holds more than MaxHandles handles.    *)
(***************************************************************************)
THEOREM TypeCorrect == Spec => []TypeOK
<1>1. IInv => TypeOK
  BY DEF IInv, QueueInv, CreditInv, CreditTypeOK, TypeOK
<1>2. QED
  BY <1>1, InductiveInvariant, PTL

(***************************************************************************)
(* Whatever sequence of completions, disconnections, resets and buffer     *)
(* counts arrives, the credits SubmitAcl may spend never exceed the        *)
(* buffers left over by the packets in flight (HciBridgeClampCredits).     *)
(***************************************************************************)
THEOREM CreditsRespectCeiling == Spec => []CreditCeiling
<1>1. IInv => CreditCeiling
  BY DEF IInv, CreditInv
<1>2. QED
  BY <1>1, InductiveInvariant, PTL

(***************************************************************************)
(* None of the unsigned short operations of the credit code overflows or   *)
(* underflows.                                                             *)
(***************************************************************************)
THEOREM CreditsNeverWrap == Spec => []NoWrap
<1>1. IInv => NoWrap
  BY DEF IInv, CreditInv
<1>2. QED
  BY <1>1, InductiveInvariant, PTL

(***************************************************************************)
(* A command is held only while the bridge is not serving, so SetReady     *)
(* replays nothing that an earlier session accepted (HciBridgeSetReady).   *)
(***************************************************************************)
THEOREM HoldSlotEmptyWhenReady == Spec => []HeldOnlyUnready
<1>1. IInv => HeldOnlyUnready
  BY DEF IInv, QueueInv
<1>2. QED
  BY <1>1, InductiveInvariant, PTL

-----------------------------------------------------------------------------
(***************************************************************************)
(* Packets are told apart by their type and by what they name.             *)
(***************************************************************************)
LEMMA PacketTypes ==
  /\ Vendor.type = "vendor"
  /\ \A h : /\ AclPacket(h).type = "acl" /\ AclPacket(h).handle = h
            /\ Connected(h).type = "connected" /\ Connected(h).handle = h
            /\ Gone(h).type = "disconnect" /\ Gone(h).handle = h
            /\ OneDone(h).type = "completed"
            /\ \A g \in Handle : OneDone(h).done[g] = IF g = h THEN 1 ELSE 0
  /\ \A c : /\ CmdPacket(c).type = "cmd" /\ CmdPacket(c).cmd = c
            /\ Completion(c).type =
                 IF c.op = "Read_Buffer_Size" THEN "bufferSize" ELSE "resetDone"
            /\ Completion(c).id = c.id
            /\ c.op = "Read_Buffer_Size" => Completion(c).total = AclBuffers
BY DEF Vendor, AclPacket, Connected, Gone, OneDone, CmdPacket, Completion

LEMMA EventsAre ==
  ASSUME NEW e \in LinkEvent
  PROVE  \/ e = Vendor
         \/ \E c \in LinkCmd : e = Completion(c)
         \/ \E h \in Handle : e = Connected(h) \/ e = Gone(h) \/ e = OneDone(h)
BY DEF LinkEvent

\* An event by its type.
LEMMA EventsByType ==
  ASSUME NEW e \in LinkEvent
  PROVE  /\ e.type \in {"vendor", "bufferSize", "resetDone", "connected",
                        "disconnect", "completed"}
         /\ e.type = "vendor" => e = Vendor
         /\ e.type = "connected" => e.handle \in Handle /\ e = Connected(e.handle)
         /\ e.type = "disconnect" => e.handle \in Handle /\ e = Gone(e.handle)
         /\ e.type = "completed" => \E h \in Handle : e = OneDone(h)
         /\ e.type = "bufferSize" => e.total = AclBuffers
         /\ IsCompletion(e) <=> e.type \in {"bufferSize", "resetDone"}
<1>1. IsCompletion(e) <=> e.type \in {"bufferSize", "resetDone"}
  BY DEF IsCompletion
<1>2. CASE e = Vendor
  BY <1>1, <1>2, PacketTypes
<1>3. ASSUME NEW c \in LinkCmd, e = Completion(c)
      PROVE  /\ e.type \in {"bufferSize", "resetDone"}
             /\ e.type = "bufferSize" => e.total = AclBuffers
  BY <1>3, PacketTypes
<1>4. ASSUME NEW h \in Handle, e = Connected(h)
      PROVE  e.type = "connected" /\ e.handle = h
  BY <1>4, PacketTypes
<1>5. ASSUME NEW h \in Handle, e = Gone(h)
      PROVE  e.type = "disconnect" /\ e.handle = h
  BY <1>5, PacketTypes
<1>6. ASSUME NEW h \in Handle, e = OneDone(h) PROVE e.type = "completed"
  BY <1>6, PacketTypes
<1>7. QED
  BY <1>1, <1>2, <1>3, <1>4, <1>5, <1>6, EventsAre

LEMMA HandlesApart ==
  \A g, h \in Handle :
    /\ AclPacket(g) = AclPacket(h) => g = h
    /\ Gone(g) = Gone(h) => g = h
    /\ Connected(g) = Connected(h) => g = h
    /\ OneDone(g) = OneDone(h) => g = h
<1> TAKE g, h \in Handle
<1>1. OneDone(g).done[g] = 1 /\ OneDone(h).done[g] = IF g = h THEN 1 ELSE 0
  BY PacketTypes
<1>2. QED
  BY <1>1, PacketTypes

LEMMA EventsIn ==
  /\ Vendor \in LinkEvent
  /\ \A c \in LinkCmd : Completion(c) \in LinkEvent
  /\ \A h \in Handle : {Connected(h), Gone(h), OneDone(h)} \subseteq LinkEvent
BY DEF LinkEvent

-----------------------------------------------------------------------------
(***************************************************************************)
(* How often a packet is in a queue, and whether it is.                    *)
(***************************************************************************)
Count(s, x) == Cardinality({i \in DOMAIN s : s[i] = x})

Carries(s, x) == \E i \in DOMAIN s : s[i] = x

LEMMA AppendTyped ==
  ASSUME NEW S, NEW s \in Seq(S), NEW x \in S
  PROVE  Append(s, x) \in Seq(S)
OBVIOUS

LEMMA CountIs ==
  ASSUME NEW S, NEW s \in Seq(S), NEW x
  PROVE  /\ IsFiniteSet({i \in DOMAIN s : s[i] = x})
         /\ Count(s, x) \in Nat
         /\ Count(s, x) = 0 <=> ~Carries(s, x)
<1>1. IsFiniteSet(1..Len(s)) /\ DOMAIN s = 1..Len(s)
  BY FS_Interval
<1>2. IsFiniteSet({i \in DOMAIN s : s[i] = x})
  BY <1>1, FS_Subset
<1>3. Count(s, x) \in Nat
  BY <1>2, FS_CardinalityType DEF Count
<1>4. Count(s, x) = 0 <=> {i \in DOMAIN s : s[i] = x} = {}
  BY <1>2, FS_EmptySet DEF Count
<1>5. QED
  BY <1>2, <1>3, <1>4 DEF Carries

LEMMA CountEmpty ==
  ASSUME NEW x
  PROVE  Count(<< >>, x) = 0 /\ ~Carries(<< >>, x)
<1>1. {i \in DOMAIN << >> : << >>[i] = x} = {}
  OBVIOUS
<1>2. QED
  BY <1>1, FS_EmptySet DEF Count, Carries

LEMMA CountAppend ==
  ASSUME NEW S, NEW s \in Seq(S), NEW y, NEW x
  PROVE  /\ Count(Append(s, y), x) = Count(s, x) + (IF y = x THEN 1 ELSE 0)
         /\ Carries(Append(s, y), x) <=> Carries(s, x) \/ y = x
<1> DEFINE A == {i \in DOMAIN s : s[i] = x}
           B == {i \in DOMAIN Append(s, y) : Append(s, y)[i] = x}
           n == Len(s) + 1
<1>1. /\ Len(s) \in Nat /\ DOMAIN s = 1..Len(s)
      /\ DOMAIN Append(s, y) = 1..n
      /\ \A i \in 1..Len(s) : Append(s, y)[i] = s[i]
      /\ Append(s, y)[n] = y
  OBVIOUS
<1>2. IsFiniteSet(A) /\ Cardinality(A) \in Nat
  BY CountIs, FS_CardinalityType
<1>3. CASE y = x
  <2>1. B = A \cup {n} /\ n \notin A
    BY <1>1, <1>3
  <2>2. Cardinality(B) = Cardinality(A) + 1
    BY <1>2, <2>1, FS_AddElement
  <2>3. Carries(Append(s, y), x)
    BY <1>1, <1>3 DEF Carries
  <2>4. QED
    BY <1>3, <2>2, <2>3 DEF Count
<1>4. CASE y # x
  <2>1. B = A
    BY <1>1, <1>4
  <2>2. Carries(Append(s, y), x) <=> Carries(s, x)
    BY <2>1 DEF Carries
  <2>3. Count(Append(s, y), x) = Count(s, x) /\ Count(s, x) \in Nat
    BY <1>2, <2>1 DEF Count
  <2>4. QED
    BY <1>4, <2>2, <2>3
<1>5. QED
  BY <1>3, <1>4

LEMMA CountTail ==
  ASSUME NEW S, NEW s \in Seq(S), s # << >>, NEW x
  PROVE  /\ Count(s, x) = Count(Tail(s), x) + (IF Head(s) = x THEN 1 ELSE 0)
         /\ Carries(s, x) <=> Carries(Tail(s), x) \/ Head(s) = x
<1> DEFINE A == {i \in DOMAIN Tail(s) : Tail(s)[i] = x}
           B == {i \in DOMAIN s : s[i] = x}
           C == B \ {1}
           f == [i \in A |-> i + 1]
<1>1. /\ Len(s) \in Nat /\ Len(s) >= 1 /\ DOMAIN s = 1..Len(s)
      /\ Tail(s) \in Seq(S) /\ DOMAIN Tail(s) = 1..(Len(s) - 1)
      /\ \A i \in 1..(Len(s) - 1) : Tail(s)[i] = s[i + 1]
      /\ Head(s) = s[1]
  OBVIOUS
<1>2. /\ IsFiniteSet(A) /\ Cardinality(A) \in Nat
      /\ IsFiniteSet(B) /\ IsFiniteSet(C)
  <2>1. IsFiniteSet(A)
    BY <1>1, CountIs
  <2>2. IsFiniteSet(B)
    BY CountIs
  <2>3. QED
    BY <2>1, <2>2, FS_CardinalityType, FS_Subset
<1>3. ASSUME NEW i \in A PROVE f[i] \in C
  BY <1>1
<1>4. ASSUME NEW j \in C PROVE j - 1 \in A /\ f[j - 1] = j
  BY <1>1
<1>5. f \in Bijection(A, C)
  <2>1. f \in [A -> C]
    BY <1>3
  <2>2. \A i, j \in A : f[i] = f[j] => i = j
    BY <1>1
  <2>3. \A j \in C : \E i \in A : f[i] = j
    BY <1>4
  <2>4. QED
    BY <2>1, <2>2, <2>3 DEF Bijection, Injection, Surjection, IsInjective
<1>6. Cardinality(C) = Cardinality(A)
  <2>1. ExistsBijection(A, C)
    BY <1>5 DEF ExistsBijection
  <2>2. QED
    BY <1>2, <2>1, FS_Bijection
<1>7. CASE Head(s) = x
  <2>1. B = C \cup {1} /\ 1 \notin C
    BY <1>1, <1>7
  <2>2. Cardinality(B) = Cardinality(C) + 1
    BY <1>2, <2>1, FS_AddElement
  <2>3. Carries(s, x)
    BY <1>1, <1>7 DEF Carries
  <2>4. QED
    BY <1>6, <1>7, <2>2, <2>3 DEF Count
<1>8. CASE Head(s) # x
  <2>1. B = C
    BY <1>1, <1>8
  <2>2. Carries(s, x) <=> Carries(Tail(s), x)
    <3>1. ASSUME NEW j \in DOMAIN s, s[j] = x
          PROVE  \E i \in DOMAIN Tail(s) : Tail(s)[i] = x
      BY <1>1, <1>4, <1>8, <3>1
    <3>2. ASSUME NEW i \in DOMAIN Tail(s), Tail(s)[i] = x
          PROVE  \E j \in DOMAIN s : s[j] = x
      BY <1>1, <3>2
    <3>3. QED
      BY <3>1, <3>2 DEF Carries
  <2>3. Count(s, x) = Count(Tail(s), x) /\ Count(s, x) \in Nat
    BY <1>2, <1>6, <2>1 DEF Count
  <2>4. QED
    BY <1>8, <2>2, <2>3
<1>9. QED
  BY <1>7, <1>8

-----------------------------------------------------------------------------
(***************************************************************************)
(* Types, and what the session is while it does not serve.                 *)
(***************************************************************************)
CtlPacket ==
  {CmdPacket(c) : c \in LinkCmd} \cup {AclPacket(h) : h \in Handle}

LinkTypes ==
  /\ toCtl \in Seq(CtlPacket)
  /\ fromCtl \in Seq(LinkEvent)
  /\ ctlConn \subseteq Handle /\ ctlBuf \in [Handle -> Nat]
  /\ \A h \in Handle \ ctlConn : ctlBuf[h] = 0
  /\ hostPhase \in {"fresh", "reset", "up"}
  /\ hostCmd \in LinkCmd \cup {NoCmd} /\ hostConn \subseteq Handle
  /\ strays \in [Handle -> Nat] /\ cmds \in 0..MaxCmds
  /\ session \in {"bringup", "serving", "stopped"}

Idle ==
  /\ session = "serving" <=> ready
  /\ session # "serving" =>
       /\ toCtl = << >> /\ ~ctlUp /\ ctlConn = {}
       /\ \A i \in DOMAIN fromCtl : fromCtl[i] = Vendor

-----------------------------------------------------------------------------
(***************************************************************************)
(* The order of the commands.                                              *)
(***************************************************************************)
Before(s, t) ==
  \A i \in DOMAIN s, j \in DOMAIN t :
    Issued(s[i]) /\ Issued(t[j]) => IdOf(s[i]) < IdOf(t[j])

Ordered(s) ==
  \A i, j \in DOMAIN s :
    i < j /\ Issued(s[i]) /\ Issued(s[j]) => IdOf(s[i]) < IdOf(s[j])

UpTo(s, n) == \A i \in DOMAIN s : Issued(s[i]) => IdOf(s[i]) <= n

InOrder ==
  /\ Ordered(eventFifo) /\ Ordered(fromCtl) /\ Ordered(toCtl)
  /\ Before(eventFifo, fromCtl) /\ Before(eventFifo, toCtl)
  /\ Before(fromCtl, toCtl)
  /\ UpTo(eventFifo, cmds) /\ UpTo(fromCtl, cmds) /\ UpTo(toCtl, cmds)
  /\ held # NoCmd =>
       /\ held.id <= cmds
       /\ UpTo(eventFifo, held.id - 1) /\ UpTo(fromCtl, held.id - 1)
       /\ UpTo(toCtl, held.id - 1)

-----------------------------------------------------------------------------
(***************************************************************************)
(* The account of the bridge.  The account of a handle is true when what   *)
(* the controller holds, will take and has reported of a live connection   *)
(* is what the bridge charged for it, and when the bridge charges nothing  *)
(* for a connection whose end it has seen; the strays of the handle apart. *)
(***************************************************************************)
Balanced ==
  /\ totalAcl \in {0, AclBuffers}
  /\ availAcl + InFlight(inUse, outstanding) = totalAcl

TrueWhileUp(h) ==
  h \in ctlConn =>
    /\ ~Carries(fromCtl, Gone(h))
    /\ outstanding[h] =
         strays[h] + ctlBuf[h] + Count(toCtl, AclPacket(h))
           + Count(fromCtl, OneDone(h))

TrueOnceGone(h) ==
  h \notin ctlConn /\ ~Carries(fromCtl, Gone(h)) =>
    /\ ~Carries(fromCtl, OneDone(h)) /\ ~Carries(fromCtl, Connected(h))
    /\ session # "stopped" => outstanding[h] = strays[h]

GoneIsLast(h) ==
  h \notin ctlConn =>
    \A i, k \in DOMAIN fromCtl :
      fromCtl[k] = Gone(h) /\ fromCtl[i] \in {OneDone(h), Connected(h), Gone(h)}
        => i <= k

TrueAccount ==
  \A h \in Handle : TrueWhileUp(h) /\ TrueOnceGone(h) /\ GoneIsLast(h)

-----------------------------------------------------------------------------
(***************************************************************************)
(* How a device's first command makes the account true.                    *)
(***************************************************************************)
Awaited ==
  /\ held # NoCmd => hostCmd = held
  /\ hostCmd # NoCmd =>
       /\ hostCmd.op = IF hostPhase = "fresh" THEN "HCI_Reset"
                                             ELSE "Read_Buffer_Size"
       /\ hostCmd.id <= cmds
  /\ hostPhase = "fresh" => hostConn = {} /\ inUse = {} /\ strays = NoBuffers

ResetUnderWay == hostPhase = "fresh" /\ hostCmd # NoCmd

ResetIsLast ==
  ResetUnderWay =>
    \A i \in DOMAIN toCtl : toCtl[i] = CmdPacket(hostCmd) => i = Len(toCtl)

ResetDone ==
  ResetUnderWay =>
    \A k \in DOMAIN fromCtl : fromCtl[k] = Completion(hostCmd) =>
      /\ toCtl = << >> /\ ~ctlUp /\ ctlConn = {}
      /\ \A j \in DOMAIN fromCtl : j > k => fromCtl[j] = Vendor

ResetSeen ==
  ResetUnderWay /\ Carries(eventFifo, Completion(hostCmd)) =>
    toCtl = << >> /\ TrueAccount

NoReset ==
  \A i \in DOMAIN toCtl : toCtl[i].type = "cmd" => toCtl[i].cmd.op # "HCI_Reset"

AfterReset == hostPhase # "fresh" => TrueAccount /\ NoReset

Life == Awaited /\ ResetIsLast /\ ResetDone /\ ResetSeen /\ AfterReset

-----------------------------------------------------------------------------
(***************************************************************************)
(* The link uses the bridge as HciBridge allows, so that what is proved of *)
(* the bridge holds of it here.                                            *)
(***************************************************************************)
LEMMA BridgeActs ==
  ASSUME LinkTypes, [LinkNext]_vars
  PROVE  [Next]_bridgeVars
<1> USE LinkInputs
<1>1. ASSUME SessionReady PROVE Next
  BY <1>1, ConstantsAssumption DEF SessionReady, Next, Session
<1>2. ASSUME SessionStop PROVE Next
  BY <1>2 DEF SessionStop, Next, Session
<1>3. ASSUME SessionRearm PROVE Next
  BY <1>3 DEF SessionRearm, Next, Session
<1>4. ASSUME ReplaceDevice \/ UsbReset PROVE Next
  BY <1>4 DEF ReplaceDevice, UsbReset, Next, Host
<1>5. ASSUME HostCommand PROVE Next
  <2>1. [op |-> NextOp, id |-> cmds + 1] \in Cmd
    BY <1>5, LinkAssumption DEF HostCommand, LinkTypes, LinkCmd, NextOp
  <2>2. SubmitCommand([op |-> NextOp, id |-> cmds + 1])
    BY <1>5 DEF HostCommand
  <2>3. QED
    BY <2>1, <2>2 DEF Next, Host
<1>6. ASSUME HostReads PROVE Next
  BY <1>6 DEF HostReads, Next, Host
<1>7. ASSUME NEW h \in Handle, HostAcl(h) PROVE Next
  <2>1. PICK wireTakes \in WireOutcome : SubmitAcl(h, wireTakes)
    BY <1>7 DEF HostAcl
  <2>2. wireTakes \in BOOLEAN
    BY DEF WireOutcome
  <2>3. QED
    BY <2>1, <2>2 DEF Next, Host
<1>8. ASSUME CtlStep PROVE UNCHANGED bridgeVars
  BY <1>8 DEF CtlStep, CtlTakesReset, CtlTakesReadBufferSize, CtlTakesAcl,
     CtlChatters, CtlTransmits, CtlConnects, CtlDisconnects, CtlSends
<1>9. ASSUME Deliver PROVE Next
  <2>1. Head(fromCtl) \in Event /\ OnEvent(Head(fromCtl))
    BY <1>9 DEF Deliver, LinkTypes
  <2>2. QED
    BY <2>1 DEF Next, Wire
<1>10. CASE UNCHANGED vars
  BY <1>10 DEF vars
<1>11. QED
  BY <1>1, <1>2, <1>3, <1>4, <1>5, <1>6, <1>7, <1>8, <1>9, <1>10
     DEF LinkNext, SessionStep, HostStep

LEMMA BridgeInvariant ==
  ASSUME IInv, LinkTypes, [LinkNext]_vars
  PROVE  IInv'
BY BridgeActs, QueueStep, CreditStep DEF IInv

-----------------------------------------------------------------------------
(***************************************************************************)
(* The types.                                                              *)
(***************************************************************************)
LEMMA QueueTypes ==
  ASSUME IInv, LinkTypes
  PROVE  /\ held \in LinkCmd \cup {NoCmd}
         /\ eventFifo \in Seq(LinkEvent)
         /\ NoCmd \notin LinkCmd
BY LinkInputs, ConstantsAssumption DEF IInv, QueueInv

LEMMA TypesOfSession ==
  ASSUME IInv, LinkTypes, Idle, SessionStep
  PROVE  LinkTypes'
<1> USE QueueTypes DEF LinkTypes
<1>1. CASE SessionReady
  <2>1. toCtl' \in Seq(CtlPacket)
    <3>1. PICK wireTakes \in WireOutcome :
            toCtl' = IF held # NoCmd /\ wireTakes
                     THEN Append(toCtl, CmdPacket(held)) ELSE toCtl
      BY <1>1 DEF SessionReady
    <3>2. held # NoCmd => CmdPacket(held) \in CtlPacket
      BY DEF CtlPacket
    <3>3. QED
      BY <3>1, <3>2
  <2>2. QED
    BY <1>1, <2>1 DEF SessionReady, BecomeReady, ctlVars, hostVars
<1>2. CASE SessionStop
  BY <1>2 DEF SessionStop, NoBuffers, hostVars
<1>3. CASE SessionRearm
  BY <1>3 DEF SessionRearm, NoBuffers, ctlVars, hostVars
<1>4. CASE ReplaceDevice
  BY <1>4 DEF ReplaceDevice, HostForgets, NoBuffers, ctlVars
<1>5. QED
  BY <1>1, <1>2, <1>3, <1>4 DEF SessionStep

LEMMA TypesOfHost ==
  ASSUME IInv, LinkTypes, Idle, HostStep
  PROVE  LinkTypes'
<1> USE QueueTypes DEF LinkTypes
<1>1. CASE UsbReset
  BY <1>1 DEF UsbReset, HostForgets, NoBuffers, ctlVars
<1>2. CASE HostCommand
  <2> DEFINE c == [op |-> NextOp, id |-> cmds + 1]
  <2>1. c \in LinkCmd /\ cmds' = cmds + 1 /\ cmds < MaxCmds
    BY <1>2, LinkAssumption DEF HostCommand, LinkCmd, NextOp
  <2>2. CmdPacket(c) \in CtlPacket
    BY <2>1 DEF CtlPacket
  <2>3. /\ toCtl' \in {toCtl, Append(toCtl, CmdPacket(c))}
        /\ hostCmd' \in {c, NoCmd}
    BY <1>2 DEF HostCommand
  <2>4. toCtl' \in Seq(CtlPacket)
    <3>1. Append(toCtl, CmdPacket(c)) \in Seq(CtlPacket)
      BY <2>2, AppendTyped
    <3>2. QED
      BY <2>3, <3>1
  <2>5. cmds' \in 0..MaxCmds
    BY <2>1, LinkAssumption
  <2> HIDE DEF c
  <2>6. QED
    BY <1>2, <2>1, <2>3, <2>4, <2>5 DEF HostCommand, ctlVars
<1>3. CASE HostReads
  <2>1. Head(eventFifo) \in LinkEvent
    BY <1>3 DEF HostReads, PopEvent
  <2>2. Head(eventFifo).type = "connected" => Head(eventFifo).handle \in Handle
    BY <2>1, EventsByType
  <2>3. /\ hostPhase' \in {"fresh", "reset", "up"}
        /\ hostCmd' \in LinkCmd \cup {NoCmd} /\ hostConn' \subseteq Handle
    BY <1>3, <2>2 DEF HostReads, HostCompletes, HostSeesConnection,
       HostSeesDisconnection, HostSeesCompleted, hostVars
  <2>4. QED
    BY <1>3, <2>3 DEF HostReads, ctlVars, pastVars
<1>4. ASSUME NEW h \in Handle, HostAcl(h) PROVE LinkTypes'
  <2>1. toCtl' \in {toCtl, Append(toCtl, AclPacket(h))}
    BY <1>4 DEF HostAcl
  <2>2. AclPacket(h) \in CtlPacket
    BY DEF CtlPacket
  <2>3. toCtl' \in Seq(CtlPacket)
    <3>1. Append(toCtl, AclPacket(h)) \in Seq(CtlPacket)
      BY <2>2, AppendTyped
    <3>2. QED
      BY <2>1, <3>1
  <2>4. QED
    BY <1>4, <2>3 DEF HostAcl, ctlVars, pastVars
<1>5. QED
  BY <1>1, <1>2, <1>3, <1>4 DEF HostStep

LEMMA TypesOfCtl ==
  ASSUME IInv, LinkTypes, Idle, CtlStep
  PROVE  LinkTypes'
<1> USE DEF LinkTypes, hostVars, pastVars
<1>1. CASE CtlTakesReset \/ CtlTakesReadBufferSize
  <2>1. Head(toCtl) \in CtlPacket /\ toCtl' = Tail(toCtl) /\ toCtl # << >>
    BY <1>1 DEF CtlTakesReset, CtlTakesReadBufferSize
  <2>2. Head(toCtl).cmd \in LinkCmd
    BY <1>1, <2>1, PacketTypes
       DEF CtlTakesReset, CtlTakesReadBufferSize, CtlPacket
  <2>3. fromCtl' = Append(fromCtl, Completion(Head(toCtl).cmd))
    BY <1>1 DEF CtlTakesReset, CtlTakesReadBufferSize
  <2>4. fromCtl' \in Seq(LinkEvent) /\ toCtl' \in Seq(CtlPacket)
    BY <2>1, <2>2, <2>3, EventsIn
  <2>5. /\ ctlConn' \subseteq Handle /\ ctlBuf' \in [Handle -> Nat]
        /\ \A h \in Handle \ ctlConn' : ctlBuf'[h] = 0
    BY <1>1 DEF CtlTakesReset, CtlTakesReadBufferSize, NoBuffers
  <2>6. QED
    BY <1>1, <2>4, <2>5 DEF CtlTakesReset, CtlTakesReadBufferSize
<1>2. CASE CtlTakesAcl
  BY <1>2 DEF CtlTakesAcl
<1>3. CASE CtlChatters
  BY <1>3, EventsIn DEF CtlChatters, CtlSends
<1>4. ASSUME NEW h \in Handle, CtlTransmits(h) PROVE LinkTypes'
  <2>1. fromCtl' \in Seq(LinkEvent)
    BY <1>4, EventsIn DEF CtlTransmits, CtlSends
  <2>2. /\ ctlBuf' \in [Handle -> Nat]
        /\ \A g \in Handle \ ctlConn : ctlBuf'[g] = 0
    BY <1>4 DEF CtlTransmits
  <2>3. QED
    BY <1>4, <2>1, <2>2 DEF CtlTransmits, CtlSends
<1>5. ASSUME NEW h \in Handle, CtlConnects(h) PROVE LinkTypes'
  BY <1>5, EventsIn DEF CtlConnects, CtlSends
<1>6. ASSUME NEW h \in Handle, CtlDisconnects(h) PROVE LinkTypes'
  BY <1>6, EventsIn DEF CtlDisconnects, CtlSends
<1>7. QED
  BY <1>1, <1>2, <1>3, <1>4, <1>5, <1>6 DEF CtlStep

LEMMA TypesOfDelivery ==
  ASSUME IInv, LinkTypes, Idle, Deliver
  PROVE  LinkTypes'
<1> USE DEF LinkTypes
<1>1. Head(fromCtl) \in LinkEvent /\ fromCtl' \in Seq(LinkEvent)
  BY DEF Deliver
<1>2. Head(fromCtl).type = "connected" => Head(fromCtl).handle \in Handle
  BY <1>1, EventsByType
<1>3. strays' \in [Handle -> Nat]
  BY DEF Deliver
<1>4. QED
  BY <1>1, <1>3 DEF Deliver, ctlVars, hostVars, pastVars

LEMMA TypesStep ==
  ASSUME IInv, LinkTypes, Idle, [LinkNext]_vars
  PROVE  LinkTypes'
<1>1. CASE UNCHANGED vars
  BY <1>1 DEF vars, LinkTypes, ctlVars, hostVars, pastVars
<1>2. QED
  BY <1>1, TypesOfSession, TypesOfHost, TypesOfCtl, TypesOfDelivery
     DEF LinkNext

LEMMA IdleStep ==
  ASSUME IInv, LinkTypes, Idle, [LinkNext]_vars
  PROVE  Idle'
<1> USE DEF Idle, ctlVars, hostVars, pastVars
<1>1. CASE SessionReady
  BY <1>1 DEF SessionReady, BecomeReady
<1>2. CASE SessionStop
  BY <1>2 DEF SessionStop, BecomeUnready
<1>3. CASE SessionRearm
  BY <1>3 DEF SessionRearm, Reinitialise
<1>4. CASE ReplaceDevice \/ UsbReset
  BY <1>4 DEF ReplaceDevice, UsbReset, Reset
<1>5. CASE HostCommand
  BY <1>5 DEF HostCommand, SubmitCommand
<1>6. CASE HostReads
  BY <1>6 DEF HostReads, PopEvent
<1>7. ASSUME NEW h \in Handle, HostAcl(h) PROVE Idle'
  <2>1. ready' = ready /\ (~ready => toCtl' = toCtl)
    BY <1>7 DEF HostAcl, SubmitAcl, AclAdmitted
  <2>2. QED
    BY <1>7, <2>1 DEF HostAcl
<1>8. CASE CtlTakesReset \/ CtlTakesReadBufferSize \/ CtlTakesAcl
  <2>1. session = "serving" /\ UNCHANGED <<session, ready>>
    BY <1>8 DEF CtlTakesReset, CtlTakesReadBufferSize, CtlTakesAcl, bridgeVars
  <2>2. QED
    BY <2>1
<1>9. CASE CtlChatters
  <2>1. fromCtl' = Append(fromCtl, Vendor)
    BY <1>9 DEF CtlChatters, CtlSends
  <2>2. (\A i \in DOMAIN fromCtl : fromCtl[i] = Vendor) =>
          \A i \in DOMAIN fromCtl' : fromCtl'[i] = Vendor
    BY <2>1 DEF LinkTypes
  <2>3. QED
    BY <1>9, <2>2 DEF CtlChatters, CtlSends, bridgeVars
<1>10. ASSUME NEW h \in Handle, CtlTransmits(h) PROVE Idle'
  <2>1. session = "serving" /\ UNCHANGED <<session, ready>>
    BY <1>10 DEF CtlTransmits, CtlSends, bridgeVars, LinkTypes
  <2>2. QED
    BY <2>1
<1>11. ASSUME NEW h \in Handle, CtlConnects(h) \/ CtlDisconnects(h)
       PROVE  Idle'
  <2>1. session = "serving" /\ UNCHANGED <<session, ready>>
    BY <1>11 DEF CtlConnects, CtlDisconnects, CtlSends, bridgeVars
  <2>2. QED
    BY <2>1
<1>12. CASE Deliver
  <2>1. ready' = ready
    BY <1>12 DEF Deliver, OnEvent
  <2>2. CASE session # "serving"
    <3>1. Head(fromCtl) = Vendor
      BY <1>12, <2>2 DEF Deliver, LinkTypes
    <3>3. \A i \in DOMAIN fromCtl' : fromCtl'[i] = Vendor
      BY <1>12, <2>2 DEF Deliver, LinkTypes
    <3>4. QED
      BY <1>12, <2>1, <3>3 DEF Deliver
  <2>3. QED
    BY <1>12, <2>1, <2>2 DEF Deliver
<1>13. CASE UNCHANGED vars
  BY <1>13 DEF vars, bridgeVars
<1>14. QED
  BY <1>1, <1>2, <1>3, <1>4, <1>5, <1>6, <1>7, <1>8, <1>9, <1>10, <1>11,
     <1>12, <1>13 DEF LinkNext, SessionStep, HostStep, CtlStep

-----------------------------------------------------------------------------
(***************************************************************************)
(* Commands stay in order.  Tails and appended packets first.              *)
(***************************************************************************)
LEMMA EmptyInOrder ==
  ASSUME NEW s, NEW n
  PROVE  /\ Ordered(<< >>) /\ UpTo(<< >>, n)
         /\ Before(<< >>, s) /\ Before(s, << >>)
BY DEF Ordered, Before, UpTo

LEMMA TailInOrder ==
  ASSUME NEW S, NEW s \in Seq(S), s # << >>, NEW T, NEW t \in Seq(T), NEW n
  PROVE  /\ Ordered(s) => Ordered(Tail(s))
         /\ UpTo(s, n) => UpTo(Tail(s), n)
         /\ Before(s, t) => Before(Tail(s), t)
         /\ Before(t, s) => Before(t, Tail(s))
<1>1. ASSUME NEW i \in DOMAIN Tail(s)
      PROVE  i \in Nat /\ i + 1 \in DOMAIN s /\ Tail(s)[i] = s[i + 1]
  OBVIOUS
<1>2. Ordered(s) => Ordered(Tail(s))
  BY <1>1 DEF Ordered
<1>3. UpTo(s, n) => UpTo(Tail(s), n)
  BY <1>1 DEF UpTo
<1>4. QED
  BY <1>1, <1>2, <1>3 DEF Before

\* The same of one packet: all of s is before x, and x is before all of t.
AllBefore(s, x) ==
  \A i \in DOMAIN s : Issued(s[i]) /\ Issued(x) => IdOf(s[i]) < IdOf(x)

BeforeAll(x, t) ==
  \A i \in DOMAIN t : Issued(x) /\ Issued(t[i]) => IdOf(x) < IdOf(t[i])

AtMost(x, n) == Issued(x) => IdOf(x) <= n

LEMMA HeadInOrder ==
  ASSUME NEW S, NEW s \in Seq(S), s # << >>, NEW t, NEW n
  PROVE  /\ UpTo(s, n) => AtMost(Head(s), n)
         /\ Ordered(s) => BeforeAll(Head(s), Tail(s))
         /\ Before(s, t) => BeforeAll(Head(s), t)
         /\ Before(t, s) => AllBefore(t, Head(s))
<1>1. 1 \in DOMAIN s /\ Head(s) = s[1]
  OBVIOUS
<1>2. ASSUME NEW i \in DOMAIN Tail(s)
      PROVE  i + 1 \in DOMAIN s /\ Tail(s)[i] = s[i + 1] /\ 1 < i + 1
  OBVIOUS
<1>3. Ordered(s) => BeforeAll(Head(s), Tail(s))
  BY <1>1, <1>2 DEF Ordered, BeforeAll
<1>4. QED
  BY <1>1, <1>3 DEF UpTo, AtMost, Before, BeforeAll, AllBefore

LEMMA AppendInOrder ==
  ASSUME NEW S, NEW s \in Seq(S), NEW t, NEW n, NEW x
  PROVE  /\ UpTo(s, n) /\ AtMost(x, n) => UpTo(Append(s, x), n)
         /\ Before(t, s) /\ AllBefore(t, x) => Before(t, Append(s, x))
         /\ Before(s, t) /\ BeforeAll(x, t) => Before(Append(s, x), t)
         /\ Ordered(s) /\ AllBefore(s, x) => Ordered(Append(s, x))
<1> DEFINE n1 == Len(s) + 1
<1>1. /\ DOMAIN Append(s, x) = DOMAIN s \cup {n1} /\ Append(s, x)[n1] = x
      /\ \A i \in DOMAIN s : Append(s, x)[i] = s[i] /\ i \in Int /\ i < n1
      /\ n1 \in Int
  OBVIOUS
<1> HIDE DEF n1
<1>2. UpTo(s, n) /\ AtMost(x, n) => UpTo(Append(s, x), n)
  BY <1>1 DEF UpTo, AtMost
<1>3. Before(t, s) /\ AllBefore(t, x) => Before(t, Append(s, x))
  BY <1>1 DEF Before, AllBefore
<1>4. Before(s, t) /\ BeforeAll(x, t) => Before(Append(s, x), t)
  BY <1>1 DEF Before, BeforeAll
<1>5. Ordered(s) /\ AllBefore(s, x) => Ordered(Append(s, x))
  BY <1>1 DEF Ordered, AllBefore
<1>6. QED
  BY <1>2, <1>3, <1>4, <1>5

\* A packet that answers nothing fits anywhere.
LEMMA UnissuedInOrder ==
  ASSUME NEW x, ~Issued(x), NEW s, NEW n
  PROVE  AllBefore(s, x) /\ BeforeAll(x, s) /\ AtMost(x, n)
BY DEF AllBefore, BeforeAll, AtMost

\* A completion takes the place of its command.
LEMMA SamePlace ==
  ASSUME NEW x, NEW y, Issued(x), Issued(y), IdOf(x) = IdOf(y), NEW s, NEW n
  PROVE  /\ AllBefore(s, x) => AllBefore(s, y)
         /\ BeforeAll(x, s) => BeforeAll(y, s)
         /\ AtMost(x, n) => AtMost(y, n)
BY DEF AllBefore, BeforeAll, AtMost

\* What is up to n is before the packet n + 1.
LEMMA NextInOrder ==
  ASSUME NEW s, NEW n \in Int, NEW x, Issued(x), IdOf(x) = n + 1, UpTo(s, n),
         \A i \in DOMAIN s : Issued(s[i]) => IdOf(s[i]) \in Int
  PROVE  AllBefore(s, x) /\ UpTo(s, n + 1)
BY DEF AllBefore, UpTo

LEMMA IdsAreNumbers ==
  ASSUME IInv, LinkTypes
  PROVE  /\ \A i \in DOMAIN eventFifo :
              Issued(eventFifo[i]) => IdOf(eventFifo[i]) \in Nat
         /\ \A i \in DOMAIN fromCtl :
              Issued(fromCtl[i]) => IdOf(fromCtl[i]) \in Nat
         /\ \A i \in DOMAIN toCtl :
              Issued(toCtl[i]) => IdOf(toCtl[i]) \in Nat
<1>1. ASSUME NEW e \in LinkEvent, Issued(e) PROVE IdOf(e) \in Nat
  <2>1. e.type # "cmd" /\ IsCompletion(e)
    BY <1>1, EventsByType DEF Issued
  <2>2. PICK c \in LinkCmd : e = Completion(c)
    BY <2>1, EventsAre, PacketTypes DEF IsCompletion
  <2>3. e.id = c.id /\ c.id \in Nat
    BY <2>2, PacketTypes, LinkAssumption DEF LinkCmd
  <2>4. QED
    BY <2>1, <2>3 DEF IdOf
<1>2. ASSUME NEW p \in CtlPacket, Issued(p) PROVE IdOf(p) \in Nat
  BY <1>2, PacketTypes, LinkAssumption
     DEF CtlPacket, LinkCmd, Issued, IsCompletion, IdOf
<1>3. QED
  BY <1>1, <1>2, QueueTypes DEF LinkTypes

\* Acl packets, and events that answer nothing, are not in the order.
LEMMA NotIssued ==
  /\ ~Issued(Vendor)
  /\ \A h : /\ ~Issued(AclPacket(h)) /\ ~Issued(Connected(h))
            /\ ~Issued(Gone(h)) /\ ~Issued(OneDone(h))
BY PacketTypes DEF Issued, IsCompletion

LEMMA IdOfPacket ==
  \A c : /\ Issued(CmdPacket(c)) /\ IdOf(CmdPacket(c)) = c.id
         /\ Issued(Completion(c)) /\ IdOf(Completion(c)) = c.id
BY PacketTypes DEF Issued, IsCompletion, IdOf

LEMMA OrderOfSession ==
  ASSUME IInv, LinkTypes, InOrder, SessionStep \/ UsbReset
  PROVE  InOrder'
<1> USE QueueTypes, EmptyInOrder DEF LinkTypes
<1>1. CASE SessionReady
  <2>1. /\ held' = NoCmd /\ UNCHANGED <<eventFifo, fromCtl, cmds>>
        /\ toCtl' # toCtl => held # NoCmd /\ toCtl' = Append(toCtl, CmdPacket(held))
    BY <1>1 DEF SessionReady, BecomeReady
  <2>2. CASE toCtl' = toCtl
    BY <2>1, <2>2 DEF InOrder
  <2>3. CASE toCtl' # toCtl
    <3> DEFINE x == CmdPacket(held)
    <3>1. Issued(x) /\ IdOf(x) = held.id
      BY IdOfPacket
    <3>2. held.id \in Int /\ held.id - 1 \in Int /\ held.id = (held.id - 1) + 1
      BY <2>1, <2>3, LinkAssumption DEF LinkCmd
    <3>3. /\ UpTo(eventFifo, held.id - 1) /\ UpTo(fromCtl, held.id - 1)
          /\ UpTo(toCtl, held.id - 1) /\ held.id <= cmds
      BY <2>1, <2>3 DEF InOrder
    <3>4. toCtl' = Append(toCtl, x)
      BY <2>1, <2>3
    <3> HIDE DEF x
    <3>5. AllBefore(eventFifo, x)
      BY <3>1, <3>2, <3>3, NextInOrder, IdsAreNumbers
    <3>6. AllBefore(fromCtl, x)
      BY <3>1, <3>2, <3>3, NextInOrder, IdsAreNumbers
    <3>7. AllBefore(toCtl, x)
      BY <3>1, <3>2, <3>3, NextInOrder, IdsAreNumbers
    <3>8. AtMost(x, cmds)
      BY <3>1, <3>3 DEF AtMost
    <3>9. Ordered(Append(toCtl, x)) /\ UpTo(Append(toCtl, x), cmds)
      BY <3>7, <3>8, AppendInOrder DEF InOrder
    <3>10. Before(eventFifo, Append(toCtl, x))
      BY <3>5, AppendInOrder DEF InOrder
    <3>11. Before(fromCtl, Append(toCtl, x))
      BY <3>6, AppendInOrder DEF InOrder
    <3>12. QED
      BY <2>1, <3>4, <3>9, <3>10, <3>11 DEF InOrder
  <2>4. QED
    BY <2>2, <2>3
<1>2. CASE SessionStop
  <2>1. /\ toCtl' = << >> /\ fromCtl' = << >>
        /\ UNCHANGED <<eventFifo, held, cmds>>
    BY <1>2 DEF SessionStop, BecomeUnready
  <2>2. QED
    BY <2>1 DEF InOrder
<1>3. CASE SessionRearm
  <2>1. held' = NoCmd /\ eventFifo' = << >> /\ UNCHANGED <<fromCtl, toCtl, cmds>>
    BY <1>3 DEF SessionRearm, Reinitialise
  <2>2. QED
    BY <2>1 DEF InOrder
<1>4. CASE ReplaceDevice \/ UsbReset
  <2>1. held' = NoCmd /\ eventFifo' = << >> /\ UNCHANGED <<fromCtl, toCtl, cmds>>
    BY <1>4 DEF ReplaceDevice, UsbReset, Reset
  <2>2. QED
    BY <2>1 DEF InOrder
<1>5. QED
  BY <1>1, <1>2, <1>3, <1>4 DEF SessionStep

LEMMA OrderOfHost ==
  ASSUME IInv, LinkTypes, InOrder,
         HostCommand \/ HostReads \/ \E h \in Handle : HostAcl(h)
  PROVE  InOrder'
<1> USE QueueTypes DEF LinkTypes
<1>1. CASE HostCommand
  <2> DEFINE c == [op |-> NextOp, id |-> cmds + 1]
             x == CmdPacket(c)
  <2>1. /\ UNCHANGED <<eventFifo, fromCtl>> /\ cmds' = cmds + 1
        /\ held' = IF ready THEN held ELSE c
        /\ toCtl' # toCtl => ready /\ toCtl' = Append(toCtl, x)
    BY <1>1 DEF HostCommand, SubmitCommand
  <2>2. Issued(x) /\ IdOf(x) = cmds + 1 /\ c.id = cmds + 1
    BY IdOfPacket
  <2>3. cmds \in Int /\ cmds + 1 - 1 = cmds /\ cmds + 1 <= cmds + 1
    OBVIOUS
  <2> HIDE DEF c, x
  <2>4. AllBefore(eventFifo, x) /\ UpTo(eventFifo, cmds + 1)
    <3>1. UpTo(eventFifo, cmds)
      BY DEF InOrder
    <3>2. \A i \in DOMAIN eventFifo : Issued(eventFifo[i]) => IdOf(eventFifo[i]) \in Int
      BY IdsAreNumbers
    <3>3. QED
      BY <2>2, <2>3, <3>1, <3>2, NextInOrder
  <2>5. AllBefore(fromCtl, x) /\ UpTo(fromCtl, cmds + 1)
    <3>1. UpTo(fromCtl, cmds)
      BY DEF InOrder
    <3>2. \A i \in DOMAIN fromCtl : Issued(fromCtl[i]) => IdOf(fromCtl[i]) \in Int
      BY IdsAreNumbers
    <3>3. QED
      BY <2>2, <2>3, <3>1, <3>2, NextInOrder
  <2>6. AllBefore(toCtl, x) /\ UpTo(toCtl, cmds + 1)
    <3>1. UpTo(toCtl, cmds)
      BY DEF InOrder
    <3>2. \A i \in DOMAIN toCtl : Issued(toCtl[i]) => IdOf(toCtl[i]) \in Int
      BY IdsAreNumbers
    <3>3. QED
      BY <2>2, <2>3, <3>1, <3>2, NextInOrder
  <2>7. CASE ready
    <3>1. held = NoCmd /\ held' = NoCmd
      BY <2>1, <2>7 DEF IInv, QueueInv, HeldOnlyUnready
    <3>2. CASE toCtl' = toCtl
      BY <2>1, <2>4, <2>5, <2>6, <3>1, <3>2 DEF InOrder
    <3>3. CASE toCtl' # toCtl
      <4>1. Ordered(Append(toCtl, x))
        BY <2>6, AppendInOrder DEF InOrder
      <4>2. UpTo(Append(toCtl, x), cmds + 1)
        BY <2>2, <2>3, <2>6, AppendInOrder DEF AtMost
      <4>3. Before(eventFifo, Append(toCtl, x))
        BY <2>4, AppendInOrder DEF InOrder
      <4>4. Before(fromCtl, Append(toCtl, x))
        BY <2>5, AppendInOrder DEF InOrder
      <4>5. toCtl' = Append(toCtl, x)
        BY <2>1, <3>3
      <4>6. QED
        BY <2>1, <2>4, <2>5, <3>1, <4>1, <4>2, <4>3, <4>4, <4>5 DEF InOrder
    <3>4. QED
      BY <3>2, <3>3
  <2>8. CASE ~ready
    <3>1. toCtl' = toCtl /\ held' = c
      BY <2>1, <2>8
    <3>2. UpTo(eventFifo, c.id - 1) /\ UpTo(fromCtl, c.id - 1) /\ UpTo(toCtl, c.id - 1)
      BY <2>2, <2>3 DEF InOrder
    <3>3. c.id <= cmds'
      BY <2>1, <2>2, <2>3
    <3>4. QED
      BY <2>1, <2>4, <2>5, <2>6, <3>1, <3>2, <3>3 DEF InOrder
  <2>9. QED
    BY <2>7, <2>8
<1>2. CASE HostReads
  <2>1. /\ eventFifo # << >> /\ eventFifo' = Tail(eventFifo)
        /\ UNCHANGED <<held, fromCtl, toCtl, cmds>>
    BY <1>2 DEF HostReads, PopEvent, pastVars
  <2>2. QED
    BY <2>1, TailInOrder DEF InOrder
<1>3. ASSUME NEW h \in Handle, HostAcl(h) PROVE InOrder'
  <2> DEFINE x == AclPacket(h)
  <2>1. /\ UNCHANGED <<eventFifo, fromCtl, held, cmds>>
        /\ toCtl' # toCtl => toCtl' = Append(toCtl, x)
    BY <1>3 DEF HostAcl, SubmitAcl, pastVars
  <2>2. CASE toCtl' = toCtl
    BY <2>1, <2>2 DEF InOrder
  <2>3. CASE toCtl' # toCtl
    <3>1. ~Issued(x)
      BY NotIssued
    <3>2. toCtl' = Append(toCtl, x)
      BY <2>1, <2>3
    <3> HIDE DEF x
    <3>3. \A s, n : AllBefore(s, x) /\ AtMost(x, n)
      BY <3>1, UnissuedInOrder
    <3>4. Ordered(toCtl') /\ \A n : UpTo(toCtl, n) => UpTo(toCtl', n)
      BY <3>2, <3>3, AppendInOrder DEF InOrder
    <3>5. Before(eventFifo, toCtl') /\ Before(fromCtl, toCtl')
      BY <3>2, <3>3, AppendInOrder DEF InOrder
    <3>6. QED
      BY <2>1, <3>4, <3>5 DEF InOrder
  <2>4. QED
    BY <2>2, <2>3
<1>4. QED
  BY <1>1, <1>2, <1>3

LEMMA OrderOfCtl ==
  ASSUME IInv, LinkTypes, InOrder, CtlStep
  PROVE  InOrder'
<1> USE QueueTypes DEF LinkTypes
<1>1. UNCHANGED <<eventFifo, held, cmds>>
  BY DEF CtlStep, CtlTakesReset, CtlTakesReadBufferSize, CtlTakesAcl,
     CtlChatters, CtlTransmits, CtlConnects, CtlDisconnects, CtlSends,
     bridgeVars, pastVars
<1>2. CASE CtlTakesReset \/ CtlTakesReadBufferSize
  <2> DEFINE p == Head(toCtl)
             x == Completion(p.cmd)
  <2>1. /\ toCtl # << >> /\ toCtl' = Tail(toCtl) /\ fromCtl' = Append(fromCtl, x)
        /\ p.type = "cmd"
    BY <1>2 DEF CtlTakesReset, CtlTakesReadBufferSize
  <2>2. p \in CtlPacket
    BY <2>1
  <2>3. PICK c \in LinkCmd : p = CmdPacket(c)
    BY <2>1, <2>2, PacketTypes DEF CtlPacket
  <2>4. x = Completion(c)
    BY <2>3, PacketTypes
  <2>5. Issued(p) /\ Issued(x) /\ IdOf(p) = IdOf(x)
    BY <2>3, <2>4, IdOfPacket
  <2> HIDE DEF x
  <2>6. Tail(toCtl) \in Seq(CtlPacket)
    BY <2>1
  <2>7. /\ Ordered(Tail(toCtl)) /\ Before(eventFifo, Tail(toCtl))
        /\ Before(fromCtl, Tail(toCtl))
        /\ \A n : UpTo(toCtl, n) => UpTo(Tail(toCtl), n)
    BY <2>1, TailInOrder DEF InOrder
  <2>8. /\ BeforeAll(p, Tail(toCtl)) /\ AllBefore(fromCtl, p)
        /\ AllBefore(eventFifo, p) /\ \A n : UpTo(toCtl, n) => AtMost(p, n)
    BY <2>1, HeadInOrder DEF InOrder
  <2> HIDE DEF p
  <2>9. /\ BeforeAll(x, Tail(toCtl)) /\ AllBefore(fromCtl, x)
        /\ AllBefore(eventFifo, x) /\ \A n : UpTo(toCtl, n) => AtMost(x, n)
    BY <2>5, <2>8, SamePlace
  <2>10. Ordered(Append(fromCtl, x))
    BY <2>9, AppendInOrder DEF InOrder
  <2>11. Before(eventFifo, Append(fromCtl, x))
    BY <2>9, AppendInOrder DEF InOrder
  <2>12. Before(Append(fromCtl, x), Tail(toCtl))
    BY <2>7, <2>9, AppendInOrder
  <2>13. \A n : UpTo(fromCtl, n) /\ UpTo(toCtl, n) => UpTo(Append(fromCtl, x), n)
    BY <2>9, AppendInOrder
  <2>14. QED
    BY <1>1, <2>1, <2>7, <2>10, <2>11, <2>12, <2>13 DEF InOrder
<1>3. CASE CtlTakesAcl
  <2>1. toCtl # << >> /\ toCtl' = Tail(toCtl) /\ fromCtl' = fromCtl
    BY <1>3 DEF CtlTakesAcl
  <2>2. QED
    BY <1>1, <2>1, TailInOrder DEF InOrder
<1>4. ASSUME NEW e, ~Issued(e), CtlSends(e) PROVE InOrder'
  <2>1. toCtl' = toCtl /\ fromCtl' = Append(fromCtl, e)
    BY <1>4 DEF CtlSends
  <2>2. \A s, n : AllBefore(s, e) /\ BeforeAll(e, s) /\ AtMost(e, n)
    BY <1>4, UnissuedInOrder
  <2>3. Ordered(fromCtl') /\ \A n : UpTo(fromCtl, n) => UpTo(fromCtl', n)
    BY <2>1, <2>2, AppendInOrder DEF InOrder
  <2>4. Before(eventFifo, fromCtl')
    BY <2>1, <2>2, AppendInOrder DEF InOrder
  <2>5. Before(fromCtl', toCtl)
    BY <2>1, <2>2, AppendInOrder DEF InOrder
  <2>6. QED
    BY <1>1, <2>1, <2>3, <2>4, <2>5 DEF InOrder
<1>5. QED
  BY <1>2, <1>3, <1>4, NotIssued
     DEF CtlStep, CtlChatters, CtlTransmits, CtlConnects, CtlDisconnects

LEMMA OrderOfDelivery ==
  ASSUME IInv, LinkTypes, InOrder, Deliver
  PROVE  InOrder'
<1> USE QueueTypes DEF LinkTypes
<1> DEFINE e == Head(fromCtl)
<1>1. /\ fromCtl # << >> /\ fromCtl' = Tail(fromCtl) /\ e \in LinkEvent
      /\ UNCHANGED <<held, toCtl, cmds>>
      /\ eventFifo' # eventFifo => eventFifo' = Append(eventFifo, e)
  BY DEF Deliver, OnEvent, pastVars
<1>2. /\ Ordered(Tail(fromCtl)) /\ Before(eventFifo, Tail(fromCtl))
      /\ Before(Tail(fromCtl), toCtl)
      /\ \A n : UpTo(fromCtl, n) => UpTo(Tail(fromCtl), n)
  BY <1>1, TailInOrder DEF InOrder
<1>3. CASE eventFifo' = eventFifo
  BY <1>1, <1>2, <1>3 DEF InOrder
<1>4. CASE eventFifo' # eventFifo
  <2>1. /\ BeforeAll(e, Tail(fromCtl)) /\ BeforeAll(e, toCtl)
        /\ AllBefore(eventFifo, e) /\ \A n : UpTo(fromCtl, n) => AtMost(e, n)
    BY <1>1, HeadInOrder DEF InOrder
  <2> HIDE DEF e
  <2>2. Ordered(Append(eventFifo, e))
    BY <2>1, AppendInOrder DEF InOrder
  <2>3. Before(Append(eventFifo, e), Tail(fromCtl))
    BY <1>2, <2>1, AppendInOrder
  <2>4. Before(Append(eventFifo, e), toCtl)
    BY <2>1, AppendInOrder DEF InOrder
  <2>5. \A n : UpTo(eventFifo, n) /\ UpTo(fromCtl, n) => UpTo(Append(eventFifo, e), n)
    BY <2>1, AppendInOrder
  <2>6. eventFifo' = Append(eventFifo, e)
    BY <1>1, <1>4
  <2>7. QED
    BY <1>1, <1>2, <2>2, <2>3, <2>4, <2>5, <2>6 DEF InOrder
<1>5. QED
  BY <1>3, <1>4

LEMMA OrderStep ==
  ASSUME IInv, LinkTypes, InOrder, [LinkNext]_vars
  PROVE  InOrder'
<1>1. CASE UNCHANGED vars
  BY <1>1 DEF vars, bridgeVars, pastVars, InOrder
<1>2. QED
  BY <1>1, OrderOfSession, OrderOfHost, OrderOfCtl, OrderOfDelivery
     DEF LinkNext, HostStep

\* The parts of the pipeline in order are the pipeline in order.
LEMMA ConcatInOrder ==
  ASSUME NEW S, NEW s \in Seq(S), NEW t \in Seq(S), NEW u,
         Ordered(s), Ordered(t), Before(s, t)
  PROVE  /\ s \o t \in Seq(S) /\ Ordered(s \o t)
         /\ Before(s, u) /\ Before(t, u) => Before(s \o t, u)
<1>1. /\ s \o t \in Seq(S)
      /\ \A i \in DOMAIN (s \o t) :
           /\ i \in Int
           /\ \/ i \in DOMAIN s /\ (s \o t)[i] = s[i]
              \/ /\ i \notin DOMAIN s /\ i - Len(s) \in DOMAIN t
                 /\ (s \o t)[i] = t[i - Len(s)]
  OBVIOUS
<1>2. \A i \in DOMAIN s : i \in 1..Len(s) /\ Len(s) \in Nat
  OBVIOUS
<1>3. Before(s, u) /\ Before(t, u) => Before(s \o t, u)
  BY <1>1 DEF Before
<1>4. ASSUME NEW i \in DOMAIN (s \o t), NEW j \in DOMAIN (s \o t), i < j,
             Issued((s \o t)[i]), Issued((s \o t)[j])
      PROVE  IdOf((s \o t)[i]) < IdOf((s \o t)[j])
  <2>1. CASE i \in DOMAIN s /\ j \in DOMAIN s
    <3>1. (s \o t)[i] = s[i] /\ (s \o t)[j] = s[j]
      BY <1>1, <2>1
    <3>2. QED
      BY <1>4, <2>1, <3>1 DEF Ordered
  <2>2. CASE i \in DOMAIN s /\ j \notin DOMAIN s
    <3>1. /\ (s \o t)[i] = s[i] /\ (s \o t)[j] = t[j - Len(s)]
          /\ j - Len(s) \in DOMAIN t
      BY <1>1, <2>2
    <3>2. QED
      BY <1>4, <2>2, <3>1 DEF Before
  <2>3. CASE i \notin DOMAIN s /\ j \notin DOMAIN s
    <3>1. /\ (s \o t)[i] = t[i - Len(s)] /\ (s \o t)[j] = t[j - Len(s)]
          /\ i - Len(s) \in DOMAIN t /\ j - Len(s) \in DOMAIN t
          /\ i - Len(s) < j - Len(s)
      BY <1>1, <1>4, <2>3
    <3>2. QED
      BY <1>4, <3>1 DEF Ordered
  <2>4. i \notin DOMAIN s => j \notin DOMAIN s
    BY <1>1, <1>2, <1>4
  <2>5. QED
    BY <2>1, <2>2, <2>3, <2>4
<1>5. Ordered(s \o t)
  BY <1>4 DEF Ordered
<1>6. QED
  BY <1>1, <1>3, <1>5

LEMMA OrderOfPipeline ==
  ASSUME IInv, LinkTypes, InOrder
  PROVE  CommandsInOrder
<1> DEFINE h == IF held = NoCmd THEN << >> ELSE <<CmdPacket(held)>>
           S == LinkEvent \cup CtlPacket
<1>1. /\ eventFifo \in Seq(S) /\ fromCtl \in Seq(S) /\ toCtl \in Seq(S)
  BY QueueTypes DEF LinkTypes
<1>2. h \in Seq(S) /\ Ordered(h)
  <2>1. CASE held = NoCmd
    BY <2>1, EmptyInOrder
  <2>2. CASE held # NoCmd
    <3>1. CmdPacket(held) \in S
      BY <2>2, QueueTypes DEF CtlPacket
    <3> HIDE DEF S
    <3>2. h = <<CmdPacket(held)>>
      BY <2>2
    <3>3. <<CmdPacket(held)>> \in Seq(S)
      BY <3>1
    <3>4. \A i, j \in DOMAIN <<CmdPacket(held)>> : ~(i < j)
      OBVIOUS
    <3>5. QED
      BY <3>2, <3>3, <3>4 DEF Ordered
  <2>3. QED
    BY <2>1, <2>2
<1>3. ASSUME NEW s, held # NoCmd => UpTo(s, held.id - 1),
             \A i \in DOMAIN s : Issued(s[i]) => IdOf(s[i]) \in Nat
      PROVE  Before(s, h)
  <2>1. CASE held = NoCmd
    BY <2>1, EmptyInOrder
  <2>2. CASE held # NoCmd
    <3>1. held.id \in Int
      BY <2>2, QueueTypes, LinkAssumption DEF LinkCmd
    <3>2. \A i \in DOMAIN h : h[i] = CmdPacket(held)
      BY <2>2
    <3>3. IdOf(CmdPacket(held)) = held.id
      BY IdOfPacket
    <3>4. \A i \in DOMAIN s : Issued(s[i]) => IdOf(s[i]) < held.id
      BY <1>3, <2>2, <3>1 DEF UpTo
    <3>5. QED
      BY <3>2, <3>3, <3>4 DEF Before
  <2>3. QED
    BY <2>1, <2>2
<1>4. Before(eventFifo, h)
  BY <1>3, IdsAreNumbers DEF InOrder
<1>5. Before(fromCtl, h)
  BY <1>3, IdsAreNumbers DEF InOrder
<1>6. Before(toCtl, h)
  BY <1>3, IdsAreNumbers DEF InOrder
<1> DEFINE two == eventFifo \o fromCtl
           three == two \o toCtl
<1>7. Pipeline = three \o h
  BY DEF Pipeline
<1> HIDE DEF h, S
<1>8. two \in Seq(S) /\ Ordered(two) /\ Before(two, toCtl) /\ Before(two, h)
  BY <1>1, <1>4, <1>5, ConcatInOrder DEF InOrder
<1> HIDE DEF two
<1>9. three \in Seq(S) /\ Ordered(three) /\ Before(three, h)
  BY <1>1, <1>6, <1>8, ConcatInOrder DEF InOrder
<1> HIDE DEF three
<1>10. Ordered(three \o h)
  BY <1>2, <1>9, ConcatInOrder
<1>11. QED
  BY <1>7, <1>10 DEF CommandsInOrder, Ordered

-----------------------------------------------------------------------------
(***************************************************************************)
(* The credits and the packets in flight always add up to the controller's *)
(* buffers.                                                                *)
(***************************************************************************)
LEMMA InFlightWithout ==
  ASSUME NEW used \in SUBSET Handle, NEW out \in [Handle -> U16],
         NEW h \in used
  PROVE  InFlight(used, out) =
           InFlight(used \ {h}, [out EXCEPT ![h] = 0]) + out[h]
<1> DEFINE A == InFlightPackets(used \ {h}, [out EXCEPT ![h] = 0])
           B == InFlightPackets(used, out)
           C == {h} \X (1..out[h])
<1>1. out[h] \in Nat /\ out[h] <= U16Max /\ U16Max \in Nat
  BY ConstantsAssumption DEF U16
<1>2. B = A \cup C
  <2>1. ASSUME NEW g \in used, NEW n \in 1..U16Max
        PROVE  <<g, n>> \in B <=> <<g, n>> \in A \/ <<g, n>> \in C
    BY <1>1 DEF InFlightPackets
  <2>2. /\ B \subseteq used \X (1..U16Max) /\ A \subseteq used \X (1..U16Max)
        /\ C \subseteq used \X (1..U16Max)
    BY <1>1 DEF InFlightPackets
  <2> HIDE DEF A, B, C
  <2>3. \A p \in used \X (1..U16Max) : \E g \in used, n \in 1..U16Max : p = <<g, n>>
    OBVIOUS
  <2>4. QED
    BY <2>1, <2>2, <2>3
<1>3. A \cap C = {}
  BY DEF InFlightPackets
<1>4. IsFiniteSet(C) /\ Cardinality(C) = out[h]
  <2>1. IsFiniteSet({h}) /\ Cardinality({h}) = 1
    BY FS_Singleton
  <2>2. PICK n \in Nat : n = out[h]
    BY <1>1
  <2>3. IsFiniteSet(1..n) /\ Cardinality(1..n) = n
    BY FS_Interval
  <2>4. /\ IsFiniteSet({h} \X (1..n))
        /\ Cardinality({h} \X (1..n)) = Cardinality({h}) * Cardinality(1..n)
    BY <2>1, <2>3, FS_Product
  <2>5. QED
    BY <2>1, <2>2, <2>3, <2>4
<1>5. IsFiniteSet(A) /\ Cardinality(A) \in Nat
  BY InFlightType, FS_CardinalityType
<1> HIDE DEF A, B, C
<1>6. Cardinality(B) = Cardinality(A) + out[h]
  <2>1. Cardinality(B) = Cardinality(A) + Cardinality(C) - Cardinality(A \cap C)
    BY <1>2, <1>4, <1>5, FS_Union
  <2>2. QED
    BY <1>1, <1>3, <1>4, <1>5, <2>1, FS_EmptySet
<1>7. QED
  BY <1>6 DEF InFlight, A, B

LEMMA InFlightOfNothing ==
  ASSUME NEW used \in SUBSET Handle, NEW out \in [Handle -> U16],
         \A h \in used : out[h] = 0
  PROVE  InFlight(used, out) = 0
<1>1. InFlightPackets(used, out) = {}
  BY DEF InFlightPackets
<1>2. QED
  BY <1>1, FS_EmptySet DEF InFlight

\* An exact sum is left alone by the clamp.
LEMMA ClampOfExactSum ==
  ASSUME NEW total \in U16, NEW flying \in Nat, NEW avail \in Nat,
         avail + flying = total
  PROVE  ClampCredits(Wrap(avail), total, Wrap(flying)) = avail
<1>1. avail \in U16 /\ flying \in U16
  BY ConstantsAssumption DEF U16
<1>2. Wrap(avail) = avail /\ Wrap(flying) = flying
  BY <1>1, WrapFits DEF U16
<1>3. QED
  BY <1>2 DEF ClampCredits, Lesser, U16

LEMMA BalancedAfter ==
  ASSUME CreditInv, Balanced, NEW e \in LinkEvent, Snoop(e)
  PROVE  /\ Balanced'
         /\ e.type = "bufferSize" => outstanding' = outstanding
         /\ inUse' \subseteq inUse
<1> USE DEF CreditInv, CreditTypeOK
<1> DEFINE flying == InFlight(inUse, outstanding)
<1>1. /\ flying \in Nat /\ availAcl \in Nat /\ totalAcl \in U16 /\ totalAcl \in Nat
      /\ AclBuffers \in U16 /\ AclBuffers # 0 /\ U16Max \in Nat
  BY InFlightType, LinkAssumption, ConstantsAssumption DEF U16
<1>2. CASE e.type = "bufferSize" /\ LearnBufferSize(e.total)
  <2>1. e.total = AclBuffers
    BY <1>2, EventsByType
  <2>2. CASE totalAcl = 0
    <3>1. /\ totalAcl' = AclBuffers /\ inUse' = {} /\ outstanding' = NoneOutstanding
          /\ availAcl' = ClampCredits(AclBuffers, AclBuffers,
                                      TotalInFlight(inUse', outstanding'))
      BY <1>2, <2>1, <2>2 DEF LearnBufferSize
    <3>2. InFlight(inUse', outstanding') = 0
      BY <3>1, InFlightOfEmptyTable
    <3>3. availAcl' = AclBuffers
      <4>1. Wrap(AclBuffers) = AclBuffers
        BY <1>1, WrapFits DEF U16
      <4>2. ClampCredits(Wrap(AclBuffers), AclBuffers, Wrap(0)) = AclBuffers
        <5>1. AclBuffers \in Nat /\ AclBuffers + 0 = AclBuffers
          BY <1>1 DEF U16
        <5>2. QED
          BY <1>1, <5>1, ClampOfExactSum
      <4>3. QED
        BY <3>1, <3>2, <4>1, <4>2 DEF TotalInFlight
    <3>4. outstanding = NoneOutstanding
      <4>1. flying = 0
        BY <1>1, <2>2 DEF Balanced
      <4>2. ASSUME NEW h \in Handle PROVE outstanding[h] = 0
        <5>1. h \in inUse => outstanding[h] <= flying
          BY OutstandingIsInFlight
        <5>2. outstanding[h] \in Nat
          BY DEF U16
        <5>3. QED
          BY <4>1, <5>1, <5>2 DEF NoWrap
      <4>3. QED
        BY <4>2 DEF NoneOutstanding
    <3>5. QED
      BY <1>1, <3>1, <3>2, <3>3, <3>4 DEF Balanced
  <2>3. CASE totalAcl # 0
    <3>1. /\ totalAcl' = AclBuffers /\ totalAcl = AclBuffers
          /\ inUse' = inUse /\ outstanding' = outstanding
          /\ availAcl' = ClampCredits(availAcl, AclBuffers, Wrap(flying))
      BY <1>2, <2>1, <2>3 DEF LearnBufferSize, Balanced, TotalInFlight
    <3>2. Wrap(availAcl) = availAcl
      BY WrapFits DEF U16
    <3>3. availAcl' = availAcl
      BY <1>1, <3>1, <3>2, ClampOfExactSum DEF Balanced
    <3>4. QED
      BY <3>1, <3>3 DEF Balanced
  <2>4. QED
    BY <2>2, <2>3
<1>3. CASE e.type = "completed" /\ RecordAclCompleted(e.done)
  <2>1. PICK g \in Handle : e = OneDone(g)
    BY <1>3, EventsByType
  <2>2. \A h \in Handle : e.done[h] \in {0, 1}
    BY <2>1, PacketTypes
  <2>3. ASSUME NEW h \in Handle
        PROVE  /\ Actual(h, e.done) \in 0..outstanding[h]
               /\ e.done[h] = 0 => Actual(h, e.done) = 0
               /\ h \notin inUse => Actual(h, e.done) = 0
    BY <2>2 DEF Actual, Lesser, U16
  <2>4. /\ outstanding' = [h \in Handle |-> outstanding[h] - Actual(h, e.done)]
        /\ totalAcl' = totalAcl /\ inUse' = inUse
    BY <1>3 DEF RecordAclCompleted
  <2>5. /\ outstanding' \in [Handle -> U16]
        /\ \A h \in Handle : outstanding'[h] <= outstanding[h]
    <3>1. ASSUME NEW h \in Handle
          PROVE  /\ outstanding[h] - Actual(h, e.done) \in U16
                 /\ outstanding[h] - Actual(h, e.done) <= outstanding[h]
      BY <1>1, <2>3 DEF U16
    <3>2. QED
      BY <2>4, <3>1
  <2>6. /\ InFlight(inUse', outstanding') \in Nat
        /\ InFlight(inUse', outstanding') <= flying
    BY <2>4, <2>5, InFlightType, InFlightMonotone
  <2>7. CASE \E h \in inUse : e.done[h] > 0
    <3> DEFINE avail == availAcl + flying - InFlight(inUse', outstanding')
    <3>1. avail \in Nat /\ avail + InFlight(inUse', outstanding') = totalAcl'
      <4>1. totalAcl' = totalAcl /\ availAcl + flying = totalAcl
        BY <2>4 DEF Balanced
      <4>2. QED
        BY <1>1, <2>6, <4>1
    <3>2. availAcl' = ClampCredits(Wrap(avail), totalAcl',
                                   Wrap(InFlight(inUse', outstanding')))
      BY <1>3, <2>4, <2>7 DEF RecordAclCompleted, TotalInFlight
    <3>3. totalAcl' \in U16
      BY <2>4
    <3> HIDE DEF avail
    <3>4. availAcl' = avail
      BY <2>6, <3>1, <3>2, <3>3, ClampOfExactSum
    <3>5. QED
      BY <1>3, <2>4, <3>1, <3>4 DEF Balanced
  <2>8. CASE ~ \E h \in inUse : e.done[h] > 0
    <3>1. \A h \in inUse : e.done[h] = 0
      BY <2>2, <2>8
    <3>2. \A h \in Handle : outstanding'[h] = outstanding[h]
      BY <2>3, <2>4, <3>1 DEF U16
    <3>3. outstanding' = outstanding
      BY <2>5, <3>2
    <3>4. availAcl' = availAcl
      BY <1>3, <2>8 DEF RecordAclCompleted
    <3>5. QED
      BY <1>3, <2>4, <3>3, <3>4 DEF Balanced
  <2>9. QED
    BY <2>7, <2>8
<1>4. CASE e.type = "disconnect" /\ RecordDisconnection(e.handle)
  <2> DEFINE h == e.handle
  <2>1. h \in Handle
    BY <1>4, EventsByType
  <2>2. CASE h \notin inUse
    BY <1>4, <2>2 DEF RecordDisconnection, Balanced
  <2>3. CASE h \in inUse
    <3>1. /\ inUse' = inUse \ {h} /\ totalAcl' = totalAcl
          /\ outstanding' = [outstanding EXCEPT ![h] = 0]
          /\ availAcl' = ClampCredits(Wrap(availAcl + outstanding[h]), totalAcl,
                                      Wrap(InFlight(inUse', outstanding')))
      BY <1>4, <2>3 DEF RecordDisconnection, TotalInFlight
    <3>2. flying = InFlight(inUse', outstanding') + outstanding[h]
      BY <2>3, <3>1, InFlightWithout
    <3>3. outstanding' \in [Handle -> U16] /\ inUse' \in SUBSET Handle
      <4>1. 0 \in U16
        BY <1>1 DEF U16
      <4>2. QED
        BY <3>1, <4>1
    <3>4. InFlight(inUse', outstanding') \in Nat /\ outstanding[h] \in Nat
      BY <2>1, <3>3, InFlightType DEF U16
    <3>5. availAcl + outstanding[h] + InFlight(inUse', outstanding') = totalAcl
      BY <1>1, <3>2, <3>4 DEF Balanced
    <3>6. availAcl' = availAcl + outstanding[h]
      BY <1>1, <3>1, <3>4, <3>5, ClampOfExactSum
    <3>7. QED
      BY <1>4, <3>1, <3>5, <3>6 DEF Balanced
  <2>4. QED
    BY <2>2, <2>3
<1>5. CASE e.type \notin CreditType /\ UNCHANGED creditVars
  BY <1>5 DEF creditVars, CreditType, Balanced
<1>6. QED
  BY <1>2, <1>3, <1>4, <1>5 DEF Snoop

LEMMA BalanceStep ==
  ASSUME IInv, LinkTypes, Balanced, [LinkNext]_vars
  PROVE  Balanced'
<1>1. CASE UNCHANGED creditVars
  BY <1>1 DEF creditVars, Balanced
<1>2. CASE SessionReady \/ SessionStop
  BY <1>1, <1>2 DEF SessionReady, SessionStop, BecomeReady, BecomeUnready
<1>3. CASE SessionRearm
  BY <1>3, InFlightOfEmptyTable DEF SessionRearm, Reinitialise, Balanced
<1>4. CASE ReplaceDevice \/ UsbReset
  <2>1. Reset
    BY <1>4 DEF ReplaceDevice, UsbReset
  <2>2. totalAcl \in Nat
    BY DEF IInv, CreditInv, CreditTypeOK, U16
  <2>3. QED
    BY <2>1, <2>2, InFlightOfEmptyTable DEF Reset, Balanced
<1>5. CASE HostCommand \/ HostReads
  BY <1>1, <1>5 DEF HostCommand, HostReads, SubmitCommand, PopEvent
<1>6. ASSUME NEW h \in Handle, HostAcl(h) PROVE Balanced'
  <2>1. PICK wireTakes \in WireOutcome : SubmitAcl(h, wireTakes)
    BY <1>6 DEF HostAcl
  <2>2. wireTakes \in BOOLEAN
    BY DEF WireOutcome
  <2>3. QED
    BY <2>1, <2>2, SubmitAclMovesCredit DEF IInv, Balanced
<1>7. CASE CtlStep
  BY <1>1, <1>7
     DEF CtlStep, CtlTakesReset, CtlTakesReadBufferSize, CtlTakesAcl,
         CtlChatters, CtlTransmits, CtlConnects, CtlDisconnects, CtlSends,
         bridgeVars, creditVars
<1>8. CASE Deliver
  <2>1. Head(fromCtl) \in LinkEvent /\ Snoop(Head(fromCtl))
    BY <1>8 DEF Deliver, OnEvent, LinkTypes
  <2>2. QED
    BY <2>1, BalancedAfter DEF IInv
<1>9. CASE UNCHANGED vars
  BY <1>1, <1>9 DEF vars, bridgeVars, creditVars
<1>10. QED
  BY <1>2, <1>3, <1>4, <1>5, <1>6, <1>7, <1>8, <1>9
     DEF LinkNext, SessionStep, HostStep

-----------------------------------------------------------------------------
(***************************************************************************)
(* What the events do to the account of a handle.                          *)
(***************************************************************************)
LEMMA CompletedTakesOne ==
  ASSUME CreditInv, NEW g \in Handle, RecordAclCompleted(OneDone(g).done)
  PROVE  \A h \in Handle :
           outstanding'[h] = IF h = g /\ outstanding[g] > 0
                             THEN outstanding[g] - 1 ELSE outstanding[h]
<1> USE DEF CreditInv, CreditTypeOK
<1> TAKE h \in Handle
<1>1. /\ outstanding'[h] = outstanding[h] - Actual(h, OneDone(g).done)
      /\ outstanding[h] \in Nat
      /\ h \notin inUse => outstanding[h] = 0
  BY DEF RecordAclCompleted, NoWrap, U16
<1>2. OneDone(g).done[h] = IF h = g THEN 1 ELSE 0
  BY PacketTypes
<1>3. QED
  BY <1>1, <1>2 DEF Actual, Lesser

LEMMA DisconnectionClears ==
  ASSUME CreditInv, NEW g \in Handle, RecordDisconnection(g)
  PROVE  \A h \in Handle : outstanding'[h] = IF h = g THEN 0 ELSE outstanding[h]
BY DEF CreditInv, CreditTypeOK, RecordDisconnection, NoWrap

-----------------------------------------------------------------------------
(***************************************************************************)
(* The account stays true, handle by handle.                               *)
(***************************************************************************)
TrueOf(h) == TrueWhileUp(h) /\ TrueOnceGone(h) /\ GoneIsLast(h)

\* A step that does not concern h.
LEMMA TrueFrame ==
  ASSUME NEW h \in Handle, TrueOf(h),
         h \in ctlConn' <=> h \in ctlConn,
         ctlBuf'[h] = ctlBuf[h], outstanding'[h] = outstanding[h],
         strays'[h] = strays[h],
         session' # "stopped" => session # "stopped",
         Count(toCtl', AclPacket(h)) = Count(toCtl, AclPacket(h)),
         Count(fromCtl', OneDone(h)) = Count(fromCtl, OneDone(h)),
         \A x \in {Gone(h), OneDone(h), Connected(h)} :
           Carries(fromCtl', x) <=> Carries(fromCtl, x),
         GoneIsLast(h)'
  PROVE  TrueOf(h)'
BY DEF TrueOf, TrueWhileUp, TrueOnceGone

LEMMA LastAfterAppend ==
  ASSUME NEW h \in Handle, LinkTypes, GoneIsLast(h), NEW e,
         fromCtl' = Append(fromCtl, e), h \notin ctlConn' => h \notin ctlConn,
         e \notin {OneDone(h), Connected(h), Gone(h)}
  PROVE  GoneIsLast(h)'
<1> DEFINE n1 == Len(fromCtl) + 1
<1>1. /\ DOMAIN fromCtl' = DOMAIN fromCtl \cup {n1} /\ fromCtl'[n1] = e
      /\ \A i \in DOMAIN fromCtl : fromCtl'[i] = fromCtl[i]
  BY DEF LinkTypes
<1> HIDE DEF n1
<1>2. QED
  BY <1>1 DEF GoneIsLast

LEMMA LastAfterTail ==
  ASSUME NEW h \in Handle, LinkTypes, GoneIsLast(h), fromCtl # << >>,
         fromCtl' = Tail(fromCtl), h \notin ctlConn' => h \notin ctlConn
  PROVE  GoneIsLast(h)'
<1>1. \A i \in DOMAIN fromCtl' :
        i \in Int /\ i + 1 \in DOMAIN fromCtl /\ fromCtl'[i] = fromCtl[i + 1]
  BY DEF LinkTypes
<1>2. QED
  BY <1>1 DEF GoneIsLast

\* The controller sends an event that does not concern h.
LEMMA TrueWhenSent ==
  ASSUME NEW h \in Handle, LinkTypes, TrueOf(h), NEW e,
         e \notin {OneDone(h), Connected(h), Gone(h)},
         fromCtl' = Append(fromCtl, e),
         h \in ctlConn' <=> h \in ctlConn, ctlBuf'[h] = ctlBuf[h],
         outstanding' = outstanding, strays' = strays, session' = session,
         Count(toCtl', AclPacket(h)) = Count(toCtl, AclPacket(h))
  PROVE  TrueOf(h)'
<1>1. fromCtl \in Seq(LinkEvent)
  BY DEF LinkTypes
<1>2. /\ Count(fromCtl', OneDone(h)) = Count(fromCtl, OneDone(h))
      /\ \A x \in {Gone(h), OneDone(h), Connected(h)} :
           Carries(fromCtl', x) <=> Carries(fromCtl, x)
  <2>1. Count(fromCtl, OneDone(h)) \in Nat
    BY <1>1, CountIs
  <2>2. QED
    BY <1>1, <2>1, CountAppend
<1>3. GoneIsLast(h)'
  BY LastAfterAppend DEF TrueOf
<1>4. QED
  BY <1>2, <1>3, TrueFrame

\* The driver reads an event that does not concern h.
LEMMA TrueWhenRead ==
  ASSUME NEW h \in Handle, LinkTypes, TrueOf(h), fromCtl # << >>,
         Head(fromCtl) \notin {OneDone(h), Connected(h), Gone(h)},
         fromCtl' = Tail(fromCtl), toCtl' = toCtl, session' = session,
         ctlConn' = ctlConn, ctlBuf' = ctlBuf,
         outstanding'[h] = outstanding[h], strays'[h] = strays[h]
  PROVE  TrueOf(h)'
<1>1. fromCtl \in Seq(LinkEvent)
  BY DEF LinkTypes
<1>2. /\ Count(fromCtl', OneDone(h)) = Count(fromCtl, OneDone(h))
      /\ \A x \in {Gone(h), OneDone(h), Connected(h)} :
           Carries(fromCtl', x) <=> Carries(fromCtl, x)
  <2>1. Tail(fromCtl) \in Seq(LinkEvent)
    BY <1>1
  <2>2. Count(Tail(fromCtl), OneDone(h)) \in Nat
    BY <2>1, CountIs
  <2>3. QED
    BY <1>1, <2>2, CountTail
<1>3. GoneIsLast(h)'
  BY LastAfterTail DEF TrueOf
<1>4. QED
  BY <1>2, <1>3, TrueFrame

\* The queues towards the controller change by no ACL packet of h.
LEMMA CountCmd ==
  ASSUME LinkTypes, NEW h \in Handle
  PROVE  /\ \A c : Count(Append(toCtl, CmdPacket(c)), AclPacket(h))
                     = Count(toCtl, AclPacket(h))
         /\ toCtl # << >> /\ Head(toCtl).type = "cmd"
              => Count(Tail(toCtl), AclPacket(h)) = Count(toCtl, AclPacket(h))
<1>1. toCtl \in Seq(CtlPacket) /\ Count(toCtl, AclPacket(h)) \in Nat
  BY CountIs DEF LinkTypes
<1>2. \A c : CmdPacket(c) # AclPacket(h)
  BY PacketTypes
<1>3. ASSUME NEW c
      PROVE  Count(Append(toCtl, CmdPacket(c)), AclPacket(h))
               = Count(toCtl, AclPacket(h))
  <2> DEFINE p == CmdPacket(c)
             q == AclPacket(h)
  <2>1. p # q
    BY <1>2
  <2> HIDE DEF p, q
  <2>2. Count(Append(toCtl, p), q) = Count(toCtl, q) + (IF p = q THEN 1 ELSE 0)
    BY <1>1, CountAppend
  <2>3. Count(toCtl, q) \in Nat
    BY <1>1 DEF q
  <2>4. Count(Append(toCtl, p), q) = Count(toCtl, q)
    BY <2>1, <2>2, <2>3
  <2>5. QED
    BY <2>4 DEF p, q
<1>4. ASSUME toCtl # << >>, Head(toCtl).type = "cmd"
      PROVE  Count(Tail(toCtl), AclPacket(h)) = Count(toCtl, AclPacket(h))
  <2> DEFINE q == AclPacket(h)
  <2>1. Head(toCtl) # q
    BY <1>4, PacketTypes
  <2> HIDE DEF q
  <2>2. Tail(toCtl) \in Seq(CtlPacket)
    BY <1>1, <1>4
  <2>3. Count(Tail(toCtl), q) \in Nat
    BY <2>2, CountIs
  <2>4. Count(toCtl, q) = Count(Tail(toCtl), q) + (IF Head(toCtl) = q THEN 1 ELSE 0)
    BY <1>1, <1>4, CountTail
  <2>5. Count(Tail(toCtl), q) = Count(toCtl, q)
    BY <2>1, <2>3, <2>4
  <2>6. QED
    BY <2>5 DEF q
<1>5. QED
  BY <1>3, <1>4

LEMMA EventsApart ==
  ASSUME NEW g \in Handle, NEW h \in Handle
  PROVE  /\ Vendor \notin {OneDone(h), Connected(h), Gone(h)}
         /\ \A c : Completion(c) \notin {OneDone(h), Connected(h), Gone(h)}
         /\ Connected(g) \notin {OneDone(h), Gone(h)}
         /\ OneDone(g) \notin {Connected(h), Gone(h)}
         /\ Gone(g) \notin {OneDone(h), Connected(h)}
         /\ g # h => {Connected(g), OneDone(g), Gone(g)}
                       \cap {OneDone(h), Connected(h), Gone(h)} = {}
<1> DEFINE V == {OneDone(h), Connected(h), Gone(h)}
<1>1. \A x \in V : x.type \in {"completed", "connected", "disconnect"}
  BY PacketTypes
<1>2. Vendor \notin V
  BY <1>1, PacketTypes
<1>3. \A c : Completion(c) \notin V
  BY <1>1, PacketTypes
<1>4. /\ Connected(g) \notin {OneDone(h), Gone(h)}
      /\ OneDone(g) \notin {Connected(h), Gone(h)}
      /\ Gone(g) \notin {OneDone(h), Connected(h)}
  BY PacketTypes
<1>5. ASSUME g # h
      PROVE  /\ Connected(g) # Connected(h) /\ OneDone(g) # OneDone(h)
             /\ Gone(g) # Gone(h)
  BY <1>5, HandlesApart
<1>6. QED
  BY <1>2, <1>3, <1>4, <1>5

\* One lemma per kind of step.
LEMMA TrueOfSession ==
  ASSUME IInv, LinkTypes, Idle, TrueAccount,
         SessionReady \/ SessionStop \/ SessionRearm
  PROVE  TrueAccount'
<1> SUFFICES ASSUME NEW h \in Handle PROVE TrueOf(h)'
  BY DEF TrueAccount, TrueOf
<1>1. TrueOf(h)
  BY DEF TrueAccount, TrueOf
<1>2. CASE SessionReady
  <2>1. toCtl' = toCtl \/ toCtl' = Append(toCtl, CmdPacket(held))
    BY <1>2 DEF SessionReady
  <2>2. Count(toCtl', AclPacket(h)) = Count(toCtl, AclPacket(h))
    BY <2>1, CountCmd
  <2>3. /\ UNCHANGED <<fromCtl, ctlConn, ctlBuf, outstanding, strays>>
        /\ session # "stopped"
    BY <1>2 DEF SessionReady, BecomeReady, ctlVars, creditVars
  <2>4. GoneIsLast(h)'
    BY <1>1, <2>3 DEF TrueOf, GoneIsLast
  <2>5. QED
    BY <1>1, <2>2, <2>3, <2>4, TrueFrame
<1>3. CASE SessionStop
  <2>1. /\ fromCtl' = << >> /\ ctlConn' = {}
        /\ session' = "stopped"
    BY <1>3 DEF SessionStop
  <2>2. \A x : ~Carries(fromCtl', x)
    BY <2>1, CountEmpty
  <2>3. GoneIsLast(h)'
    BY <2>1 DEF GoneIsLast
  <2>4. QED
    BY <2>1, <2>2, <2>3 DEF TrueOf, TrueWhileUp, TrueOnceGone
<1>4. CASE SessionRearm
  <2>1. /\ session = "stopped" /\ outstanding' = NoneOutstanding
        /\ strays' = NoBuffers /\ UNCHANGED <<fromCtl, toCtl, ctlConn>>
    BY <1>4 DEF SessionRearm, Reinitialise, ctlVars
  <2>2. /\ ctlConn' = {} /\ outstanding'[h] = 0 /\ strays'[h] = 0
        /\ \A i \in DOMAIN fromCtl' : fromCtl'[i] = Vendor
    BY <2>1 DEF Idle, NoneOutstanding, NoBuffers
  <2>3. \A x \in {OneDone(h), Connected(h), Gone(h)} : ~Carries(fromCtl', x)
    BY <2>2, EventsApart DEF Carries
  <2>4. GoneIsLast(h)'
    BY <2>3 DEF GoneIsLast, Carries
  <2>5. QED
    BY <2>2, <2>3, <2>4 DEF TrueOf, TrueWhileUp, TrueOnceGone
<1>5. QED
  BY <1>2, <1>3, <1>4

LEMMA TrueOfAcl ==
  ASSUME IInv, LinkTypes, Idle, TrueAccount, NEW g \in Handle, HostAcl(g)
  PROVE  TrueAccount'
<1> SUFFICES ASSUME NEW h \in Handle PROVE TrueOf(h)'
  BY DEF TrueAccount, TrueOf
<1>1. TrueOf(h) /\ TrueOf(g)
  BY DEF TrueAccount, TrueOf
<1>2. UNCHANGED <<fromCtl, ctlConn, ctlBuf, session>>
  BY DEF HostAcl, ctlVars, pastVars
<1>3. PICK wireTakes \in WireOutcome :
        /\ SubmitAcl(g, wireTakes)
        /\ IF AclAdmitted(g) /\ wireTakes
           THEN toCtl' = Append(toCtl, AclPacket(g)) ELSE UNCHANGED toCtl
        /\ strays' = IF AclAdmitted(g) /\ wireTakes /\ EndIsSnooped(g)
                     THEN [strays EXCEPT ![g] = strays[g] + 1] ELSE strays
  BY DEF HostAcl
<1>4. outstanding' = IF AclAdmitted(g) /\ wireTakes
                     THEN [outstanding EXCEPT ![g] = outstanding[g] + 1]
                     ELSE outstanding
  <2>1. wireTakes \in BOOLEAN
    BY DEF WireOutcome
  <2>2. QED
    BY <1>3, <2>1, SubmitAclMovesCredit DEF IInv
<1>5. /\ toCtl \in Seq(CtlPacket) /\ outstanding \in [Handle -> U16]
      /\ Count(toCtl, AclPacket(h)) \in Nat /\ strays \in [Handle -> Nat]
  BY CountIs DEF LinkTypes, IInv, CreditInv, CreditTypeOK
<1>6. GoneIsLast(h)'
  BY <1>1, <1>2 DEF TrueOf, GoneIsLast
<1>7. CASE ~(AclAdmitted(g) /\ wireTakes)
  BY <1>1, <1>2, <1>3, <1>4, <1>6, <1>7, TrueFrame
<1>8. CASE AclAdmitted(g) /\ wireTakes /\ h # g
  <2>1. AclPacket(g) # AclPacket(h)
    BY <1>8, HandlesApart
  <2>2. Count(Append(toCtl, AclPacket(g)), AclPacket(h)) = Count(toCtl, AclPacket(h))
    BY <1>5, <2>1, CountAppend
  <2>3. /\ outstanding'[h] = outstanding[h] /\ strays'[h] = strays[h]
        /\ toCtl' = Append(toCtl, AclPacket(g))
    BY <1>3, <1>4, <1>5, <1>8
  <2>4. QED
    BY <1>1, <1>2, <1>6, <2>2, <2>3, TrueFrame
<1>9. CASE AclAdmitted(g) /\ wireTakes /\ h = g
  <2>1. Count(Append(toCtl, AclPacket(h)), AclPacket(h))
          = Count(toCtl, AclPacket(h)) + 1
    BY <1>5, CountAppend
  <2>2. /\ outstanding'[h] = outstanding[h] + 1
        /\ Count(toCtl', AclPacket(h)) = Count(toCtl, AclPacket(h)) + 1
        /\ strays'[h] = IF EndIsSnooped(h) THEN strays[h] + 1 ELSE strays[h]
    BY <1>3, <1>4, <1>5, <1>9, <2>1
  <2>3. EndIsSnooped(h) <=> h \notin ctlConn /\ ~Carries(fromCtl, Gone(h))
    BY DEF EndIsSnooped, Carries
  <2>4. /\ Count(fromCtl, OneDone(h)) \in Nat /\ ctlBuf[h] \in Nat
        /\ strays[h] \in Nat
    BY <1>5, CountIs DEF LinkTypes
  <2>5. TrueWhileUp(h)'
    <3>1. SUFFICES ASSUME h \in ctlConn PROVE TrueWhileUp(h)'
      BY <1>2 DEF TrueWhileUp
    <3>2. /\ outstanding[h] = strays[h] + ctlBuf[h]
             + Count(toCtl, AclPacket(h)) + Count(fromCtl, OneDone(h))
          /\ ~Carries(fromCtl, Gone(h))
      BY <1>1, <3>1 DEF TrueOf, TrueWhileUp
    <3>3. strays'[h] = strays[h]
      BY <2>2, <2>3, <3>1
    <3>4. outstanding'[h] = strays'[h] + ctlBuf[h]
            + Count(toCtl', AclPacket(h)) + Count(fromCtl, OneDone(h))
      <4>1. Count(toCtl, AclPacket(h)) \in Nat
        BY <1>5
      <4>2. \A o, s, b, c, d \in Nat :
              o = s + b + c + d => o + 1 = s + b + (c + 1) + d
        OBVIOUS
      <4>3. outstanding[h] \in Nat
        BY <2>4, <3>2, <4>1
      <4>4. outstanding[h] + 1 = strays[h] + ctlBuf[h]
              + (Count(toCtl, AclPacket(h)) + 1) + Count(fromCtl, OneDone(h))
        BY <2>4, <3>2, <4>1, <4>2, <4>3
      <4>5. QED
        BY <2>2, <3>3, <4>4
    <3>5. QED
      BY <1>2, <3>2, <3>4 DEF TrueWhileUp
  <2>6. TrueOnceGone(h)'
    <3>1. TrueOnceGone(h)
      BY <1>1 DEF TrueOf
    <3>2. QED
      BY <1>2, <2>2, <2>3, <2>4, <3>1 DEF TrueOnceGone
  <2>7. QED
    BY <1>6, <2>5, <2>6 DEF TrueOf
<1>10. QED
  BY <1>7, <1>8, <1>9

LEMMA TrueOfHost ==
  ASSUME IInv, LinkTypes, Idle, TrueAccount, HostCommand \/ HostReads
  PROVE  TrueAccount'
<1> SUFFICES ASSUME NEW h \in Handle PROVE TrueOf(h)'
  BY DEF TrueAccount, TrueOf
<1>1. TrueOf(h)
  BY DEF TrueAccount, TrueOf
<1>2. \/ toCtl' = toCtl
      \/ \E c : toCtl' = Append(toCtl, CmdPacket(c))
  BY DEF HostCommand, HostReads
<1>3. Count(toCtl', AclPacket(h)) = Count(toCtl, AclPacket(h))
  BY <1>2, CountCmd
<1>4. UNCHANGED <<fromCtl, ctlConn, ctlBuf, outstanding, strays, session>>
  BY DEF HostCommand, HostReads, SubmitCommand, PopEvent, ctlVars, creditVars,
     pastVars
<1>5. GoneIsLast(h)'
  BY <1>1, <1>4 DEF TrueOf, GoneIsLast
<1>6. QED
  BY <1>1, <1>3, <1>4, <1>5, TrueFrame

LEMMA TrueOfCtlTaking ==
  ASSUME IInv, LinkTypes, Idle, TrueAccount,
         CtlTakesReadBufferSize \/ CtlTakesAcl
  PROVE  TrueAccount'
<1> SUFFICES ASSUME NEW h \in Handle PROVE TrueOf(h)'
  BY DEF TrueAccount, TrueOf
<1>1. TrueOf(h)
  BY DEF TrueAccount, TrueOf
<1>2. toCtl \in Seq(CtlPacket) /\ ctlBuf \in [Handle -> Nat]
  BY DEF LinkTypes
<1>3. /\ UNCHANGED <<outstanding, strays, session, ctlConn>>
      /\ toCtl # << >> /\ toCtl' = Tail(toCtl)
  BY DEF CtlTakesReadBufferSize, CtlTakesAcl, bridgeVars, pastVars
<1>4. CASE CtlTakesReadBufferSize
  <2>1. /\ Head(toCtl).type = "cmd" /\ ctlBuf' = ctlBuf
        /\ fromCtl' = Append(fromCtl, Completion(Head(toCtl).cmd))
    BY <1>4 DEF CtlTakesReadBufferSize
  <2>2. Count(toCtl', AclPacket(h)) = Count(toCtl, AclPacket(h))
    BY <1>3, <2>1, CountCmd
  <2>3. Completion(Head(toCtl).cmd) \notin {OneDone(h), Connected(h), Gone(h)}
    BY EventsApart
  <2>4. QED
    BY <1>1, <1>3, <2>1, <2>2, <2>3, TrueWhenSent
<1>5. CASE CtlTakesAcl
  <2>1. fromCtl' = fromCtl /\ Head(toCtl).type = "acl"
    BY <1>5 DEF CtlTakesAcl
  <2>2. GoneIsLast(h)'
    BY <1>1, <1>3, <2>1 DEF TrueOf, GoneIsLast
  <2>3. Head(toCtl) \in CtlPacket /\ Tail(toCtl) \in Seq(CtlPacket)
    BY <1>2, <1>3
  <2>4. PICK g \in Handle : Head(toCtl) = AclPacket(g)
    BY <2>1, <2>3, PacketTypes DEF CtlPacket
  <2>5. ctlBuf' = IF g \in ctlConn THEN [ctlBuf EXCEPT ![g] = ctlBuf[g] + 1]
                                   ELSE ctlBuf
    <3>1. Head(toCtl).handle = g
      BY <2>4, PacketTypes
    <3>2. QED
      BY <1>5, <3>1 DEF CtlTakesAcl
  <2>6. /\ Count(toCtl, AclPacket(h)) = Count(Tail(toCtl), AclPacket(h))
             + (IF Head(toCtl) = AclPacket(h) THEN 1 ELSE 0)
        /\ Count(Tail(toCtl), AclPacket(h)) \in Nat
    BY <1>2, <1>3, <2>3, CountTail, CountIs
  <2>7. CASE g # h
    <3>1. Head(toCtl) # AclPacket(h) /\ ctlBuf'[h] = ctlBuf[h]
      BY <1>2, <2>4, <2>5, <2>7, HandlesApart
    <3>2. Count(toCtl', AclPacket(h)) = Count(toCtl, AclPacket(h))
      BY <1>3, <2>6, <3>1
    <3>3. QED
      BY <1>1, <1>3, <2>1, <2>2, <3>1, <3>2, TrueFrame
  <2>8. CASE g = h
    <3>1. Count(toCtl, AclPacket(h)) = Count(toCtl', AclPacket(h)) + 1
      BY <1>3, <2>4, <2>6, <2>8
    <3>2. Count(fromCtl, OneDone(h)) \in Nat
      BY CountIs DEF LinkTypes
    <3>3. h \in ctlConn => ctlBuf'[h] = ctlBuf[h] + 1
      BY <1>2, <2>5, <2>8
    <3>4. Count(toCtl', AclPacket(h)) \in Nat /\ ctlBuf[h] \in Nat
      BY <1>2, <1>3, <2>6
    <3>5. TrueWhileUp(h)'
      <4>1. h \in ctlConn =>
              outstanding[h] = strays[h] + ctlBuf'[h]
                                 + Count(toCtl', AclPacket(h))
                                 + Count(fromCtl, OneDone(h))
        <5>1. SUFFICES ASSUME h \in ctlConn
                       PROVE  outstanding[h] = strays[h] + ctlBuf'[h]
                                + Count(toCtl', AclPacket(h))
                                + Count(fromCtl, OneDone(h))
          OBVIOUS
        <5>2. outstanding[h] = strays[h] + ctlBuf[h]
                + Count(toCtl, AclPacket(h)) + Count(fromCtl, OneDone(h))
          BY <1>1, <5>1 DEF TrueOf, TrueWhileUp
        <5>3. strays[h] \in Nat
          BY DEF LinkTypes
        <5>4. QED
          BY <3>1, <3>2, <3>3, <3>4, <5>1, <5>2, <5>3
      <4>2. QED
        BY <1>1, <1>3, <2>1, <4>1 DEF TrueOf, TrueWhileUp
    <3>6. TrueOnceGone(h)'
      BY <1>1, <1>3, <2>1 DEF TrueOf, TrueOnceGone
    <3>7. QED
      BY <2>2, <3>5, <3>6 DEF TrueOf
  <2>9. QED
    BY <2>7, <2>8
<1>6. QED
  BY <1>4, <1>5

LEMMA TrueOfCtlSending ==
  ASSUME IInv, LinkTypes, Idle, TrueAccount,
         \/ CtlChatters
         \/ \E g \in Handle : CtlTransmits(g) \/ CtlConnects(g) \/ CtlDisconnects(g)
  PROVE  TrueAccount'
<1> SUFFICES ASSUME NEW h \in Handle PROVE TrueOf(h)'
  BY DEF TrueAccount, TrueOf
<1>1. TrueOf(h)
  BY DEF TrueAccount, TrueOf
<1>2. /\ fromCtl \in Seq(LinkEvent) /\ ctlBuf \in [Handle -> Nat]
      /\ Count(fromCtl, OneDone(h)) \in Nat /\ Count(toCtl, AclPacket(h)) \in Nat
  BY CountIs DEF LinkTypes
<1>3. UNCHANGED <<outstanding, strays, session, toCtl>>
  BY DEF CtlChatters, CtlTransmits, CtlConnects, CtlDisconnects, CtlSends,
     bridgeVars, pastVars
<1>4. CASE CtlChatters
  BY <1>1, <1>3, <1>4, EventsApart, TrueWhenSent DEF CtlChatters, CtlSends
<1>5. ASSUME NEW g \in Handle, CtlTransmits(g) PROVE TrueOf(h)'
  <2>1. /\ fromCtl' = Append(fromCtl, OneDone(g)) /\ ctlConn' = ctlConn
        /\ ctlBuf[g] > 0 /\ ctlBuf' = [ctlBuf EXCEPT ![g] = ctlBuf[g] - 1]
    BY <1>5 DEF CtlTransmits, CtlSends
  <2>2. CASE g # h
    <3>1. OneDone(g) \notin {OneDone(h), Connected(h), Gone(h)}
      BY <2>2, EventsApart
    <3>2. ctlBuf'[h] = ctlBuf[h]
      BY <1>2, <2>1, <2>2
    <3>3. QED
      BY <1>1, <1>3, <2>1, <3>1, <3>2, TrueWhenSent
  <2>3. CASE g = h
    <3>1. h \in ctlConn
      BY <2>1, <2>3 DEF LinkTypes
    <3>2. /\ Count(fromCtl', OneDone(h)) = Count(fromCtl, OneDone(h)) + 1
          /\ Carries(fromCtl', Gone(h)) <=> Carries(fromCtl, Gone(h))
      BY <1>2, <2>1, <2>3, CountAppend, EventsApart
    <3>3. ctlBuf'[h] = ctlBuf[h] - 1 /\ ctlBuf[h] \in Nat
      BY <1>2, <2>1, <2>3
    <3>4. TrueWhileUp(h)'
      <4>1. outstanding[h] = strays[h] + ctlBuf'[h]
                               + Count(toCtl, AclPacket(h))
                               + Count(fromCtl', OneDone(h))
        BY <1>1, <1>2, <3>1, <3>2, <3>3 DEF TrueOf, TrueWhileUp, LinkTypes
      <4>2. QED
        BY <1>1, <1>3, <3>1, <3>2, <4>1 DEF TrueOf, TrueWhileUp
    <3>5. QED
      BY <2>1, <3>1, <3>4 DEF TrueOf, TrueOnceGone, GoneIsLast
  <2>4. QED
    BY <2>2, <2>3
<1>6. ASSUME NEW g \in Handle, CtlConnects(g) PROVE TrueOf(h)'
  <2>1. /\ fromCtl' = Append(fromCtl, Connected(g)) /\ ctlConn' = ctlConn \cup {g}
        /\ ctlBuf' = ctlBuf /\ ctlUp /\ g \notin ctlConn
        /\ ~Carries(toCtl, AclPacket(g)) /\ ~Carries(fromCtl, Gone(g))
    BY <1>6 DEF CtlConnects, CtlSends, Carries
  <2>2. CASE g # h
    <3>1. Connected(g) \notin {OneDone(h), Connected(h), Gone(h)}
      BY <2>2, EventsApart
    <3>2. QED
      BY <1>1, <1>3, <2>1, <2>2, <3>1, TrueWhenSent
  <2>3. CASE g = h
    <3>1. /\ ~Carries(fromCtl, OneDone(h)) /\ outstanding[h] = strays[h]
      BY <1>1, <2>1, <2>3 DEF TrueOf, TrueOnceGone, Idle
    <3>2. /\ ~Carries(fromCtl', OneDone(h)) /\ ~Carries(fromCtl', Gone(h))
      BY <1>2, <2>1, <2>3, <3>1, CountAppend, EventsApart
    <3>3. Count(toCtl, AclPacket(h)) = 0
      BY <2>1, <2>3, CountIs DEF LinkTypes
    <3>4. Count(fromCtl', OneDone(h)) = 0
      <4>1. fromCtl' \in Seq(LinkEvent)
        BY <1>2, <2>1, EventsIn
      <4>2. QED
        BY <3>2, <4>1, CountIs
    <3>5. ctlBuf[h] = 0
      BY <2>1, <2>3 DEF LinkTypes
    <3>6. TrueWhileUp(h)'
      BY <1>3, <2>1, <3>1, <3>2, <3>3, <3>4, <3>5 DEF TrueWhileUp, LinkTypes
    <3>7. QED
      BY <2>1, <2>3, <3>6 DEF TrueOf, TrueOnceGone, GoneIsLast
  <2>4. QED
    BY <2>2, <2>3
<1>7. ASSUME NEW g \in Handle, CtlDisconnects(g) PROVE TrueOf(h)'
  <2>1. /\ fromCtl' = Append(fromCtl, Gone(g)) /\ ctlConn' = ctlConn \ {g}
        /\ ctlBuf' = [ctlBuf EXCEPT ![g] = 0] /\ g \in ctlConn
    BY <1>7 DEF CtlDisconnects, CtlSends
  <2>2. CASE g # h
    <3>1. Gone(g) \notin {OneDone(h), Connected(h), Gone(h)}
      BY <2>2, EventsApart
    <3>2. ctlBuf'[h] = ctlBuf[h]
      BY <1>2, <2>1, <2>2
    <3>3. QED
      BY <1>1, <1>3, <2>1, <2>2, <3>1, <3>2, TrueWhenSent
  <2>3. CASE g = h
    <3> DEFINE n1 == Len(fromCtl) + 1
    <3>1. /\ DOMAIN fromCtl' = DOMAIN fromCtl \cup {n1} /\ fromCtl'[n1] = Gone(h)
          /\ \A i \in DOMAIN fromCtl : fromCtl'[i] = fromCtl[i] /\ i \in Int /\ i <= n1
          /\ n1 \in Int
      BY <1>2, <2>1, <2>3
    <3>2. ~Carries(fromCtl, Gone(h))
      BY <1>1, <2>1, <2>3 DEF TrueOf, TrueWhileUp
    <3> HIDE DEF n1
    <3>3. GoneIsLast(h)'
      BY <3>1, <3>2 DEF GoneIsLast, Carries
    <3>4. Carries(fromCtl', Gone(h))
      BY <3>1 DEF Carries
    <3>5. QED
      BY <2>1, <2>3, <3>3, <3>4 DEF TrueOf, TrueWhileUp, TrueOnceGone
  <2>4. QED
    BY <2>2, <2>3
<1>8. QED
  BY <1>4, <1>5, <1>6, <1>7

LEMMA TrueOfDelivery ==
  ASSUME IInv, LinkTypes, Idle, Balanced, TrueAccount, Deliver
  PROVE  TrueAccount'
<1> SUFFICES ASSUME NEW h \in Handle PROVE TrueOf(h)'
  BY DEF TrueAccount, TrueOf
<1> DEFINE e == Head(fromCtl)
<1>1. TrueOf(h)
  BY DEF TrueAccount, TrueOf
<1>2. /\ fromCtl \in Seq(LinkEvent) /\ fromCtl # << >> /\ e \in LinkEvent
      /\ fromCtl' = Tail(fromCtl) /\ Tail(fromCtl) \in Seq(LinkEvent)
      /\ UNCHANGED <<toCtl, ctlConn, ctlBuf, session>>
  BY DEF Deliver, LinkTypes, ctlVars, pastVars
<1>3. Snoop(e) /\ CreditInv
  BY DEF Deliver, OnEvent, IInv
<1>4. strays'[h] = IF e = Gone(h) THEN 0 ELSE strays[h]
  BY DEF Deliver
<1>5. /\ \A x : Carries(fromCtl, x) <=> Carries(fromCtl', x) \/ e = x
      /\ \A x : Count(fromCtl, x) = Count(fromCtl', x) + (IF e = x THEN 1 ELSE 0)
      /\ \A x : Count(fromCtl', x) \in Nat
  BY <1>2, CountTail, CountIs
<1>6. GoneIsLast(h)'
  BY <1>1, <1>2, LastAfterTail DEF TrueOf
<1> HIDE DEF e
<1>7. ASSUME e \notin {OneDone(h), Connected(h), Gone(h)},
             outstanding'[h] = outstanding[h]
      PROVE  TrueOf(h)'
  BY <1>1, <1>2, <1>4, <1>7, TrueWhenRead DEF e
<1>8. CASE e = Vendor \/ \E c \in LinkCmd : e = Completion(c)
  <2>1. e \notin {OneDone(h), Connected(h), Gone(h)}
    BY <1>8, EventsApart
  <2>2. e.type \in {"vendor", "bufferSize", "resetDone"}
    BY <1>8, PacketTypes
  <2>3. outstanding' = outstanding
    BY <1>2, <1>3, <2>2, BalancedAfter DEF Snoop, CreditType, creditVars
  <2>4. QED
    BY <1>7, <2>1, <2>3
<1>9. ASSUME NEW g \in Handle, e = Connected(g) PROVE TrueOf(h)'
  <2>1. e.type = "connected" /\ e.handle = g
    BY <1>9, PacketTypes
  <2>2. outstanding' = outstanding
    BY <1>3, <2>1 DEF Snoop, CreditType, creditVars
  <2>3. CASE g # h
    BY <1>7, <1>9, <2>2, <2>3, EventsApart
  <2>4. CASE g = h
    <3>1. /\ e # Gone(h) /\ e # OneDone(h) /\ Carries(fromCtl, Connected(h))
      BY <1>5, <1>9, <2>4, EventsApart
    <3>2. h \in ctlConn \/ Carries(fromCtl', Gone(h))
      BY <1>1, <1>5, <3>1 DEF TrueOf, TrueOnceGone
    <3>3. Count(fromCtl', OneDone(h)) = Count(fromCtl, OneDone(h))
      BY <1>5, <3>1
    <3>4. TrueWhileUp(h)'
      BY <1>1, <1>2, <1>4, <1>5, <2>2, <3>1, <3>3 DEF TrueOf, TrueWhileUp
    <3>5. TrueOnceGone(h)'
      BY <1>2, <3>2 DEF TrueOnceGone
    <3>6. QED
      BY <1>6, <3>4, <3>5 DEF TrueOf
  <2>5. QED
    BY <2>3, <2>4
<1>10. ASSUME NEW g \in Handle, e = Gone(g) PROVE TrueOf(h)'
  <2>1. e.type = "disconnect" /\ e.handle = g
    BY <1>10, PacketTypes
  <2>2. RecordDisconnection(g)
    BY <1>3, <2>1 DEF Snoop, CreditType
  <2>3. outstanding'[h] = IF h = g THEN 0 ELSE outstanding[h]
    BY <1>3, <2>2, DisconnectionClears
  <2>4. CASE g # h
    BY <1>7, <1>10, <2>3, <2>4, EventsApart
  <2>5. CASE g = h
    <3>1. h \notin ctlConn
      BY <1>1, <1>5, <1>10, <2>5 DEF TrueOf, TrueWhileUp
    <3>2. \A i \in DOMAIN fromCtl :
            fromCtl[i] \in {OneDone(h), Connected(h), Gone(h)} => i <= 1
      <4>1. 1 \in DOMAIN fromCtl /\ fromCtl[1] = Gone(h)
        BY <1>2, <1>10, <2>5 DEF e
      <4>2. QED
        BY <1>1, <3>1, <4>1 DEF TrueOf, GoneIsLast
    <3>3. \A x \in {OneDone(h), Connected(h), Gone(h)} : ~Carries(fromCtl', x)
      <4>1. \A i \in DOMAIN fromCtl' :
              i \in Nat \ {0} /\ i + 1 \in DOMAIN fromCtl /\ fromCtl'[i] = fromCtl[i + 1]
        BY <1>2
      <4>2. QED
        BY <3>2, <4>1 DEF Carries
    <3>4. TrueWhileUp(h)' /\ TrueOnceGone(h)'
      BY <1>2, <1>4, <1>10, <2>3, <2>5, <3>1, <3>3 DEF TrueWhileUp, TrueOnceGone
    <3>5. QED
      BY <1>6, <3>4 DEF TrueOf
  <2>6. QED
    BY <2>4, <2>5
<1>11. ASSUME NEW g \in Handle, e = OneDone(g) PROVE TrueOf(h)'
  <2>1. e.type = "completed"
    BY <1>11, PacketTypes
  <2>2. strays'[h] = strays[h] /\ strays[h] \in Nat
    BY <1>4, <1>11, EventsApart DEF LinkTypes
  <2>3. RecordAclCompleted(OneDone(g).done)
    BY <1>3, <1>11, <2>1 DEF Snoop, CreditType
  <2>4. outstanding'[h] = IF h = g /\ outstanding[g] > 0
                          THEN outstanding[g] - 1 ELSE outstanding[h]
    BY <1>3, <2>3, CompletedTakesOne
  <2>5. CASE g # h
    BY <1>7, <1>11, <2>4, <2>5, EventsApart
  <2>6. CASE g = h
    <3>1. /\ Count(fromCtl, OneDone(h)) = Count(fromCtl', OneDone(h)) + 1
          /\ Carries(fromCtl, OneDone(h))
          /\ Carries(fromCtl, Gone(h)) <=> Carries(fromCtl', Gone(h))
      BY <1>5, <1>11, <2>6, EventsApart
    <3>2. /\ Count(toCtl, AclPacket(h)) \in Nat /\ Count(fromCtl', OneDone(h)) \in Nat
          /\ ctlBuf[h] \in Nat
      BY <1>5, CountIs DEF LinkTypes
    <3>3. TrueWhileUp(h)'
      <4>1. CASE h \in ctlConn
        <5>1. outstanding[h] = strays[h] + ctlBuf[h]
                                 + Count(toCtl, AclPacket(h))
                                 + Count(fromCtl', OneDone(h)) + 1
          BY <1>1, <2>2, <3>1, <3>2, <4>1 DEF TrueOf, TrueWhileUp
        <5>2. outstanding'[h] = strays[h] + ctlBuf[h]
                                 + Count(toCtl, AclPacket(h))
                                 + Count(fromCtl', OneDone(h))
          BY <2>2, <2>4, <2>6, <3>2, <5>1
        <5>3. QED
          BY <1>1, <1>2, <2>2, <3>1, <4>1, <5>2 DEF TrueOf, TrueWhileUp
      <4>2. CASE h \notin ctlConn
        BY <1>2, <4>2 DEF TrueWhileUp
      <4>3. QED
        BY <4>1, <4>2
    <3>4. TrueOnceGone(h)'
      BY <1>1, <1>2, <2>2, <3>1 DEF TrueOf, TrueOnceGone
    <3>5. QED
      BY <1>6, <3>3, <3>4 DEF TrueOf
  <2>7. QED
    BY <2>5, <2>6
<1>12. QED
  BY <1>2, <1>8, <1>9, <1>10, <1>11, EventsAre

LEMMA TrueStep ==
  ASSUME IInv, LinkTypes, Idle, Balanced, TrueAccount, NoReset,
         [LinkNext]_vars, ~ReplaceDevice, ~UsbReset
  PROVE  TrueAccount'
<1>1. ~CtlTakesReset
  <2>1. toCtl # << >> => 1 \in DOMAIN toCtl /\ Head(toCtl) = toCtl[1]
    BY DEF LinkTypes
  <2>2. QED
    BY <2>1 DEF NoReset, CtlTakesReset
<1>2. CASE UNCHANGED vars
  <2>1. UNCHANGED <<toCtl, fromCtl, ctlConn, ctlBuf, outstanding, strays, session>>
    BY <1>2 DEF vars, bridgeVars, ctlVars, pastVars
  <2>2. QED
    BY <2>1 DEF TrueAccount, TrueWhileUp, TrueOnceGone, GoneIsLast
<1>3. QED
  BY <1>1, <1>2, TrueOfSession, TrueOfAcl, TrueOfHost, TrueOfCtlTaking,
     TrueOfCtlSending, TrueOfDelivery
     DEF LinkNext, SessionStep, HostStep, CtlStep

-----------------------------------------------------------------------------
(***************************************************************************)
(* The life of a device: the first command it gets is a reset, and once    *)
(* its stack has read the completion of that reset the account is true     *)
(* until the device is reset or replaced.                                  *)
(***************************************************************************)

\* A queue up to n carries no packet of a later command.
LEMMA LaterIsAbsent ==
  ASSUME NEW s, NEW n \in Int, UpTo(s, n), NEW c, c.id \in Int, c.id > n
  PROVE  ~Carries(s, CmdPacket(c)) /\ ~Carries(s, Completion(c))
BY IdOfPacket DEF UpTo, Carries

\* A packet in one queue is not in a later one.
LEMMA OneAtATime ==
  ASSUME NEW s, NEW t, Before(s, t), NEW c, c.id \in Int,
         Carries(s, Completion(c))
  PROVE  ~Carries(t, CmdPacket(c)) /\ ~Carries(t, Completion(c))
BY IdOfPacket DEF Before, Carries

LEMMA SameCompletion ==
  ASSUME NEW c \in LinkCmd, NEW d \in LinkCmd, Completion(c) = Completion(d)
  PROVE  c = d
<1>1. c.id = d.id /\ (c.op = "Read_Buffer_Size" <=> d.op = "Read_Buffer_Size")
  BY PacketTypes
<1>2. c.op = d.op
  BY <1>1 DEF LinkCmd
<1>3. c = [op |-> c.op, id |-> c.id] /\ d = [op |-> d.op, id |-> d.id]
  BY DEF LinkCmd
<1>4. QED
  BY <1>1, <1>2, <1>3

LEMMA SamePacket ==
  ASSUME NEW c, NEW d, CmdPacket(c) = CmdPacket(d)
  PROVE  c = d
BY PacketTypes

LEMMA AwaitedIs ==
  ASSUME IInv, LinkTypes
  PROVE  /\ hostCmd # NoCmd => hostCmd \in LinkCmd /\ hostCmd.id \in Int
         /\ held # NoCmd => held \in LinkCmd /\ held.id \in Int
         /\ cmds \in Int
BY QueueTypes, LinkAssumption DEF LinkTypes, LinkCmd

\* What the host does with the event it reads.
LEMMA ReadingCompletes ==
  ASSUME IInv, LinkTypes, HostReads
  PROVE  \/ /\ hostCmd # NoCmd /\ Carries(eventFifo, Completion(hostCmd))
            /\ hostCmd' = NoCmd /\ hostConn' = hostConn
            /\ hostPhase' \in {"reset", "up"}
         \/ /\ hostCmd' = hostCmd /\ hostPhase' = hostPhase
            /\ hostConn' # hostConn => hostPhase = "up"
<1> DEFINE e == Head(eventFifo)
<1>1. eventFifo \in Seq(LinkEvent) /\ eventFifo # << >>
  BY QueueTypes DEF HostReads, PopEvent
<1>2. e \in LinkEvent /\ 1 \in DOMAIN eventFifo /\ e = eventFifo[1]
  BY <1>1
<1>3. \/ UNCHANGED hostVars
      \/ Concerns(e) /\ HostCompletes(e)
      \/ Concerns(e) /\ HostSeesConnection(e)
      \/ Concerns(e) /\ HostSeesDisconnection(e)
      \/ HostSeesCompleted(e)
  BY DEF HostReads
<1> HIDE DEF e
<1>4. CASE UNCHANGED hostVars
  BY <1>4 DEF hostVars
<1>5. CASE Concerns(e) /\ HostCompletes(e)
  <2>1. hostCmd # NoCmd /\ e = Completion(hostCmd)
    BY <1>5, <1>2, EventsByType DEF HostCompletes, Concerns, Answers
  <2>2. QED
    BY <1>2, <1>5, <2>1 DEF HostCompletes, Carries
<1>6. CASE Concerns(e) /\ HostSeesConnection(e)
  <2>1. e.type = "connected"
    BY <1>6 DEF HostSeesConnection
  <2>2. hostPhase = "up"
    BY <1>6, <2>1, PacketTypes DEF Concerns, Answers
  <2>3. QED
    BY <1>6, <2>2 DEF HostSeesConnection
<1>7. CASE Concerns(e) /\ HostSeesDisconnection(e)
  <2>1. e.type = "disconnect"
    BY <1>7 DEF HostSeesDisconnection
  <2>2. hostPhase = "up"
    BY <1>7, <2>1, PacketTypes DEF Concerns, Answers
  <2>3. QED
    BY <1>7, <2>2 DEF HostSeesDisconnection
<1>8. CASE HostSeesCompleted(e)
  BY <1>8 DEF HostSeesCompleted
<1>9. QED
  BY <1>3, <1>4, <1>5, <1>6, <1>7, <1>8

LEMMA AwaitedStep ==
  ASSUME IInv, LinkTypes, Idle, InOrder, Balanced, Awaited, [LinkNext]_vars
  PROVE  Awaited'
<1> USE DEF Awaited
<1>1. CASE SessionReady \/ SessionStop
  BY <1>1 DEF SessionReady, SessionStop, BecomeReady, BecomeUnready, hostVars,
     creditVars
<1>2. CASE SessionRearm
  BY <1>2 DEF SessionRearm, Reinitialise, hostVars
<1>3. CASE ReplaceDevice \/ UsbReset
  BY <1>3 DEF ReplaceDevice, UsbReset, Reset, HostForgets
<1>4. CASE HostCommand
  <2> DEFINE c == [op |-> NextOp, id |-> cmds + 1]
  <2>1. /\ hostCmd' \in {c, NoCmd} /\ (~ready => hostCmd' = c)
        /\ held' = IF ready THEN held ELSE c
        /\ hostCmd = NoCmd /\ cmds' = cmds + 1
        /\ UNCHANGED <<hostPhase, hostConn, inUse, strays>>
    BY <1>4 DEF HostCommand, SubmitCommand, CommandAccepted, creditVars
  <2>2. c.id <= cmds' /\ c.op = NextOp
    BY <2>1, AwaitedIs
  <2> HIDE DEF c
  <2>3. ready => held = NoCmd
    BY DEF IInv, QueueInv, HeldOnlyUnready
  <2>4. QED
    BY <2>1, <2>2, <2>3 DEF NextOp
<1>5. CASE HostReads
  <2>1. UNCHANGED <<held, cmds, inUse, strays>>
    BY <1>5 DEF HostReads, PopEvent, creditVars, pastVars
  <2>2. hostCmd # NoCmd /\ Carries(eventFifo, Completion(hostCmd)) => held = NoCmd
    <3>1. SUFFICES ASSUME hostCmd # NoCmd, held # NoCmd
                   PROVE  ~Carries(eventFifo, Completion(hostCmd))
      OBVIOUS
    <3>2. /\ held = hostCmd /\ UpTo(eventFifo, held.id - 1)
          /\ held.id \in Int /\ held.id - 1 \in Int /\ held.id > held.id - 1
      BY <3>1, AwaitedIs DEF InOrder
    <3>3. QED
      BY <3>2, LaterIsAbsent
  <2>3. QED
    BY <1>5, <2>1, <2>2, ReadingCompletes
<1>6. ASSUME NEW h \in Handle, HostAcl(h) PROVE Awaited'
  <2>1. /\ h \in hostConn
        /\ UNCHANGED <<held, hostCmd, cmds, hostPhase, hostConn>>
    BY <1>6 DEF HostAcl, SubmitAcl, pastVars
  <2>2. QED
    BY <2>1
<1>7. CASE CtlStep
  BY <1>7
     DEF CtlStep, CtlTakesReset, CtlTakesReadBufferSize, CtlTakesAcl,
         CtlChatters, CtlTransmits, CtlConnects, CtlDisconnects, CtlSends,
         bridgeVars, hostVars, pastVars
<1>8. CASE Deliver
  <2>1. Head(fromCtl) \in LinkEvent /\ Snoop(Head(fromCtl))
    BY <1>8 DEF Deliver, OnEvent, LinkTypes
  <2>2. inUse' \subseteq inUse
    BY <2>1, BalancedAfter DEF IInv
  <2>3. UNCHANGED <<held, hostCmd, cmds, hostPhase, hostConn>>
    BY <1>8 DEF Deliver, OnEvent, hostVars, pastVars
  <2>4. strays = NoBuffers => strays' = NoBuffers
    BY <1>8 DEF Deliver, NoBuffers
  <2>5. QED
    BY <2>2, <2>3, <2>4
<1>9. CASE UNCHANGED vars
  BY <1>9 DEF vars, bridgeVars, hostVars, pastVars
<1>10. QED
  BY <1>1, <1>2, <1>3, <1>4, <1>5, <1>6, <1>7, <1>8, <1>9
     DEF LinkNext, SessionStep, HostStep

\* The step that issues a device's first command.
LEMMA FirstCommand ==
  ASSUME IInv, LinkTypes, Idle, InOrder, HostCommand, ResetUnderWay'
  PROVE  /\ hostCmd' \in LinkCmd /\ hostCmd'.id = cmds + 1
         /\ toCtl' \in {toCtl, Append(toCtl, CmdPacket(hostCmd'))}
         /\ UNCHANGED <<eventFifo, fromCtl>>
         /\ ~Carries(eventFifo, Completion(hostCmd'))
         /\ ~Carries(fromCtl, Completion(hostCmd'))
         /\ ~Carries(toCtl, CmdPacket(hostCmd'))
<1> DEFINE c == [op |-> NextOp, id |-> cmds + 1]
<1>1. /\ hostCmd' \in {c, NoCmd} /\ hostCmd' # NoCmd
      /\ toCtl' \in {toCtl, Append(toCtl, CmdPacket(c))}
      /\ UNCHANGED <<eventFifo, fromCtl>>
  BY DEF HostCommand, SubmitCommand, ResetUnderWay
<1>2. c.id = cmds + 1 /\ cmds \in Int /\ c \in LinkCmd
  BY AwaitedIs, LinkAssumption DEF HostCommand, LinkTypes, LinkCmd, NextOp
<1> HIDE DEF c
<1>3. hostCmd' = c
  BY <1>1
<1>4. c.id \in Int /\ c.id > cmds
  BY <1>2
<1>5. UpTo(eventFifo, cmds) /\ UpTo(fromCtl, cmds) /\ UpTo(toCtl, cmds)
  BY DEF InOrder
<1>6. /\ ~Carries(eventFifo, Completion(c)) /\ ~Carries(fromCtl, Completion(c))
      /\ ~Carries(toCtl, CmdPacket(c))
  BY <1>2, <1>4, <1>5, LaterIsAbsent
<1>7. QED
  BY <1>1, <1>2, <1>3, <1>6

\* Every other step while that command is not answered.
LEMMA WhileUnderWay ==
  ASSUME IInv, LinkTypes, Idle, Awaited, [LinkNext]_vars, ResetUnderWay',
         ~HostCommand
  PROVE  /\ ResetUnderWay /\ hostCmd' = hostCmd
         /\ ~ReplaceDevice /\ ~UsbReset /\ \A h \in Handle : ~HostAcl(h)
<1>1. ~ReplaceDevice /\ ~UsbReset
  BY DEF ReplaceDevice, UsbReset, HostForgets, ResetUnderWay
<1>2. ASSUME HostReads PROVE ResetUnderWay /\ hostCmd' = hostCmd
  BY <1>2, ReadingCompletes DEF ResetUnderWay
<1>3. ASSUME ~HostReads PROVE ResetUnderWay /\ hostCmd' = hostCmd
  <2>1. hostCmd' = hostCmd /\ hostPhase' = hostPhase
    BY <1>1, <1>3
       DEF LinkNext, SessionStep, HostStep, CtlStep, SessionReady, SessionStop,
           SessionRearm, HostAcl, CtlTakesReset, CtlTakesReadBufferSize,
           CtlTakesAcl, CtlChatters, CtlTransmits, CtlConnects, CtlDisconnects,
           CtlSends, Deliver, vars, hostVars
  <2>2. QED
    BY <2>1 DEF ResetUnderWay
<1>4. ResetUnderWay /\ hostCmd' = hostCmd
  BY <1>2, <1>3
<1>5. ASSUME NEW h \in Handle, HostAcl(h) PROVE FALSE
  BY <1>4, <1>5 DEF HostAcl, Awaited, ResetUnderWay
<1>6. QED
  BY <1>1, <1>2, <1>3, <1>5 DEF ResetUnderWay

LEMMA ResetIsLastStep ==
  ASSUME IInv, LinkTypes, Idle, InOrder, Awaited, ResetIsLast, [LinkNext]_vars
  PROVE  ResetIsLast'
<1> SUFFICES ASSUME ResetUnderWay'
             PROVE  \A i \in DOMAIN toCtl' :
                      toCtl'[i] = CmdPacket(hostCmd') => i = Len(toCtl')
  BY DEF ResetIsLast
<1>1. toCtl \in Seq(CtlPacket)
  BY DEF LinkTypes
<1>2. CASE HostCommand
  <2> DEFINE x == CmdPacket(hostCmd')
  <2>1. toCtl' \in {toCtl, Append(toCtl, x)} /\ ~Carries(toCtl, x)
    BY <1>2, FirstCommand
  <2> HIDE DEF x
  <2>2. /\ DOMAIN Append(toCtl, x) = DOMAIN toCtl \cup {Len(Append(toCtl, x))}
        /\ \A i \in DOMAIN toCtl : Append(toCtl, x)[i] = toCtl[i]
    BY <1>1
  <2>3. \A i \in DOMAIN toCtl' : toCtl'[i] = x => i = Len(toCtl')
    BY <2>1, <2>2 DEF Carries
  <2>4. QED
    BY <2>3 DEF x
<1>3. CASE ~HostCommand
  <2>1. /\ ResetUnderWay /\ hostCmd' = hostCmd
        /\ ~ReplaceDevice /\ ~UsbReset /\ \A h \in Handle : ~HostAcl(h)
    BY <1>3, WhileUnderWay
  <2> DEFINE x == CmdPacket(hostCmd)
  <2>2. \A i \in DOMAIN toCtl : toCtl[i] = x => i = Len(toCtl)
    BY <2>1 DEF ResetIsLast
  <2> HIDE DEF x
  <2>3. CASE toCtl' = toCtl
    BY <2>1, <2>2, <2>3 DEF x
  <2>4. CASE SessionReady
    <3>1. toCtl = << >> /\ \E y : toCtl' \in {toCtl, Append(toCtl, y)}
      BY <2>4 DEF SessionReady, Idle
    <3>2. \A y : Append(<< >>, y) = <<y>> /\ Len(<<y>>) = 1 /\ DOMAIN <<y>> = {1}
      OBVIOUS
    <3>3. \/ Len(toCtl') = 1 /\ DOMAIN toCtl' = {1}
          \/ DOMAIN toCtl' = {}
      BY <3>1, <3>2
    <3>4. QED
      BY <3>3
  <2>5. CASE toCtl # << >> /\ toCtl' = Tail(toCtl)
    <3>1. /\ \A i \in DOMAIN Tail(toCtl) :
               i \in Int /\ i + 1 \in DOMAIN toCtl /\ Tail(toCtl)[i] = toCtl[i + 1]
          /\ Len(Tail(toCtl)) = Len(toCtl) - 1 /\ Len(toCtl) \in Int
      BY <1>1, <2>5
    <3>2. \A i \in DOMAIN Tail(toCtl) : Tail(toCtl)[i] = x => i = Len(Tail(toCtl))
      BY <2>2, <3>1
    <3>3. QED
      BY <2>1, <2>5, <3>2 DEF x
  <2>6. CASE toCtl' = << >>
    BY <2>6
  <2>7. \/ toCtl' = toCtl \/ SessionReady \/ toCtl' = << >>
        \/ toCtl # << >> /\ toCtl' = Tail(toCtl)
    BY <1>3, <2>1
       DEF LinkNext, SessionStep, HostStep, CtlStep, SessionStop, SessionRearm,
           HostReads, CtlTakesReset, CtlTakesReadBufferSize, CtlTakesAcl,
           CtlChatters, CtlTransmits, CtlConnects, CtlDisconnects, CtlSends,
           Deliver, vars
  <2>8. QED
    BY <2>3, <2>4, <2>5, <2>6, <2>7
<1>4. QED
  BY <1>2, <1>3

LEMMA ResetDoneStep ==
  ASSUME IInv, LinkTypes, Idle, InOrder, Awaited, ResetIsLast, ResetDone,
         [LinkNext]_vars
  PROVE  ResetDone'
<1> SUFFICES ASSUME ResetUnderWay', NEW k \in DOMAIN fromCtl',
                    fromCtl'[k] = Completion(hostCmd')
             PROVE  /\ toCtl' = << >> /\ ~ctlUp' /\ ctlConn' = {}
                    /\ \A j \in DOMAIN fromCtl' : j > k => fromCtl'[j] = Vendor
  BY DEF ResetDone
<1>1. /\ toCtl \in Seq(CtlPacket) /\ fromCtl \in Seq(LinkEvent)
  BY DEF LinkTypes
<1>2. CASE HostCommand
  BY <1>2, FirstCommand DEF Carries
<1>3. CASE ~HostCommand
  <2>1. /\ ResetUnderWay /\ hostCmd' = hostCmd
        /\ ~ReplaceDevice /\ ~UsbReset /\ \A h \in Handle : ~HostAcl(h)
    BY <1>3, WhileUnderWay
  <2>2. hostCmd \in LinkCmd /\ hostCmd.id \in Int /\ hostCmd.op = "HCI_Reset"
    BY <2>1, AwaitedIs DEF ResetUnderWay, Awaited
  <2> DEFINE x == Completion(hostCmd)
  <2>3. fromCtl'[k] = x /\ x # Vendor
    BY <2>1, PacketTypes
  <2>4. ASSUME NEW i \in DOMAIN fromCtl, fromCtl[i] = x
        PROVE  /\ toCtl = << >> /\ ~ctlUp /\ ctlConn = {}
               /\ \A j \in DOMAIN fromCtl : j > i => fromCtl[j] = Vendor
    BY <2>1, <2>4 DEF ResetDone
  <2> HIDE DEF x
  <2>5. CASE UNCHANGED <<fromCtl, toCtl, ctlUp, ctlConn>>
    BY <2>3, <2>4, <2>5
  <2>6. CASE SessionReady
    <3>1. fromCtl' = fromCtl /\ \A i \in DOMAIN fromCtl : fromCtl[i] = Vendor
      BY <2>6 DEF SessionReady, Idle
    <3>2. QED
      BY <2>3, <3>1
  <2>7. CASE fromCtl' = << >>
    BY <2>7
  <2>8. ASSUME NEW e, fromCtl' = Append(fromCtl, e), k # Len(fromCtl) + 1
        PROVE  /\ k \in DOMAIN fromCtl /\ fromCtl[k] = x
               /\ toCtl = << >> /\ ~ctlUp /\ ctlConn = {}
               /\ \A j \in DOMAIN fromCtl' : j > k => fromCtl'[j] \in {Vendor, e}
    <3> DEFINE n1 == Len(fromCtl) + 1
    <3>1. /\ DOMAIN fromCtl' = DOMAIN fromCtl \cup {n1} /\ fromCtl'[n1] = e
          /\ \A i \in DOMAIN fromCtl : fromCtl'[i] = fromCtl[i]
      BY <1>1, <2>8
    <3>2. k \in DOMAIN fromCtl /\ fromCtl[k] = x
      BY <2>3, <2>8, <3>1
    <3> HIDE DEF n1
    <3>3. QED
      BY <2>4, <3>1, <3>2
  <2>9. CASE CtlTakesReset
    <3> DEFINE c == Head(toCtl).cmd
    <3>1. /\ toCtl # << >> /\ fromCtl' = Append(fromCtl, Completion(c))
          /\ toCtl' = Tail(toCtl) /\ ~ctlUp' /\ ctlConn' = {}
          /\ Head(toCtl).type = "cmd"
      BY <2>9 DEF CtlTakesReset
    <3>2. c \in LinkCmd /\ Head(toCtl) = CmdPacket(c)
      <4>1. Head(toCtl) \in CtlPacket
        BY <1>1, <3>1
      <4>2. PICK d \in LinkCmd : Head(toCtl) = CmdPacket(d)
        BY <3>1, <4>1, PacketTypes DEF CtlPacket
      <4>3. QED
        BY <4>2, PacketTypes
    <3> HIDE DEF c
    <3>3. k = Len(fromCtl) + 1
      BY <2>8, <3>1
    <3>4. /\ fromCtl'[k] = Completion(c) /\ \A j \in DOMAIN fromCtl' : ~(j > k)
      BY <1>1, <3>1, <3>3
    <3>5. c = hostCmd
      BY <2>2, <2>3, <3>2, <3>4, SameCompletion DEF x
    <3>6. 1 \in DOMAIN toCtl /\ toCtl[1] = CmdPacket(hostCmd)
      BY <1>1, <3>1, <3>2, <3>5
    <3>7. Len(toCtl) = 1
      BY <2>1, <3>6 DEF ResetIsLast
    <3>8. toCtl' = << >>
      BY <1>1, <3>1, <3>7
    <3>9. QED
      BY <3>1, <3>4, <3>8
  <2>10. CASE CtlTakesReadBufferSize
    <3> DEFINE c == Head(toCtl).cmd
    <3>1. /\ toCtl # << >> /\ fromCtl' = Append(fromCtl, Completion(c))
          /\ c.op = "Read_Buffer_Size"
      BY <2>10 DEF CtlTakesReadBufferSize
    <3> HIDE DEF c
    <3>2. k = Len(fromCtl) + 1
      BY <2>8, <3>1
    <3>3. fromCtl'[k] = Completion(c)
      BY <1>1, <3>1, <3>2
    <3>4. Completion(c) # x
      BY <2>2, <3>1, PacketTypes DEF x
    <3>5. QED
      BY <2>3, <3>3, <3>4
  <2>11. CASE CtlTakesAcl
    <3>1. fromCtl' = fromCtl /\ toCtl # << >>
      BY <2>11 DEF CtlTakesAcl
    <3>2. QED
      BY <2>3, <2>4, <3>1
  <2>12. CASE CtlChatters
    <3>1. /\ fromCtl' = Append(fromCtl, Vendor)
          /\ UNCHANGED <<toCtl, ctlUp, ctlConn>>
      BY <2>12 DEF CtlChatters, CtlSends
    <3>2. k # Len(fromCtl) + 1
      BY <1>1, <2>3, <3>1
    <3>3. QED
      BY <2>8, <3>1, <3>2
  <2>13. ASSUME NEW h \in Handle,
                CtlTransmits(h) \/ CtlConnects(h) \/ CtlDisconnects(h)
         PROVE  FALSE
    <3>1. PICK e \in {OneDone(h), Connected(h), Gone(h)} : fromCtl' = Append(fromCtl, e)
      BY <2>13 DEF CtlTransmits, CtlConnects, CtlDisconnects, CtlSends
    <3>2. e # x
      BY <3>1, EventsApart DEF x
    <3>3. k # Len(fromCtl) + 1
      BY <1>1, <2>3, <3>1, <3>2
    <3>4. ~ctlUp /\ ctlConn = {}
      BY <2>8, <3>1, <3>3
    <3>5. QED
      BY <2>13, <3>4 DEF CtlTransmits, CtlConnects, CtlDisconnects, LinkTypes
  <2>14. CASE Deliver
    <3>1. /\ fromCtl # << >> /\ fromCtl' = Tail(fromCtl)
          /\ UNCHANGED <<toCtl, ctlUp, ctlConn>>
      BY <2>14 DEF Deliver, ctlVars
    <3>2. \A i \in DOMAIN fromCtl' :
            i \in Int /\ i + 1 \in DOMAIN fromCtl /\ fromCtl'[i] = fromCtl[i + 1]
      BY <1>1, <3>1
    <3>3. k + 1 \in DOMAIN fromCtl /\ fromCtl[k + 1] = x /\ k \in Int
      BY <2>3, <3>2
    <3>4. QED
      BY <2>4, <3>1, <3>2, <3>3
  <2>15. CASE SessionRearm \/ HostReads \/ UNCHANGED vars
    BY <2>5, <2>15 DEF SessionRearm, HostReads, vars, ctlVars
  <2>16. CASE SessionStop
    BY <2>7, <2>16 DEF SessionStop
  <2>17. QED
    BY <1>3, <2>1, <2>6, <2>9, <2>10, <2>11, <2>12, <2>13, <2>14, <2>15, <2>16
       DEF LinkNext, SessionStep, HostStep, CtlStep
<1>4. QED
  BY <1>2, <1>3

LEMMA ResetSeenStep ==
  ASSUME IInv, LinkTypes, Idle, InOrder, Balanced, Life, [LinkNext]_vars
  PROVE  ResetSeen'
<1> USE DEF Life
<1> SUFFICES ASSUME ResetUnderWay', Carries(eventFifo', Completion(hostCmd'))
             PROVE  toCtl' = << >> /\ TrueAccount'
  BY DEF ResetSeen
<1>1. ~HostCommand
  BY FirstCommand
<1>2. /\ ResetUnderWay /\ hostCmd' = hostCmd
      /\ ~ReplaceDevice /\ ~UsbReset /\ \A h \in Handle : ~HostAcl(h)
  BY <1>1, WhileUnderWay
<1>3. hostCmd \in LinkCmd /\ hostCmd.op = "HCI_Reset"
  BY <1>2, AwaitedIs DEF ResetUnderWay, Awaited
<1> DEFINE x == Completion(hostCmd)
<1>4. Carries(eventFifo', x)
  BY <1>2
<1>5. x.type = "resetDone"
  BY <1>3, PacketTypes
<1>6. CASE Carries(eventFifo, x)
  <2>1. toCtl = << >> /\ TrueAccount
    BY <1>2, <1>6 DEF ResetSeen
  <2>2. NoReset
    BY <2>1 DEF NoReset
  <2>3. TrueAccount'
    BY <1>2, <2>1, <2>2, TrueStep
  <2>4. held = NoCmd
    <3>1. SUFFICES ASSUME held # NoCmd PROVE FALSE
      OBVIOUS
    <3>2. /\ held = hostCmd /\ UpTo(eventFifo, held.id - 1)
          /\ held.id \in Int /\ held.id - 1 \in Int /\ held.id > held.id - 1
      BY <3>1, AwaitedIs DEF InOrder, Awaited
    <3>3. QED
      BY <1>6, <3>2, LaterIsAbsent
  <2> HIDE DEF x
  <2>5. toCtl' = << >>
    BY <1>1, <1>2, <2>1, <2>4
       DEF LinkNext, SessionStep, HostStep, CtlStep, SessionReady, SessionStop,
           SessionRearm, HostReads, CtlTakesReset, CtlTakesReadBufferSize,
           CtlTakesAcl, CtlChatters, CtlTransmits, CtlConnects, CtlDisconnects,
           CtlSends, Deliver, vars
  <2>6. QED
    BY <2>3, <2>5
<1>7. CASE ~Carries(eventFifo, x)
  <2> HIDE DEF x
  <2>1. \/ eventFifo' = eventFifo \/ eventFifo' = << >>
        \/ eventFifo # << >> /\ eventFifo' = Tail(eventFifo)
        \/ Deliver
    BY <1>1, <1>2
       DEF LinkNext, SessionStep, HostStep, CtlStep, SessionReady, SessionStop,
           SessionRearm, BecomeReady, BecomeUnready, Reinitialise, HostReads,
           PopEvent, CtlTakesReset, CtlTakesReadBufferSize, CtlTakesAcl,
           CtlChatters, CtlTransmits, CtlConnects, CtlDisconnects, CtlSends,
           bridgeVars, vars
  <2>2. Deliver
    BY <1>4, <1>7, <2>1, QueueTypes, CountTail, CountEmpty
  <2> DEFINE e == Head(fromCtl)
  <2>3. /\ fromCtl \in Seq(LinkEvent) /\ fromCtl # << >>
        /\ fromCtl' = Tail(fromCtl)
        /\ eventFifo' \in {eventFifo, Append(eventFifo, e)}
        /\ Snoop(e)
        /\ UNCHANGED <<toCtl, ctlConn>>
    BY <2>2 DEF Deliver, OnEvent, LinkTypes, ctlVars
  <2> HIDE DEF e
  <2>4. e = x
    <3>1. eventFifo \in Seq(LinkEvent) /\ Carries(eventFifo', x)
      BY <1>4, QueueTypes
    <3>2. Carries(Append(eventFifo, e), x) <=> Carries(eventFifo, x) \/ e = x
      BY <3>1, CountAppend
    <3>3. QED
      BY <1>7, <2>3, <3>1, <3>2
  <2>5. /\ toCtl = << >> /\ ctlConn = {}
        /\ \A j \in DOMAIN fromCtl : j > 1 => fromCtl[j] = Vendor
    <3>1. 1 \in DOMAIN fromCtl /\ fromCtl[1] = x
      BY <2>3, <2>4 DEF e
    <3>2. QED
      BY <1>2, <3>1 DEF ResetDone, x
  <2>6. \A i \in DOMAIN fromCtl' : fromCtl'[i] = Vendor
    <3>1. \A i \in DOMAIN fromCtl' :
            i \in Nat \ {0} /\ i + 1 \in DOMAIN fromCtl /\ fromCtl'[i] = fromCtl[i + 1]
      BY <2>3
    <3>2. QED
      BY <2>5, <3>1
  <2>7. \A h \in Handle : strays'[h] = 0
    BY <1>2, <2>2 DEF Deliver, Awaited, ResetUnderWay, NoBuffers
  <2>8. \A h \in Handle : outstanding'[h] = 0
    <3>1. outstanding' = outstanding
      BY <1>5, <2>3, <2>4 DEF Snoop, CreditType, creditVars, x
    <3>2. inUse = {}
      BY <1>2 DEF Awaited, ResetUnderWay
    <3>3. QED
      BY <3>1, <3>2 DEF IInv, CreditInv, NoWrap
  <2>9. TrueAccount'
    <3> SUFFICES ASSUME NEW h \in Handle
                 PROVE  (TrueWhileUp(h) /\ TrueOnceGone(h) /\ GoneIsLast(h))'
      BY DEF TrueAccount
    <3>1. \A y \in {OneDone(h), Connected(h), Gone(h)} : ~Carries(fromCtl', y)
      BY <2>6, EventsApart DEF Carries
    <3>2. GoneIsLast(h)'
      BY <3>1 DEF GoneIsLast, Carries
    <3>3. ctlConn' = {}
      BY <2>3, <2>5
    <3>4. QED
      BY <2>7, <2>8, <3>1, <3>2, <3>3 DEF TrueWhileUp, TrueOnceGone
  <2>10. QED
    BY <2>3, <2>5, <2>9
<1>8. QED
  BY <1>6, <1>7

LEMMA NoResetStep ==
  ASSUME IInv, LinkTypes, Idle, Awaited, NoReset, [LinkNext]_vars,
         hostPhase # "fresh"
  PROVE  NoReset'
<1>1. toCtl \in Seq(CtlPacket)
  BY DEF LinkTypes
<1>2. ASSUME NEW x, x.type = "cmd" => x.cmd.op # "HCI_Reset",
             toCtl' = Append(toCtl, x)
      PROVE  NoReset'
  <2> DEFINE n1 == Len(toCtl) + 1
  <2>1. /\ DOMAIN toCtl' = DOMAIN toCtl \cup {n1} /\ toCtl'[n1] = x
        /\ \A i \in DOMAIN toCtl : toCtl'[i] = toCtl[i]
    BY <1>1, <1>2
  <2> HIDE DEF n1
  <2>2. QED
    BY <1>2, <2>1 DEF NoReset
<1>3. CASE toCtl' = toCtl \/ toCtl' = << >>
  BY <1>3 DEF NoReset
<1>4. CASE toCtl # << >> /\ toCtl' = Tail(toCtl)
  <2>1. \A i \in DOMAIN toCtl' : i + 1 \in DOMAIN toCtl /\ toCtl'[i] = toCtl[i + 1]
    BY <1>1, <1>4
  <2>2. QED
    BY <2>1 DEF NoReset
<1>5. CASE SessionReady
  <2>1. \/ toCtl' = toCtl
        \/ held # NoCmd /\ toCtl' = Append(toCtl, CmdPacket(held))
    BY <1>5 DEF SessionReady
  <2>2. held # NoCmd => held.op # "HCI_Reset"
    BY DEF Awaited
  <2>3. CmdPacket(held).cmd = held
    BY PacketTypes
  <2>4. QED
    BY <1>2, <1>3, <2>1, <2>2, <2>3
<1>6. CASE HostCommand
  <2> DEFINE c == [op |-> NextOp, id |-> cmds + 1]
  <2>1. toCtl' = toCtl \/ toCtl' = Append(toCtl, CmdPacket(c))
    BY <1>6 DEF HostCommand
  <2>2. c.op # "HCI_Reset"
    BY DEF NextOp
  <2>3. CmdPacket(c).cmd = c
    BY PacketTypes
  <2> HIDE DEF c
  <2>4. QED
    BY <1>2, <1>3, <2>1, <2>2, <2>3
<1>7. ASSUME NEW h \in Handle, HostAcl(h) PROVE NoReset'
  <2>1. toCtl' = toCtl \/ toCtl' = Append(toCtl, AclPacket(h))
    BY <1>7 DEF HostAcl
  <2>2. QED
    BY <1>2, <1>3, <2>1, PacketTypes
<1>8. \/ SessionReady \/ HostCommand \/ \E h \in Handle : HostAcl(h)
      \/ toCtl' = toCtl \/ toCtl' = << >>
      \/ toCtl # << >> /\ toCtl' = Tail(toCtl)
  BY DEF LinkNext, SessionStep, HostStep, CtlStep, SessionStop, SessionRearm,
     ReplaceDevice, UsbReset, HostReads, CtlTakesReset, CtlTakesReadBufferSize,
     CtlTakesAcl, CtlChatters, CtlTransmits, CtlConnects, CtlDisconnects,
     CtlSends, Deliver, vars
<1>9. QED
  BY <1>3, <1>4, <1>5, <1>6, <1>7, <1>8

LEMMA AfterResetStep ==
  ASSUME IInv, LinkTypes, Idle, InOrder, Balanced, Life, [LinkNext]_vars
  PROVE  AfterReset'
<1> USE DEF Life
<1> SUFFICES ASSUME hostPhase' # "fresh" PROVE TrueAccount' /\ NoReset'
  BY DEF AfterReset
<1>1. ~ReplaceDevice /\ ~UsbReset
  BY DEF ReplaceDevice, UsbReset, HostForgets
<1>2. CASE hostPhase # "fresh"
  BY <1>1, <1>2, TrueStep, NoResetStep DEF AfterReset
<1>3. CASE hostPhase = "fresh"
  <2>1. HostReads
    BY <1>1, <1>3
       DEF LinkNext, SessionStep, HostStep, CtlStep, SessionReady, SessionStop,
           SessionRearm, HostCommand, HostAcl, CtlTakesReset,
           CtlTakesReadBufferSize, CtlTakesAcl, CtlChatters, CtlTransmits,
           CtlConnects, CtlDisconnects, CtlSends, Deliver, vars, hostVars
  <2>2. hostCmd # NoCmd /\ Carries(eventFifo, Completion(hostCmd))
    BY <1>3, <2>1, ReadingCompletes
  <2>3. toCtl = << >> /\ TrueAccount
    BY <1>3, <2>2 DEF ResetSeen, ResetUnderWay
  <2>4. NoReset /\ toCtl' = toCtl
    BY <2>1, <2>3 DEF NoReset, HostReads
  <2>5. NoReset'
    BY <2>4 DEF NoReset
  <2>6. QED
    BY <1>1, <2>3, <2>4, <2>5, TrueStep
<1>4. QED
  BY <1>2, <1>3

LEMMA LifeStep ==
  ASSUME IInv, LinkTypes, Idle, InOrder, Balanced, Life, [LinkNext]_vars
  PROVE  Life'
BY AwaitedStep, ResetIsLastStep, ResetDoneStep, ResetSeenStep, AfterResetStep
   DEF Life

-----------------------------------------------------------------------------
(***************************************************************************)
(* The packets of live connections that are at the controller or on their  *)
(* way to it are among those the bridge has charged: the packets under way *)
(* are numbered behind the ones in the buffers, per handle and in their    *)
(* order.                                                                  *)
(***************************************************************************)
LiveAcl == {i \in DOMAIN toCtl : \E h \in ctlConn : toCtl[i] = AclPacket(h)}

BuffersFit == ctlBuf \in [Handle -> U16]

Behind(i) == {j \in DOMAIN toCtl : j <= i /\ toCtl[j] = toCtl[i]}

LEMMA BehindIs ==
  ASSUME LinkTypes, NEW i \in DOMAIN toCtl
  PROVE  /\ Cardinality(Behind(i)) \in 1..Count(toCtl, toCtl[i])
         /\ \A k \in DOMAIN toCtl : toCtl[k] = toCtl[i] /\ i < k =>
              Cardinality(Behind(i)) < Cardinality(Behind(k))
<1> DEFINE All == {j \in DOMAIN toCtl : toCtl[j] = toCtl[i]}
<1>1. toCtl \in Seq(CtlPacket) /\ \A j \in DOMAIN toCtl : j \in Int
  BY DEF LinkTypes
<1>2. IsFiniteSet(All) /\ Cardinality(All) = Count(toCtl, toCtl[i])
  BY <1>1, CountIs DEF Count
<1>3. Behind(i) \subseteq All /\ i \in Behind(i)
  BY <1>1 DEF Behind
<1> HIDE DEF All
<1>4. /\ IsFiniteSet(Behind(i)) /\ Cardinality(Behind(i)) \in Nat
      /\ Cardinality(Behind(i)) <= Count(toCtl, toCtl[i])
      /\ Count(toCtl, toCtl[i]) \in Nat
  BY <1>2, <1>3, FS_Subset, FS_CardinalityType
<1>5. Cardinality(Behind(i)) # 0
  BY <1>3, <1>4, FS_EmptySet
<1>6. ASSUME NEW k \in DOMAIN toCtl, toCtl[k] = toCtl[i], i < k
      PROVE  Cardinality(Behind(i)) < Cardinality(Behind(k))
  <2>1. Behind(i) \cup {k} \subseteq Behind(k) /\ k \notin Behind(i)
    BY <1>1, <1>6 DEF Behind
  <2>2. IsFiniteSet(Behind(k)) /\ Cardinality(Behind(k)) \in Nat
    <3>1. Behind(k) \subseteq DOMAIN toCtl /\ DOMAIN toCtl = 1..Len(toCtl)
      BY <1>1 DEF Behind
    <3>2. IsFiniteSet(1..Len(toCtl))
      BY <1>1, FS_Interval
    <3>3. QED
      BY <3>1, <3>2, FS_Subset, FS_CardinalityType
  <2>3. Cardinality(Behind(i) \cup {k}) = Cardinality(Behind(i)) + 1
    BY <1>4, <2>1, FS_AddElement
  <2>4. Cardinality(Behind(i) \cup {k}) <= Cardinality(Behind(k))
    BY <2>1, <2>2, FS_Subset
  <2>5. QED
    BY <1>4, <2>2, <2>3, <2>4
<1>7. QED
  BY <1>4, <1>5, <1>6

LoadCharged ==
  InFlight(Handle, ctlBuf) + AclUnderWay <= InFlight(inUse, outstanding)

LEMMA LoadIsCharged ==
  ASSUME CreditInv, LinkTypes, BuffersFit, TrueAccount
  PROVE  InFlight(Handle, ctlBuf) + AclUnderWay <= InFlight(inUse, outstanding)
<1> DEFINE A == InFlightPackets(Handle, ctlBuf)
           B == InFlightPackets(inUse, outstanding)
           at == [i \in LiveAcl |->
                    <<toCtl[i].handle,
                      ctlBuf[toCtl[i].handle] + Cardinality(Behind(i))>>]
<1>1. ASSUME NEW h \in ctlConn
      PROVE  /\ h \in Handle /\ ctlBuf[h] \in Nat /\ outstanding[h] \in Nat
             /\ outstanding[h] <= U16Max
             /\ ctlBuf[h] + Count(toCtl, AclPacket(h)) <= outstanding[h]
             /\ Count(toCtl, AclPacket(h)) \in Nat
             /\ outstanding[h] # 0 => h \in inUse
  <2>1. h \in Handle /\ TrueWhileUp(h)
    BY DEF LinkTypes, TrueAccount
  <2>2. Count(toCtl, AclPacket(h)) \in Nat /\ Count(fromCtl, OneDone(h)) \in Nat
    BY CountIs DEF LinkTypes
  <2>3. ctlBuf[h] \in Nat /\ strays[h] \in Nat
    BY <2>1 DEF LinkTypes
  <2>4. outstanding[h] \in Nat /\ outstanding[h] <= U16Max
    BY <2>1, ConstantsAssumption DEF CreditInv, CreditTypeOK, U16
  <2>5. outstanding[h] # 0 => h \in inUse
    BY <2>1 DEF CreditInv, NoWrap
  <2>6. QED
    BY <2>1, <2>2, <2>3, <2>4, <2>5 DEF TrueWhileUp
<1>2. ASSUME NEW h \in Handle, NEW n \in 1..U16Max
      PROVE  /\ <<h, n>> \in A <=> n <= ctlBuf[h]
             /\ h \in inUse /\ n <= outstanding[h] => <<h, n>> \in B
  BY DEF InFlightPackets
<1>3. A \subseteq B
  <2>1. ASSUME NEW h \in Handle, NEW n \in 1..U16Max, <<h, n>> \in A
        PROVE  <<h, n>> \in B
    <3>1. n <= ctlBuf[h] /\ ctlBuf[h] # 0
      BY <1>2, <2>1 DEF LinkTypes
    <3>2. h \in ctlConn
      BY <3>1 DEF LinkTypes
    <3>3. n <= outstanding[h] /\ outstanding[h] # 0
      BY <1>1, <3>1, <3>2
    <3>4. QED
      BY <1>1, <1>2, <3>2, <3>3
  <2>2. \A p \in A : \E h \in Handle, n \in 1..U16Max : p = <<h, n>>
    BY DEF InFlightPackets
  <2> HIDE DEF A, B
  <2>3. QED
    BY <2>1, <2>2
<1>4. IsFiniteSet(B)
  BY InFlightType DEF CreditInv, CreditTypeOK
<1>5. ASSUME NEW i \in LiveAcl
      PROVE  /\ toCtl[i].handle \in ctlConn
             /\ toCtl[i] = AclPacket(toCtl[i].handle)
             /\ Cardinality(Behind(i)) \in Nat \ {0}
             /\ Cardinality(Behind(i)) <= Count(toCtl, AclPacket(toCtl[i].handle))
  <2>1. PICK h \in ctlConn : toCtl[i] = AclPacket(h)
    BY DEF LiveAcl
  <2>2. toCtl[i].handle = h
    BY <2>1, PacketTypes
  <2>3. i \in DOMAIN toCtl
    BY DEF LiveAcl
  <2>4. Cardinality(Behind(i)) \in 1..Count(toCtl, toCtl[i])
    BY <2>3, BehindIs
  <2>5. Count(toCtl, toCtl[i]) \in Nat
    BY CountIs DEF LinkTypes
  <2>6. QED
    BY <2>1, <2>2, <2>4, <2>5
<1>6. ASSUME NEW i \in LiveAcl PROVE at[i] \in B \ A
  <2> DEFINE h == toCtl[i].handle
             n == ctlBuf[h] + Cardinality(Behind(i))
  <2>1. h \in ctlConn /\ h \in Handle /\ ctlBuf[h] \in Nat
    BY <1>1, <1>5
  <2>2. n > ctlBuf[h] /\ n <= outstanding[h] /\ n \in 1..U16Max /\ outstanding[h] # 0
    <3>1. /\ Cardinality(Behind(i)) \in Nat \ {0}
          /\ Cardinality(Behind(i)) <= Count(toCtl, AclPacket(h))
      BY <1>5
    <3>2. /\ outstanding[h] \in Nat /\ outstanding[h] <= U16Max
          /\ ctlBuf[h] + Count(toCtl, AclPacket(h)) <= outstanding[h]
          /\ Count(toCtl, AclPacket(h)) \in Nat
      BY <1>1, <2>1
    <3> HIDE DEF h
    <3>3. QED
      BY <2>1, <3>1, <3>2, ConstantsAssumption
  <2>3. h \in inUse
    BY <1>1, <2>1, <2>2
  <2>4. at[i] = <<h, n>>
    OBVIOUS
  <2> HIDE DEF h, n, A, B, at
  <2>5. ~(n <= ctlBuf[h])
    BY <2>1, <2>2
  <2>6. QED
    BY <1>2, <2>1, <2>2, <2>3, <2>4, <2>5
<1>7. ASSUME NEW i \in LiveAcl, NEW k \in LiveAcl, at[i] = at[k] PROVE i = k
  <2>1. toCtl[i].handle = toCtl[k].handle /\ toCtl[i] = toCtl[k]
    BY <1>5, <1>7
  <2>2. /\ Cardinality(Behind(i)) \in Nat /\ Cardinality(Behind(k)) \in Nat
        /\ ctlBuf[toCtl[i].handle] \in Nat
    BY <1>1, <1>5
  <2>3. Cardinality(Behind(i)) = Cardinality(Behind(k))
    BY <1>7, <2>1, <2>2
  <2>4. i \in DOMAIN toCtl /\ k \in DOMAIN toCtl /\ i \in Int /\ k \in Int
    BY DEF LiveAcl, LinkTypes
  <2>5. ~(i < k) /\ ~(k < i)
    BY <2>1, <2>2, <2>3, <2>4, BehindIs
  <2>6. QED
    BY <2>4, <2>5
<1>8. at \in Injection(LiveAcl, B \ A)
  <2>1. at \in [LiveAcl -> B \ A]
    BY <1>6
  <2>2. QED
    BY <1>7, <2>1 DEF Injection, IsInjective
<1> HIDE DEF A, B, at
<1>9. /\ IsFiniteSet(B \ A) /\ IsFiniteSet(A)
      /\ Cardinality(B \ A) = Cardinality(B) - Cardinality(A)
      /\ Cardinality(A) \in Nat /\ Cardinality(B) \in Nat
  <2>1. B \cap A = A
    BY <1>3
  <2>2. IsFiniteSet(A)
    BY <1>3, <1>4, FS_Subset
  <2>3. /\ IsFiniteSet(B \ A)
        /\ Cardinality(B \ A) = Cardinality(B) - Cardinality(B \cap A)
    BY <1>4, FS_Difference
  <2>4. QED
    BY <1>4, <2>1, <2>2, <2>3, FS_CardinalityType
<1>10. /\ Cardinality(LiveAcl) <= Cardinality(B \ A)
       /\ IsFiniteSet(LiveAcl)
  BY <1>8, <1>9, FS_Injection
<1>11. Cardinality(LiveAcl) \in Nat
  BY <1>10, FS_CardinalityType
<1>12. Cardinality(A) + Cardinality(LiveAcl) <= Cardinality(B)
  BY <1>9, <1>10, <1>11
<1>13. AclUnderWay = Cardinality(LiveAcl)
  BY DEF AclUnderWay, LiveAcl
<1>14. QED
  BY <1>12, <1>13 DEF InFlight, A, B

-----------------------------------------------------------------------------
(***************************************************************************)
(* A step that is not the host's ACL data adds nothing to the controller's *)
(* load.                                                                   *)
(***************************************************************************)
LEMMA PlacesFinite ==
  ASSUME NEW s \in Seq(CtlPacket), NEW A \in SUBSET DOMAIN s
  PROVE  IsFiniteSet(A) /\ Cardinality(A) \in Nat
<1>1. DOMAIN s = 1..Len(s) /\ Len(s) \in Int
  OBVIOUS
<1>2. IsFiniteSet(1..Len(s))
  BY <1>1, FS_Interval
<1>3. QED
  BY <1>1, <1>2, FS_Subset, FS_CardinalityType

LEMMA LoadTypes ==
  ASSUME LinkTypes, LinkTypes'
  PROVE  /\ InFlight(Handle, ctlBuf) \in Nat /\ InFlight(Handle, ctlBuf') \in Nat
         /\ IsFiniteSet(LiveAcl) /\ Cardinality(LiveAcl) \in Nat
         /\ AclUnderWay = Cardinality(LiveAcl)
         /\ IsFiniteSet(LiveAcl') /\ Cardinality(LiveAcl') \in Nat
         /\ AclUnderWay' = Cardinality(LiveAcl')
<1>1. toCtl \in Seq(CtlPacket) /\ toCtl' \in Seq(CtlPacket)
  BY DEF LinkTypes
<1>2. LiveAcl \subseteq DOMAIN toCtl /\ LiveAcl' \subseteq DOMAIN toCtl'
  BY DEF LiveAcl
<1>3. /\ IsFiniteSet(LiveAcl) /\ Cardinality(LiveAcl) \in Nat
      /\ IsFiniteSet(LiveAcl') /\ Cardinality(LiveAcl') \in Nat
  BY <1>1, <1>2, PlacesFinite
<1>4. AclUnderWay = Cardinality(LiveAcl) /\ AclUnderWay' = Cardinality(LiveAcl')
  BY DEF AclUnderWay, LiveAcl
<1>5. InFlight(Handle, ctlBuf) \in Nat /\ InFlight(Handle, ctlBuf') \in Nat
  BY InFlightType
<1>6. QED
  BY <1>3, <1>4, <1>5

\* The same packets are live.
LEMMA LiveAsBefore ==
  ASSUME LinkTypes, LinkTypes',
         \/ toCtl' = toCtl /\ ctlConn' \subseteq ctlConn
         \/ /\ ctlConn' = ctlConn
            /\ \E c : toCtl' = Append(toCtl, CmdPacket(c))
         \/ /\ ctlConn' \subseteq ctlConn /\ toCtl # << >> /\ toCtl' = Tail(toCtl)
         \/ toCtl' = << >>
         \/ /\ toCtl' = toCtl
            /\ \E h \in Handle : /\ ctlConn' = ctlConn \cup {h}
                                 /\ ~Carries(toCtl, AclPacket(h))
  PROVE  AclUnderWay' <= AclUnderWay
<1>1. /\ toCtl \in Seq(CtlPacket) /\ toCtl' \in Seq(CtlPacket)
      /\ IsFiniteSet(LiveAcl) /\ Cardinality(LiveAcl) \in Nat
      /\ AclUnderWay = Cardinality(LiveAcl) /\ AclUnderWay' = Cardinality(LiveAcl')
      /\ IsFiniteSet(LiveAcl') /\ Cardinality(LiveAcl') \in Nat
  BY LoadTypes DEF LinkTypes
<1>2. ASSUME LiveAcl' \subseteq LiveAcl PROVE AclUnderWay' <= AclUnderWay
  BY <1>1, <1>2, FS_Subset
<1>3. CASE toCtl' = toCtl /\ ctlConn' \subseteq ctlConn
  BY <1>2, <1>3 DEF LiveAcl
<1>4. ASSUME NEW c, ctlConn' = ctlConn, toCtl' = Append(toCtl, CmdPacket(c))
      PROVE  LiveAcl' \subseteq LiveAcl
  <2> DEFINE n1 == Len(toCtl) + 1
  <2>1. /\ DOMAIN toCtl' = DOMAIN toCtl \cup {n1} /\ toCtl'[n1] = CmdPacket(c)
        /\ \A i \in DOMAIN toCtl : toCtl'[i] = toCtl[i]
    BY <1>1, <1>4
  <2>2. \A h : CmdPacket(c) # AclPacket(h)
    BY PacketTypes
  <2> HIDE DEF n1
  <2>3. QED
    BY <1>4, <2>1, <2>2 DEF LiveAcl
<1>5. CASE ctlConn' \subseteq ctlConn /\ toCtl # << >> /\ toCtl' = Tail(toCtl)
  <2> DEFINE up == [i \in LiveAcl' |-> i + 1]
  <2>1. ASSUME NEW i \in LiveAcl' PROVE i \in Int /\ i + 1 \in LiveAcl
    <3>1. i \in DOMAIN toCtl' /\ \E h \in ctlConn' : toCtl'[i] = AclPacket(h)
      BY DEF LiveAcl
    <3>2. i \in Int /\ i + 1 \in DOMAIN toCtl /\ toCtl'[i] = toCtl[i + 1]
      BY <1>1, <1>5, <3>1
    <3>3. QED
      BY <1>5, <3>1, <3>2 DEF LiveAcl
  <2>2. up \in Injection(LiveAcl', LiveAcl)
    <3>1. up \in [LiveAcl' -> LiveAcl]
      BY <2>1
    <3>2. \A i, k \in LiveAcl' : up[i] = up[k] => i = k
      BY <2>1
    <3>3. QED
      BY <3>1, <3>2 DEF Injection, IsInjective
  <2>3. QED
    BY <1>1, <2>2, FS_Injection
<1>6. CASE toCtl' = << >>
  BY <1>2, <1>6 DEF LiveAcl
<1>7. ASSUME NEW h \in Handle, toCtl' = toCtl, ctlConn' = ctlConn \cup {h},
             ~Carries(toCtl, AclPacket(h))
      PROVE  LiveAcl' \subseteq LiveAcl
  BY <1>7 DEF LiveAcl, Carries
<1>8. QED
  BY <1>2, <1>3, <1>4, <1>5, <1>6, <1>7

\* The controller takes an ACL packet into a buffer.
LEMMA TakingMovesLoad ==
  ASSUME LinkTypes, LinkTypes', BuffersFit, NoOvercommit, CtlTakesAcl
  PROVE  BuffersFit' /\ NoOvercommit'
<1> DEFINE h == Head(toCtl).handle
           load == InFlight(Handle, ctlBuf)
<1>1. /\ toCtl # << >> /\ toCtl' = Tail(toCtl) /\ ctlConn' = ctlConn
      /\ ctlBuf' = IF h \in ctlConn THEN [ctlBuf EXCEPT ![h] = ctlBuf[h] + 1]
                                    ELSE ctlBuf
      /\ Head(toCtl).type = "acl"
  BY DEF CtlTakesAcl
<1>2. toCtl \in Seq(CtlPacket) /\ Head(toCtl) \in CtlPacket
  BY <1>1 DEF LinkTypes
<1>3. Head(toCtl) = AclPacket(h) /\ h \in Handle
  <2>1. PICK g \in Handle : Head(toCtl) = AclPacket(g)
    BY <1>1, <1>2, PacketTypes DEF CtlPacket
  <2>2. QED
    BY <2>1, PacketTypes
<1>4. /\ load \in Nat /\ Cardinality(LiveAcl) \in Nat /\ IsFiniteSet(LiveAcl)
      /\ AclUnderWay = Cardinality(LiveAcl) /\ AclUnderWay' \in Nat
      /\ AclUnderWay' = Cardinality(LiveAcl') /\ IsFiniteSet(LiveAcl')
  BY LoadTypes
<1>5. load + Cardinality(LiveAcl) <= AclBuffers /\ AclBuffers <= U16Max
      /\ AclBuffers \in Nat /\ U16Max \in Nat
  BY <1>4, LinkAssumption, ConstantsAssumption DEF NoOvercommit
<1> HIDE DEF h
<1>6. CASE h \notin ctlConn
  <2>1. ctlBuf' = ctlBuf /\ AclUnderWay' <= AclUnderWay
    BY <1>1, <1>6, LiveAsBefore
  <2>2. InFlight(Handle, ctlBuf') = load
    BY <2>1
  <2>3. QED
    BY <1>4, <1>5, <2>1, <2>2 DEF BuffersFit, NoOvercommit
<1>7. CASE h \in ctlConn
  <2>1. 1 \in LiveAcl
    BY <1>1, <1>2, <1>3, <1>7 DEF LiveAcl
  <2>2. Cardinality(LiveAcl \ {1}) = Cardinality(LiveAcl) - 1
    BY <1>4, <2>1, FS_RemoveElement
  <2>3. Cardinality(LiveAcl') <= Cardinality(LiveAcl \ {1})
    <3> DEFINE up == [i \in LiveAcl' |-> i + 1]
    <3>1. ASSUME NEW i \in LiveAcl' PROVE i \in Int /\ i + 1 \in LiveAcl \ {1}
      <4>1. i \in DOMAIN toCtl' /\ \E g \in ctlConn' : toCtl'[i] = AclPacket(g)
        BY DEF LiveAcl
      <4>2. /\ i \in Nat \ {0} /\ i + 1 \in DOMAIN toCtl
            /\ toCtl'[i] = toCtl[i + 1] /\ i + 1 # 1
        BY <1>1, <1>2, <4>1
      <4>3. QED
        BY <1>1, <4>1, <4>2 DEF LiveAcl
    <3>2. up \in Injection(LiveAcl', LiveAcl \ {1})
      <4>1. up \in [LiveAcl' -> LiveAcl \ {1}]
        BY <3>1
      <4>2. \A i, k \in LiveAcl' : up[i] = up[k] => i = k
        BY <3>1
      <4>3. QED
        BY <4>1, <4>2 DEF Injection, IsInjective
    <3>3. IsFiniteSet(LiveAcl \ {1})
      BY <1>4, FS_RemoveElement
    <3>4. QED
      BY <3>2, <3>3, FS_Injection
  <2>4. ctlBuf[h] <= load /\ ctlBuf[h] \in Nat
    BY <1>3, OutstandingIsInFlight DEF BuffersFit, U16
  <2>5. ctlBuf[h] + 1 <= U16Max /\ Cardinality(LiveAcl) >= 1
    <3>1. Cardinality(LiveAcl) # 0
      BY <1>4, <2>1, FS_EmptySet
    <3>2. QED
      BY <1>4, <1>5, <2>4, <3>1
  <2>6. InFlight(Handle, ctlBuf') = load + 1
    BY <1>1, <1>3, <1>7, <2>5, ChargeAddsOne DEF BuffersFit
  <2>7. BuffersFit'
    <3>1. ctlBuf[h] + 1 \in U16
      BY <1>5, <2>4, <2>5 DEF U16
    <3>2. QED
      BY <1>1, <1>7, <3>1 DEF BuffersFit
  <2>8. NoOvercommit'
    BY <1>4, <1>5, <2>2, <2>3, <2>6 DEF NoOvercommit
  <2>9. QED
    BY <2>7, <2>8
<1>8. QED
  BY <1>6, <1>7

LEMMA OthersAddNoLoad ==
  ASSUME IInv, LinkTypes, LinkTypes', BuffersFit, NoOvercommit, [LinkNext]_vars,
         ~CtlTakesAcl, \A h \in Handle : ~HostAcl(h)
  PROVE  BuffersFit' /\ NoOvercommit'
<1> DEFINE Lower == /\ ctlBuf' \in [Handle -> U16]
                    /\ \A h \in Handle : ctlBuf'[h] <= ctlBuf[h]
           Quiet == AclUnderWay' <= AclUnderWay
<1>1. ASSUME Lower, Quiet PROVE BuffersFit' /\ NoOvercommit'
  <2>1. InFlight(Handle, ctlBuf') <= InFlight(Handle, ctlBuf)
    BY <1>1, InFlightMonotone DEF BuffersFit
  <2>2. /\ InFlight(Handle, ctlBuf) \in Nat /\ AclUnderWay \in Nat
        /\ InFlight(Handle, ctlBuf') \in Nat /\ AclUnderWay' \in Nat
        /\ AclBuffers \in Nat
    BY LoadTypes, LinkAssumption, ConstantsAssumption
  <2>3. QED
    BY <1>1, <2>1, <2>2 DEF BuffersFit, NoOvercommit
<1>2. ctlBuf' = ctlBuf => Lower
  BY DEF BuffersFit, U16
<1>3. 0 \in U16 /\ \A h \in Handle : ctlBuf[h] >= 0
  BY ConstantsAssumption DEF BuffersFit, U16
<1>4. ctlBuf' = NoBuffers => Lower
  BY <1>3 DEF NoBuffers
<1> HIDE DEF Lower
<1>5. CASE SessionReady
  <2>1. /\ ctlConn' = ctlConn /\ ctlBuf' = ctlBuf
        /\ toCtl' = toCtl \/ toCtl' = Append(toCtl, CmdPacket(held))
    BY <1>5 DEF SessionReady, ctlVars
  <2>2. QED
    BY <1>1, <1>2, <2>1, LiveAsBefore
<1>6. CASE HostCommand
  <2>1. /\ ctlConn' = ctlConn /\ ctlBuf' = ctlBuf
        /\ toCtl' = toCtl \/ \E c : toCtl' = Append(toCtl, CmdPacket(c))
    BY <1>6 DEF HostCommand, ctlVars
  <2>2. QED
    BY <1>1, <1>2, <2>1, LiveAsBefore
<1>7. CASE SessionStop
  BY <1>1, <1>4, <1>7, LiveAsBefore DEF SessionStop
<1>8. CASE SessionRearm \/ ReplaceDevice \/ UsbReset \/ HostReads \/ Deliver
           \/ CtlChatters \/ UNCHANGED vars
  <2>1. UNCHANGED <<toCtl, ctlConn, ctlBuf>>
    BY <1>8 DEF SessionRearm, ReplaceDevice, UsbReset, HostReads, Deliver,
       CtlChatters, CtlSends, ctlVars, vars
  <2>2. QED
    BY <1>1, <1>2, <2>1, LiveAsBefore
<1>9. CASE CtlTakesReset
  <2>1. /\ toCtl # << >> /\ toCtl' = Tail(toCtl) /\ ctlConn' = {}
        /\ ctlBuf' = NoBuffers
    BY <1>9 DEF CtlTakesReset
  <2>2. QED
    BY <1>1, <1>4, <2>1, LiveAsBefore
<1>10. CASE CtlTakesReadBufferSize
  <2>1. /\ toCtl # << >> /\ toCtl' = Tail(toCtl) /\ ctlConn' = ctlConn
        /\ ctlBuf' = ctlBuf
    BY <1>10 DEF CtlTakesReadBufferSize
  <2>2. QED
    BY <1>1, <1>2, <2>1, LiveAsBefore
<1>11. ASSUME NEW g \in Handle, CtlTransmits(g) PROVE BuffersFit' /\ NoOvercommit'
  <2>1. /\ ctlBuf[g] > 0 /\ ctlBuf' = [ctlBuf EXCEPT ![g] = ctlBuf[g] - 1]
        /\ toCtl' = toCtl /\ ctlConn' = ctlConn
    BY <1>11 DEF CtlTransmits, CtlSends
  <2>2. ctlBuf[g] - 1 \in U16 /\ \A h \in Handle : ctlBuf[h] \in Nat
    <3>1. \A h \in Handle : ctlBuf[h] \in 0..U16Max
      BY DEF BuffersFit, U16
    <3>2. QED
      BY <2>1, <3>1, ConstantsAssumption DEF U16
  <2>3. Lower
    BY <2>1, <2>2 DEF BuffersFit, Lower
  <2>4. QED
    BY <1>1, <2>1, <2>3, LiveAsBefore
<1>12. ASSUME NEW g \in Handle, CtlConnects(g) PROVE BuffersFit' /\ NoOvercommit'
  <2>1. /\ ctlBuf' = ctlBuf /\ toCtl' = toCtl /\ ctlConn' = ctlConn \cup {g}
        /\ ~Carries(toCtl, AclPacket(g))
    BY <1>12 DEF CtlConnects, CtlSends, Carries
  <2>2. QED
    BY <1>1, <1>2, <2>1, LiveAsBefore
<1>13. ASSUME NEW g \in Handle, CtlDisconnects(g) PROVE BuffersFit' /\ NoOvercommit'
  <2>1. /\ ctlBuf' = [ctlBuf EXCEPT ![g] = 0]
        /\ toCtl' = toCtl /\ ctlConn' = ctlConn \ {g}
    BY <1>13 DEF CtlDisconnects, CtlSends
  <2>2. \A h \in Handle : ctlBuf[h] \in Nat
    BY DEF BuffersFit, U16
  <2>3. Lower
    BY <1>3, <2>1, <2>2 DEF BuffersFit, Lower
  <2>4. QED
    BY <1>1, <2>1, <2>3, LiveAsBefore
<1>14. QED
  BY <1>5, <1>6, <1>7, <1>8, <1>9, <1>10, <1>11, <1>12, <1>13
     DEF LinkNext, SessionStep, HostStep, CtlStep

\* The host's data is charged before it is under way.
LEMMA LoadFitsCharge ==
  CreditInv /\ LinkTypes /\ BuffersFit /\ TrueAccount => LoadCharged
BY LoadIsCharged DEF LoadCharged

LEMMA LoadFitsChargeNext ==
  CreditInv' /\ LinkTypes' /\ BuffersFit' /\ TrueAccount' => LoadCharged'
BY LoadFitsCharge, PTL

LEMMA ChargedDataFits ==
  ASSUME IInv, LinkTypes, Idle, InOrder, Balanced, Life, BuffersFit,
         NEW h \in Handle, HostAcl(h)
  PROVE  BuffersFit' /\ NoOvercommit'
<1>1. LinkNext
  BY DEF LinkNext, HostStep
<1>2. IInv' /\ LinkTypes' /\ Balanced' /\ Life'
  BY <1>1, BridgeInvariant, TypesStep, BalanceStep, LifeStep
<1>3. ctlBuf' = ctlBuf /\ hostPhase' = hostPhase /\ h \in hostConn
  BY DEF HostAcl, ctlVars
<1>4. hostPhase # "fresh"
  BY <1>3 DEF Life, Awaited
<1>5. BuffersFit' /\ TrueAccount'
  BY <1>2, <1>3, <1>4 DEF BuffersFit, Life, AfterReset
<1>6. LoadCharged'
  BY <1>2, <1>5, LoadFitsChargeNext DEF IInv
<1>7. /\ InFlight(Handle, ctlBuf') + AclUnderWay'
           <= InFlight(inUse', outstanding')
      /\ availAcl' + InFlight(inUse', outstanding') = totalAcl'
      /\ totalAcl' \in {0, AclBuffers} /\ AclBuffers \in Nat /\ availAcl' \in Nat
      /\ InFlight(inUse', outstanding') \in Nat
      /\ InFlight(Handle, ctlBuf') \in Nat /\ AclUnderWay' \in Nat
  BY <1>2, <1>6, LinkAssumption, ConstantsAssumption, InFlightType, LoadTypes
     DEF LoadCharged, Balanced, IInv, CreditInv, CreditTypeOK, U16
<1>8. NoOvercommit'
  BY <1>7 DEF NoOvercommit
<1>9. QED
  BY <1>5, <1>8

-----------------------------------------------------------------------------
(***************************************************************************)
(* The inductive invariant of the bridge between its neighbours.           *)
(***************************************************************************)
LInv ==
  /\ IInv /\ LinkTypes /\ Idle
  /\ InOrder
  /\ Balanced /\ Life
  /\ BuffersFit /\ NoOvercommit

LEMMA LinkStep ==
  ASSUME LInv, [LinkNext]_vars
  PROVE  LInv'
<1>1. IInv' /\ LinkTypes' /\ Idle' /\ InOrder' /\ Balanced' /\ Life'
  BY BridgeInvariant, TypesStep, IdleStep, OrderStep, BalanceStep, LifeStep
     DEF LInv
<1>2. BuffersFit' /\ NoOvercommit'
  <2>1. CASE CtlTakesAcl
    BY <1>1, <2>1, TakingMovesLoad DEF LInv
  <2>2. ASSUME NEW h \in Handle, HostAcl(h) PROVE BuffersFit' /\ NoOvercommit'
    BY <2>2, ChargedDataFits DEF LInv
  <2>3. CASE ~CtlTakesAcl /\ \A h \in Handle : ~HostAcl(h)
    BY <1>1, <2>3, OthersAddNoLoad DEF LInv
  <2>4. QED
    BY <2>1, <2>2, <2>3
<1>3. QED
  BY <1>1, <1>2 DEF LInv

LEMMA LinkInitially ==
  ASSUME LinkInit
  PROVE  LInv
<1> USE DEF LinkInit
<1>1. IInv
  BY InitialInvariant
<1>2. /\ toCtl = << >> /\ fromCtl = << >> /\ eventFifo = << >>
      /\ held = NoCmd /\ hostCmd = NoCmd /\ ready = FALSE
  BY DEF Init
<1>3. LinkTypes
  BY <1>2, LinkAssumption, EmptySeq DEF LinkTypes, NoBuffers
<1>4. Idle
  BY <1>2 DEF Idle
<1>5. InOrder
  BY <1>2, EmptyInOrder DEF InOrder
<1>6. Balanced
  BY InFlightOfEmptyTable DEF Balanced, Init
<1>7. Life
  BY <1>2 DEF Life, Awaited, ResetIsLast, ResetDone, ResetSeen, AfterReset,
     ResetUnderWay, Init
<1>8. BuffersFit
  BY ConstantsAssumption DEF BuffersFit, NoBuffers, U16
<1>9. NoOvercommit
  <2>1. InFlight(Handle, ctlBuf) = 0
    BY <1>8, InFlightOfNothing DEF BuffersFit, NoBuffers
  <2>2. {i \in DOMAIN toCtl : \E h \in ctlConn : toCtl[i] = AclPacket(h)} = {}
    BY <1>2
  <2>3. AclUnderWay = 0
    BY <2>2, FS_EmptySet DEF AclUnderWay
  <2>4. QED
    BY <2>1, <2>3, LinkAssumption, ConstantsAssumption DEF NoOvercommit
<1>10. QED
  BY <1>1, <1>3, <1>4, <1>5, <1>6, <1>7, <1>8, <1>9 DEF LInv

LEMMA LinkInvariant == LinkSpec => []LInv
<1>1. LinkInit => LInv
  BY LinkInitially
<1>2. LInv /\ [LinkNext]_vars => LInv'
  BY LinkStep
<1>3. QED
  BY <1>1, <1>2, PTL DEF LinkSpec

\* A table owes nothing for the handles that have no slot in it.
LEMMA InFlightOffTable ==
  ASSUME NEW used \in SUBSET Handle, NEW out \in [Handle -> U16],
         \A h \in Handle \ used : out[h] = 0
  PROVE  InFlight(Handle, out) = InFlight(used, out)
<1>1. InFlightPackets(Handle, out) = InFlightPackets(used, out)
  BY DEF InFlightPackets, U16
<1>2. QED
  BY <1>1 DEF InFlight

\* A silent link owes the strays.
LEMMA SilenceIsSettled ==
  ASSUME LInv
  PROVE  CreditsAccounted
<1> SUFFICES ASSUME session # "stopped", Quiescent
             PROVE  availAcl + InFlight(Handle, strays) = totalAcl
  BY DEF CreditsAccounted
<1>1. /\ inUse \in SUBSET Handle /\ outstanding \in [Handle -> U16]
      /\ strays \in [Handle -> Nat]
      /\ \A h \in Handle \ inUse : outstanding[h] = 0
  BY DEF LInv, IInv, CreditInv, CreditTypeOK, NoWrap, LinkTypes
<1>2. ASSUME NEW h \in Handle PROVE outstanding[h] = strays[h]
  <2>1. CASE hostPhase = "fresh"
    BY <1>1, <2>1 DEF LInv, Life, Awaited, NoBuffers
  <2>2. CASE hostPhase # "fresh"
    <3>1. /\ Count(toCtl, AclPacket(h)) = 0 /\ Count(fromCtl, OneDone(h)) = 0
          /\ ~Carries(fromCtl, Gone(h)) /\ ctlBuf[h] = 0
      BY CountEmpty DEF Quiescent, NoBuffers
    <3>2. TrueWhileUp(h) /\ TrueOnceGone(h)
      BY <2>2 DEF LInv, Life, AfterReset, TrueAccount
    <3>3. QED
      BY <1>1, <3>1, <3>2 DEF TrueWhileUp, TrueOnceGone
  <2>3. QED
    BY <2>1, <2>2
<1>3. outstanding = strays
  BY <1>1, <1>2
<1>4. InFlight(Handle, outstanding) = InFlight(inUse, outstanding)
  BY <1>1, InFlightOffTable
<1>5. availAcl + InFlight(inUse, outstanding) = totalAcl
  BY DEF LInv, Balanced
<1>6. QED
  BY <1>3, <1>4, <1>5

-----------------------------------------------------------------------------
(***************************************************************************)
(* A held command is replayed at most once and no command overtakes        *)
(* another: whatever sleeps, USB resets and refused writes come in         *)
(* between, the commands and their answers between host and controller are *)
(* distinct and in the order the host issued them (HciBridgeSubmitCommand, *)
(* HciBridgeSetReady).                                                     *)
(***************************************************************************)
THEOREM CommandsKeepTheirOrder == LinkSpec => []CommandsInOrder
<1>1. LInv => CommandsInOrder
  BY OrderOfPipeline DEF LInv
<1>2. QED
  BY <1>1, LinkInvariant, PTL

(***************************************************************************)
(* The bridge never sends the controller more ACL packets of live          *)
(* connections than it has buffers, even for a host that does not count    *)
(* its credits (the credit check of HciBridgeSubmitAcl and the bookkeeping *)
(* of HciBridgeSnoopCredits).                                              *)
(***************************************************************************)
THEOREM ControllerIsNeverFlooded == LinkSpec => []NoOvercommit
<1>1. LInv => NoOvercommit
  BY DEF LInv
<1>2. QED
  BY <1>1, LinkInvariant, PTL

(***************************************************************************)
(* Every credit is accounted for: once nothing is under way and the        *)
(* controller's buffers are empty, what is not available is one credit for *)
(* each packet the bridge accepted for a handle after it had snooped its   *)
(* disconnection, and none besides, whatever was connected, lost, refused  *)
(* and reset before (HciBridgeRecordDisconnection,                         *)
(* HciBridgeRecordAclCompleted, HciBridgeReset).                           *)
(***************************************************************************)
THEOREM CreditsAreAccounted == LinkSpec => []CreditsAccounted
<1>1. LInv => CreditsAccounted
  BY SilenceIsSettled
<1>2. QED
  BY <1>1, LinkInvariant, PTL

=============================================================================
