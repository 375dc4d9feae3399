--------------------------- MODULE MCBridgeArming ---------------------------
(***************************************************************************)
(* A small instance of HciBridge and one of BackendArming, checked         *)
(* together.  They share no state: a behaviour explores one of the two and *)
(* leaves the other as it began.                                           *)
(*                                                                         *)
(* Two slots for three handles make the handle table of the bridge fill;   *)
(* counters that end at 3 make a missing check wrap.                       *)
(***************************************************************************)
EXTENDS HciBridge, BackendArming, TLC

CONSTANTS h1, h2, h3

Completed(a, b, c) ==
  [type |-> "completed", done |-> (h1 :> a @@ h2 :> b @@ h3 :> c)]

Events ==
  [type: {"bufferSize"}, total: {0, 1, 3}]
    \cup {Completed(1, 0, 0), Completed(0, 3, 0), Completed(1, 2, 1)}
    \cup [type: {"disconnect"}, handle: Handle]
    \cup [type: {"vendor", "other"}]

Symmetric == Permutations(Devnode)

VARIABLE part

InBridge == part = "bridge" /\ UNCHANGED <<part, armingVars>>
InArming == part = "arming" /\ UNCHANGED <<part, bridgeVars>>

MCInit == part \in {"bridge", "arming"} /\ Init /\ ArmingInit

BridgeNext ==
  \/ \E c \in Cmd : InBridge /\ SubmitCommand(c)
  \/ \E h \in Handle, wireTakes \in BOOLEAN : InBridge /\ SubmitAcl(h, wireTakes)
  \/ \E p \in ScoPkt, n \in 0..ScoOutDepth : InBridge /\ SubmitSco(p, n)
  \/ InBridge /\ PopEvent
  \/ InBridge /\ PopAcl
  \/ InBridge /\ PopSco
  \/ InBridge /\ Reset
  \/ \E e \in Event : InBridge /\ OnEvent(e)
  \/ \E p \in AclPkt : InBridge /\ OnAcl(p)
  \/ \E p \in ScoPkt : InBridge /\ OnSco(p)
  \/ \E n \in 0..ScoOutDepth : InBridge /\ BecomeReady(n)
  \/ InBridge /\ BecomeUnready
  \/ InBridge /\ Reinitialise

\* The start of a devnode.
StartNext(d) ==
  \/ InArming /\ Start(d)
  \/ InArming /\ ReadTokens(d)
  \/ InArming /\ CannotReadTokens(d)
  \/ InArming /\ RefuseBoth(d)
  \/ InArming /\ ReadEnabled(d)
  \/ \E b \in Backends : InArming /\ ReadBackend(d, b)
  \/ InArming /\ Claim(d)
  \/ InArming /\ ConsumeWrite(d)
  \/ InArming /\ ConsumeFlush(d)
  \/ InArming /\ ConsumeVerify(d)
  \/ InArming /\ ConsumeFails(d)
  \/ InArming /\ ArmSession(d)
  \/ InArming /\ CannotArmSession(d)
  \/ InArming /\ CreateUsbDevice(d)
  \/ InArming /\ CannotCreate(d)
  \/ InArming /\ Unplug(d)
  \/ InArming /\ ReleaseClaim(d)
  \/ InArming /\ Publish(d)

MCNext ==
  \/ BridgeNext
  \/ \E d \in Devnode : StartNext(d)
  \/ \E v \in Values, n \in {Malformed, 0} \cup 1..MaxArms : InArming /\ OperatorSets(v, n)
  \/ InArming /\ SystemFlushes
  \/ \E p \in Publisher : InArming /\ RecordProgress(p)
  \/ \E p \in Publisher : InArming /\ RecordFails(p)
  \/ InArming /\ Crash

MCSpec == MCInit /\ [][MCNext]_<<part, bridgeVars, armingVars>>
=============================================================================
