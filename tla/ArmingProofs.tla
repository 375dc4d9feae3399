---------------------------- MODULE ArmingProofs ----------------------------
(***************************************************************************)
(* Theorems about BackendArming, for every set of devnodes and every       *)
(* bound.                                                                  *)
(*                                                                         *)
(* Three invariants, each inductive with the types alone.  OwnedClaim says *)
(* where a devnode that holds the claim may be, and that consuming an arm  *)
(* for the stub takes the claim.  SpentArms follows an arm from the value  *)
(* it was set in: it is never in two values, and before it is acted on it  *)
(* is gone from the registry and, behind the flush, from the disk; so a    *)
(* crash cannot bring it back.  OnePublisher says how far the only         *)
(* publisher has come with the record.                                     *)
(***************************************************************************)
EXTENDS BackendArming, FiniteSetTheorems, TLAPS

Value == {"UartProbe", "UartIdentify", "Enabled"}
Place == {"stopped", "tokens", "ambiguous", "enabled", "backend", "claim",
          "write", "flush", "verify", "arm", "create", "idle", "session",
          "visible", "released"}
Step == {"no", "first", "second", "commit"}

TypeInv ==
  /\ reg \in [Value -> Int] /\ disk \in [Value -> Int] /\ arms \in Nat
  /\ boot \in Nat
  /\ claim \in {0, 1} /\ holds \in [Devnode -> BOOLEAN]
  /\ at \in [Devnode -> Place]
  /\ saw \in [Devnode -> [value : Value, arm : Int]]
  /\ publishes \in [Publisher -> Step] /\ mixed \in BOOLEAN
  /\ starts \subseteq [arm : Int, boot : Nat]

Record == [commit : {"none", "in progress", "done"},
           first : Publisher \cup {<<Nobody>>},
           second : Publisher \cup {<<Nobody>>}]

Holders == {d \in Devnode : holds[d]}

\* The claim is up while one devnode holds it; a devnode that holds it is
\* about to show the stub's child, shows it, or is being released.
OwnedClaim ==
  /\ claim = 0 => \A d \in Devnode : ~holds[d]
  /\ claim = 1 => \E d \in Devnode : \A e \in Devnode : holds[e] <=> e = d
  /\ \A d \in Devnode :
       /\ holds[d] => at[d] \in {"write", "flush", "verify", "create",
                                 "visible", "released"}
       /\ at[d] \in {"create", "visible"} => holds[d]
       /\ at[d] \in {"write", "flush", "verify"} =>
            (holds[d] <=> saw[d].value # "UartIdentify")
       /\ at[d] \in {"stopped", "tokens", "ambiguous", "enabled", "backend",
                     "claim"} => saw[d].value = "Enabled"

\* A devnode that consumes an arm or has consumed it.
Bears(d) ==
  \/ at[d] \in {"write", "flush", "verify", "create"}
  \/ at[d] = "arm" /\ saw[d].value = "UartIdentify"

\* A devnode behind the flush: what it saw is gone for good.
Spent(d) ==
  \/ at[d] \in {"verify", "create"}
  \/ at[d] = "arm" /\ saw[d].value = "UartIdentify"

\* An arm is in one value only, of those it may still be found in.
ValuesApart ==
  /\ \A v \in Value : reg[v] <= arms /\ disk[v] <= arms
  /\ \A v, w \in Value :
       /\ reg[v] > 0 /\ (reg[w] = reg[v] \/ disk[w] = reg[v]) => v = w
       /\ disk[v] > 0 /\ disk[w] = disk[v] => v = w

ArmFollowed(d) ==
  /\ saw[d].arm <= arms /\ saw[d].arm >= 0
  /\ Bears(d) \/ at[d] \in {"backend", "claim"} => saw[d].arm > 0
  /\ saw[d].arm > 0 =>
       \A v \in Value : saw[d].arm \in {reg[v], disk[v]} => v = saw[d].value
  /\ at[d] = "flush" => reg[saw[d].value] # saw[d].arm
  /\ Spent(d) => \A v \in Value : saw[d].arm \notin {reg[v], disk[v]}
  /\ \A s \in starts : s.arm = saw[d].arm => s.boot = boot
  /\ at[d] \in {"stopped", "tokens", "ambiguous", "enabled"} =>
       saw[d].value = "Enabled" /\ saw[d].arm = 0
  /\ at[d] \in {"backend", "claim"} => saw[d].value = "Enabled"

StartedGone ==
  \A s \in starts :
    /\ s.arm \in 1..arms
    /\ \A v \in Value : s.arm \notin {reg[v], disk[v]}
    /\ \A t \in starts : s.arm = t.arm => s.boot = t.boot

SpentArms ==
  ValuesApart /\ (\A d \in Devnode : ArmFollowed(d)) /\ StartedGone

\* Unless two published at the same time, a publisher that writes is alone,
\* and what it has written so far is its own.
OnePublisher ==
  /\ record \in Record
  /\ ~mixed =>
       /\ record.commit = "done" => record.first = record.second
       /\ \A p \in Publisher : publishes[p] # "no" =>
            /\ record.commit = "in progress"
            /\ publishes[p] \in {"second", "commit"} => record.first = p
            /\ publishes[p] = "commit" => record.second = p
            /\ \A q \in Publisher : publishes[q] # "no" => p = q

IInv == TypeInv /\ OwnedClaim /\ SpentArms /\ OnePublisher

-----------------------------------------------------------------------------
\* A devnode that forgets what it read has seen no arm.
LEMMA Forgetting ==
  ASSUME TypeInv, NEW d \in Devnode, Forgets(d)
  PROVE  saw' \in [Devnode -> [value : Value, arm : Int]]
<1>1. NoArm \in [value : Value, arm : Int]
  BY DEF NoArm, Value
<1>2. QED
  BY <1>1 DEF TypeInv, Forgets

\* Every action keeps the types.
LEMMA TypesKeep ==
  TypeInv /\ [ArmingNext]_armingVars => TypeInv'
<1> SUFFICES ASSUME TypeInv, [ArmingNext]_armingVars PROVE TypeInv'
  OBVIOUS
<1> USE ArmingAssumption DEF TypeInv, Place, Value, Step, regVars, pubVars
<1>1. ASSUME NEW v \in Values, NEW n \in {Malformed, 0} \cup 1..MaxArms,
             OperatorSets(v, n)
      PROVE  TypeInv'
  BY <1>1 DEF OperatorSets, Malformed
<1>2. ASSUME SystemFlushes PROVE TypeInv'
  BY <1>2 DEF SystemFlushes
<1>3. ASSUME NEW d \in Devnode, Start(d) PROVE TypeInv'
  BY <1>3 DEF Start, Goes
<1>4. ASSUME NEW d \in Devnode, ReadTokens(d) PROVE TypeInv'
  BY <1>4 DEF ReadTokens, Goes, TokensSay, Begins
<1>5. ASSUME NEW d \in Devnode, CannotReadTokens(d) PROVE TypeInv'
  BY <1>5 DEF CannotReadTokens, Goes, MayFail
<1>6. ASSUME NEW d \in Devnode, RefuseBoth(d) PROVE TypeInv'
  BY <1>6 DEF RefuseBoth, Goes
<1>7. ASSUME NEW d \in Devnode, ReadEnabled(d) PROVE TypeInv'
  <2>1. /\ at' \in [Devnode -> Place]
        /\ saw' \in [Devnode -> [value : Value, arm : Int]]
    BY <1>7 DEF ReadEnabled, Goes
  <2>2. QED
    BY <1>7, <2>1 DEF ReadEnabled
<1>8. ASSUME NEW d \in Devnode, NEW b \in Backends, ReadBackend(d, b)
      PROVE  TypeInv'
  BY <1>8 DEF ReadBackend, Goes
<1>9. ASSUME NEW d \in Devnode, Claim(d) PROVE TypeInv'
  <2>1. saw' \in [Devnode -> [value : Value, arm : Int]]
    BY <1>9 DEF Claim, Goes, Forgets, NoArm
  <2>2. /\ at' \in [Devnode -> Place] /\ claim' \in {0, 1}
        /\ holds' \in [Devnode -> BOOLEAN]
    BY <1>9 DEF Claim, Goes, Forgets, NoArm
  <2>3. QED
    BY <1>9, <2>1, <2>2 DEF Claim
<1>10. ASSUME NEW d \in Devnode, ConsumeWrite(d) PROVE TypeInv'
  <2>1. reg' = [reg EXCEPT ![saw[d].value] = 0]
    BY <1>10 DEF ConsumeWrite
  <2>2. reg' \in [Value -> Int]
    BY <2>1
  <2>3. at' \in [Devnode -> Place]
    BY <1>10 DEF ConsumeWrite, Goes
  <2>4. QED
    BY <1>10, <2>2, <2>3 DEF ConsumeWrite
<1>11. ASSUME NEW d \in Devnode, ConsumeFlush(d) PROVE TypeInv'
  BY <1>11 DEF ConsumeFlush, Goes
<1>12. ASSUME NEW d \in Devnode, ConsumeVerify(d) PROVE TypeInv'
  BY <1>12 DEF ConsumeVerify, Goes, GivesUpClaim, Identifies
<1>13. ASSUME NEW d \in Devnode, ConsumeFails(d) PROVE TypeInv'
  BY <1>13 DEF ConsumeFails, GivesUpClaim, MayFail
<1>14. ASSUME NEW d \in Devnode, ArmSession(d) PROVE TypeInv'
  <2>1. saw' \in [Devnode -> [value : Value, arm : Int]]
    BY <1>14, Forgetting DEF ArmSession
  <2>2. [arm |-> saw[d].arm, boot |-> boot] \in [arm : Int, boot : Nat]
    OBVIOUS
  <2>3. starts' \subseteq [arm : Int, boot : Nat]
    BY <1>14, <2>2 DEF ArmSession
  <2>4. at' \in [Devnode -> Place]
    BY <1>14 DEF ArmSession, Goes
  <2>5. QED
    BY <1>14, <2>1, <2>3, <2>4 DEF ArmSession
<1>15. ASSUME NEW d \in Devnode, CannotArmSession(d) PROVE TypeInv'
  <2>1. at' \in [Devnode -> Place]
    BY <1>15 DEF CannotArmSession, Goes
  <2>2. QED
    BY <1>15, <2>1 DEF CannotArmSession
<1>16. ASSUME NEW d \in Devnode, CreateUsbDevice(d) PROVE TypeInv'
  <2>1. saw' \in [Devnode -> [value : Value, arm : Int]]
    BY <1>16, Forgetting DEF CreateUsbDevice
  <2>2. [arm |-> saw[d].arm, boot |-> boot] \in [arm : Int, boot : Nat]
    OBVIOUS
  <2>3. starts' \subseteq [arm : Int, boot : Nat]
    BY <1>16, <2>2 DEF CreateUsbDevice
  <2>4. at' \in [Devnode -> Place]
    BY <1>16 DEF CreateUsbDevice, Goes
  <2>5. QED
    BY <1>16, <2>1, <2>3, <2>4 DEF CreateUsbDevice
<1>17. ASSUME NEW d \in Devnode, CannotCreate(d) PROVE TypeInv'
  BY <1>17 DEF CannotCreate, Goes, MayFail, GivesUpClaim
<1>18. ASSUME NEW d \in Devnode, Unplug(d) PROVE TypeInv'
  BY <1>18 DEF Unplug
<1>19. ASSUME NEW d \in Devnode, ReleaseClaim(d) PROVE TypeInv'
  BY <1>19 DEF ReleaseClaim, Goes, GivesUpClaim, Forgets, NoArm
<1>20. ASSUME NEW d \in Devnode, Publish(d) PROVE TypeInv'
  BY <1>20 DEF Publish, Begins, WorkerLives
<1>21. ASSUME NEW p \in Publisher, RecordProgress(p) PROVE TypeInv'
  BY <1>21 DEF RecordProgress, Written, After
<1>22. ASSUME NEW p \in Publisher, RecordFails(p) PROVE TypeInv'
  BY <1>22 DEF RecordFails, MayFail
<1>23. ASSUME Crash PROVE TypeInv'
  BY <1>23 DEF Crash, NoArm
<1>24. CASE UNCHANGED armingVars
  BY <1>24 DEF armingVars
<1> HIDE DEF TypeInv, Place, Value, Step, regVars, pubVars
<1>25. QED
  BY <1>1, <1>2, <1>3, <1>4, <1>5, <1>6, <1>7, <1>8, <1>9, <1>10, <1>11,
     <1>12, <1>13, <1>14, <1>15, <1>16, <1>17, <1>18, <1>19, <1>20, <1>21,
     <1>22, <1>23, <1>24 DEF ArmingNext, PrepareHardware

\* Every action keeps the claim with its owner.
LEMMA ClaimKeeps ==
  TypeInv /\ OwnedClaim /\ [ArmingNext]_armingVars => OwnedClaim'
<1> SUFFICES ASSUME TypeInv, OwnedClaim, [ArmingNext]_armingVars PROVE OwnedClaim'
  OBVIOUS
<1> USE ArmingAssumption DEF TypeInv, OwnedClaim, Value, Holders, Place,
   regVars, pubVars
<1>1. ASSUME NEW v \in Values, NEW n \in {Malformed, 0} \cup 1..MaxArms,
             OperatorSets(v, n)
      PROVE  OwnedClaim'
  BY <1>1 DEF OperatorSets, Malformed
<1>2. ASSUME SystemFlushes PROVE OwnedClaim'
  BY <1>2 DEF SystemFlushes
<1>3. ASSUME NEW d \in Devnode, Start(d) PROVE OwnedClaim'
  BY <1>3 DEF Start, Goes
<1>4. ASSUME NEW d \in Devnode, ReadTokens(d) PROVE OwnedClaim'
  BY <1>4 DEF ReadTokens, Goes, TokensSay, Begins
<1>5. ASSUME NEW d \in Devnode, CannotReadTokens(d) PROVE OwnedClaim'
  BY <1>5 DEF CannotReadTokens, Goes, MayFail
<1>6. ASSUME NEW d \in Devnode, RefuseBoth(d) PROVE OwnedClaim'
  BY <1>6 DEF RefuseBoth, Goes
<1>7. ASSUME NEW d \in Devnode, ReadEnabled(d) PROVE OwnedClaim'
  <2>1. /\ at[d] = "enabled" /\ UNCHANGED <<claim, holds>>
        /\ \/ at' = [at EXCEPT ![d] = "backend"]
           \/ at' = [at EXCEPT ![d] = "idle"]
    BY <1>7 DEF ReadEnabled, Goes
  <2>2. \A e \in Devnode : saw'[e].value = saw[e].value
    BY <1>7 DEF ReadEnabled
  <2>3. QED
    BY <2>1, <2>2
<1>8. ASSUME NEW d \in Devnode, NEW b \in Backends, ReadBackend(d, b)
      PROVE  OwnedClaim'
  BY <1>8 DEF ReadBackend, Goes
<1>9. ASSUME NEW d \in Devnode, Claim(d) PROVE OwnedClaim'
  <2>1. CASE claim = 0
    <3>1. /\ at[d] = "claim" /\ at' = [at EXCEPT ![d] = "write"]
          /\ saw' = saw
          /\ claim' = 1 /\ holds' = [holds EXCEPT ![d] = TRUE]
      BY <1>9, <2>1 DEF Claim, Goes
    <3>2. \A e \in Devnode : holds'[e] <=> e = d
      BY <2>1, <3>1
    <3>3. QED
      BY <2>1, <3>1, <3>2
  <2>2. CASE claim = 1
    <3>1. /\ at[d] = "claim" /\ at' = [at EXCEPT ![d] = "idle"]
          /\ saw' = [saw EXCEPT ![d] = [value |-> "Enabled", arm |-> 0]]
          /\ UNCHANGED <<claim, holds>>
      BY <1>9, <2>2 DEF Claim, Goes, Forgets, NoArm
    <3>2. QED
      BY <2>2, <3>1
  <2>3. QED
    BY <2>1, <2>2
<1>10. ASSUME NEW d \in Devnode, ConsumeWrite(d) PROVE OwnedClaim'
  <2>1. /\ at[d] = "write" /\ at' = [at EXCEPT ![d] = "flush"]
        /\ UNCHANGED <<claim, holds, saw>>
    BY <1>10 DEF ConsumeWrite, Goes
  <2>2. QED
    BY <2>1
<1>11. ASSUME NEW d \in Devnode, ConsumeFlush(d) PROVE OwnedClaim'
  <2>1. /\ at[d] = "flush" /\ at' = [at EXCEPT ![d] = "verify"]
        /\ UNCHANGED <<claim, holds, saw>>
    BY <1>11 DEF ConsumeFlush, Goes
  <2>2. QED
    BY <2>1
<1>12. ASSUME NEW d \in Devnode, ConsumeVerify(d) PROVE OwnedClaim'
  <2>1. CASE reg[saw[d].value] # 0
    <3>1. /\ at' = [at EXCEPT ![d] = "released"] /\ saw' = saw
          /\ holds' = [holds EXCEPT ![d] = FALSE]
          /\ claim' = IF holds[d] THEN 0 ELSE claim
      BY <1>12, <2>1 DEF ConsumeVerify, Goes, GivesUpClaim
    <3>2. CASE holds[d]
      <4>1. claim = 1 /\ \A e \in Devnode : holds[e] => e = d
        BY <3>2
      <4>2. claim' = 0 /\ \A e \in Devnode : ~holds'[e]
        BY <3>1, <3>2, <4>1
      <4>3. QED
        BY <3>1, <4>1, <4>2
    <3>3. CASE ~holds[d]
      <4>1. holds' = holds /\ claim' = claim
        BY <3>1, <3>3
      <4>2. QED
        BY <3>1, <3>3, <4>1
    <3>4. QED
      BY <3>2, <3>3
  <2>2. CASE reg[saw[d].value] = 0
    BY <1>12, <2>2 DEF ConsumeVerify, Goes, Identifies
  <2>3. QED
    BY <2>1, <2>2
<1>13. ASSUME NEW d \in Devnode, ConsumeFails(d) PROVE OwnedClaim'
  BY <1>13 DEF ConsumeFails, GivesUpClaim, MayFail
<1>14. ASSUME NEW d \in Devnode, ArmSession(d) PROVE OwnedClaim'
  BY <1>14 DEF ArmSession, Goes, Forgets, Identifies, NoArm, WorkerLives
<1>15. ASSUME NEW d \in Devnode, CannotArmSession(d) PROVE OwnedClaim'
  BY <1>15 DEF CannotArmSession, Goes, MayFail, WorkerLives
<1>16. ASSUME NEW d \in Devnode, CreateUsbDevice(d) PROVE OwnedClaim'
  BY <1>16 DEF CreateUsbDevice, Goes, Forgets, NoArm
<1>17. ASSUME NEW d \in Devnode, CannotCreate(d) PROVE OwnedClaim'
  BY <1>17 DEF CannotCreate, Goes, MayFail, GivesUpClaim
<1>18. ASSUME NEW d \in Devnode, Unplug(d) PROVE OwnedClaim'
  BY <1>18 DEF Unplug
<1>19. ASSUME NEW d \in Devnode, ReleaseClaim(d) PROVE OwnedClaim'
  <2>1. CASE holds[d]
    <3>1. claim = 1 /\ \A e \in Devnode : holds[e] => e = d
      BY <2>1
    <3>2. claim' = 0 /\ \A e \in Devnode : ~holds'[e]
      BY <1>19, <2>1, <3>1 DEF ReleaseClaim, GivesUpClaim
    <3>3. QED
      BY <1>19, <3>2 DEF ReleaseClaim, GivesUpClaim, Goes, Forgets, NoArm
  <2>2. CASE ~holds[d]
    <3>1. holds' = holds /\ claim' = claim
      BY <1>19, <2>2 DEF ReleaseClaim, GivesUpClaim
    <3>2. QED
      BY <1>19, <2>2, <3>1 DEF ReleaseClaim, Goes, Forgets, NoArm
  <2>3. QED
    BY <2>1, <2>2
<1>20. ASSUME NEW d \in Devnode, Publish(d) PROVE OwnedClaim'
  BY <1>20 DEF Publish, Begins, WorkerLives
<1>21. ASSUME NEW p \in Publisher, RecordProgress(p) PROVE OwnedClaim'
  BY <1>21 DEF RecordProgress, Written, After
<1>22. ASSUME NEW p \in Publisher, RecordFails(p) PROVE OwnedClaim'
  BY <1>22 DEF RecordFails, MayFail
<1>23. ASSUME Crash PROVE OwnedClaim'
  BY <1>23 DEF Crash, NoArm
<1>24. CASE UNCHANGED armingVars
  BY <1>24 DEF armingVars
<1> HIDE DEF TypeInv, OwnedClaim, Value, Holders, Place, regVars, pubVars
<1>25. QED
  BY <1>1, <1>2, <1>3, <1>4, <1>5, <1>6, <1>7, <1>8, <1>9, <1>10, <1>11,
     <1>12, <1>13, <1>14, <1>15, <1>16, <1>17, <1>18, <1>19, <1>20, <1>21,
     <1>22, <1>23, <1>24 DEF ArmingNext, PrepareHardware

\* Nothing is lost of an arm while its devnode stays where it is, or gives up.
LEMMA KeptFollowed ==
  ASSUME TypeInv, SpentArms,
         UNCHANGED <<reg, disk, arms, boot, starts, saw>>,
         \A e \in Devnode : at'[e] \in {at[e], "released"}
  PROVE  SpentArms'
<1>1. ValuesApart' /\ StartedGone'
  BY DEF SpentArms, ValuesApart, StartedGone
<1>2. ASSUME NEW e \in Devnode PROVE ArmFollowed(e)'
  <2>1. ArmFollowed(e)
    BY DEF SpentArms
  <2>2. CASE at'[e] = at[e]
    BY <2>1, <2>2 DEF ArmFollowed, Bears, Spent
  <2>3. CASE at'[e] = "released"
    BY <2>1, <2>3 DEF ArmFollowed, Bears, Spent
  <2>4. QED
    BY <2>2, <2>3
<1>3. QED
  BY <1>1, <1>2 DEF SpentArms

\* Every action keeps the arms apart, and what was acted on gone.
LEMMA ArmsKeep ==
  TypeInv /\ SpentArms /\ [ArmingNext]_armingVars => SpentArms'
<1> SUFFICES ASSUME TypeInv, SpentArms, [ArmingNext]_armingVars PROVE SpentArms'
  OBVIOUS
<1> USE ArmingAssumption DEF TypeInv, SpentArms, Value, Place, Bears, Spent,
   regVars, pubVars
<1>1. ASSUME NEW v \in Values, NEW n \in {Malformed, 0} \cup 1..MaxArms,
             OperatorSets(v, n)
      PROVE  SpentArms'
  <2>1. ValuesApart'
    BY <1>1 DEF OperatorSets, Malformed, ValuesApart
  <2>2. ASSUME NEW e \in Devnode PROVE ArmFollowed(e)'
    BY <1>1, <2>2 DEF OperatorSets, Malformed, ValuesApart, ArmFollowed,
       StartedGone
  <2>3. StartedGone'
    BY <1>1 DEF OperatorSets, Malformed, StartedGone, ArmFollowed
  <2>4. QED
    BY <2>1, <2>2, <2>3
<1>2. ASSUME SystemFlushes PROVE SpentArms'
  <2>1. ValuesApart'
    BY <1>2 DEF SystemFlushes, ValuesApart
  <2>2. ASSUME NEW e \in Devnode PROVE ArmFollowed(e)'
    BY <1>2, <2>2 DEF SystemFlushes, ValuesApart, ArmFollowed, StartedGone
  <2>3. StartedGone'
    BY <1>2 DEF SystemFlushes, StartedGone, ArmFollowed
  <2>4. QED
    BY <2>1, <2>2, <2>3
<1>3. ASSUME NEW d \in Devnode, Start(d) PROVE SpentArms'
  <2>1. ValuesApart'
    BY <1>3 DEF Start, Goes, ValuesApart
  <2>2. ASSUME NEW e \in Devnode PROVE ArmFollowed(e)'
    BY <1>3, <2>2 DEF Start, Goes, ValuesApart, ArmFollowed, StartedGone
  <2>3. StartedGone'
    BY <1>3 DEF Start, Goes, StartedGone, ArmFollowed
  <2>4. QED
    BY <2>1, <2>2, <2>3
<1>4. ASSUME NEW d \in Devnode, ReadTokens(d) PROVE SpentArms'
  <2>1. /\ at[d] = "tokens" /\ at' = [at EXCEPT ![d] = TokensSay]
        /\ UNCHANGED <<reg, disk, arms, boot, starts>>
    BY <1>4 DEF ReadTokens, Goes
  <2>2. ValuesApart' /\ StartedGone'
    BY <2>1 DEF ValuesApart, StartedGone
  <2>3. ASSUME NEW e \in Devnode PROVE ArmFollowed(e)'
    <3>1. CASE TokensSay # "write"
      <4>1. saw' = saw
        BY <1>4, <3>1 DEF ReadTokens
      <4>2. TokensSay \in {"released", "ambiguous", "arm", "enabled"}
        BY <3>1 DEF TokensSay
      <4>3. QED
        BY <2>1, <2>3, <3>1, <4>1, <4>2 DEF ArmFollowed
    <3>2. CASE TokensSay = "write"
      <4>1. saw' = [saw EXCEPT ![d] = [value |-> "UartIdentify",
                                       arm |-> reg["UartIdentify"]]]
        BY <1>4, <3>2 DEF ReadTokens
      <4>2. reg["UartIdentify"] > 0
        BY <3>2 DEF TokensSay
      <4>3. CASE e # d
        BY <2>1, <2>3, <4>1, <4>3 DEF ArmFollowed
      <4>4. CASE e = d
        BY <2>1, <3>2, <4>1, <4>2, <4>4 DEF ArmFollowed, ValuesApart,
           StartedGone
      <4>5. QED
        BY <4>3, <4>4
    <3>3. QED
      BY <3>1, <3>2
  <2>4. QED
    BY <2>2, <2>3
<1>5. ASSUME NEW d \in Devnode, CannotReadTokens(d) PROVE SpentArms'
  <2>1. UNCHANGED <<reg, disk, arms, boot, starts, saw>>
    BY <1>5 DEF CannotReadTokens
  <2>2. \A e \in Devnode : at'[e] \in {at[e], "released"}
    BY <1>5 DEF CannotReadTokens, Goes
  <2>3. QED
    BY <2>1, <2>2, KeptFollowed
<1>6. ASSUME NEW d \in Devnode, RefuseBoth(d) PROVE SpentArms'
  <2>1. UNCHANGED <<reg, disk, arms, boot, starts, saw>>
    BY <1>6 DEF RefuseBoth
  <2>2. \A e \in Devnode : at'[e] \in {at[e], "released"}
    BY <1>6 DEF RefuseBoth, Goes
  <2>3. QED
    BY <2>1, <2>2, KeptFollowed
<1>7. ASSUME NEW d \in Devnode, ReadEnabled(d) PROVE SpentArms'
  <2>1. ValuesApart'
    BY <1>7 DEF ReadEnabled, Goes, ValuesApart
  <2>2. ASSUME NEW e \in Devnode PROVE ArmFollowed(e)'
    BY <1>7, <2>2 DEF ReadEnabled, Goes, ValuesApart, ArmFollowed, StartedGone
  <2>3. StartedGone'
    BY <1>7 DEF ReadEnabled, Goes, StartedGone, ArmFollowed
  <2>4. QED
    BY <2>1, <2>2, <2>3
<1>8. ASSUME NEW d \in Devnode, NEW b \in Backends, ReadBackend(d, b)
      PROVE  SpentArms'
  <2>1. ValuesApart'
    BY <1>8 DEF ReadBackend, Goes, ValuesApart
  <2>2. ASSUME NEW e \in Devnode PROVE ArmFollowed(e)'
    BY <1>8, <2>2 DEF ReadBackend, Goes, ValuesApart, ArmFollowed, StartedGone
  <2>3. StartedGone'
    BY <1>8 DEF ReadBackend, Goes, StartedGone, ArmFollowed
  <2>4. QED
    BY <2>1, <2>2, <2>3
<1>9. ASSUME NEW d \in Devnode, Claim(d) PROVE SpentArms'
  <2>1. ValuesApart'
    BY <1>9 DEF Claim, Goes, Forgets, NoArm, ValuesApart
  <2>2. ASSUME NEW e \in Devnode PROVE ArmFollowed(e)'
    BY <1>9, <2>2 DEF Claim, Goes, Forgets, NoArm, ValuesApart, ArmFollowed,
       StartedGone
  <2>3. StartedGone'
    BY <1>9 DEF Claim, Goes, Forgets, NoArm, StartedGone, ArmFollowed
  <2>4. QED
    BY <2>1, <2>2, <2>3
<1>10. ASSUME NEW d \in Devnode, ConsumeWrite(d) PROVE SpentArms'
  <2>1. ValuesApart'
    BY <1>10 DEF ConsumeWrite, Goes, ValuesApart
  <2>2. ASSUME NEW e \in Devnode PROVE ArmFollowed(e)'
    BY <1>10, <2>2 DEF ConsumeWrite, Goes, ValuesApart, ArmFollowed,
       StartedGone
  <2>3. StartedGone'
    BY <1>10 DEF ConsumeWrite, Goes, StartedGone, ArmFollowed
  <2>4. QED
    BY <2>1, <2>2, <2>3
<1>11. ASSUME NEW d \in Devnode, ConsumeFlush(d) PROVE SpentArms'
  <2>1. ValuesApart'
    BY <1>11 DEF ConsumeFlush, Goes, ValuesApart
  <2>2. ASSUME NEW e \in Devnode PROVE ArmFollowed(e)'
    BY <1>11, <2>2 DEF ConsumeFlush, Goes, ValuesApart, ArmFollowed,
       StartedGone
  <2>3. StartedGone'
    BY <1>11 DEF ConsumeFlush, Goes, StartedGone, ArmFollowed
  <2>4. QED
    BY <2>1, <2>2, <2>3
<1>12. ASSUME NEW d \in Devnode, ConsumeVerify(d) PROVE SpentArms'
  <2>1. ValuesApart'
    BY <1>12 DEF ConsumeVerify, Goes, GivesUpClaim, Identifies, ValuesApart
  <2>2. ASSUME NEW e \in Devnode PROVE ArmFollowed(e)'
    BY <1>12, <2>2 DEF ConsumeVerify, Goes, GivesUpClaim, Identifies,
       ValuesApart, ArmFollowed, StartedGone
  <2>3. StartedGone'
    BY <1>12 DEF ConsumeVerify, Goes, GivesUpClaim, Identifies, StartedGone,
       ArmFollowed
  <2>4. QED
    BY <2>1, <2>2, <2>3
<1>13. ASSUME NEW d \in Devnode, ConsumeFails(d) PROVE SpentArms'
  <2>1. UNCHANGED <<reg, disk, arms, boot, starts, saw>>
    BY <1>13 DEF ConsumeFails
  <2>2. \A e \in Devnode : at'[e] \in {at[e], "released"}
    BY <1>13 DEF ConsumeFails
  <2>3. QED
    BY <2>1, <2>2, KeptFollowed
<1>14. ASSUME NEW d \in Devnode, ArmSession(d) PROVE SpentArms'
  <2>1. ValuesApart'
    BY <1>14 DEF ArmSession, ValuesApart
  <2>2. /\ at' = [at EXCEPT ![d] = "session"] /\ at[d] = "arm"
        /\ saw' = [saw EXCEPT ![d] = [value |-> "Enabled", arm |-> 0]]
        /\ UNCHANGED <<reg, disk, arms, boot>>
    BY <1>14 DEF ArmSession, Goes, Forgets, NoArm
  <2>3. CASE Identifies(d)
    <3>1. starts' = starts \cup {[arm |-> saw[d].arm, boot |-> boot]}
      BY <1>14, <2>3 DEF ArmSession
    <3>2. /\ saw[d].arm \in 1..arms
          /\ \A v \in Value : saw[d].arm \notin {reg[v], disk[v]}
      BY <2>2, <2>3 DEF ArmFollowed, Identifies
    <3>3. StartedGone'
      BY <2>2, <3>1, <3>2 DEF StartedGone, ArmFollowed
    <3>4. ASSUME NEW e \in Devnode PROVE ArmFollowed(e)'
      <4>1. CASE e # d
        BY <2>2, <3>1, <4>1 DEF ArmFollowed
      <4>2. CASE e = d
        BY <2>2, <3>1, <3>3, <4>2 DEF ArmFollowed, StartedGone
      <4>3. QED
        BY <4>1, <4>2
    <3>5. QED
      BY <2>1, <3>3, <3>4
  <2>4. CASE ~Identifies(d)
    <3>1. starts' = starts
      BY <1>14, <2>4 DEF ArmSession
    <3>2. StartedGone'
      BY <2>2, <3>1 DEF StartedGone
    <3>3. ASSUME NEW e \in Devnode PROVE ArmFollowed(e)'
      BY <2>2, <3>1, <3>3 DEF ArmFollowed, StartedGone
    <3>4. QED
      BY <2>1, <3>2, <3>3
  <2>5. QED
    BY <2>3, <2>4
<1>15. ASSUME NEW d \in Devnode, CannotArmSession(d) PROVE SpentArms'
  <2>1. UNCHANGED <<reg, disk, arms, boot, starts, saw>>
    BY <1>15 DEF CannotArmSession
  <2>2. \A e \in Devnode : at'[e] \in {at[e], "released"}
    BY <1>15 DEF CannotArmSession, Goes
  <2>3. QED
    BY <2>1, <2>2, KeptFollowed
<1>16. ASSUME NEW d \in Devnode, CreateUsbDevice(d) PROVE SpentArms'
  <2>1. ValuesApart'
    BY <1>16 DEF CreateUsbDevice, Goes, Forgets, NoArm, ValuesApart
  <2>2. ASSUME NEW e \in Devnode PROVE ArmFollowed(e)'
    BY <1>16, <2>2 DEF CreateUsbDevice, Goes, Forgets, NoArm, ValuesApart,
       ArmFollowed, StartedGone
  <2>3. StartedGone'
    BY <1>16 DEF CreateUsbDevice, Goes, Forgets, NoArm, StartedGone,
       ArmFollowed
  <2>4. QED
    BY <2>1, <2>2, <2>3
<1>17. ASSUME NEW d \in Devnode, CannotCreate(d) PROVE SpentArms'
  <2>1. UNCHANGED <<reg, disk, arms, boot, starts, saw>>
    BY <1>17 DEF CannotCreate
  <2>2. \A e \in Devnode : at'[e] \in {at[e], "released"}
    BY <1>17 DEF CannotCreate, Goes
  <2>3. QED
    BY <2>1, <2>2, KeptFollowed
<1>18. ASSUME NEW d \in Devnode, Unplug(d) PROVE SpentArms'
  <2>1. UNCHANGED <<reg, disk, arms, boot, starts, saw>>
    BY <1>18 DEF Unplug
  <2>2. \A e \in Devnode : at'[e] \in {at[e], "released"}
    BY <1>18 DEF Unplug
  <2>3. QED
    BY <2>1, <2>2, KeptFollowed
<1>19. ASSUME NEW d \in Devnode, ReleaseClaim(d) PROVE SpentArms'
  <2>1. ValuesApart'
    BY <1>19 DEF ReleaseClaim, Goes, GivesUpClaim, Forgets, NoArm, ValuesApart
  <2>2. ASSUME NEW e \in Devnode PROVE ArmFollowed(e)'
    BY <1>19, <2>2 DEF ReleaseClaim, Goes, GivesUpClaim, Forgets, NoArm,
       ValuesApart, ArmFollowed, StartedGone
  <2>3. StartedGone'
    BY <1>19 DEF ReleaseClaim, Goes, GivesUpClaim, Forgets, NoArm,
       StartedGone, ArmFollowed
  <2>4. QED
    BY <2>1, <2>2, <2>3
<1>20. ASSUME NEW d \in Devnode, Publish(d) PROVE SpentArms'
  <2>1. UNCHANGED <<reg, disk, arms, boot, starts, saw>>
    BY <1>20 DEF Publish
  <2>2. \A e \in Devnode : at'[e] \in {at[e], "released"}
    BY <1>20 DEF Publish
  <2>3. QED
    BY <2>1, <2>2, KeptFollowed
<1>21. ASSUME NEW p \in Publisher, RecordProgress(p) PROVE SpentArms'
  <2>1. UNCHANGED <<reg, disk, arms, boot, starts, saw>>
    BY <1>21 DEF RecordProgress
  <2>2. \A e \in Devnode : at'[e] \in {at[e], "released"}
    BY <1>21 DEF RecordProgress
  <2>3. QED
    BY <2>1, <2>2, KeptFollowed
<1>22. ASSUME NEW p \in Publisher, RecordFails(p) PROVE SpentArms'
  <2>1. UNCHANGED <<reg, disk, arms, boot, starts, saw>>
    BY <1>22 DEF RecordFails
  <2>2. \A e \in Devnode : at'[e] \in {at[e], "released"}
    BY <1>22 DEF RecordFails
  <2>3. QED
    BY <2>1, <2>2, KeptFollowed
<1>23. ASSUME Crash PROVE SpentArms'
  <2>1. ValuesApart'
    BY <1>23 DEF Crash, NoArm, ValuesApart
  <2>2. ASSUME NEW e \in Devnode PROVE ArmFollowed(e)'
    BY <1>23, <2>2 DEF Crash, NoArm, ValuesApart, ArmFollowed, StartedGone
  <2>3. StartedGone'
    BY <1>23 DEF Crash, NoArm, StartedGone, ArmFollowed
  <2>4. QED
    BY <2>1, <2>2, <2>3
<1>24. CASE UNCHANGED armingVars
  BY <1>24 DEF armingVars, ValuesApart, ArmFollowed, StartedGone
<1> HIDE DEF TypeInv, SpentArms, Value, Place, Bears, Spent, regVars, pubVars
<1>25. QED
  BY <1>1, <1>2, <1>3, <1>4, <1>5, <1>6, <1>7, <1>8, <1>9, <1>10, <1>11,
     <1>12, <1>13, <1>14, <1>15, <1>16, <1>17, <1>18, <1>19, <1>20, <1>21,
     <1>22, <1>23, <1>24 DEF ArmingNext, PrepareHardware

\* A publication that begins while nobody publishes is the only one.
LEMMA BeginsAlone ==
  ASSUME TypeInv, OnePublisher, NEW p \in Publisher, Begins(p)
  PROVE  OnePublisher'
<1>1. /\ publishes' = [publishes EXCEPT ![p] = "first"]
      /\ record' = [record EXCEPT !.commit = "in progress"]
      /\ mixed' = (mixed \/ Writing # {})
  BY DEF Begins
<1>2. record' \in Record
  BY <1>1 DEF OnePublisher, Record
<1>3. CASE mixed \/ Writing # {}
  BY <1>2, <1>1, <1>3 DEF OnePublisher
<1>4. CASE ~mixed /\ Writing = {}
  <2>1. \A q \in Publisher : publishes'[q] # "no" => q = p
    BY <1>1, <1>4 DEF TypeInv, Writing
  <2>2. publishes'[p] = "first" /\ record'.commit = "in progress"
    BY <1>1 DEF TypeInv, OnePublisher, Record
  <2>3. QED
    BY <1>2, <1>1, <2>1, <2>2 DEF OnePublisher
<1>5. QED
  BY <1>3, <1>4

\* Every action keeps the record of its publisher.
LEMMA RecordKeeps ==
  TypeInv /\ OnePublisher /\ [ArmingNext]_armingVars => OnePublisher'
<1> SUFFICES ASSUME TypeInv, OnePublisher, [ArmingNext]_armingVars PROVE OnePublisher'
  OBVIOUS
<1> USE ArmingAssumption DEF TypeInv, OnePublisher, Place, Step, regVars,
   pubVars
<1>1. ASSUME NEW v \in Values, NEW n \in {Malformed, 0} \cup 1..MaxArms,
             OperatorSets(v, n)
      PROVE  OnePublisher'
  BY <1>1 DEF OperatorSets, Malformed
<1>2. ASSUME SystemFlushes PROVE OnePublisher'
  BY <1>2 DEF SystemFlushes
<1>3. ASSUME NEW d \in Devnode, Start(d) PROVE OnePublisher'
  BY <1>3 DEF Start, Goes
<1>4. ASSUME NEW d \in Devnode, ReadTokens(d) PROVE OnePublisher'
  <2>1. CASE UNCHANGED <<record, publishes, mixed>>
    BY <2>1
  <2>2. CASE Begins(<<d, "start">>)
    <3>1. <<d, "start">> \in Publisher
      BY DEF Publisher
    <3>2. QED
      BY <2>2, <3>1, BeginsAlone
  <2>3. QED
    BY <1>4, <2>1, <2>2 DEF ReadTokens
<1>5. ASSUME NEW d \in Devnode, CannotReadTokens(d) PROVE OnePublisher'
  BY <1>5 DEF CannotReadTokens, Goes, MayFail
<1>6. ASSUME NEW d \in Devnode, RefuseBoth(d) PROVE OnePublisher'
  BY <1>6 DEF RefuseBoth, Goes
<1>7. ASSUME NEW d \in Devnode, ReadEnabled(d) PROVE OnePublisher'
  BY <1>7 DEF ReadEnabled, Goes
<1>8. ASSUME NEW d \in Devnode, NEW b \in Backends, ReadBackend(d, b)
      PROVE  OnePublisher'
  BY <1>8 DEF ReadBackend, Goes
<1>9. ASSUME NEW d \in Devnode, Claim(d) PROVE OnePublisher'
  BY <1>9 DEF Claim, Goes, Forgets, NoArm
<1>10. ASSUME NEW d \in Devnode, ConsumeWrite(d) PROVE OnePublisher'
  BY <1>10 DEF ConsumeWrite, Goes
<1>11. ASSUME NEW d \in Devnode, ConsumeFlush(d) PROVE OnePublisher'
  BY <1>11 DEF ConsumeFlush, Goes
<1>12. ASSUME NEW d \in Devnode, ConsumeVerify(d) PROVE OnePublisher'
  BY <1>12 DEF ConsumeVerify, Goes, GivesUpClaim, Identifies
<1>13. ASSUME NEW d \in Devnode, ConsumeFails(d) PROVE OnePublisher'
  BY <1>13 DEF ConsumeFails, GivesUpClaim, MayFail
<1>14. ASSUME NEW d \in Devnode, ArmSession(d) PROVE OnePublisher'
  BY <1>14 DEF ArmSession, Goes, Forgets, Identifies, NoArm, WorkerLives
<1>15. ASSUME NEW d \in Devnode, CannotArmSession(d) PROVE OnePublisher'
  BY <1>15 DEF CannotArmSession, Goes, MayFail, WorkerLives
<1>16. ASSUME NEW d \in Devnode, CreateUsbDevice(d) PROVE OnePublisher'
  BY <1>16 DEF CreateUsbDevice, Goes, Forgets, NoArm
<1>17. ASSUME NEW d \in Devnode, CannotCreate(d) PROVE OnePublisher'
  BY <1>17 DEF CannotCreate, Goes, MayFail, GivesUpClaim
<1>18. ASSUME NEW d \in Devnode, Unplug(d) PROVE OnePublisher'
  BY <1>18 DEF Unplug
<1>19. ASSUME NEW d \in Devnode, ReleaseClaim(d) PROVE OnePublisher'
  BY <1>19 DEF ReleaseClaim, Goes, GivesUpClaim, Forgets, NoArm
<1>20. ASSUME NEW d \in Devnode, Publish(d) PROVE OnePublisher'
  <2>1. <<d, "worker">> \in Publisher
    BY DEF Publisher
  <2>2. QED
    BY <1>20, <2>1, BeginsAlone DEF Publish
<1>21. ASSUME NEW p \in Publisher, RecordProgress(p) PROVE OnePublisher'
  <2>1. CASE publishes[p] = "first"
    <3>1. /\ record' = [record EXCEPT !.first = p]
          /\ publishes' = [publishes EXCEPT ![p] = "second"]
          /\ mixed' = mixed
      BY <1>21, <2>1 DEF RecordProgress, Written, After
    <3>2. record' \in Record
      BY <3>1 DEF Record
    <3>3. publishes'[p] = "second"
      BY <3>1
    <3>4. ASSUME ~mixed
          PROVE  /\ \A q \in Publisher : publishes'[q] # "no" => q = p
                 /\ record'.commit = "in progress" /\ record'.first = p
      <4>1. \A q \in Publisher : publishes[q] # "no" => q = p
        BY <2>1, <3>4
      <4>2. \A q \in Publisher : publishes'[q] # "no" => q = p
        BY <3>1, <4>1
      <4>3. QED
        BY <2>1, <3>1, <3>4, <4>2 DEF Record
    <3>5. CASE mixed
      BY <3>1, <3>2, <3>5
    <3>6. CASE ~mixed
      <4>1. \A q \in Publisher : publishes'[q] # "no" => q = p
        BY <3>4, <3>6
      <4>2. QED
        BY <3>2, <3>3, <3>4, <3>6, <4>1
    <3>7. QED
      BY <3>5, <3>6
  <2>2. CASE publishes[p] = "second"
    <3>1. /\ record' = [record EXCEPT !.second = p]
          /\ publishes' = [publishes EXCEPT ![p] = "commit"]
          /\ mixed' = mixed
      BY <1>21, <2>2 DEF RecordProgress, Written, After
    <3>2. record' \in Record
      BY <3>1 DEF Record
    <3>3. publishes'[p] = "commit"
      BY <3>1
    <3>4. ASSUME ~mixed
          PROVE  /\ \A q \in Publisher : publishes'[q] # "no" => q = p
                 /\ record'.commit = "in progress"
                 /\ record'.first = p /\ record'.second = p
      <4>1. \A q \in Publisher : publishes[q] # "no" => q = p
        BY <2>2, <3>4
      <4>2. \A q \in Publisher : publishes'[q] # "no" => q = p
        BY <3>1, <4>1
      <4>3. QED
        BY <2>2, <3>1, <3>4, <4>2 DEF Record
    <3>5. CASE mixed
      BY <3>1, <3>2, <3>5
    <3>6. CASE ~mixed
      <4>1. \A q \in Publisher : publishes'[q] # "no" => q = p
        BY <3>4, <3>6
      <4>2. QED
        BY <3>2, <3>3, <3>4, <3>6, <4>1
    <3>7. QED
      BY <3>5, <3>6
  <2>3. CASE publishes[p] = "commit"
    <3>1. /\ record' = [record EXCEPT !.commit = "done"]
          /\ publishes' = [publishes EXCEPT ![p] = "no"]
          /\ mixed' = mixed
      BY <1>21, <2>3 DEF RecordProgress, Written, After
    <3>2. record' \in Record
      BY <3>1 DEF Record
    <3>3. publishes'[p] = "no"
      BY <3>1
    <3>4. ASSUME ~mixed
          PROVE  /\ \A q \in Publisher : publishes'[q] # "no" => q = p
                 /\ record'.first = p /\ record'.second = p
      <4>1. \A q \in Publisher : publishes[q] # "no" => q = p
        BY <2>3, <3>4
      <4>2. \A q \in Publisher : publishes'[q] # "no" => q = p
        BY <3>1, <4>1
      <4>3. QED
        BY <2>3, <3>1, <3>4, <4>2 DEF Record
    <3>5. CASE mixed
      BY <3>1, <3>2, <3>5
    <3>6. CASE ~mixed
      <4>1. \A q \in Publisher : publishes'[q] # "no" => q = p
        BY <3>4, <3>6
      <4>2. QED
        BY <3>2, <3>3, <3>4, <3>6, <4>1
    <3>7. QED
      BY <3>5, <3>6
  <2>4. QED
    BY <1>21, <2>1, <2>2, <2>3 DEF RecordProgress
<1>22. ASSUME NEW p \in Publisher, RecordFails(p) PROVE OnePublisher'
  BY <1>22 DEF RecordFails, MayFail
<1>23. ASSUME Crash PROVE OnePublisher'
  BY <1>23 DEF Crash, NoArm
<1>24. CASE UNCHANGED armingVars
  BY <1>24 DEF armingVars
<1> HIDE DEF TypeInv, OnePublisher, Place, Step, regVars, pubVars
<1>25. QED
  BY <1>1, <1>2, <1>3, <1>4, <1>5, <1>6, <1>7, <1>8, <1>9, <1>10, <1>11,
     <1>12, <1>13, <1>14, <1>15, <1>16, <1>17, <1>18, <1>19, <1>20, <1>21,
     <1>22, <1>23, <1>24 DEF ArmingNext, PrepareHardware

LEMMA Inductive == ArmingSpec => []IInv
<1>1. ArmingInit => IInv
  <2> SUFFICES ASSUME ArmingInit PROVE IInv
    OBVIOUS
  <2>1. TypeInv
    <3>1. /\ reg \in [Value -> Int] /\ disk \in [Value -> Int]
          /\ saw \in [Devnode -> [value : Value, arm : Int]]
      BY DEF ArmingInit, Value, NoArm
    <3>2. at \in [Devnode -> Place] /\ publishes \in [Publisher -> Step]
      BY DEF ArmingInit, Place, Step
    <3>3. QED
      BY <3>1, <3>2 DEF ArmingInit, TypeInv
  <2>2. OwnedClaim
    BY DEF ArmingInit, OwnedClaim, NoArm
  <2>3. SpentArms
    BY DEF ArmingInit, SpentArms, ValuesApart, ArmFollowed, StartedGone, Value,
       NoArm, Bears, Spent
  <2>4. OnePublisher
    BY DEF ArmingInit, OnePublisher, Blank, Record
  <2>5. QED
    BY <2>1, <2>2, <2>3, <2>4 DEF IInv
<1>2. IInv /\ [ArmingNext]_armingVars => IInv'
  BY TypesKeep, ClaimKeeps, ArmsKeep, RecordKeeps DEF IInv
<1>3. QED
  BY <1>1, <1>2, PTL DEF ArmingSpec

-----------------------------------------------------------------------------
\* However starts fail and releases overlap, the claim of the driver is up
\* exactly while one devnode holds it, and only that devnode shows a radio
\* without a controller (g_DeckBtStubArmClaim).
THEOREM ClaimIsHeld == ArmingSpec => []ClaimHasOwner
<1>1. IInv => ClaimHasOwner
  <2> SUFFICES ASSUME IInv PROVE ClaimHasOwner
    OBVIOUS
  <2> USE DEF IInv, TypeInv, OwnedClaim
  <2>1. claim = Cardinality(Holders)
    <3>1. CASE claim = 0
      <4>1. Holders = {}
        BY <3>1 DEF Holders
      <4>2. QED
        BY <3>1, <4>1, FS_EmptySet
    <3>2. CASE claim = 1
      <4>1. PICK d \in Devnode : \A e \in Devnode : holds[e] <=> e = d
        BY <3>2
      <4>2. Holders = {d}
        BY <4>1 DEF Holders
      <4>3. QED
        BY <3>2, <4>2, FS_Singleton
    <3>3. QED
      BY <3>1, <3>2
  <2>2. QED
    BY <2>1 DEF Holders, ClaimHasOwner
<1>2. QED
  BY <1>1, Inductive, PTL

\* Whatever is set, flushed or lost in between, no arm starts a radio or an
\* identification in two lives of the machine
\* (DeckBtEvtDevicePrepareHardware).
THEOREM ArmsWorkOnce == ArmingSpec => []OneLifePerArm
<1>1. IInv => OneLifePerArm
  BY DEF IInv, SpentArms, StartedGone, OneLifePerArm
<1>2. QED
  BY <1>1, Inductive, PTL

\* A record that looks committed was written by one publisher, unless two
\* published at the same time (DeckBtRecordProbeProgress).
THEOREM CommittedIsWhole == ArmingSpec => []RecordIsWhole
<1>1. IInv => RecordIsWhole
  BY DEF IInv, OnePublisher, RecordIsWhole, TypeInv
<1>2. QED
  BY <1>1, Inductive, PTL
=============================================================================
