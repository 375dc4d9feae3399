--------------------------- MODULE BackendArming ---------------------------
(***************************************************************************)
(* How a devnode decides what to start: DeckBtEvtDevicePrepareHardware of  *)
(* src/src/driver/driver.c, its one-shot arms in the registry, and         *)
(* DeckBtEvtDeviceReleaseHardware, for several devnodes at once and over   *)
(* crashes of the machine.                                                 *)
(*                                                                         *)
(* The values UartProbe, UartIdentify and Enabled live in one key of the   *)
(* registry, which all devnodes share: reg is what they read, disk is what *)
(* a crash leaves.  ZwFlushKey brings the disk up to date, and so does the *)
(* system, now and then.  An arm is a number, so that two arms of the same *)
(* value can be told apart; 0 is an absent value or a zero, Malformed one  *)
(* of another type or value.                                               *)
(*                                                                         *)
(* A step is what one devnode does between two operations on the registry  *)
(* or the claim.  What a UART session does is UartSession.                 *)
(*                                                                         *)
(* A definition BugXxx is a variant of the next definition with a          *)
(* plausible mistake, used only to show which property notices it.         *)
(***************************************************************************)
EXTENDS Naturals, Integers, FiniteSets

CONSTANTS
  Devnode,     \* devnodes the driver is installed on
  Nobody,
  Backends,    \* what the hardware keys say: "stub", "uart", "unknown"
  Values,      \* values the operator may set
  MaxArms,     \* bound: values the operator sets
  MaxFailures, \* bound: registry operations and device creations that fail
  MaxCrashes,  \* bound: crashes
  MaxRecords   \* bound: publications of the record that are begun

Malformed == -1

ASSUME ArmingAssumption ==
  /\ Nobody \notin Devnode
  /\ Backends \subseteq {"stub", "uart", "unknown"}
  /\ Values \subseteq {"UartProbe", "UartIdentify", "Enabled"}
  /\ MaxArms \in Nat /\ MaxFailures \in Nat /\ MaxCrashes \in Nat
  /\ MaxRecords \in Nat

VARIABLES
  reg, disk, \* the values of the Parameters key
  record,    \* the Uart* record there: its commit word and two of its fields
  claim,     \* g_DeckBtStubArmClaim
  holds,     \* StubArmClaimed of each devnode
  at,        \* where each devnode is
  saw,       \* the arm it read, and the value it read it from
  publishes, \* how far each publisher of the record is
  arms, failures, records, \* counted for their bounds
  boot,      \* crashes so far
  starts,    \* the one-shot arms acted on, and in which life of the machine
  mixed      \* two have published at the same time

regVars == <<reg, disk, arms>>
pubVars == <<publishes, records>>
armingVars == <<regVars, record, claim, holds, at, saw, pubVars, failures, boot,
          starts, mixed>>

NoArm == [value |-> "Enabled", arm |-> 0]
Blank == [commit |-> "none", first |-> <<Nobody>>, second |-> <<Nobody>>]

\* A devnode's start may publish while the worker of its last session does.
Publisher == Devnode \X {"start", "worker"}

ArmingInit ==
  /\ reg = [v \in {"UartProbe", "UartIdentify", "Enabled"} |-> 0]
  /\ disk = reg /\ record = Blank
  /\ claim = 0 /\ holds = [d \in Devnode |-> FALSE]
  /\ at = [d \in Devnode |-> "stopped"] /\ saw = [d \in Devnode |-> NoArm]
  /\ publishes = [p \in Publisher |-> "no"]
  /\ arms = 0 /\ failures = 0 /\ records = 0
  /\ boot = 0 /\ starts = {} /\ mixed = FALSE

\* What a start read is gone when it is over.
Forgets(d) == saw' = [saw EXCEPT ![d] = NoArm]

Goes(d, from, to) == at[d] = from /\ at' = [at EXCEPT ![d] = to]

Writing == {p \in Publisher : publishes[p] # "no"}

\* The commit word is invalidated.
Begins(p) ==
  /\ records < MaxRecords /\ records' = records + 1
  /\ publishes' = [publishes EXCEPT ![p] = "first"]
  /\ record' = [record EXCEPT !.commit = "in progress"]
  /\ mixed' = (mixed \/ Writing # {})

MayFail == failures < MaxFailures /\ failures' = failures + 1

-----------------------------------------------------------------------------
(***************************************************************************)
(* The operator arms, disarms or misspells a value; the system flushes.    *)
(***************************************************************************)
OperatorSets(v, n) ==
  /\ arms < MaxArms
  /\ n > 0 => n = arms + 1
  /\ reg[v] # n
  /\ n = Malformed => failures < MaxFailures
  /\ reg' = [reg EXCEPT ![v] = n]
  /\ arms' = arms + 1
  /\ failures' = IF n = Malformed THEN failures + 1 ELSE failures
  /\ UNCHANGED <<disk, record, claim, holds, at, saw, pubVars, boot, starts,
                 mixed>>

SystemFlushes ==
  /\ disk # reg /\ disk' = reg
  /\ UNCHANGED <<reg, arms, record, claim, holds, at, saw, pubVars, failures,
                 boot, starts, mixed>>

-----------------------------------------------------------------------------
(***************************************************************************)
(* DeckBtEvtDevicePrepareHardware.  A failed start is released at once, *)
(* and a healthy devnode without a radio is "idle".                        *)
(***************************************************************************)
Start(d) ==
  /\ Goes(d, "stopped", "tokens")
  /\ UNCHANGED <<regVars, record, claim, holds, saw, pubVars, failures, boot,
                 starts, mixed>>

\* UartProbe and UartIdentify: strict, and both set is refused, which is
\* recorded unless the first write of the record fails.
TokensSay ==
  LET probe == reg["UartProbe"]  identify == reg["UartIdentify"] IN
  IF Malformed \in {probe, identify} THEN "released"
  ELSE IF probe > 0 /\ identify > 0 THEN "ambiguous"
  ELSE IF identify > 0 THEN "write"
  ELSE IF probe > 0 THEN "arm" ELSE "enabled"

ReadTokens(d) ==
  /\ Goes(d, "tokens", TokensSay)
  /\ saw' = IF TokensSay # "write" THEN saw
            ELSE [saw EXCEPT ![d] = [value |-> "UartIdentify",
                                     arm |-> reg["UartIdentify"]]]
  /\ \/ TokensSay = "ambiguous" /\ Begins(<<d, "start">>)
     \/ UNCHANGED <<record, pubVars, mixed>>
  /\ UNCHANGED <<regVars, claim, holds, failures, boot, starts>>

CannotReadTokens(d) ==
  /\ Goes(d, "tokens", "released") /\ MayFail
  /\ UNCHANGED <<regVars, record, claim, holds, saw, pubVars, boot, starts,
                 mixed>>

\* The refusal is recorded before the start fails.
RefuseBoth(d) ==
  /\ publishes[d, "start"] = "no"
  /\ Goes(d, "ambiguous", "released")
  /\ UNCHANGED <<regVars, record, claim, holds, saw, pubVars, failures, boot,
                 starts, mixed>>

\* DeckBtArmingGateArmed; a value that cannot be read does not arm either.
ReadEnabled(d) ==
  /\ \/ /\ reg["Enabled"] > 0 /\ Goes(d, "enabled", "backend")
        /\ saw' = [saw EXCEPT ![d].arm = reg["Enabled"]]
     \/ reg["Enabled"] <= 0 /\ Goes(d, "enabled", "idle") /\ UNCHANGED saw
  /\ UNCHANGED <<regVars, record, claim, holds, pubVars, failures, boot,
                 starts, mixed>>

ReadBackend(d, backend) ==
  /\ Goes(d, "backend", CASE backend = "stub" -> "claim"
                          [] backend = "uart" -> "arm"
                          [] OTHER -> "released")
  /\ UNCHANGED <<regVars, record, claim, holds, saw, pubVars, failures, boot,
                 starts, mixed>>

\* The compare-and-exchange on the claim of the whole driver.
Claim(d) ==
  /\ IF claim = 0
     THEN /\ Goes(d, "claim", "write") /\ UNCHANGED saw
          /\ claim' = 1 /\ holds' = [holds EXCEPT ![d] = TRUE]
     ELSE Goes(d, "claim", "idle") /\ Forgets(d) /\ UNCHANGED <<claim, holds>>
  /\ UNCHANGED <<regVars, record, pubVars, failures, boot, starts, mixed>>

(***************************************************************************)
(* The arm is consumed: written to zero, flushed, read back.  A failure on *)
(* the way gives up a claim.                                               *)
(***************************************************************************)
ConsumeWrite(d) ==
  /\ Goes(d, "write", "flush")
  /\ reg' = [reg EXCEPT ![saw[d].value] = 0]
  /\ UNCHANGED <<disk, arms, record, claim, holds, saw, pubVars, failures,
                 boot, starts, mixed>>

BugNoFlush(d) ==
  /\ Goes(d, "flush", "verify")
  /\ UNCHANGED <<regVars, record, claim, holds, saw, pubVars, failures, boot,
                 starts, mixed>>

ConsumeFlush(d) ==
  /\ Goes(d, "flush", "verify")
  /\ disk' = reg
  /\ UNCHANGED <<reg, arms, record, claim, holds, saw, pubVars, failures,
                 boot, starts, mixed>>

Identifies(d) == saw[d].value = "UartIdentify"

GivesUpClaim(d) ==
  /\ holds' = [holds EXCEPT ![d] = FALSE]
  /\ claim' = IF holds[d] THEN 0 ELSE claim

ConsumeVerify(d) ==
  /\ IF reg[saw[d].value] # 0
     THEN Goes(d, "verify", "released") /\ GivesUpClaim(d)
     ELSE /\ UNCHANGED <<claim, holds>>
          /\ Goes(d, "verify", IF Identifies(d) THEN "arm" ELSE "create")
  /\ UNCHANGED <<regVars, record, saw, pubVars, failures, boot, starts, mixed>>

BugFailsHolding(d) ==
  /\ at[d] \in {"write", "flush", "verify"} /\ MayFail
  /\ at' = [at EXCEPT ![d] = "released"]
  /\ claim' = IF holds[d] THEN 0 ELSE claim
  /\ UNCHANGED <<regVars, record, holds, saw, pubVars, boot, starts, mixed>>

ConsumeFails(d) ==
  /\ at[d] \in {"write", "flush", "verify"} /\ MayFail
  /\ at' = [at EXCEPT ![d] = "released"]
  /\ GivesUpClaim(d)
  /\ UNCHANGED <<regVars, record, saw, pubVars, boot, starts, mixed>>

(***************************************************************************)
(* QcaUartArmProbe, refused while the worker of an earlier session lives   *)
(* or when it fails.  Only an identification consumes its arm.             *)
(***************************************************************************)
WorkerLives(d) == publishes[d, "worker"] # "no"

ArmSession(d) ==
  /\ ~WorkerLives(d) /\ Goes(d, "arm", "session") /\ Forgets(d)
  /\ starts' = IF Identifies(d)
               THEN starts \cup {[arm |-> saw[d].arm, boot |-> boot]}
               ELSE starts
  /\ UNCHANGED <<regVars, record, claim, holds, pubVars, failures, boot,
                 mixed>>

CannotArmSession(d) ==
  /\ Goes(d, "arm", "released")
  /\ IF WorkerLives(d) THEN UNCHANGED failures ELSE MayFail
  /\ UNCHANGED <<regVars, record, claim, holds, saw, pubVars, boot, starts,
                 mixed>>

\* DeckBtCreateUsbDevice for the stub: the child is there, or nothing is left
\* of it.
CreateUsbDevice(d) ==
  /\ Goes(d, "create", "visible") /\ Forgets(d)
  /\ starts' = starts \cup {[arm |-> saw[d].arm, boot |-> boot]}
  /\ UNCHANGED <<regVars, record, claim, holds, pubVars, failures, boot,
                 mixed>>

CannotCreate(d) ==
  /\ Goes(d, "create", "released") /\ MayFail
  /\ GivesUpClaim(d)
  /\ UNCHANGED <<regVars, record, saw, pubVars, boot, starts, mixed>>

PrepareHardware(d) ==
  \/ ReadTokens(d) \/ CannotReadTokens(d) \/ RefuseBoth(d)
  \/ ReadEnabled(d) \/ (\E b \in Backends : ReadBackend(d, b)) \/ Claim(d)
  \/ ConsumeWrite(d) \/ ConsumeFlush(d) \/ ConsumeVerify(d) \/ ConsumeFails(d)
  \/ ArmSession(d) \/ CannotArmSession(d)
  \/ CreateUsbDevice(d) \/ CannotCreate(d)

-----------------------------------------------------------------------------
(***************************************************************************)
(* DeckBtEvtDeviceReleaseHardware, which also follows a failed start: the  *)
(* child is unplugged, then the claim given up.                            *)
(***************************************************************************)
Unplug(d) ==
  /\ at[d] \in {"idle", "visible", "session"}
  /\ at' = [at EXCEPT ![d] = "released"]
  /\ UNCHANGED <<regVars, record, claim, holds, saw, pubVars, failures, boot,
                 starts, mixed>>

ReleaseClaim(d) ==
  /\ Goes(d, "released", "stopped")
  /\ GivesUpClaim(d) /\ Forgets(d)
  /\ UNCHANGED <<regVars, record, pubVars, failures, boot, starts, mixed>>

-----------------------------------------------------------------------------
(***************************************************************************)
(* DeckBtRecordProbeProgress: the commit word is invalidated, the fields   *)
(* written one by one, the commit word written last; the first write that  *)
(* fails ends it.  The session's threads call it, and a refused start.     *)
(***************************************************************************)
Publish(d) ==
  /\ at[d] = "session" /\ ~WorkerLives(d)
  /\ Begins(<<d, "worker">>)
  /\ UNCHANGED <<regVars, claim, holds, at, saw, failures, boot, starts>>

BugCommitsEarly(step) == CASE step = "first" -> "commit"
                           [] step = "commit" -> "second"
                           [] step = "second" -> "no"

After(step) == CASE step = "first" -> "second"
                 [] step = "second" -> "commit"
                 [] step = "commit" -> "no"

Written(p) ==
  CASE publishes[p] = "first"  -> [record EXCEPT !.first = p]
    [] publishes[p] = "second" -> [record EXCEPT !.second = p]
    [] OTHER -> [record EXCEPT !.commit = "done"]

RecordProgress(p) ==
  /\ publishes[p] # "no"
  /\ record' = Written(p)
  /\ publishes' = [publishes EXCEPT ![p] = After(@)]
  /\ UNCHANGED <<regVars, claim, holds, at, saw, records, failures, boot,
                 starts, mixed>>

RecordFails(p) ==
  /\ publishes[p] # "no" /\ MayFail
  /\ publishes' = [publishes EXCEPT ![p] = "no"] /\ UNCHANGED records
  /\ UNCHANGED <<regVars, record, claim, holds, at, saw, boot, starts, mixed>>

-----------------------------------------------------------------------------
\* The machine goes down: memory is lost, and what was not flushed.
Crash ==
  /\ boot < MaxCrashes /\ boot' = boot + 1
  /\ reg' = disk
  /\ claim' = 0 /\ holds' = [d \in Devnode |-> FALSE]
  /\ at' = [d \in Devnode |-> "stopped"]
  /\ saw' = [d \in Devnode |-> NoArm]
  /\ publishes' = [p \in Publisher |-> "no"]
  /\ UNCHANGED <<disk, arms, record, records, failures, starts, mixed>>

ArmingNext ==
  \/ \E v \in Values, n \in {Malformed, 0} \cup 1..MaxArms : OperatorSets(v, n)
  \/ SystemFlushes
  \/ \E d \in Devnode :
       \/ Start(d) \/ PrepareHardware(d) \/ Unplug(d) \/ ReleaseClaim(d)
       \/ Publish(d)
  \/ \E p \in Publisher : RecordProgress(p) \/ RecordFails(p)
  \/ Crash

ArmingSpec == ArmingInit /\ [][ArmingNext]_armingVars

-----------------------------------------------------------------------------
(***************************************************************************)
(* Properties                                                              *)
(***************************************************************************)
\* The claim is up exactly while one devnode holds it, through failed starts
\* and releases in any order, and only its holder shows a radio without a
\* controller: two such radios are never there at once.
ClaimHasOwner ==
  /\ claim = Cardinality({d \in Devnode : holds[d]})
  /\ \A d \in Devnode : at[d] = "visible" => holds[d]

\* No arm starts anything in two lives of the machine: whenever it goes down,
\* an arm that was acted on is gone from the disk.
OneLifePerArm == \A s, t \in starts : s.arm = t.arm => s.boot = t.boot

\* A committed record is the work of one publisher, whichever write failed
\* before, as long as no two publish at the same time; nothing keeps two
\* devnodes, or a start and the worker of an earlier session, from it.
RecordIsWhole ==
  record.commit = "done" => mixed \/ record.first = record.second
=============================================================================
