---------------------------- MODULE BringUpProofs ----------------------------
(***************************************************************************)
(* Theorems about QcaBringUp, for every set of images, boards and states   *)
(* of the controller at the start, and for any number of troubles.         *)
(***************************************************************************)
EXTENDS QcaBringUp, FiniteSetTheorems, SequenceTheorems, WellFoundedInduction,
        TLAPS

-----------------------------------------------------------------------------
(***************************************************************************)
(* Shapes of the records.                                                  *)
(***************************************************************************)
FsmFields == {"state", "patchIndex", "board", "selected", "nvmIndex",
              "fallbackUsed"}

Asks == {"version", "baud", "segment", "board", "logging", "build", "hci_reset",
         "local_version", "nothing"}

\* What a command asks for, or an answer answers.
Kinds == Asks \cup {"ack", "soc_reset", "wake", "wake_ack", "wake_ind"}

Reply == [to : Kinds, board : Boards \cup {NoBoard}, rate : {"init", "oper"}]

\* A machine in one of its states.
Machine(f) == DOMAIN f = FsmFields /\ f.state \in States

\* A controller.
Controller(c) ==
  /\ DOMAIN c = {"fw", "rate", "awake", "got", "alive", "talk"}
  /\ c.fw \in {"rom", "patched"} /\ c.rate \in {"init", "oper"}
  /\ c.awake \in BOOLEAN /\ c.alive \in BOOLEAN
  /\ c.talk \in {"quiet", "asking", "talking"}

Places ==
  /\ worker \in Opening \cup Ladder \cup Resets \cup Loop \cup Steady
                  \cup {"start", "fsmread", "exit", "close", "stop", "end"}
  /\ goal \in {"entry", "check", "handback"}
  /\ port \in {"init", "oper"} /\ rate \in {"init", "oper"}
  /\ flow \in {"none", "handshake", "manual"}
  /\ target \in {"init", "oper"} /\ phase \in 0..3

Flags ==
  /\ stop \in BOOLEAN /\ moved \in BOOLEAN
  /\ reading \in BOOLEAN /\ waiting \in BOOLEAN
  /\ event \in BOOLEAN /\ readFault \in BOOLEAN
  /\ touched \in BOOLEAN /\ unnoted \in BOOLEAN /\ excused \in BOOLEAN

Counters ==
  /\ ident \in [tried : 0..3, at : {"none", "init", "oper", "high"}]
  /\ ibs \in [awake : BOOLEAN, pending : BOOLEAN, work : BOOLEAN, signal : BOOLEAN]
  /\ tries \in 0..WakeTries /\ troubles \in 0..MaxTroubles /\ asks \in 0..MaxAsks

Records ==
  /\ Machine(fsm) /\ before \in States
  /\ op.action \in Actions /\ op.command.ask \in Asks
  /\ Controller(ctl)
  /\ wire \in Seq(Reply) /\ fifo \in Seq(Reply)

Types == Places /\ Flags /\ Counters /\ Records

\* The types the other parts are stated with are those of the specification.
LEMMA TypesAreOK ==
  ASSUME Types
  PROVE  TypeOK
BY DEF Types, Places, Flags, Counters, Records, Machine, TypeOK

-----------------------------------------------------------------------------
(***************************************************************************)
(* The machine is early until it has asked for the other rate.             *)
(***************************************************************************)
Early == {"Start", "VersionRequest", "SetBaudRate"}

Searching == worker \in Ladder \cup Resets /\ goal # "handback"
Between   == worker \in {"top", "next", "wait", "timedout"}
Moving    == worker \in {"switch", "switchbaud", "switchread"}

MachineInv ==
  /\ Searching \/ worker = "fsmread" => fsm.state = "Start"
  /\ worker = "send" =>
       /\ op.command.ask = "version" <=> fsm.state \in Early
       /\ fsm.state # "Start"
       /\ op.command.ask = "baud" => before \in Early
       /\ op.action = "SendBaudAndSwitch" <=> op.command.ask = "baud"
       /\ op.action \notin {"Done", "Failed"}
  /\ Moving => fsm.state \notin Early
  /\ worker \in {"next", "send", "wait", "timedout"} /\ before \notin Early =>
       fsm.state \notin Early

(***************************************************************************)
(* A handback is the worker's last errand; before the machine runs nothing *)
(* has moved the controller.                                               *)
(***************************************************************************)
GoalInv ==
  /\ goal = "handback" => worker \in Resets \cup Ladder \cup {"stop", "end"}
  /\ Searching \/ worker \in Opening \cup {"start", "fsmread"} => ~moved
  /\ worker \in Opening \cup {"start"} =>
       wire = << >> /\ ~reading /\ phase = 0 /\ goal = "entry"

(***************************************************************************)
(* Where the worker talks at the initial rate, where it has just told the  *)
(* controller to leave it, and where it talks at the operating rate.       *)
(***************************************************************************)
AtInit ==
  \/ worker = "fsmread"
  \/ Between /\ fsm.state \in Early
  \/ worker = "send" /\ op.command.ask \in {"version", "baud"}

AtOper ==
  \/ worker \in Steady \cup {"close", "switchread"}
  \/ Between /\ fsm.state \notin Early
  \/ worker = "send" /\ op.command.ask \notin {"version", "baud"}
  \/ worker = "exit" /\ moved
  \/ worker \in Resets /\ goal = "handback"

CtlAt(r) == ctl.alive => ctl.rate = r

RateInv ==
  /\ ctl.rate = "init" => ctl.fw = "rom" /\ ctl.got = << >>
  /\ AtInit =>
       port = "init" /\ rate = "init" /\ ctl.rate = "init" /\ ctl.awake /\ ~moved
  /\ worker \in {"switch", "switchbaud"} =>
       port = "init" /\ rate = "init" /\ CtlAt("oper") /\ ~moved
  /\ AtOper => port = "oper" /\ rate = "oper" /\ CtlAt("oper")
  /\ worker \in Resets /\ goal = "handback" => target = "oper"
  /\ worker \in {"fsmread"} \cup Loop \cup Steady => flow = "handshake"

(***************************************************************************)
(* The ladder: an answer that is read was sent at the rate of the rung.    *)
(***************************************************************************)
FromCtl(a) == a.rate = ctl.rate /\ (a.to = "version" => ctl.awake)

OnRung == ident.tried \in 1..3 /\ port = Rates[ident.tried]

Settled == flow = "handshake" /\ rate = port

LadderInv ==
  /\ worker \in {"wakebytes", "socreset"} => ~reading
  /\ worker \in Ladder =>
       /\ \A i \in DOMAIN wire : FromCtl(wire[i])
       /\ reading =>
            OnRung /\ \A i \in DOMAIN fifo : FromCtl(fifo[i]) /\ fifo[i].rate = port
       /\ Answered => ident.at = ctl.rate /\ ident.at = port /\ ctl.awake
  /\ worker \in {"setbaud", "arm"} => ~reading /\ ~Answered /\ ident.tried \in 1..3
  /\ worker \in {"arm", "ask", "probe", "listen"} => OnRung /\ Settled
  /\ worker \in {"rung", "verdict"} /\ (reading \/ Answered) /\ ~readFault => Settled

(***************************************************************************)
(* The handback: who has noted the move comes to it, and it works unless   *)
(* it meets a fault; and who moved the controller has noted it, or a       *)
(* request failed before the note.                                         *)
(***************************************************************************)
HandbackInv ==
  /\ worker \in {"stop", "end"} /\ moved /\ ~stop => goal = "handback"
  /\ goal = "handback" /\ ~excused /\ ctl.alive =>
       /\ worker = "socreset" => ctl.awake
       /\ worker \in Ladder \cup {"stop", "end"} => ctl.fw = "rom" /\ ctl.rate = "init"

MoveNoted == touched => stop \/ moved \/ Moving \/ unnoted

-----------------------------------------------------------------------------
(***************************************************************************)
(* The machine's operators.                                                *)
(***************************************************************************)
LEMMA ArmNvmIs ==
  ASSUME NEW f, Machine(f), NEW b
  PROVE  Machine(ArmNvm(f, b)) /\ ArmNvm(f, b).state = "NvmDownload"
BY DEF ArmNvm, Machine, FsmFields, States

LEMMA FailsIs ==
  ASSUME NEW f, Machine(f)
  PROVE  Machine(Fails(f)) /\ Fails(f).state = "Failed"
BY DEF Fails, Machine, FsmFields, States

LEMMA SelectNvmIs ==
  ASSUME NEW f, Machine(f), NEW b, NEW n
  PROVE  /\ Machine(SelectNvm([f EXCEPT !.board = b], n))
         /\ SelectNvm([f EXCEPT !.board = b], n).state \notin Early
<1> DEFINE g == [f EXCEPT !.board = b]
<1>1. Machine(g)
  BY DEF Machine, FsmFields
<1> HIDE DEF g
<1>2. Machine(SelectNvm(g, n)) /\ SelectNvm(g, n).state \in {"NvmDownload", "Failed"}
  BY <1>1, ArmNvmIs, FailsIs DEF SelectNvm
<1>3. QED
  BY <1>2 DEF g, Early

LEMMA OnBoardIdTimeoutIs ==
  ASSUME NEW f, Machine(f), NEW n
  PROVE  /\ Machine(OnBoardIdTimeout(f, n))
         /\ OnBoardIdTimeout(f, n).state \in Early <=> f.state \in Early
         /\ f.state \in Early => OnBoardIdTimeout(f, n) = f
BY SelectNvmIs DEF OnBoardIdTimeout, Early

LEMMA OnNvmFailureIs ==
  ASSUME NEW f, Machine(f), NEW n
  PROVE  Machine(OnNvmFailure(f, n)) /\ OnNvmFailure(f, n).state \notin Early
<1>1. /\ Machine([ArmNvm(f, NoBoard) EXCEPT !.fallbackUsed = TRUE])
      /\ [ArmNvm(f, NoBoard) EXCEPT !.fallbackUsed = TRUE].state = "NvmDownload"
  BY ArmNvmIs DEF Machine, FsmFields
<1>2. QED
  BY <1>1, FailsIs DEF OnNvmFailure, Early

LEMMA OnPacketIs ==
  ASSUME NEW f, Machine(f), NEW a, NEW p, NEW n
  PROVE  /\ Machine(OnPacket(f, a, p, n))
         /\ OnPacket(f, a, p, n).state \in Early <=> f.state \in Early
         /\ OnPacket(f, a, p, n).state = "Start" <=> f.state = "Start"
<1>1. CASE ~Matches(f, a)
  BY <1>1 DEF OnPacket
<1>2. CASE Matches(f, a) /\ f.state = "PatchDownload"
  <2>1. /\ Machine(PatchAcked(f, p))
        /\ PatchAcked(f, p).state \in {"PatchDownload", "BoardIdRequest"}
    BY <1>2 DEF PatchAcked, Machine, FsmFields, States
  <2>2. OnPacket(f, a, p, n) = PatchAcked(f, p)
    BY <1>2 DEF OnPacket
  <2>3. QED
    BY <1>2, <2>1, <2>2 DEF Early
<1>3. CASE Matches(f, a) /\ f.state = "NvmDownload"
  <2>1. /\ Machine(NvmAcked(f, n))
        /\ NvmAcked(f, n).state \in {"NvmDownload", "DisableLogging"}
    BY <1>3 DEF NvmAcked, Machine, FsmFields, States
  <2>2. OnPacket(f, a, p, n) = NvmAcked(f, n)
    BY <1>3 DEF OnPacket
  <2>3. QED
    BY <1>3, <2>1, <2>2 DEF Early
<1>4. CASE Matches(f, a) /\ f.state = "BoardIdRequest"
  <2>1. OnPacket(f, a, p, n) = SelectNvm([f EXCEPT !.board = a.board], n)
    BY <1>4 DEF OnPacket
  <2>2. QED
    BY <1>4, <2>1, SelectNvmIs DEF Early
<1>5. CASE /\ Matches(f, a)
           /\ f.state \notin {"PatchDownload", "NvmDownload", "BoardIdRequest"}
  <2>1. f.state \in {"VersionRequest", "DisableLogging", "BuildInfo", "HciReset",
                     "ReadLocalVersion"}
    BY <1>5 DEF Matches, Awaits
  <2>2. OnPacket(f, a, p, n) = [f EXCEPT !.state = Follows[f.state]]
    BY <1>5 DEF OnPacket
  <2>3. /\ Follows["VersionRequest"] = "SetBaudRate"
        /\ Follows["DisableLogging"] = "BuildInfo"
        /\ Follows["BuildInfo"] = "HciReset"
        /\ Follows["HciReset"] = "ReadLocalVersion"
        /\ Follows["ReadLocalVersion"] = "Ready"
    BY DEF Follows
  <2>4. DOMAIN OnPacket(f, a, p, n) = DOMAIN f
        /\ OnPacket(f, a, p, n).state = Follows[f.state]
    BY <2>2 DEF Machine, FsmFields
  <2>5. QED
    BY <2>1, <2>3, <2>4 DEF Machine, States, Early
<1>6. QED
  BY <1>1, <1>2, <1>3, <1>4, <1>5

\* What the machine asks for next, and where it is then.
Sends(f, r) ==
  /\ r.command.ask \in {"version", "baud"} <=> f.state \in Early
  /\ r.command.ask = "version" <=> r.fsm.state \in Early
  /\ r.fsm.state # "Start"
  /\ r.action = "SendBaudAndSwitch" <=> r.command.ask = "baud"

LEMMA FsmNextIs ==
  ASSUME NEW f, Machine(f), NEW p, NEW n
  PROVE  LET r == FsmNext(f, p, n)
         IN  /\ Machine(r.fsm) /\ r.action \in Actions /\ r.command.ask \in Asks
             /\ f.state \notin Early => r.fsm.state \notin Early
             /\ r.action \notin {"Done", "Failed"} => Sends(f, r)
<1> DEFINE r == FsmNext(f, p, n)
           Fine == /\ Machine(r.fsm) /\ r.action \in Actions /\ r.command.ask \in Asks
                   /\ f.state \notin Early => r.fsm.state \notin Early
                   /\ r.action \notin {"Done", "Failed"} => Sends(f, r)
<1> SUFFICES Fine
  OBVIOUS
<1>1. ASSUME NEW act \in Actions, NEW cmd, NEW g, r = Result(act, cmd, g),
             Machine(g), cmd.ask \in Asks,
             f.state \notin Early => g.state \notin Early,
             act \notin {"Done", "Failed"} =>
               /\ cmd.ask \in {"version", "baud"} <=> f.state \in Early
               /\ cmd.ask = "version" <=> g.state \in Early
               /\ g.state # "Start"
               /\ act = "SendBaudAndSwitch" <=> cmd.ask = "baud"
      PROVE  Fine
  <2>1. r.action = act /\ r.command = cmd /\ r.fsm = g
    BY <1>1 DEF Result
  <2> HIDE DEF r
  <2>2. QED
    BY <1>1, <2>1 DEF Sends
<1>2. CASE r = Refused(f)
  <2>1. Fails(f).state \notin Early /\ NoCommand.ask = "nothing"
    BY FailsIs DEF Early, NoCommand, Command
  <2>2. QED
    BY <1>1, <1>2, <2>1, FailsIs DEF Refused, Asks, Actions
<1>3. ASSUME NEW x \in {"Start", "SetBaudRate"}, f.state = x PROVE Fine
  <2> DEFINE g == [f EXCEPT !.state = IF x = "Start" THEN "VersionRequest"
                                                    ELSE "PatchDownload"]
  <2>1. Machine(g) /\ g.state = IF x = "Start" THEN "VersionRequest" ELSE "PatchDownload"
    BY DEF Machine, FsmFields, States
  <2>2. r = IF x = "Start" THEN Result("Send", Command("version"), g)
                           ELSE Result("SendBaudAndSwitch", Command("baud"), g)
    BY <1>3 DEF FsmNext
  <2>3. Command("version").ask = "version" /\ Command("baud").ask = "baud"
    BY DEF Command
  <2> HIDE DEF g, Fine
  <2>4. QED
    BY <1>1, <1>3, <2>1, <2>2, <2>3 DEF Early, Asks, Actions
<1>4. CASE f.state = "PatchDownload"
  <2> DEFINE i   == f.patchIndex
             cmd == Segment("patch", i, FALSE)
             g   == [f EXCEPT !.patchIndex = i + 1]
  <2>1. cmd.ask = "segment"
    BY DEF Segment
  <2>2. Machine(g) /\ g.state = f.state
    BY DEF Machine, FsmFields
  <2>3. r \in {Refused(f), Result("Send", cmd, f), Result("SendNoWait", cmd, g)}
    BY <1>4 DEF FsmNext, NextPatch
  <2>4. f.state \notin Early
    BY <1>4 DEF Early
  <2> HIDE DEF r, cmd, g, Fine
  <2>5. ASSUME NEW act \in {"Send", "SendNoWait"}, NEW h, r = Result(act, cmd, h),
               Machine(h), h.state = f.state
        PROVE  Fine
    <3>1. act \in Actions /\ act \notin {"SendBaudAndSwitch", "Done", "Failed"}
      BY <2>5 DEF Actions
    <3>2. cmd.ask \in Asks /\ cmd.ask \notin {"version", "baud"}
      BY <2>1 DEF Asks
    <3>3. h.state \notin Early /\ h.state # "Start"
      BY <2>4, <2>5 DEF Early
    <3>4. QED
      BY <1>1, <2>4, <2>5, <3>1, <3>2, <3>3
  <2>6. CASE r = Refused(f)
    BY <1>2, <2>6
  <2>7. CASE r = Result("Send", cmd, f)
    BY <2>5, <2>7
  <2>8. CASE r = Result("SendNoWait", cmd, g)
    BY <2>2, <2>5, <2>8
  <2>9. QED
    BY <2>3, <2>6, <2>7, <2>8
<1>5. CASE f.state = "NvmDownload"
  <2> DEFINE cmd == Segment(f.selected, f.nvmIndex,
                            CarriesBaud(n[f.selected], f.nvmIndex))
  <2>1. cmd.ask = "segment"
    BY DEF Segment
  <2>2. r \in {Refused(f), Result("Send", cmd, f)}
    BY <1>5 DEF FsmNext, NextNvm
  <2> HIDE DEF r, cmd, Fine
  <2>3. CASE r = Result("Send", cmd, f)
    <3>1. f.state \notin Early /\ f.state # "Start"
      BY <1>5 DEF Early
    <3>2. cmd.ask \in Asks /\ cmd.ask \notin {"version", "baud"}
      BY <2>1 DEF Asks
    <3>3. "Send" \in Actions /\ "Send" \notin {"SendBaudAndSwitch", "Done", "Failed"}
      BY DEF Actions
    <3>4. QED
      BY <1>1, <2>3, <3>1, <3>2, <3>3
  <2>4. QED
    BY <1>2, <2>2, <2>3
<1>6. ASSUME NEW what \in {"board", "logging", "build", "hci_reset", "local_version"},
             f.state \notin Early, r = Result("Send", Command(what), f)
      PROVE  Fine
  <2>1. /\ Command(what).ask \in Asks
        /\ Command(what).ask \notin {"version", "baud"}
    BY DEF Command, Asks
  <2>2. f.state # "Start"
    BY <1>6 DEF Early
  <2>3. "Send" \in Actions /\ "Send" \notin {"SendBaudAndSwitch", "Done", "Failed"}
    BY DEF Actions
  <2> HIDE DEF r, Fine
  <2>4. QED
    BY <1>1, <1>6, <2>1, <2>2, <2>3
<1>7. CASE f.state \in {"BoardIdRequest", "DisableLogging", "BuildInfo", "HciReset",
                        "ReadLocalVersion"}
  <2>1. \E what \in {"board", "logging", "build", "hci_reset", "local_version"} :
          r = Result("Send", Command(what), f)
    BY <1>7 DEF FsmNext
  <2>2. f.state \notin Early
    BY <1>7 DEF Early
  <2> HIDE DEF r, Fine
  <2>3. PICK what \in {"board", "logging", "build", "hci_reset", "local_version"} :
          r = Result("Send", Command(what), f)
    BY <2>1
  <2>4. QED
    BY <1>6, <2>2, <2>3
<1>8. CASE f.state = "Ready"
  <2>1. r = Result("Done", NoCommand, f)
    BY <1>8 DEF FsmNext
  <2>2. NoCommand.ask \in Asks /\ "Done" \in Actions
    BY DEF NoCommand, Command, Asks, Actions
  <2>3. f.state \notin Early
    BY <1>8 DEF Early
  <2> HIDE DEF r, Fine
  <2>4. QED
    BY <1>1, <2>1, <2>2, <2>3
<1>9. CASE f.state \in {"VersionRequest", "Failed"}
  BY <1>2, <1>9 DEF FsmNext
<1>10. QED
  BY <1>3, <1>4, <1>5, <1>7, <1>8, <1>9 DEF Machine, States

LEMMA FsmInitIs ==
  ASSUME NEW p, NEW n
  PROVE  Machine(FsmInit(p, n))
BY DEF FsmInit, Machine, FsmFields, States


-----------------------------------------------------------------------------
(***************************************************************************)
(* What a command does to the controller, and what is said of it.          *)
(***************************************************************************)
LEMMA ObeyedIs ==
  ASSUME Controller(ctl), NEW cmd
  PROVE  /\ Controller(Obeyed(cmd)) /\ Obeyed(cmd).alive = ctl.alive
         /\ Obeyed(cmd).rate = CASE cmd.ask = "baud"      -> "oper"
                                 [] cmd.ask = "soc_reset" -> "init"
                                 [] OTHER                 -> ctl.rate
         /\ Obeyed(cmd).awake = (ctl.awake \/ cmd.ask = "wake")
         /\ cmd.ask \notin {"segment", "soc_reset"} =>
              Obeyed(cmd).fw = ctl.fw /\ Obeyed(cmd).got = ctl.got
         /\ cmd.ask = "soc_reset" => Obeyed(cmd).fw = "rom" /\ Obeyed(cmd).got = << >>
<1> USE DEF Controller
<1>1. CASE cmd.ask = "baud"
  BY <1>1 DEF Obeyed
<1>2. CASE cmd.ask = "segment"
  BY <1>2 DEF Obeyed
<1>3. CASE cmd.ask = "soc_reset"
  BY <1>3 DEF Obeyed
<1>4. CASE cmd.ask = "wake"
  BY <1>4 DEF Obeyed
<1>5. CASE cmd.ask = "wake_ack"
  BY <1>5 DEF Obeyed
<1>6. CASE cmd.ask \notin {"baud", "segment", "soc_reset", "wake", "wake_ack"}
  BY <1>6 DEF Obeyed
<1>7. QED
  BY <1>1, <1>2, <1>3, <1>4, <1>5, <1>6

LEMMA AnswerIs ==
  ASSUME Controller(ctl), NEW to \in Kinds, NEW b \in Boards \cup {NoBoard}
  PROVE  Answer(to, b) \in Reply /\ Answer(to, b).to = to
BY ObeyedIs DEF Answer, Reply, Controller

LEMMA AnswersAre ==
  ASSUME Controller(ctl), NEW cmd, cmd.ask \in Kinds, NEW a \in Answers(cmd)
  PROVE  a \in Seq(Reply)
<1>1. \A to \in Kinds, b \in Boards \cup {NoBoard} : <<Answer(to, b)>> \in Seq(Reply)
  BY AnswerIs
<1> "ack" \in Kinds /\ "wake_ack" \in Kinds
  BY DEF Kinds
<1>2. << >> \in Seq(Reply)
  OBVIOUS
<1>3. CASE cmd.ask = "segment"
  <2>1. a \in {<< >>, <<Answer("ack", NoBoard)>>}
    BY <1>3 DEF Answers
  <2>2. QED
    BY <1>1, <1>2, <2>1
<1>4. CASE cmd.ask = "board"
  BY <1>1, <1>4 DEF Answers
<1>5. CASE cmd.ask = "wake"
  <2>1. a \in {<< >>, <<Answer("wake_ack", NoBoard)>>}
    BY <1>5 DEF Answers
  <2>2. QED
    BY <1>1, <1>2, <2>1
<1>6. CASE cmd.ask \in {"soc_reset", "wake_ack"}
  BY <1>2, <1>6 DEF Answers
<1>7. CASE cmd.ask \notin {"segment", "board", "wake", "soc_reset", "wake_ack"}
  BY <1>1, <1>7 DEF Answers
<1>8. QED
  BY <1>3, <1>4, <1>5, <1>6, <1>7

\* Everything the invariant needs to know of a write.
Said(cmd) ==
  /\ Controller(ctl') /\ wire' \in Seq(Reply) /\ troubles' \in 0..MaxTroubles
  /\ ctl' = ctl \/ (Understands(cmd) /\ ctl' = Obeyed(cmd))
  /\ Understands(cmd) /\ (troubles' = troubles \/ cmd.ask = "baud") => ctl' = Obeyed(cmd)
  /\ cmd.ask = "soc_reset" => wire' = << >>
  /\ cmd.ask = "version" =>
       \/ wire' = wire
       \/ Understands(cmd) /\ wire' = Append(wire, Answer("version", NoBoard))

LEMMA SaysIs ==
  ASSUME Types, NEW cmd, cmd.ask \in Kinds, Says(cmd)
  PROVE  Said(cmd)
<1>1. InFlight(cmd) \in Seq(Reply) /\ (cmd.ask = "soc_reset" => InFlight(cmd) = << >>)
      /\ (cmd.ask # "soc_reset" => InFlight(cmd) = wire)
  BY DEF Types, Records, InFlight
<1>2. Controller(ctl) /\ Controller(Obeyed(cmd))
  BY ObeyedIs DEF Types, Records
<1>3. troubles \in 0..MaxTroubles /\ MaxTroubles \in Nat
  BY BringUpAssumption DEF Types, Counters
<1>4. ASSUME Understands(cmd), ctl' = Obeyed(cmd), UNCHANGED troubles,
             NEW a \in Answers(cmd), wire' = InFlight(cmd) \o a
      PROVE  Said(cmd)
  <2>1. a \in Seq(Reply)
    BY <1>2, AnswersAre
  <2>2. cmd.ask = "soc_reset" => a = << >>
    BY DEF Answers
  <2>3. cmd.ask = "version" => a = <<Answer("version", NoBoard)>>
    BY DEF Answers
  <2>4. wire' \in Seq(Reply)
    BY <1>1, <1>4, <2>1
  <2>5. cmd.ask = "soc_reset" => wire' = << >>
    BY <1>1, <1>4, <2>2
  <2>6. cmd.ask = "version" => wire' = Append(wire, Answer("version", NoBoard))
    <3> DEFINE v == Answer("version", NoBoard)
    <3>1. v \in Reply
      BY <1>2, AnswerIs DEF Kinds, Asks
    <3>2. wire \in Seq(Reply)
      BY DEF Types, Records
    <3> HIDE DEF v
    <3>3. Append(wire, v) = wire \o <<v>>
      BY <3>1, <3>2
    <3>4. QED
      BY <1>1, <1>4, <2>3, <3>3 DEF v
  <2>7. QED
    BY <1>2, <1>3, <1>4, <2>4, <2>5, <2>6 DEF Said
<1>5. ASSUME Understands(cmd), Ignorable(cmd), troubles < MaxTroubles,
             troubles' = troubles + 1, ctl' \in {ctl, Obeyed(cmd)},
             wire' = InFlight(cmd)
      PROVE  Said(cmd)
  <2>1. cmd.ask # "baud"
    BY <1>5 DEF Ignorable
  <2>2. QED
    BY <1>1, <1>2, <1>3, <1>5, <2>1 DEF Said
<1>6. ASSUME ~Understands(cmd), wire' = InFlight(cmd), UNCHANGED <<ctl, troubles>>
      PROVE  Said(cmd)
  BY <1>1, <1>2, <1>3, <1>6 DEF Said
<1>7. QED
  BY <1>4, <1>5, <1>6 DEF Says

\* The commands the worker writes of itself.
LEMMA CommandIs ==
  ASSUME NEW what
  PROVE  Command(what).ask = what
BY DEF Command

LEMMA WritesAre ==
  ASSUME Types
  PROVE  /\ RungProbe => Said(Command("version"))
         /\ ResetWake => Said(Command("wake"))
         /\ ResetSend => Said(Command("soc_reset"))
         /\ LoopSend => Said(op.command)
         /\ WakeHost /\ worker' # "serve" => Said(Command("wake"))
         /\ IbsAck => Said(Command("wake_ack"))
<1>1. ASSUME NEW what \in {"version", "wake", "soc_reset", "wake_ack"},
             Says(Command(what))
      PROVE  Said(Command(what))
  <2>1. Command(what).ask \in Kinds
    BY CommandIs DEF Kinds, Asks
  <2>2. QED
    BY <1>1, <2>1, SaysIs
<1>2. Says(op.command) => Said(op.command)
  BY SaysIs DEF Types, Records, Kinds
<1>3. QED
  BY <1>1, <1>2 DEF RungProbe, ResetWake, ResetSend, LoopSend, WakeHost, IbsAck

LEMMA ControllerChanges ==
  ASSUME Controller(ctl)
  PROVE  /\ Controller([ctl EXCEPT !.awake = FALSE])
         /\ Controller([ctl EXCEPT !.talk = "asking"])
         /\ Controller([ctl EXCEPT !.talk = "quiet"])
         /\ Controller([ctl EXCEPT !.alive = FALSE])
BY DEF Controller

LEMMA SaidIs ==
  ASSUME Types, NEW cmd, Said(cmd)
  PROVE  /\ ctl'.alive = ctl.alive
         /\ cmd.ask \notin {"baud", "soc_reset"} => ctl'.rate = ctl.rate
         /\ ctl.awake => ctl'.awake
         /\ cmd.ask \notin {"segment", "soc_reset"} =>
              ctl'.fw = ctl.fw /\ ctl'.got = ctl.got
<1> DEFINE o == Obeyed(cmd)
<1>1. Controller(ctl)
  BY DEF Types, Records
<1>2. /\ o.alive = ctl.alive
      /\ cmd.ask \notin {"baud", "soc_reset"} => o.rate = ctl.rate
      /\ ctl.awake => o.awake
      /\ cmd.ask \notin {"segment", "soc_reset"} => o.fw = ctl.fw /\ o.got = ctl.got
  BY <1>1, ObeyedIs
<1>3. ctl' = ctl \/ ctl' = o
  BY DEF Said
<1> HIDE DEF o
<1>4. QED
  BY <1>2, <1>3

LEMMA RatesAre ==
  /\ Len(Rates) = 3 /\ Rates[1] = "init" /\ Rates[2] = "oper" /\ Rates[3] = "high"
  /\ \A i \in 1..3 : Rates[i] \in {"init", "oper", "high"}
BY DEF Rates

-----------------------------------------------------------------------------
(***************************************************************************)
(* The invariant, and that every step keeps it.                            *)
(***************************************************************************)
IInv == Types /\ MachineInv /\ GoalInv /\ RateInv /\ LadderInv

\* A rung being set up, or listened at, is one of the three.
LEMMA RungIsReal ==
  ASSUME Types, LadderInv
  PROVE  /\ worker = "setbaud" => ident.tried \in 1..3
         /\ reading /\ worker \in Ladder => ident.tried \in 1..3
         /\ worker = "verdict" /\ Answered => ident.at \in {"init", "oper"}
<1>1. worker \in Ladder /\ Answered => ident.at \in {"init", "oper"}
  BY DEF LadderInv, Types, Records, Controller
<1>2. worker \in {"setbaud", "arm"} => ident.tried \in 1..3
  BY DEF LadderInv
<1>3. worker \in Ladder /\ reading => ident.tried \in 1..3
  BY DEF LadderInv, OnRung
<1>4. QED
  BY <1>1, <1>2, <1>3 DEF Ladder

\* The worker stays in its places, the line in its rates and modes.
LEMMA PlacesStep ==
  ASSUME Types, LadderInv, [Next]_vars
  PROVE  Places'
<1> USE DEF Types, firmware, readerVars, fsmVars, lineVars, ladderVars,
  ibsVars, history, outside, counts, vars, At, Succeeds, Fails1, Quiesced,
  BaudSet, BaudFailed, LineWoken, LineNotWoken, ToLadder, ToHandback,
  BackFromService, Answered, NoIdent, Opening, Ladder, Resets, Loop, Steady,
  Places
<1>1. CASE OpenTarget
  BY <1>1 DEF OpenTarget
<1>2. CASE OpenBaud
  BY <1>2 DEF OpenBaud
<1>3. CASE OpenWake
  BY <1>3 DEF OpenWake
<1>4. CASE OpenFails
  BY <1>4 DEF OpenFails
<1>5. CASE Rung
  BY <1>5 DEF Rung
<1>6. CASE RungBaud
  BY <1>6, RatesAre, RungIsReal DEF RungBaud
<1>7. CASE RungArm
  BY <1>7 DEF RungArm
<1>8. CASE RungAsk
  BY <1>8 DEF RungAsk
<1>9. CASE RungProbe
  <2>1. Said(Command("version"))
    BY <1>9, WritesAre DEF IInv
  <2>2. QED
    BY <1>9, <2>1 DEF RungProbe, Said
<1>10. CASE RungHeard
  BY <1>10 DEF RungHeard
<1>11. CASE LadderFails
  BY <1>11, RatesAre, RungIsReal DEF LadderFails
<1>12. CASE Verdict
  BY <1>12, RatesAre, RungIsReal DEF Verdict
<1>13. CASE ResetBaud
  BY <1>13 DEF ResetBaud
<1>14. CASE ResetWake
  <2>1. Said(Command("wake"))
    BY <1>14, WritesAre DEF IInv
  <2>2. QED
    BY <1>14, <2>1 DEF ResetWake, Said
<1>15. CASE ResetSend
  <2>1. Said(Command("soc_reset"))
    BY <1>15, WritesAre DEF IInv
  <2>2. QED
    BY <1>15, <2>1 DEF ResetSend, Said
<1>16. CASE ResetFails
  BY <1>16 DEF ResetFails
<1>17. CASE StartProbe
  BY <1>17 DEF StartProbe
<1>18. CASE StartReading
  BY <1>18 DEF StartReading
<1>19. CASE StartFails
  BY <1>19 DEF StartFails
<1>20. CASE LoopTop
  BY <1>20 DEF LoopTop
<1>21. CASE LoopNext
  BY <1>21 DEF LoopNext
<1>22. CASE LoopSend
  <2>1. Said(op.command)
    BY <1>22, WritesAre DEF IInv
  <2>2. QED
    BY <1>22, <2>1 DEF LoopSend, Said
<1>23. CASE LoopSendFails
  BY <1>23 DEF LoopSendFails
<1>24. CASE SwitchQuiesce
  BY <1>24 DEF SwitchQuiesce
<1>25. CASE SwitchBaud
  BY <1>25 DEF SwitchBaud
<1>26. CASE SwitchRead
  BY <1>26 DEF SwitchRead
<1>27. CASE SwitchFails
  BY <1>27 DEF SwitchFails
<1>28. CASE WaitEnds
  BY <1>28 DEF WaitEnds
<1>29. CASE WaitTimesOut
  BY <1>29 DEF WaitTimesOut
<1>30. CASE TimedOut
  BY <1>30 DEF TimedOut
<1>31. CASE ProbeExit
  BY <1>31 DEF ProbeExit
<1>32. CASE Retire
  BY <1>32 DEF Retire
<1>33. CASE Handoff
  BY <1>33 DEF Handoff
<1>34. CASE SteadyRead
  BY <1>34 DEF SteadyRead
<1>35. CASE WakeHost
  <2>1. worker' # "serve" => Said(Command("wake"))
    BY <1>35, WritesAre DEF IInv
  <2>2. QED
    BY <1>35, <2>1 DEF WakeHost, Said
<1>36. CASE WakeWaited
  BY <1>36 DEF WakeWaited
<1>37. CASE SteadyFails
  BY <1>37 DEF SteadyFails
<1>38. CASE ServeIbs
  BY <1>38 DEF ServeIbs
<1>39. CASE ServeEnds
  BY <1>39 DEF ServeEnds
<1>40. CASE Closed
  BY <1>40 DEF Closed
<1>41. CASE IbsClear
  BY <1>41 DEF IbsClear
<1>42. CASE IbsTake
  BY <1>42 DEF IbsTake
<1>43. CASE IbsAck
  <2>1. Said(Command("wake_ack"))
    BY <1>43, WritesAre DEF IInv
  <2>2. QED
    BY <1>43, <2>1 DEF IbsAck, Said
<1>44. CASE IbsNoAck
  BY <1>44 DEF IbsNoAck
<1>45. CASE Read
  BY <1>45 DEF Read
<1>46. CASE IbsSignal
  BY <1>46 DEF IbsSignal
<1>47. CASE ReaderFails
  BY <1>47 DEF ReaderFails
<1>48. CASE Arrive
  BY <1>48 DEF Arrive
<1>49. CASE AskToTalk
  BY <1>49 DEF AskToTalk
<1>50. CASE Hush
  BY <1>50 DEF Hush
<1>51. CASE Die
  BY <1>51 DEF Die
<1>52. CASE RequestStop
  BY <1>52 DEF RequestStop
<1>53. CASE UNCHANGED vars
  BY <1>53
<1>54. QED
  BY <1>1, <1>2, <1>3, <1>4, <1>5, <1>6, <1>7, <1>8, <1>9, <1>10, <1>11,
    <1>12, <1>13, <1>14, <1>15, <1>16, <1>17, <1>18, <1>19, <1>20, <1>21,
    <1>22, <1>23, <1>24, <1>25, <1>26, <1>27, <1>28, <1>29, <1>30, <1>31,
    <1>32, <1>33, <1>34, <1>35, <1>36, <1>37, <1>38, <1>39, <1>40, <1>41,
    <1>42, <1>43, <1>44, <1>45, <1>46, <1>47, <1>48, <1>49, <1>50, <1>51,
    <1>52, <1>53 DEF Next, Worker, Completion, Environment, PrepareHardware,
    Identify, ResetSoc, RunProbe, ServeSteady

\* The flags stay flags.
LEMMA FlagsStep ==
  ASSUME Types, [Next]_vars
  PROVE  Flags'
<1> USE DEF Types, firmware, readerVars, fsmVars, lineVars, ladderVars,
  ibsVars, history, outside, counts, vars, At, Succeeds, Fails1, Quiesced,
  BaudSet, BaudFailed, LineWoken, LineNotWoken, ToLadder, ToHandback,
  BackFromService, Answered, NoIdent, Flags
<1>1. CASE OpenTarget
  BY <1>1 DEF OpenTarget
<1>2. CASE OpenBaud
  BY <1>2 DEF OpenBaud
<1>3. CASE OpenWake
  BY <1>3 DEF OpenWake
<1>4. CASE OpenFails
  BY <1>4 DEF OpenFails
<1>5. CASE Rung
  BY <1>5 DEF Rung
<1>6. CASE RungBaud
  BY <1>6 DEF RungBaud
<1>7. CASE RungArm
  BY <1>7 DEF RungArm
<1>8. CASE RungAsk
  BY <1>8 DEF RungAsk
<1>9. CASE RungProbe
  <2>1. Said(Command("version"))
    BY <1>9, WritesAre DEF IInv
  <2>2. QED
    BY <1>9, <2>1 DEF RungProbe, Said
<1>10. CASE RungHeard
  BY <1>10 DEF RungHeard
<1>11. CASE LadderFails
  BY <1>11 DEF LadderFails
<1>12. CASE Verdict
  BY <1>12 DEF Verdict
<1>13. CASE ResetBaud
  BY <1>13 DEF ResetBaud
<1>14. CASE ResetWake
  <2>1. Said(Command("wake"))
    BY <1>14, WritesAre DEF IInv
  <2>2. QED
    BY <1>14, <2>1 DEF ResetWake, Said
<1>15. CASE ResetSend
  <2>1. Said(Command("soc_reset"))
    BY <1>15, WritesAre DEF IInv
  <2>2. QED
    BY <1>15, <2>1 DEF ResetSend, Said
<1>16. CASE ResetFails
  BY <1>16 DEF ResetFails
<1>17. CASE StartProbe
  BY <1>17 DEF StartProbe
<1>18. CASE StartReading
  BY <1>18 DEF StartReading
<1>19. CASE StartFails
  BY <1>19 DEF StartFails
<1>20. CASE LoopTop
  BY <1>20 DEF LoopTop
<1>21. CASE LoopNext
  BY <1>21 DEF LoopNext
<1>22. CASE LoopSend
  <2>1. Said(op.command)
    BY <1>22, WritesAre DEF IInv
  <2>2. QED
    BY <1>22, <2>1 DEF LoopSend, Said
<1>23. CASE LoopSendFails
  BY <1>23 DEF LoopSendFails
<1>24. CASE SwitchQuiesce
  BY <1>24 DEF SwitchQuiesce
<1>25. CASE SwitchBaud
  BY <1>25 DEF SwitchBaud
<1>26. CASE SwitchRead
  BY <1>26 DEF SwitchRead
<1>27. CASE SwitchFails
  BY <1>27 DEF SwitchFails
<1>28. CASE WaitEnds
  BY <1>28 DEF WaitEnds
<1>29. CASE WaitTimesOut
  BY <1>29 DEF WaitTimesOut
<1>30. CASE TimedOut
  BY <1>30 DEF TimedOut
<1>31. CASE ProbeExit
  BY <1>31 DEF ProbeExit
<1>32. CASE Retire
  BY <1>32 DEF Retire
<1>33. CASE Handoff
  BY <1>33 DEF Handoff
<1>34. CASE SteadyRead
  BY <1>34 DEF SteadyRead
<1>35. CASE WakeHost
  <2>1. worker' # "serve" => Said(Command("wake"))
    BY <1>35, WritesAre DEF IInv
  <2>2. QED
    BY <1>35, <2>1 DEF WakeHost, Said
<1>36. CASE WakeWaited
  BY <1>36 DEF WakeWaited
<1>37. CASE SteadyFails
  BY <1>37 DEF SteadyFails
<1>38. CASE ServeIbs
  BY <1>38 DEF ServeIbs
<1>39. CASE ServeEnds
  BY <1>39 DEF ServeEnds
<1>40. CASE Closed
  BY <1>40 DEF Closed
<1>41. CASE IbsClear
  BY <1>41 DEF IbsClear
<1>42. CASE IbsTake
  BY <1>42 DEF IbsTake
<1>43. CASE IbsAck
  <2>1. Said(Command("wake_ack"))
    BY <1>43, WritesAre DEF IInv
  <2>2. QED
    BY <1>43, <2>1 DEF IbsAck, Said
<1>44. CASE IbsNoAck
  BY <1>44 DEF IbsNoAck
<1>45. CASE Read
  <2>1. UNCHANGED <<stop, moved, reading, readFault, touched, unnoted, excused>>
    BY <1>45 DEF Read
  <2>2. waiting' \in BOOLEAN /\ event' \in BOOLEAN
    BY <1>45 DEF Read, Identifies, Advances
  <2>3. QED
    BY <2>1, <2>2
<1>46. CASE IbsSignal
  BY <1>46 DEF IbsSignal
<1>47. CASE ReaderFails
  BY <1>47 DEF ReaderFails
<1>48. CASE Arrive
  BY <1>48 DEF Arrive
<1>49. CASE AskToTalk
  BY <1>49 DEF AskToTalk
<1>50. CASE Hush
  BY <1>50 DEF Hush
<1>51. CASE Die
  BY <1>51 DEF Die
<1>52. CASE RequestStop
  BY <1>52 DEF RequestStop
<1>53. CASE UNCHANGED vars
  BY <1>53
<1>54. QED
  BY <1>1, <1>2, <1>3, <1>4, <1>5, <1>6, <1>7, <1>8, <1>9, <1>10, <1>11,
    <1>12, <1>13, <1>14, <1>15, <1>16, <1>17, <1>18, <1>19, <1>20, <1>21,
    <1>22, <1>23, <1>24, <1>25, <1>26, <1>27, <1>28, <1>29, <1>30, <1>31,
    <1>32, <1>33, <1>34, <1>35, <1>36, <1>37, <1>38, <1>39, <1>40, <1>41,
    <1>42, <1>43, <1>44, <1>45, <1>46, <1>47, <1>48, <1>49, <1>50, <1>51,
    <1>52, <1>53 DEF Next, Worker, Completion, Environment, PrepareHardware,
    Identify, ResetSoc, RunProbe, ServeSteady

\* The counters stay in their bounds.
LEMMA CountersStep ==
  ASSUME Types, LadderInv, [Next]_vars
  PROVE  Counters'
<1> USE DEF Types, firmware, readerVars, fsmVars, lineVars, ladderVars,
  ibsVars, history, outside, counts, vars, At, Succeeds, Fails1, Quiesced,
  BaudSet, BaudFailed, LineWoken, LineNotWoken, ToLadder, ToHandback,
  BackFromService, Answered, NoIdent, Counters
<1>1. CASE OpenTarget
  BY <1>1 DEF OpenTarget
<1>2. CASE OpenBaud
  BY <1>2 DEF OpenBaud
<1>3. CASE OpenWake
  BY <1>3 DEF OpenWake
<1>4. CASE OpenFails
  BY <1>4, BringUpAssumption DEF OpenFails
<1>5. CASE Rung
  BY <1>5, RatesAre DEF Rung
<1>6. CASE RungBaud
  BY <1>6 DEF RungBaud
<1>7. CASE RungArm
  BY <1>7 DEF RungArm
<1>8. CASE RungAsk
  BY <1>8 DEF RungAsk
<1>9. CASE RungProbe
  <2>1. Said(Command("version"))
    BY <1>9, WritesAre DEF IInv
  <2>2. QED
    BY <1>9, <2>1 DEF RungProbe, Said
<1>10. CASE RungHeard
  BY <1>10 DEF RungHeard
<1>11. CASE LadderFails
  BY <1>11, BringUpAssumption DEF LadderFails
<1>12. CASE Verdict
  BY <1>12 DEF Verdict
<1>13. CASE ResetBaud
  BY <1>13 DEF ResetBaud
<1>14. CASE ResetWake
  <2>1. Said(Command("wake"))
    BY <1>14, WritesAre DEF IInv
  <2>2. QED
    BY <1>14, <2>1 DEF ResetWake, Said
<1>15. CASE ResetSend
  <2>1. Said(Command("soc_reset"))
    BY <1>15, WritesAre DEF IInv
  <2>2. QED
    BY <1>15, <2>1 DEF ResetSend, Said
<1>16. CASE ResetFails
  BY <1>16, BringUpAssumption DEF ResetFails
<1>17. CASE StartProbe
  BY <1>17 DEF StartProbe
<1>18. CASE StartReading
  BY <1>18 DEF StartReading
<1>19. CASE StartFails
  BY <1>19, BringUpAssumption DEF StartFails
<1>20. CASE LoopTop
  BY <1>20 DEF LoopTop
<1>21. CASE LoopNext
  BY <1>21 DEF LoopNext
<1>22. CASE LoopSend
  <2>1. Said(op.command)
    BY <1>22, WritesAre DEF IInv
  <2>2. QED
    BY <1>22, <2>1 DEF LoopSend, Said
<1>23. CASE LoopSendFails
  BY <1>23, BringUpAssumption DEF LoopSendFails
<1>24. CASE SwitchQuiesce
  BY <1>24 DEF SwitchQuiesce
<1>25. CASE SwitchBaud
  BY <1>25 DEF SwitchBaud
<1>26. CASE SwitchRead
  BY <1>26 DEF SwitchRead
<1>27. CASE SwitchFails
  BY <1>27, BringUpAssumption DEF SwitchFails
<1>28. CASE WaitEnds
  BY <1>28 DEF WaitEnds
<1>29. CASE WaitTimesOut
  BY <1>29 DEF WaitTimesOut
<1>30. CASE TimedOut
  BY <1>30 DEF TimedOut
<1>31. CASE ProbeExit
  BY <1>31 DEF ProbeExit
<1>32. CASE Retire
  BY <1>32 DEF Retire
<1>33. CASE Handoff
  BY <1>33 DEF Handoff
<1>34. CASE SteadyRead
  BY <1>34 DEF SteadyRead
<1>35. CASE WakeHost
  <2>1. worker' # "serve" => Said(Command("wake"))
    BY <1>35, WritesAre DEF IInv
  <2>2. QED
    BY <1>35, <2>1, BringUpAssumption DEF WakeHost, Said
<1>36. CASE WakeWaited
  BY <1>36 DEF WakeWaited
<1>37. CASE SteadyFails
  BY <1>37, BringUpAssumption DEF SteadyFails
<1>38. CASE ServeIbs
  BY <1>38 DEF ServeIbs
<1>39. CASE ServeEnds
  BY <1>39 DEF ServeEnds
<1>40. CASE Closed
  BY <1>40 DEF Closed
<1>41. CASE IbsClear
  BY <1>41 DEF IbsClear
<1>42. CASE IbsTake
  BY <1>42 DEF IbsTake
<1>43. CASE IbsAck
  <2>1. Said(Command("wake_ack"))
    BY <1>43, WritesAre DEF IInv
  <2>2. QED
    BY <1>43, <2>1 DEF IbsAck, Said
<1>44. CASE IbsNoAck
  BY <1>44 DEF IbsNoAck
<1>45. CASE Read
  <2>1. UNCHANGED <<tries, troubles, asks>>
    BY <1>45 DEF Read
  <2>2. ident' \in [tried : 0..3, at : {"none", "init", "oper", "high"}]
    BY <1>45, RatesAre, RungIsReal DEF Read, Identifies, Identifying
  <2>3. ibs' \in [awake : BOOLEAN, pending : BOOLEAN, work : BOOLEAN, signal : BOOLEAN]
    BY <1>45 DEF Read, IbsByte
  <2>4. QED
    BY <2>1, <2>2, <2>3
<1>46. CASE IbsSignal
  BY <1>46 DEF IbsSignal
<1>47. CASE ReaderFails
  BY <1>47, BringUpAssumption DEF ReaderFails
<1>48. CASE Arrive
  BY <1>48 DEF Arrive
<1>49. CASE AskToTalk
  BY <1>49, BringUpAssumption DEF AskToTalk
<1>50. CASE Hush
  BY <1>50 DEF Hush
<1>51. CASE Die
  BY <1>51, BringUpAssumption DEF Die
<1>52. CASE RequestStop
  BY <1>52 DEF RequestStop
<1>53. CASE UNCHANGED vars
  BY <1>53
<1>54. QED
  BY <1>1, <1>2, <1>3, <1>4, <1>5, <1>6, <1>7, <1>8, <1>9, <1>10, <1>11,
    <1>12, <1>13, <1>14, <1>15, <1>16, <1>17, <1>18, <1>19, <1>20, <1>21,
    <1>22, <1>23, <1>24, <1>25, <1>26, <1>27, <1>28, <1>29, <1>30, <1>31,
    <1>32, <1>33, <1>34, <1>35, <1>36, <1>37, <1>38, <1>39, <1>40, <1>41,
    <1>42, <1>43, <1>44, <1>45, <1>46, <1>47, <1>48, <1>49, <1>50, <1>51,
    <1>52, <1>53 DEF Next, Worker, Completion, Environment, PrepareHardware,
    Identify, ResetSoc, RunProbe, ServeSteady

\* The machine, the controller and the answers keep their shapes.
LEMMA RecordsStep ==
  ASSUME Types, [Next]_vars
  PROVE  Records'
<1> USE DEF Types, firmware, readerVars, fsmVars, lineVars, ladderVars,
  ibsVars, history, outside, counts, vars, At, Succeeds, Fails1, Quiesced,
  BaudSet, BaudFailed, LineWoken, LineNotWoken, ToLadder, ToHandback,
  BackFromService, Answered, NoIdent, Records
<1>1. CASE OpenTarget
  BY <1>1 DEF OpenTarget
<1>2. CASE OpenBaud
  BY <1>2 DEF OpenBaud
<1>3. CASE OpenWake
  BY <1>3 DEF OpenWake
<1>4. CASE OpenFails
  BY <1>4 DEF OpenFails
<1>5. CASE Rung
  BY <1>5 DEF Rung
<1>6. CASE RungBaud
  BY <1>6 DEF RungBaud
<1>7. CASE RungArm
  BY <1>7 DEF RungArm
<1>8. CASE RungAsk
  BY <1>8 DEF RungAsk
<1>9. CASE RungProbe
  <2>1. Said(Command("version"))
    BY <1>9, WritesAre DEF IInv
  <2>2. QED
    BY <1>9, <2>1 DEF RungProbe, Said
<1>10. CASE RungHeard
  BY <1>10 DEF RungHeard
<1>11. CASE LadderFails
  BY <1>11 DEF LadderFails
<1>12. CASE Verdict
  BY <1>12 DEF Verdict
<1>13. CASE ResetBaud
  BY <1>13 DEF ResetBaud
<1>14. CASE ResetWake
  <2>1. Said(Command("wake"))
    BY <1>14, WritesAre DEF IInv
  <2>2. QED
    BY <1>14, <2>1 DEF ResetWake, Said
<1>15. CASE ResetSend
  <2>1. Said(Command("soc_reset"))
    BY <1>15, WritesAre DEF IInv
  <2>2. QED
    BY <1>15, <2>1 DEF ResetSend, Said
<1>16. CASE ResetFails
  BY <1>16 DEF ResetFails
<1>17. CASE StartProbe
  BY <1>17 DEF StartProbe
<1>18. CASE StartReading
  BY <1>18 DEF StartReading
<1>19. CASE StartFails
  BY <1>19 DEF StartFails
<1>20. CASE LoopTop
  BY <1>20 DEF LoopTop, Machine
<1>21. CASE LoopNext
  BY <1>21, FsmNextIs DEF LoopNext
<1>22. CASE LoopSend
  <2>1. Said(op.command)
    BY <1>22, WritesAre DEF IInv
  <2>2. QED
    BY <1>22, <2>1 DEF LoopSend, Said
<1>23. CASE LoopSendFails
  BY <1>23, OnBoardIdTimeoutIs DEF LoopSendFails
<1>24. CASE SwitchQuiesce
  BY <1>24 DEF SwitchQuiesce
<1>25. CASE SwitchBaud
  BY <1>25 DEF SwitchBaud
<1>26. CASE SwitchRead
  BY <1>26 DEF SwitchRead
<1>27. CASE SwitchFails
  BY <1>27 DEF SwitchFails
<1>28. CASE WaitEnds
  BY <1>28 DEF WaitEnds
<1>29. CASE WaitTimesOut
  BY <1>29 DEF WaitTimesOut
<1>30. CASE TimedOut
  BY <1>30, OnBoardIdTimeoutIs, OnNvmFailureIs DEF TimedOut
<1>31. CASE ProbeExit
  BY <1>31 DEF ProbeExit
<1>32. CASE Retire
  BY <1>32 DEF Retire
<1>33. CASE Handoff
  BY <1>33, ControllerChanges DEF Handoff
<1>34. CASE SteadyRead
  BY <1>34 DEF SteadyRead
<1>35. CASE WakeHost
  <2>1. worker' # "serve" => Said(Command("wake"))
    BY <1>35, WritesAre DEF IInv
  <2>2. QED
    BY <1>35, <2>1 DEF WakeHost, Said
<1>36. CASE WakeWaited
  BY <1>36 DEF WakeWaited
<1>37. CASE SteadyFails
  BY <1>37 DEF SteadyFails
<1>38. CASE ServeIbs
  BY <1>38 DEF ServeIbs
<1>39. CASE ServeEnds
  BY <1>39 DEF ServeEnds
<1>40. CASE Closed
  BY <1>40 DEF Closed
<1>41. CASE IbsClear
  BY <1>41 DEF IbsClear
<1>42. CASE IbsTake
  BY <1>42 DEF IbsTake
<1>43. CASE IbsAck
  <2>1. Said(Command("wake_ack"))
    BY <1>43, WritesAre DEF IInv
  <2>2. QED
    BY <1>43, <2>1 DEF IbsAck, Said
<1>44. CASE IbsNoAck
  BY <1>44 DEF IbsNoAck
<1>45. CASE Read
  <2>1. UNCHANGED <<before, op, ctl, wire>> /\ fifo' \in Seq(Reply)
    BY <1>45 DEF Read
  <2>2. fsm' = fsm \/ \E a : fsm' = OnPacket(fsm, a, patch, nvms)
    BY <1>45 DEF Read, Advances
  <2>3. Machine(fsm')
    BY <2>2, OnPacketIs
  <2>4. QED
    BY <2>1, <2>3
<1>46. CASE IbsSignal
  BY <1>46 DEF IbsSignal
<1>47. CASE ReaderFails
  BY <1>47 DEF ReaderFails
<1>48. CASE Arrive
  BY <1>48 DEF Arrive
<1>49. CASE AskToTalk
  <2>1. Controller(ctl') /\ UNCHANGED <<fsm, before, op, fifo>>
    BY <1>49, ControllerChanges DEF AskToTalk
  <2>2. wire' \in Seq(Reply)
    BY <1>49 DEF AskToTalk, Reply, Kinds, Controller
  <2>3. QED
    BY <2>1, <2>2
<1>50. CASE Hush
  BY <1>50, ControllerChanges DEF Hush
<1>51. CASE Die
  BY <1>51, ControllerChanges DEF Die
<1>52. CASE RequestStop
  BY <1>52 DEF RequestStop
<1>53. CASE UNCHANGED vars
  BY <1>53
<1>54. QED
  BY <1>1, <1>2, <1>3, <1>4, <1>5, <1>6, <1>7, <1>8, <1>9, <1>10, <1>11,
    <1>12, <1>13, <1>14, <1>15, <1>16, <1>17, <1>18, <1>19, <1>20, <1>21,
    <1>22, <1>23, <1>24, <1>25, <1>26, <1>27, <1>28, <1>29, <1>30, <1>31,
    <1>32, <1>33, <1>34, <1>35, <1>36, <1>37, <1>38, <1>39, <1>40, <1>41,
    <1>42, <1>43, <1>44, <1>45, <1>46, <1>47, <1>48, <1>49, <1>50, <1>51,
    <1>52, <1>53 DEF Next, Worker, Completion, Environment, PrepareHardware,
    Identify, ResetSoc, RunProbe, ServeSteady

\* The machine leaves its early states only by asking for the other rate.
LEMMA MachineStep ==
  ASSUME IInv, [Next]_vars
  PROVE  MachineInv'
<1> USE DEF IInv, Types, Places, Records, firmware, readerVars, fsmVars,
  lineVars, ladderVars, ibsVars, history, outside, counts, vars, At,
  ToLadder, ToHandback, BackFromService, Opening, Ladder, Resets, Loop,
  Steady, MachineInv, Searching, Moving, Early
<1>1. CASE OpenTarget
  BY <1>1 DEF OpenTarget
<1>2. CASE OpenBaud
  BY <1>2 DEF OpenBaud
<1>3. CASE OpenWake
  BY <1>3 DEF OpenWake
<1>4. CASE OpenFails
  BY <1>4 DEF OpenFails
<1>5. CASE Rung
  BY <1>5 DEF Rung
<1>6. CASE RungBaud
  BY <1>6 DEF RungBaud
<1>7. CASE RungArm
  BY <1>7 DEF RungArm
<1>8. CASE RungAsk
  BY <1>8 DEF RungAsk
<1>9. CASE RungProbe
  <2>1. Said(Command("version"))
    BY <1>9, WritesAre DEF IInv
  <2>2. QED
    BY <1>9, <2>1 DEF RungProbe, Said
<1>10. CASE RungHeard
  BY <1>10 DEF RungHeard
<1>11. CASE LadderFails
  BY <1>11 DEF LadderFails
<1>12. CASE Verdict
  BY <1>12 DEF Verdict
<1>13. CASE ResetBaud
  BY <1>13 DEF ResetBaud
<1>14. CASE ResetWake
  <2>1. Said(Command("wake"))
    BY <1>14, WritesAre DEF IInv
  <2>2. QED
    BY <1>14, <2>1 DEF ResetWake, Said
<1>15. CASE ResetSend
  <2>1. Said(Command("soc_reset"))
    BY <1>15, WritesAre DEF IInv
  <2>2. QED
    BY <1>15, <2>1 DEF ResetSend, Said
<1>16. CASE ResetFails
  BY <1>16 DEF ResetFails
<1>17. CASE StartProbe
  BY <1>17 DEF StartProbe
<1>18. CASE StartReading
  BY <1>18 DEF StartReading
<1>19. CASE StartFails
  BY <1>19 DEF StartFails
<1>20. CASE LoopTop
  BY <1>20 DEF LoopTop
<1>21. CASE LoopNext
  <2>1. /\ fsm' = op'.fsm /\ UNCHANGED <<goal, before>>
        /\ worker' = IF op'.action \in {"Done", "Failed"} THEN "exit" ELSE "send"
    BY <1>21 DEF LoopNext
  <2>2. /\ fsm.state \notin Early => op'.fsm.state \notin Early
        /\ op'.action \notin {"Done", "Failed"} => Sends(fsm, op')
    BY <1>21, FsmNextIs DEF LoopNext
  <2>3. QED
    BY <1>21, <2>1, <2>2 DEF LoopNext, Sends
<1>22. CASE LoopSend
  <2>1. UNCHANGED <<goal, fsm, before>>
    BY <1>22 DEF LoopSend
  <2>2. CASE op.action \in {"Send", "SendNoWait"}
    BY <1>22, <2>1, <2>2 DEF LoopSend
  <2>3. CASE op.action = "SendBaudAndSwitch"
    <3>1. worker' = "switch" /\ worker = "send"
      BY <1>22, <2>3 DEF LoopSend
    <3>2. fsm.state \notin Early
      BY <2>3, <3>1
    <3>3. QED
      BY <2>1, <3>1, <3>2
  <2>4. QED
    BY <1>22, <2>2, <2>3 DEF LoopSend, Actions
<1>23. CASE LoopSendFails
  BY <1>23, OnBoardIdTimeoutIs DEF LoopSendFails
<1>24. CASE SwitchQuiesce
  BY <1>24 DEF SwitchQuiesce
<1>25. CASE SwitchBaud
  BY <1>25 DEF SwitchBaud
<1>26. CASE SwitchRead
  BY <1>26 DEF SwitchRead
<1>27. CASE SwitchFails
  BY <1>27 DEF SwitchFails
<1>28. CASE WaitEnds
  BY <1>28 DEF WaitEnds
<1>29. CASE WaitTimesOut
  BY <1>29 DEF WaitTimesOut
<1>30. CASE TimedOut
  BY <1>30, OnBoardIdTimeoutIs, OnNvmFailureIs DEF TimedOut
<1>31. CASE ProbeExit
  BY <1>31 DEF ProbeExit
<1>32. CASE Retire
  BY <1>32 DEF Retire
<1>33. CASE Handoff
  BY <1>33 DEF Handoff
<1>34. CASE SteadyRead
  BY <1>34 DEF SteadyRead
<1>35. CASE WakeHost
  <2>1. worker' # "serve" => Said(Command("wake"))
    BY <1>35, WritesAre DEF IInv
  <2>2. QED
    BY <1>35, <2>1 DEF WakeHost, Said
<1>36. CASE WakeWaited
  BY <1>36 DEF WakeWaited
<1>37. CASE SteadyFails
  BY <1>37 DEF SteadyFails
<1>38. CASE ServeIbs
  BY <1>38 DEF ServeIbs
<1>39. CASE ServeEnds
  BY <1>39 DEF ServeEnds
<1>40. CASE Closed
  BY <1>40 DEF Closed
<1>41. CASE IbsClear
  BY <1>41 DEF IbsClear
<1>42. CASE IbsTake
  BY <1>42 DEF IbsTake
<1>43. CASE IbsAck
  <2>1. Said(Command("wake_ack"))
    BY <1>43, WritesAre DEF IInv
  <2>2. QED
    BY <1>43, <2>1 DEF IbsAck, Said
<1>44. CASE IbsNoAck
  BY <1>44 DEF IbsNoAck
<1>45. CASE Read
  <2>1. UNCHANGED <<worker, goal, before, op>>
    BY <1>45 DEF Read
  <2>2. fsm' = fsm \/ \E a : fsm' = OnPacket(fsm, a, patch, nvms)
    BY <1>45 DEF Read, Advances
  <2>3. /\ fsm'.state \in Early <=> fsm.state \in Early
        /\ fsm'.state = "Start" <=> fsm.state = "Start"
    BY <2>2, OnPacketIs
  <2>4. QED
    BY <2>1, <2>3
<1>46. CASE IbsSignal
  BY <1>46 DEF IbsSignal
<1>47. CASE ReaderFails
  BY <1>47 DEF ReaderFails
<1>48. CASE Arrive
  BY <1>48 DEF Arrive
<1>49. CASE AskToTalk
  BY <1>49 DEF AskToTalk
<1>50. CASE Hush
  BY <1>50 DEF Hush
<1>51. CASE Die
  BY <1>51 DEF Die
<1>52. CASE RequestStop
  BY <1>52 DEF RequestStop
<1>53. CASE UNCHANGED vars
  BY <1>53
<1>54. QED
  BY <1>1, <1>2, <1>3, <1>4, <1>5, <1>6, <1>7, <1>8, <1>9, <1>10, <1>11,
    <1>12, <1>13, <1>14, <1>15, <1>16, <1>17, <1>18, <1>19, <1>20, <1>21,
    <1>22, <1>23, <1>24, <1>25, <1>26, <1>27, <1>28, <1>29, <1>30, <1>31,
    <1>32, <1>33, <1>34, <1>35, <1>36, <1>37, <1>38, <1>39, <1>40, <1>41,
    <1>42, <1>43, <1>44, <1>45, <1>46, <1>47, <1>48, <1>49, <1>50, <1>51,
    <1>52, <1>53 DEF Next, Worker, Completion, Environment, PrepareHardware,
    Identify, ResetSoc, RunProbe, ServeSteady

\* Nothing follows a handback, and nothing moved the controller before the
\* machine runs.
LEMMA GoalStep ==
  ASSUME IInv, [Next]_vars
  PROVE  GoalInv'
<1> USE DEF IInv, Types, Places, Flags, firmware, readerVars, fsmVars,
  lineVars, ladderVars, ibsVars, history, outside, counts, vars, At,
  ToLadder, ToHandback, BackFromService, Opening, Ladder, Resets, Loop,
  Steady, GoalInv, Searching
<1>1. CASE OpenTarget
  BY <1>1 DEF OpenTarget
<1>2. CASE OpenBaud
  BY <1>2 DEF OpenBaud
<1>3. CASE OpenWake
  BY <1>3 DEF OpenWake
<1>4. CASE OpenFails
  BY <1>4 DEF OpenFails
<1>5. CASE Rung
  BY <1>5 DEF Rung
<1>6. CASE RungBaud
  BY <1>6 DEF RungBaud
<1>7. CASE RungArm
  BY <1>7 DEF RungArm
<1>8. CASE RungAsk
  BY <1>8 DEF RungAsk
<1>9. CASE RungProbe
  <2>1. Said(Command("version"))
    BY <1>9, WritesAre DEF IInv
  <2>2. QED
    BY <1>9, <2>1 DEF RungProbe, Said
<1>10. CASE RungHeard
  BY <1>10 DEF RungHeard
<1>11. CASE LadderFails
  BY <1>11 DEF LadderFails
<1>12. CASE Verdict
  BY <1>12 DEF Verdict
<1>13. CASE ResetBaud
  BY <1>13 DEF ResetBaud
<1>14. CASE ResetWake
  <2>1. Said(Command("wake"))
    BY <1>14, WritesAre DEF IInv
  <2>2. QED
    BY <1>14, <2>1 DEF ResetWake, Said
<1>15. CASE ResetSend
  <2>1. Said(Command("soc_reset"))
    BY <1>15, WritesAre DEF IInv
  <2>2. QED
    BY <1>15, <2>1 DEF ResetSend, Said
<1>16. CASE ResetFails
  BY <1>16 DEF ResetFails
<1>17. CASE StartProbe
  BY <1>17 DEF StartProbe
<1>18. CASE StartReading
  BY <1>18 DEF StartReading
<1>19. CASE StartFails
  BY <1>19 DEF StartFails
<1>20. CASE LoopTop
  BY <1>20 DEF LoopTop
<1>21. CASE LoopNext
  BY <1>21 DEF LoopNext
<1>22. CASE LoopSend
  <2>1. Said(op.command)
    BY <1>22, WritesAre DEF IInv
  <2>2. QED
    BY <1>22, <2>1 DEF LoopSend, Said
<1>23. CASE LoopSendFails
  BY <1>23 DEF LoopSendFails
<1>24. CASE SwitchQuiesce
  BY <1>24 DEF SwitchQuiesce
<1>25. CASE SwitchBaud
  BY <1>25 DEF SwitchBaud
<1>26. CASE SwitchRead
  BY <1>26 DEF SwitchRead
<1>27. CASE SwitchFails
  BY <1>27 DEF SwitchFails
<1>28. CASE WaitEnds
  BY <1>28 DEF WaitEnds
<1>29. CASE WaitTimesOut
  BY <1>29 DEF WaitTimesOut
<1>30. CASE TimedOut
  BY <1>30 DEF TimedOut
<1>31. CASE ProbeExit
  BY <1>31 DEF ProbeExit
<1>32. CASE Retire
  BY <1>32 DEF Retire
<1>33. CASE Handoff
  BY <1>33 DEF Handoff
<1>34. CASE SteadyRead
  BY <1>34 DEF SteadyRead
<1>35. CASE WakeHost
  <2>1. worker' # "serve" => Said(Command("wake"))
    BY <1>35, WritesAre DEF IInv
  <2>2. QED
    BY <1>35, <2>1 DEF WakeHost, Said
<1>36. CASE WakeWaited
  BY <1>36 DEF WakeWaited
<1>37. CASE SteadyFails
  BY <1>37 DEF SteadyFails
<1>38. CASE ServeIbs
  BY <1>38 DEF ServeIbs
<1>39. CASE ServeEnds
  BY <1>39 DEF ServeEnds
<1>40. CASE Closed
  BY <1>40 DEF Closed
<1>41. CASE IbsClear
  BY <1>41 DEF IbsClear
<1>42. CASE IbsTake
  BY <1>42 DEF IbsTake
<1>43. CASE IbsAck
  <2>1. Said(Command("wake_ack"))
    BY <1>43, WritesAre DEF IInv
  <2>2. QED
    BY <1>43, <2>1 DEF IbsAck, Said
<1>44. CASE IbsNoAck
  BY <1>44 DEF IbsNoAck
<1>45. CASE Read
  BY <1>45 DEF Read
<1>46. CASE IbsSignal
  BY <1>46 DEF IbsSignal
<1>47. CASE ReaderFails
  BY <1>47 DEF ReaderFails
<1>48. CASE Arrive
  BY <1>48 DEF Arrive
<1>49. CASE AskToTalk
  BY <1>49 DEF AskToTalk
<1>50. CASE Hush
  BY <1>50 DEF Hush
<1>51. CASE Die
  BY <1>51 DEF Die
<1>52. CASE RequestStop
  BY <1>52 DEF RequestStop
<1>53. CASE UNCHANGED vars
  BY <1>53
<1>54. QED
  BY <1>1, <1>2, <1>3, <1>4, <1>5, <1>6, <1>7, <1>8, <1>9, <1>10, <1>11,
    <1>12, <1>13, <1>14, <1>15, <1>16, <1>17, <1>18, <1>19, <1>20, <1>21,
    <1>22, <1>23, <1>24, <1>25, <1>26, <1>27, <1>28, <1>29, <1>30, <1>31,
    <1>32, <1>33, <1>34, <1>35, <1>36, <1>37, <1>38, <1>39, <1>40, <1>41,
    <1>42, <1>43, <1>44, <1>45, <1>46, <1>47, <1>48, <1>49, <1>50, <1>51,
    <1>52, <1>53 DEF Next, Worker, Completion, Environment, PrepareHardware,
    Identify, ResetSoc, RunProbe, ServeSteady

\* The worker, the line and the controller are at one rate.
LEMMA RateStep ==
  ASSUME IInv, [Next]_vars
  PROVE  RateInv'
<1> USE DEF IInv, Types, Places, Flags, Records, firmware, readerVars,
  fsmVars, lineVars, ladderVars, ibsVars, history, outside, counts, vars, At,
  Succeeds, BaudSet, BaudFailed, LineWoken, LineNotWoken, ToLadder,
  ToHandback, BackFromService, Fails1, Quiesced, Opening, Ladder, Resets,
  Loop, Steady, MachineInv, GoalInv, RateInv, AtInit, AtOper, Between,
  Moving, CtlAt, Searching, Early
<1>1. CASE OpenTarget
  BY <1>1 DEF OpenTarget
<1>2. CASE OpenBaud
  BY <1>2 DEF OpenBaud
<1>3. CASE OpenWake
  BY <1>3 DEF OpenWake
<1>4. CASE OpenFails
  BY <1>4 DEF OpenFails
<1>5. CASE Rung
  BY <1>5 DEF Rung
<1>6. CASE RungBaud
  BY <1>6 DEF RungBaud
<1>7. CASE RungArm
  BY <1>7 DEF RungArm
<1>8. CASE RungAsk
  BY <1>8 DEF RungAsk
<1>9. CASE RungProbe
  <2>1. Said(Command("version"))
    BY <1>9, WritesAre DEF IInv
  <2>2. QED
    BY <1>9, <2>1, ObeyedIs, CommandIs DEF RungProbe, Said
<1>10. CASE RungHeard
  BY <1>10 DEF RungHeard
<1>11. CASE LadderFails
  BY <1>11 DEF LadderFails
<1>12. CASE Verdict
  <2>1. UNCHANGED <<port, rate, flow, moved, ctl, fsm, op>> /\ worker = "verdict"
    BY <1>12 DEF Verdict
  <2>2. worker' = "fsmread" => ~readFault /\ ident.at = "init" /\ goal # "handback"
    BY <1>12 DEF Verdict
  <2>3. worker' = "fsmread" =>
          /\ port = "init" /\ rate = "init" /\ ctl.rate = "init"
          /\ ctl.awake /\ ~moved /\ flow = "handshake"
    BY <2>1, <2>2 DEF LadderInv, Settled, Answered
  <2>4. /\ worker' \in {"fsmread", "reset", "exit", "stop"}
        /\ worker' \in {"reset", "exit"} => goal # "handback" /\ goal' = goal
    BY <1>12 DEF Verdict
  <2>5. worker' \in {"reset", "exit"} => ~moved
    BY <2>1, <2>4
  <2>6. QED
    BY <2>1, <2>3, <2>4, <2>5
<1>13. CASE ResetBaud
  BY <1>13 DEF ResetBaud
<1>14. CASE ResetWake
  <2>1. Said(Command("wake"))
    BY <1>14, WritesAre DEF IInv
  <2>2. QED
    BY <1>14, <2>1, ObeyedIs, CommandIs DEF ResetWake, Said
<1>15. CASE ResetSend
  <2>1. Said(Command("soc_reset"))
    BY <1>15, WritesAre DEF IInv
  <2>2. QED
    BY <1>15, <2>1, ObeyedIs, CommandIs DEF ResetSend, Said
<1>16. CASE ResetFails
  BY <1>16 DEF ResetFails
<1>17. CASE StartProbe
  BY <1>17 DEF StartProbe
<1>18. CASE StartReading
  BY <1>18 DEF StartReading
<1>19. CASE StartFails
  BY <1>19 DEF StartFails
<1>20. CASE LoopTop
  BY <1>20 DEF LoopTop
<1>21. CASE LoopNext
  <2>1. /\ fsm' = op'.fsm /\ UNCHANGED <<goal, port, rate, flow, target, moved, ctl>>
        /\ worker = "next"
        /\ worker' = IF op'.action \in {"Done", "Failed"} THEN "exit" ELSE "send"
    BY <1>21 DEF LoopNext
  <2>2. /\ fsm.state \notin Early => op'.fsm.state \notin Early
        /\ op'.action \notin {"Done", "Failed"} => Sends(fsm, op')
    BY <1>21, FsmNextIs DEF LoopNext
  <2>3. QED
    BY <2>1, <2>2 DEF Sends
<1>22. CASE LoopSend
  <2>1. /\ UNCHANGED <<port, rate, flow, moved, goal, target, fsm, op>>
        /\ worker = "send"
    BY <1>22 DEF LoopSend
  <2>2. Said(op.command)
    BY <1>22, WritesAre
  <2>3. CASE op.command.ask = "baud"
    <3>1. worker' = "switch"
      BY <1>22, <2>1, <2>3 DEF LoopSend
    <3>2. port = "init" /\ rate = "init" /\ ctl.rate = "init" /\ ctl.awake /\ ~moved
      BY <2>1, <2>3
    <3>3. ctl.alive => ctl' = Obeyed(op.command)
      BY <2>2, <2>3, <3>2 DEF Said, Understands, Hears
    <3>4. ctl' = ctl \/ ctl' = Obeyed(op.command)
      BY <2>2 DEF Said
    <3>5. QED
      BY <2>1, <2>3, <3>1, <3>2, <3>3, <3>4, ObeyedIs
  <2>4. CASE op.command.ask # "baud"
    <3>1. /\ worker' \in {"wait", "top"}
          /\ fsm.state \in Early <=> op.command.ask = "version"
      BY <1>22, <2>1, <2>4 DEF LoopSend, Actions
    <3>2. ctl' = ctl \/ (Understands(op.command) /\ ctl' = Obeyed(op.command))
      BY <2>2 DEF Said
    <3> op.command.ask \notin {"baud", "soc_reset", "wake"}
      BY <2>4 DEF Asks
    <3>3. /\ ctl'.rate = ctl.rate /\ ctl'.alive = ctl.alive
          /\ ctl.awake => ctl'.awake
          /\ op.command.ask = "version" => ctl'.fw = ctl.fw /\ ctl'.got = ctl.got
      BY <2>2, SaidIs
    <3>4. op.command.ask # "version" => ctl' = ctl \/ ctl'.rate = "oper"
      BY <2>1, <2>4, <3>2, <3>3 DEF Understands, Hears
    <3>5. QED
      BY <2>1, <2>4, <3>1, <3>3, <3>4
  <2>5. QED
    BY <2>3, <2>4
<1>23. CASE LoopSendFails
  BY <1>23, OnBoardIdTimeoutIs DEF LoopSendFails
<1>24. CASE SwitchQuiesce
  BY <1>24 DEF SwitchQuiesce
<1>25. CASE SwitchBaud
  BY <1>25 DEF SwitchBaud
<1>26. CASE SwitchRead
  BY <1>26 DEF SwitchRead
<1>27. CASE SwitchFails
  BY <1>27 DEF SwitchFails
<1>28. CASE WaitEnds
  BY <1>28 DEF WaitEnds
<1>29. CASE WaitTimesOut
  BY <1>29 DEF WaitTimesOut
<1>30. CASE TimedOut
  BY <1>30, OnBoardIdTimeoutIs, OnNvmFailureIs DEF TimedOut
<1>31. CASE ProbeExit
  BY <1>31 DEF ProbeExit
<1>32. CASE Retire
  BY <1>32 DEF Retire
<1>33. CASE Handoff
  BY <1>33 DEF Handoff, Controller
<1>34. CASE SteadyRead
  BY <1>34 DEF SteadyRead
<1>35. CASE WakeHost
  <2>1. worker' # "serve" => Said(Command("wake"))
    BY <1>35, WritesAre DEF IInv
  <2>2. QED
    BY <1>35, <2>1, ObeyedIs, CommandIs DEF WakeHost, Said
<1>36. CASE WakeWaited
  BY <1>36 DEF WakeWaited
<1>37. CASE SteadyFails
  BY <1>37 DEF SteadyFails
<1>38. CASE ServeIbs
  BY <1>38 DEF ServeIbs
<1>39. CASE ServeEnds
  BY <1>39 DEF ServeEnds
<1>40. CASE Closed
  BY <1>40 DEF Closed
<1>41. CASE IbsClear
  BY <1>41 DEF IbsClear
<1>42. CASE IbsTake
  BY <1>42 DEF IbsTake
<1>43. CASE IbsAck
  <2>1. Said(Command("wake_ack"))
    BY <1>43, WritesAre DEF IInv
  <2>2. QED
    BY <1>43, <2>1, ObeyedIs, CommandIs DEF IbsAck, Said
<1>44. CASE IbsNoAck
  BY <1>44 DEF IbsNoAck
<1>45. CASE Read
  <2>1. UNCHANGED <<worker, goal, port, rate, flow, target, moved, ctl, op>>
    BY <1>45 DEF Read
  <2>2. fsm' = fsm \/ \E a : fsm' = OnPacket(fsm, a, patch, nvms)
    BY <1>45 DEF Read, Advances
  <2>3. fsm'.state \in Early <=> fsm.state \in Early
    BY <2>2, OnPacketIs
  <2>4. QED
    BY <2>1, <2>3
<1>46. CASE IbsSignal
  BY <1>46 DEF IbsSignal
<1>47. CASE ReaderFails
  BY <1>47 DEF ReaderFails
<1>48. CASE Arrive
  BY <1>48 DEF Arrive
<1>49. CASE AskToTalk
  BY <1>49 DEF AskToTalk, Controller
<1>50. CASE Hush
  BY <1>50 DEF Hush, Controller
<1>51. CASE Die
  BY <1>51 DEF Die, Controller
<1>52. CASE RequestStop
  BY <1>52 DEF RequestStop
<1>53. CASE UNCHANGED vars
  BY <1>53
<1>54. QED
  BY <1>1, <1>2, <1>3, <1>4, <1>5, <1>6, <1>7, <1>8, <1>9, <1>10, <1>11,
    <1>12, <1>13, <1>14, <1>15, <1>16, <1>17, <1>18, <1>19, <1>20, <1>21,
    <1>22, <1>23, <1>24, <1>25, <1>26, <1>27, <1>28, <1>29, <1>30, <1>31,
    <1>32, <1>33, <1>34, <1>35, <1>36, <1>37, <1>38, <1>39, <1>40, <1>41,
    <1>42, <1>43, <1>44, <1>45, <1>46, <1>47, <1>48, <1>49, <1>50, <1>51,
    <1>52, <1>53 DEF Next, Worker, Completion, Environment, PrepareHardware,
    Identify, ResetSoc, RunProbe, ServeSteady

\* What the ladder hears was sent at the rate of its rung.
LEMMA LadderStep ==
  ASSUME IInv, [Next]_vars
  PROVE  LadderInv'
<1> USE DEF IInv, Types, Places, Flags, Records, firmware, readerVars,
  fsmVars, lineVars, ladderVars, ibsVars, history, outside, counts, vars, At,
  Succeeds, Fails1, Quiesced, BaudSet, BaudFailed, LineWoken, LineNotWoken,
  ToLadder, ToHandback, BackFromService, Answered, NoIdent, Opening, Ladder,
  Resets, Loop, Steady, GoalInv, LadderInv, FromCtl, OnRung, Settled
<1>1. CASE OpenTarget
  BY <1>1 DEF OpenTarget
<1>2. CASE OpenBaud
  BY <1>2 DEF OpenBaud
<1>3. CASE OpenWake
  BY <1>3 DEF OpenWake
<1>4. CASE OpenFails
  BY <1>4 DEF OpenFails
<1>5. CASE Rung
  <2>1. /\ reading' = FALSE /\ worker = "rung"
        /\ UNCHANGED <<wire, ctl, port, rate, flow, fifo>>
    BY <1>5 DEF Rung
  <2>2. CASE worker' = "verdict" /\ UNCHANGED <<ident, readFault>>
    BY <2>1, <2>2
  <2>3. CASE /\ worker' = "setbaud" /\ ~Answered /\ ident.tried # 3
             /\ ident' = [ident EXCEPT !.tried = @ + 1]
    <3>1. ident'.tried \in 1..3 /\ ident'.at = "none"
      BY <2>3 DEF Counters
    <3>2. QED
      BY <2>1, <2>3, <3>1
  <2>4. QED
    BY <1>5, <2>2, <2>3, RatesAre DEF Rung
<1>6. CASE RungBaud
  BY <1>6, RatesAre DEF RungBaud
<1>7. CASE RungArm
  BY <1>7, RatesAre DEF RungArm
<1>8. CASE RungAsk
  BY <1>8 DEF RungAsk
<1>9. CASE RungProbe
  <2> DEFINE v == Answer("version", NoBoard)
  <2>1. Said(Command("version")) /\ Command("version").ask = "version"
    BY <1>9, WritesAre, CommandIs DEF IInv
  <2>2. /\ ctl'.rate = ctl.rate /\ ctl'.alive = ctl.alive
        /\ ctl.awake => ctl'.awake
    BY <2>1, SaidIs
  <2>3. /\ worker = "probe" /\ worker' = "listen"
        /\ UNCHANGED <<reading, readFault, ident, fifo, port, rate, flow>>
    BY <1>9 DEF RungProbe
  <2>4. \A i \in DOMAIN wire' : FromCtl(wire[i])'
    <3>1. CASE wire' = wire
      BY <2>2, <2>3, <3>1
    <3>2. CASE Understands(Command("version")) /\ wire' = Append(wire, v)
      <4>1. v.rate = ctl.rate /\ ctl.awake
        BY <2>1, <3>2, ObeyedIs, CommandIs DEF Answer, Understands
      <4> HIDE DEF v
      <4>2. \A i \in DOMAIN wire' : wire'[i] = v \/ (i \in DOMAIN wire /\ wire'[i] = wire[i])
        BY <3>2
      <4>3. QED
        BY <2>2, <2>3, <4>1, <4>2
    <3>3. QED
      BY <2>1, <3>1, <3>2 DEF Said
  <2>5. QED
    BY <2>2, <2>3, <2>4
<1>10. CASE RungHeard
  BY <1>10, RatesAre DEF RungHeard
<1>11. CASE LadderFails
  BY <1>11, RatesAre DEF LadderFails
<1>12. CASE Verdict
  BY <1>12 DEF Verdict
<1>13. CASE ResetBaud
  BY <1>13 DEF ResetBaud
<1>14. CASE ResetWake
  <2>1. Said(Command("wake"))
    BY <1>14, WritesAre DEF IInv
  <2>2. QED
    BY <1>14, <2>1, SaidIs, CommandIs DEF ResetWake, Said
<1>15. CASE ResetSend
  <2>1. Said(Command("soc_reset"))
    BY <1>15, WritesAre DEF IInv
  <2>2. QED
    BY <1>15, <2>1, SaidIs, CommandIs DEF ResetSend, Said
<1>16. CASE ResetFails
  BY <1>16 DEF ResetFails
<1>17. CASE StartProbe
  BY <1>17 DEF StartProbe
<1>18. CASE StartReading
  BY <1>18 DEF StartReading
<1>19. CASE StartFails
  BY <1>19 DEF StartFails
<1>20. CASE LoopTop
  BY <1>20 DEF LoopTop
<1>21. CASE LoopNext
  BY <1>21 DEF LoopNext
<1>22. CASE LoopSend
  <2>1. Said(op.command)
    BY <1>22, WritesAre DEF IInv
  <2>2. QED
    BY <1>22, <2>1, SaidIs, CommandIs DEF LoopSend, Said
<1>23. CASE LoopSendFails
  BY <1>23 DEF LoopSendFails
<1>24. CASE SwitchQuiesce
  BY <1>24 DEF SwitchQuiesce
<1>25. CASE SwitchBaud
  BY <1>25 DEF SwitchBaud
<1>26. CASE SwitchRead
  BY <1>26 DEF SwitchRead
<1>27. CASE SwitchFails
  BY <1>27 DEF SwitchFails
<1>28. CASE WaitEnds
  BY <1>28 DEF WaitEnds
<1>29. CASE WaitTimesOut
  BY <1>29 DEF WaitTimesOut
<1>30. CASE TimedOut
  BY <1>30 DEF TimedOut
<1>31. CASE ProbeExit
  BY <1>31 DEF ProbeExit
<1>32. CASE Retire
  BY <1>32 DEF Retire
<1>33. CASE Handoff
  BY <1>33 DEF Handoff
<1>34. CASE SteadyRead
  BY <1>34 DEF SteadyRead
<1>35. CASE WakeHost
  <2>1. worker' # "serve" => Said(Command("wake"))
    BY <1>35, WritesAre DEF IInv
  <2>2. QED
    BY <1>35, <2>1, SaidIs, CommandIs DEF WakeHost, Said
<1>36. CASE WakeWaited
  BY <1>36 DEF WakeWaited
<1>37. CASE SteadyFails
  BY <1>37 DEF SteadyFails
<1>38. CASE ServeIbs
  BY <1>38 DEF ServeIbs
<1>39. CASE ServeEnds
  BY <1>39 DEF ServeEnds
<1>40. CASE Closed
  BY <1>40 DEF Closed
<1>41. CASE IbsClear
  BY <1>41 DEF IbsClear
<1>42. CASE IbsTake
  BY <1>42 DEF IbsTake
<1>43. CASE IbsAck
  <2>1. Said(Command("wake_ack"))
    BY <1>43, WritesAre DEF IInv
  <2>2. QED
    BY <1>43, <2>1, SaidIs, CommandIs DEF IbsAck, Said
<1>44. CASE IbsNoAck
  BY <1>44 DEF IbsNoAck
<1>45. CASE Read
  <2>1. /\ UNCHANGED <<worker, reading, readFault, wire, ctl, port, rate, flow>>
        /\ reading /\ fifo # << >> /\ fifo' = Tail(fifo)
    BY <1>45 DEF Read
  <2>2. \A i \in DOMAIN fifo' : i + 1 \in DOMAIN fifo /\ fifo'[i] = fifo[i + 1]
    BY <2>1
  <2>3. Head(fifo) = fifo[1] /\ 1 \in DOMAIN fifo
    BY <2>1
  <2>4. worker \in Ladder => OnRung' /\ ident'.tried = ident.tried
    BY <1>45, <2>1 DEF Read, Identifies, Counters
  <2>5. worker \in Ladder /\ Answered' =>
          ident'.at = ctl.rate /\ ident'.at = port /\ ctl.awake
    <3>1. CASE ident' = ident
      BY <2>1, <3>1
    <3>2. CASE /\ worker \in Ladder /\ Head(fifo).to = "version"
               /\ ident' = [ident EXCEPT !.at = Rates[ident.tried]]
      BY <2>1, <2>3, <3>2
    <3>3. QED
      BY <1>45, <3>1, <3>2 DEF Read, Identifies, Identifying
  <2>6. worker \notin {"setbaud", "arm"}
    BY <2>1
  <2>7. worker \in Ladder =>
          \A i \in DOMAIN fifo' : FromCtl(fifo[i])' /\ fifo'[i].rate = port
    BY <2>1, <2>2
  <2>8. QED
    BY <2>1, <2>4, <2>5, <2>6, <2>7
<1>46. CASE IbsSignal
  BY <1>46 DEF IbsSignal
<1>47. CASE ReaderFails
  BY <1>47 DEF ReaderFails
<1>48. CASE Arrive
  BY <1>48 DEF Arrive
<1>49. CASE AskToTalk
  BY <1>49 DEF AskToTalk
<1>50. CASE Hush
  BY <1>50 DEF Hush
<1>51. CASE Die
  BY <1>51 DEF Die
<1>52. CASE RequestStop
  BY <1>52 DEF RequestStop
<1>53. CASE UNCHANGED vars
  BY <1>53
<1>54. QED
  BY <1>1, <1>2, <1>3, <1>4, <1>5, <1>6, <1>7, <1>8, <1>9, <1>10, <1>11,
    <1>12, <1>13, <1>14, <1>15, <1>16, <1>17, <1>18, <1>19, <1>20, <1>21,
    <1>22, <1>23, <1>24, <1>25, <1>26, <1>27, <1>28, <1>29, <1>30, <1>31,
    <1>32, <1>33, <1>34, <1>35, <1>36, <1>37, <1>38, <1>39, <1>40, <1>41,
    <1>42, <1>43, <1>44, <1>45, <1>46, <1>47, <1>48, <1>49, <1>50, <1>51,
    <1>52, <1>53 DEF Next, Worker, Completion, Environment, PrepareHardware,
    Identify, ResetSoc, RunProbe, ServeSteady

\* The start.
LEMMA InitialInvariant ==
  ASSUME Init
  PROVE  IInv /\ HandbackInv /\ MoveNoted
<1> USE DEF Init, NoIdent, NoIbs, Opening, Ladder, Resets, Loop, Steady
<1>1. PICK e \in Entries :
        ctl = [fw |-> e.fw, rate |-> e.rate, awake |-> e.awake,
               got |-> << >>, alive |-> TRUE, talk |-> "quiet"]
  OBVIOUS
<1>2. /\ e.fw \in {"rom", "patched"} /\ e.rate \in {"init", "oper"}
      /\ e.awake \in BOOLEAN /\ (e.rate = "init" => e.fw = "rom")
  BY BringUpAssumption
<1>3. Controller(ctl) /\ (ctl.rate = "init" => ctl.fw = "rom" /\ ctl.got = << >>)
  BY <1>1, <1>2 DEF Controller
<1>4. Machine(fsm) /\ op.action \in Actions /\ op.command.ask \in Asks
  BY FsmInitIs DEF Refused, Result, NoCommand, Command, Actions, Asks
<1>5. Records
  BY <1>3, <1>4 DEF Records, States
<1>6. Places /\ Flags /\ Counters
  <2>1. Places
    BY DEF Places
  <2>2. Flags
    BY DEF Flags
  <2>3. 0 \in 0..WakeTries /\ 0 \in 0..MaxTroubles /\ 0 \in 0..MaxAsks /\ 0 \in 0..3
    BY BringUpAssumption
  <2>4. Counters
    BY <2>3 DEF Counters
  <2>5. QED
    BY <2>1, <2>2, <2>4
<1>7. MachineInv /\ GoalInv /\ LadderInv
  BY DEF MachineInv, GoalInv, LadderInv, Searching, Moving
<1>8. RateInv
  BY <1>3 DEF RateInv, AtInit, AtOper, Between
<1>9. HandbackInv /\ MoveNoted
  BY DEF HandbackInv, MoveNoted
<1>10. QED
  BY <1>5, <1>6, <1>7, <1>8, <1>9 DEF IInv, Types

\* The invariant holds.
LEMMA Invariant == Spec => []IInv
<1>1. Init => IInv
  BY InitialInvariant
<1>2. IInv /\ [Next]_vars => IInv'
  BY PlacesStep, FlagsStep, CountersStep, RecordsStep, MachineStep, GoalStep,
     RateStep, LadderStep DEF IInv, Types
<1>3. QED
  BY <1>1, <1>2, PTL DEF Spec

\* The handback is reached and works.
LEMMA HandbackStep ==
  ASSUME IInv, HandbackInv, [Next]_vars
  PROVE  HandbackInv'
<1> USE DEF IInv, Types, Places, Flags, Records, firmware, readerVars,
  fsmVars, lineVars, ladderVars, ibsVars, history, outside, counts, vars, At,
  Succeeds, Fails1, ToLadder, ToHandback, BackFromService, Controller,
  Opening, Ladder, Resets, Loop, Steady, HandbackInv
<1>1. CASE OpenTarget
  BY <1>1 DEF OpenTarget
<1>2. CASE OpenBaud
  BY <1>2 DEF OpenBaud
<1>3. CASE OpenWake
  BY <1>3 DEF OpenWake
<1>4. CASE OpenFails
  BY <1>4 DEF OpenFails, GoalInv, Searching
<1>5. CASE Rung
  BY <1>5 DEF Rung
<1>6. CASE RungBaud
  BY <1>6 DEF RungBaud
<1>7. CASE RungArm
  BY <1>7 DEF RungArm
<1>8. CASE RungAsk
  BY <1>8 DEF RungAsk
<1>9. CASE RungProbe
  <2>1. Said(Command("version"))
    BY <1>9, WritesAre DEF IInv
  <2>2. QED
    BY <1>9, <2>1, SaidIs, ObeyedIs, CommandIs DEF RungProbe, Said
<1>10. CASE RungHeard
  BY <1>10 DEF RungHeard
<1>11. CASE LadderFails
  BY <1>11 DEF LadderFails
<1>12. CASE Verdict
  BY <1>12 DEF Verdict
<1>13. CASE ResetBaud
  BY <1>13 DEF ResetBaud
<1>14. CASE ResetWake
  <2>1. Said(Command("wake")) /\ Command("wake").ask = "wake"
    BY <1>14, WritesAre, CommandIs
  <2>2. /\ worker = "wakebytes" /\ worker' = "socreset"
        /\ UNCHANGED <<goal, touched, stop, moved>>
        /\ excused' = (excused \/ (goal = "handback" /\ troubles' # troubles))
    BY <1>14 DEF ResetWake
  <2>3. ctl'.alive = ctl.alive
    BY <2>1, SaidIs
  <2>4. ASSUME goal = "handback", ~excused', ctl.alive
        PROVE  ctl'.awake
    <3>1. ctl.rate = port
      BY <2>2, <2>4 DEF RateInv, AtOper, CtlAt
    <3>2. troubles' = troubles
      BY <2>2, <2>4
    <3>3. ctl' = Obeyed(Command("wake"))
      BY <2>1, <2>4, <3>1, <3>2 DEF Said, Understands, Hears
    <3>4. QED
      BY <2>1, <3>3, ObeyedIs
  <2>5. QED
    BY <2>2, <2>3, <2>4
<1>15. CASE ResetSend
  <2>1. Said(Command("soc_reset")) /\ Command("soc_reset").ask = "soc_reset"
    BY <1>15, WritesAre, CommandIs
  <2>2. /\ worker = "socreset" /\ worker' = "rung"
        /\ UNCHANGED <<touched, stop, moved>> /\ (goal' = "handback" => goal = "handback")
        /\ excused' = (excused \/ (goal = "handback" /\ troubles' # troubles))
    BY <1>15 DEF ResetSend
  <2>3. ctl'.alive = ctl.alive
    BY <2>1, SaidIs
  <2>4. ASSUME goal = "handback", ~excused', ctl.alive
        PROVE  ctl'.fw = "rom" /\ ctl'.rate = "init"
    <3>1. ctl.rate = port /\ ctl.awake
      BY <2>2, <2>4 DEF RateInv, AtOper, CtlAt
    <3>2. troubles' = troubles
      BY <2>2, <2>4
    <3>3. ctl' = Obeyed(Command("soc_reset"))
      BY <2>1, <2>4, <3>1, <3>2 DEF Said, Understands, Hears
    <3>4. QED
      BY <2>1, <3>3, ObeyedIs
  <2>5. QED
    BY <2>2, <2>3, <2>4
<1>16. CASE ResetFails
  BY <1>16 DEF ResetFails
<1>17. CASE StartProbe
  BY <1>17 DEF StartProbe, GoalInv, Searching
<1>18. CASE StartReading
  BY <1>18 DEF StartReading
<1>19. CASE StartFails
  BY <1>19 DEF StartFails
<1>20. CASE LoopTop
  BY <1>20 DEF LoopTop
<1>21. CASE LoopNext
  BY <1>21 DEF LoopNext
<1>22. CASE LoopSend
  <2>1. Said(op.command)
    BY <1>22, WritesAre
  <2>2. /\ worker = "send" /\ worker' \in {"wait", "top", "switch"}
        /\ UNCHANGED <<goal, stop, moved>>
        /\ touched' = (touched \/ (op.command.ask = "baud" /\ ctl'.rate # ctl.rate))
    BY <1>22 DEF LoopSend
  <2>3. goal # "handback"
    BY <2>2 DEF GoalInv
  <2>4. op.command.ask = "baud" => worker' = "switch"
    BY <1>22, <2>2 DEF LoopSend, MachineInv
  <2>5. QED
    BY <2>2, <2>3, <2>4
<1>23. CASE LoopSendFails
  BY <1>23 DEF LoopSendFails
<1>24. CASE SwitchQuiesce
  BY <1>24 DEF SwitchQuiesce
<1>25. CASE SwitchBaud
  BY <1>25 DEF SwitchBaud
<1>26. CASE SwitchRead
  BY <1>26 DEF SwitchRead
<1>27. CASE SwitchFails
  BY <1>27, BringUpAssumption DEF SwitchFails
<1>28. CASE WaitEnds
  BY <1>28 DEF WaitEnds
<1>29. CASE WaitTimesOut
  BY <1>29 DEF WaitTimesOut
<1>30. CASE TimedOut
  BY <1>30 DEF TimedOut
<1>31. CASE ProbeExit
  BY <1>31 DEF ProbeExit, GoalInv, Searching
<1>32. CASE Retire
  BY <1>32 DEF Retire
<1>33. CASE Handoff
  BY <1>33 DEF Handoff
<1>34. CASE SteadyRead
  BY <1>34 DEF SteadyRead
<1>35. CASE WakeHost
  <2>1. worker' # "serve" => Said(Command("wake"))
    BY <1>35, WritesAre DEF IInv
  <2>2. QED
    BY <1>35, <2>1, SaidIs, ObeyedIs, CommandIs DEF WakeHost, Said
<1>36. CASE WakeWaited
  BY <1>36 DEF WakeWaited
<1>37. CASE SteadyFails
  BY <1>37 DEF SteadyFails
<1>38. CASE ServeIbs
  BY <1>38 DEF ServeIbs
<1>39. CASE ServeEnds
  BY <1>39 DEF ServeEnds
<1>40. CASE Closed
  BY <1>40 DEF Closed, GoalInv, Searching
<1>41. CASE IbsClear
  BY <1>41 DEF IbsClear
<1>42. CASE IbsTake
  BY <1>42 DEF IbsTake
<1>43. CASE IbsAck
  <2>1. Said(Command("wake_ack"))
    BY <1>43, WritesAre DEF IInv
  <2>2. QED
    BY <1>43, <2>1, SaidIs, ObeyedIs, CommandIs DEF IbsAck, Said
<1>44. CASE IbsNoAck
  BY <1>44 DEF IbsNoAck
<1>45. CASE Read
  BY <1>45 DEF Read
<1>46. CASE IbsSignal
  BY <1>46 DEF IbsSignal
<1>47. CASE ReaderFails
  BY <1>47 DEF ReaderFails
<1>48. CASE Arrive
  BY <1>48 DEF Arrive
<1>49. CASE AskToTalk
  BY <1>49 DEF AskToTalk
<1>50. CASE Hush
  BY <1>50 DEF Hush
<1>51. CASE Die
  BY <1>51 DEF Die
<1>52. CASE RequestStop
  BY <1>52 DEF RequestStop
<1>53. CASE UNCHANGED vars
  BY <1>53
<1>54. QED
  BY <1>1, <1>2, <1>3, <1>4, <1>5, <1>6, <1>7, <1>8, <1>9, <1>10, <1>11,
    <1>12, <1>13, <1>14, <1>15, <1>16, <1>17, <1>18, <1>19, <1>20, <1>21,
    <1>22, <1>23, <1>24, <1>25, <1>26, <1>27, <1>28, <1>29, <1>30, <1>31,
    <1>32, <1>33, <1>34, <1>35, <1>36, <1>37, <1>38, <1>39, <1>40, <1>41,
    <1>42, <1>43, <1>44, <1>45, <1>46, <1>47, <1>48, <1>49, <1>50, <1>51,
    <1>52, <1>53 DEF Next, Worker, Completion, Environment, PrepareHardware,
    Identify, ResetSoc, RunProbe, ServeSteady

\* Who told the controller to move notes it, unless it is stopped or a
\* request fails first.
LEMMA NoteStep ==
  ASSUME IInv, MoveNoted, [Next]_vars
  PROVE  MoveNoted'
<1> USE DEF firmware, readerVars, fsmVars, lineVars, ladderVars, ibsVars,
  history, outside, counts, vars, At, Opening, Resets, MoveNoted, Moving
<1>1. CASE OpenTarget
  BY <1>1 DEF OpenTarget
<1>2. CASE OpenBaud
  BY <1>2 DEF OpenBaud
<1>3. CASE OpenWake
  BY <1>3 DEF OpenWake
<1>4. CASE OpenFails
  BY <1>4 DEF OpenFails, GoalInv, Searching
<1>5. CASE Rung
  BY <1>5 DEF Rung
<1>6. CASE RungBaud
  BY <1>6 DEF RungBaud
<1>7. CASE RungArm
  BY <1>7 DEF RungArm
<1>8. CASE RungAsk
  BY <1>8 DEF RungAsk
<1>9. CASE RungProbe
  BY <1>9 DEF RungProbe
<1>10. CASE RungHeard
  BY <1>10 DEF RungHeard
<1>11. CASE LadderFails
  BY <1>11 DEF LadderFails
<1>12. CASE Verdict
  BY <1>12 DEF Verdict
<1>13. CASE ResetBaud
  BY <1>13 DEF ResetBaud
<1>14. CASE ResetWake
  BY <1>14 DEF ResetWake
<1>15. CASE ResetSend
  BY <1>15 DEF ResetSend
<1>16. CASE ResetFails
  BY <1>16 DEF ResetFails
<1>17. CASE StartProbe
  BY <1>17 DEF StartProbe, GoalInv, Searching
<1>18. CASE StartReading
  BY <1>18 DEF StartReading
<1>19. CASE StartFails
  BY <1>19 DEF StartFails
<1>20. CASE LoopTop
  BY <1>20 DEF LoopTop
<1>21. CASE LoopNext
  BY <1>21 DEF LoopNext
<1>22. CASE LoopSend
  <2>1. /\ worker = "send" /\ worker' \in {"wait", "top", "switch"}
        /\ UNCHANGED <<stop, moved, unnoted>>
        /\ touched' = (touched \/ (op.command.ask = "baud" /\ ctl'.rate # ctl.rate))
    BY <1>22 DEF LoopSend
  <2>2. op.command.ask = "baud" => worker' = "switch"
    BY <1>22, <2>1 DEF LoopSend, IInv, MachineInv
  <2>3. QED
    BY <2>1, <2>2
<1>23. CASE LoopSendFails
  BY <1>23 DEF LoopSendFails
<1>24. CASE SwitchQuiesce
  BY <1>24 DEF SwitchQuiesce
<1>25. CASE SwitchBaud
  BY <1>25 DEF SwitchBaud
<1>26. CASE SwitchRead
  BY <1>26 DEF SwitchRead
<1>27. CASE SwitchFails
  BY <1>27 DEF SwitchFails
<1>28. CASE WaitEnds
  BY <1>28 DEF WaitEnds
<1>29. CASE WaitTimesOut
  BY <1>29 DEF WaitTimesOut
<1>30. CASE TimedOut
  BY <1>30 DEF TimedOut
<1>31. CASE ProbeExit
  BY <1>31 DEF ProbeExit, GoalInv, Searching
<1>32. CASE Retire
  BY <1>32 DEF Retire
<1>33. CASE Handoff
  BY <1>33 DEF Handoff
<1>34. CASE SteadyRead
  BY <1>34 DEF SteadyRead
<1>35. CASE WakeHost
  BY <1>35 DEF WakeHost
<1>36. CASE WakeWaited
  BY <1>36 DEF WakeWaited
<1>37. CASE SteadyFails
  BY <1>37 DEF SteadyFails
<1>38. CASE ServeIbs
  BY <1>38 DEF ServeIbs
<1>39. CASE ServeEnds
  BY <1>39 DEF ServeEnds
<1>40. CASE Closed
  BY <1>40 DEF Closed, GoalInv, Searching
<1>41. CASE IbsClear
  BY <1>41 DEF IbsClear
<1>42. CASE IbsTake
  BY <1>42 DEF IbsTake
<1>43. CASE IbsAck
  BY <1>43 DEF IbsAck
<1>44. CASE IbsNoAck
  BY <1>44 DEF IbsNoAck
<1>45. CASE Read
  BY <1>45 DEF Read
<1>46. CASE IbsSignal
  BY <1>46 DEF IbsSignal
<1>47. CASE ReaderFails
  BY <1>47 DEF ReaderFails
<1>48. CASE Arrive
  BY <1>48 DEF Arrive
<1>49. CASE AskToTalk
  BY <1>49 DEF AskToTalk
<1>50. CASE Hush
  BY <1>50 DEF Hush
<1>51. CASE Die
  BY <1>51 DEF Die
<1>52. CASE RequestStop
  BY <1>52 DEF RequestStop
<1>53. CASE UNCHANGED vars
  BY <1>53
<1>54. QED
  BY <1>1, <1>2, <1>3, <1>4, <1>5, <1>6, <1>7, <1>8, <1>9, <1>10, <1>11,
    <1>12, <1>13, <1>14, <1>15, <1>16, <1>17, <1>18, <1>19, <1>20, <1>21,
    <1>22, <1>23, <1>24, <1>25, <1>26, <1>27, <1>28, <1>29, <1>30, <1>31,
    <1>32, <1>33, <1>34, <1>35, <1>36, <1>37, <1>38, <1>39, <1>40, <1>41,
    <1>42, <1>43, <1>44, <1>45, <1>46, <1>47, <1>48, <1>49, <1>50, <1>51,
    <1>52, <1>53 DEF Next, Worker, Completion, Environment, PrepareHardware,
    Identify, ResetSoc, RunProbe, ServeSteady

-----------------------------------------------------------------------------
(***************************************************************************)
(* The ladder (QcaUartRunIdentify) reports the rate the controller runs    *)
(* at, and the bring-up starts with a controller in ROM that has received  *)
(* nothing: whatever it was at the start, whichever requests fail, however *)
(* often, and whether answers are late or not.                             *)
(***************************************************************************)
THEOREM LadderTellsTheTruth == Spec => []LadderIsRight
<1>1. IInv => LadderIsRight
  <2> SUFFICES ASSUME IInv PROVE LadderIsRight
    OBVIOUS
  <2>1. TypeOK
    BY TypesAreOK DEF IInv
  <2>2. worker = "verdict" /\ ~readFault /\ Answered /\ ctl.alive =>
          ctl.rate = ident.at
    BY DEF IInv, LadderInv, Ladder
  <2>3. worker \in Loop /\ fsm.state = "Start" =>
          ctl.fw = "rom" /\ ctl.rate = "init" /\ port = "init" /\ ctl.got = << >>
    <3>1. worker \in Loop /\ fsm.state = "Start" => AtInit
      BY DEF IInv, MachineInv, AtInit, Between, Moving, Early, Loop
    <3>2. QED
      BY <3>1 DEF IInv, RateInv
  <2>4. QED
    BY <2>1, <2>2, <2>3 DEF LadderIsRight
<1>2. QED
  BY <1>1, Invariant, PTL

(***************************************************************************)
(* Every command of the bring-up, of the sleep handshake and of the        *)
(* handback is written at the rate the controller listens at, and every    *)
(* answer is awaited with RTS left to the handshake (QcaUartSwitchBaud,    *)
(* QcaUartWakeController, QcaUartResetSoc).                                *)
(***************************************************************************)
THEOREM NothingSaidIntoTheVoid == Spec => []SpeaksAtItsRate
<1>1. IInv => SpeaksAtItsRate
  <2> SUFFICES ASSUME IInv PROVE SpeaksAtItsRate
    OBVIOUS
  <2>1. ASSUME \/ worker \in {"send", "wake", "ack"}
               \/ goal = "handback" /\ worker \in {"wakebytes", "socreset"},
               ctl.alive
        PROVE  ctl.rate = port /\ rate = port
    <3>1. AtInit \/ AtOper
      BY <2>1 DEF AtInit, AtOper, Steady, Resets
    <3>2. QED
      BY <2>1, <3>1 DEF IInv, RateInv, CtlAt
  <2>2. worker \in {"listen", "wait", "wakewait", "serve"} => flow = "handshake"
    BY DEF IInv, RateInv, LadderInv, Settled, Loop, Steady
  <2>3. QED
    BY <2>1, <2>2 DEF SpeaksAtItsRate
<1>2. QED
  BY <1>1, Invariant, PTL

(***************************************************************************)
(* A session that noted that it moved the controller to the operating rate *)
(* hands it back in ROM at 115200 when it ends by itself (the comment at   *)
(* qca_uart.c:3157), unless the controller died or the handback met a      *)
(* fault.                                                                  *)
(***************************************************************************)
LEMMA NotedIsHandedBack == Spec => []HandbackInv
<1>1. Init => HandbackInv
  BY InitialInvariant
<1>2. IInv /\ HandbackInv /\ [Next]_vars => HandbackInv'
  BY HandbackStep
<1>3. QED
  BY <1>1, <1>2, Invariant, PTL DEF Spec

(***************************************************************************)
(* A session that moved the controller to the operating rate hands it back *)
(* in ROM at 115200 when it ends by itself, whichever requests failed,     *)
(* unless the controller died, the handback met a fault, or the request    *)
(* that failed was one between the command and the note of the new rate.   *)
(***************************************************************************)
THEOREM MovedIsHandedBack == Spec => []HandedBack
<1>1. Init => MoveNoted
  BY InitialInvariant
<1>2. IInv /\ MoveNoted /\ [Next]_vars => MoveNoted'
  BY NoteStep
<1>3. HandbackInv /\ MoveNoted => HandedBack
  BY DEF HandbackInv, MoveNoted, HandedBack, Moving
<1>4. QED
  BY <1>1, <1>2, <1>3, Invariant, NotedIsHandedBack, PTL DEF Spec

-----------------------------------------------------------------------------
(***************************************************************************)
(* The download.  The files the machine runs on are usable; only a segment *)
(* that is acknowledged may be lost, and its acknowledgement is the only   *)
(* one on its way, while the worker waits for it; so that what has been    *)
(* acknowledged, and what was sent without, has arrived, in order.         *)
(***************************************************************************)
\* What the machine is about: the files.
Files == [patch |-> patch, nvms |-> nvms]

FilesInv ==
  /\ \E f \in Firmware : patch = f.patch /\ nvms = f.nvms
  /\ \/ FsmValid(patch, nvms)
     \/ /\ fsm.state = "Failed" /\ ~moved
        /\ worker \in Opening \cup {"start", "exit", "stop", "end"}

Late == {"DisableLogging", "BuildInfo", "HciReset", "ReadLocalVersion"}

Before == Searching \/ worker \in Opening \cup {"start", "fsmread"}

\* A request is written or about to be.
Requesting == worker \in {"send", "wait", "timedout"}

\* A segment is, that is to be acknowledged and is not yet.
Asked == Requesting /\ op.command.ask = "segment" /\ waiting

Sending == worker = "send" /\ op.command.ask = "segment"

Acks(s) == {i \in DOMAIN s : s[i].to = "ack"}

OneAck(s) == \A i, j \in Acks(s) : i = j

HasAck == Acks(wire) # {} \/ (reading /\ Acks(fifo) # {})

AckInv ==
  /\ Before => Acks(wire) = {} /\ Acks(fifo) = {}
  /\ worker \in Loop =>
       /\ HasAck => worker = "wait" /\ Asked
       /\ OneAck(wire)
       /\ reading => OneAck(fifo) /\ (Acks(wire) = {} \/ Acks(fifo) = {})
  /\ worker = "timedout" => wire = << >> /\ (reading => fifo = << >>)

\* The machine waits exactly while it has asked and was not answered.
TurnInv ==
  /\ worker \in Loop => phase = 1
  /\ worker = "fsmread" => ~waiting
  /\ worker \in {"top", "next"} /\ waiting => fsm.state \in {"NvmDownload", "Failed"}
  /\ worker = "next" => ~event /\ before = fsm.state
  /\ worker = "send" /\ op.action # "Send" => ~waiting
  /\ worker = "send" /\ op.action = "SendBaudAndSwitch" => fsm.state = "PatchDownload"
  /\ Sending => before \in {"PatchDownload", "NvmDownload"}
  /\ Sending /\ op.action = "Send" => waiting
  /\ Moving => ~waiting /\ fsm.state = "PatchDownload"
  /\ (worker = "send" /\ op.action = "Send") \/ worker \in {"wait", "timedout"} =>
       (waiting <=> ~event)
  /\ worker = "timedout" => waiting
  /\ Requesting /\ before \in {"PatchDownload", "NvmDownload"} =>
       op.command.ask = "segment"
  /\ Requesting /\ waiting /\ before = "BoardIdRequest" =>
       fsm.state \in {"BoardIdRequest", "Failed"}
  /\ Asked => fsm.state = before /\ before \in {"PatchDownload", "NvmDownload"}

ImageIn(w, file) == IF file = "patch" THEN w.patch ELSE w.nvms[file]

Count(w, file) == SegmentCount(ImageIn(w, file))

\* The first n segments of a file, and a whole file.
Parts(w, file, n) ==
  [i \in 1..n |->
     Segment(file, i - 1,
             file # "patch" /\ BaudOffset(ImageIn(w, file)) \div SegmentSize = i - 1)]

AllOf(w, file) == Parts(w, file, Count(w, file))

\* The patch and n segments of the selected image, perhaps after a part of
\* the board's own.
UpTo(w, f, got, n) ==
  \/ got = AllOf(w, "patch") \o Parts(w, f.selected, n)
  \/ f.fallbackUsed /\ \E k \in 0..Count(w, f.board) :
       got = AllOf(w, "patch") \o Parts(w, f.board, k) \o Parts(w, f.selected, n)

MachineFits(w, f) ==
  /\ f.patchIndex \in Nat /\ f.nvmIndex \in Nat
  /\ f.state \in Early => f.patchIndex = 0
  /\ f.state \in {"NvmDownload"} \cup Late =>
       /\ f.selected \in DOMAIN w.nvms
       /\ f.selected # NoBoard => f.board = f.selected

\* The segment the worker is about to write is the next one.
SendingNext(w, f, o, c) ==
  \/ /\ f.state = "PatchDownload"
     /\ \E i \in 0..Count(w, "patch") - 1 :
          /\ o.command = Segment("patch", i, FALSE)
          /\ c.got = Parts(w, "patch", i) \/ ~c.alive
          /\ \/ o.action = "Send" /\ i = f.patchIndex
             \/ /\ o.action = "SendNoWait" /\ i + 1 = f.patchIndex
                /\ ~AckExpected(w.patch, i, w.patch.mode)
  \/ /\ f.state = "NvmDownload" /\ o.action = "Send"
     /\ f.nvmIndex < Count(w, f.selected)
     /\ o.command = Segment(f.selected, f.nvmIndex,
                            CarriesBaud(w.nvms[f.selected], f.nvmIndex))
     /\ UpTo(w, f, c.got, f.nvmIndex)

\* What the controller has while the last segment is not acknowledged, and
\* once the acknowledgement is on its way.
GotSent(w, f, c, acked) ==
  \/ /\ f.state = "PatchDownload" /\ f.patchIndex < Count(w, "patch")
     /\ acked => c.got = Parts(w, "patch", f.patchIndex + 1)
  \/ /\ f.state = "NvmDownload" /\ f.nvmIndex < Count(w, f.selected)
     /\ UpTo(w, f, c.got, f.nvmIndex) \/ UpTo(w, f, c.got, f.nvmIndex + 1)
     /\ acked => UpTo(w, f, c.got, f.nvmIndex + 1)

\* What it has otherwise.
GotAll(w, f, c) ==
  /\ f.state \in Early => c.got = << >>
  /\ f.state = "PatchDownload" => c.got = Parts(w, "patch", f.patchIndex) \/ ~c.alive
  /\ f.state = "BoardIdRequest" => c.got = AllOf(w, "patch")
  /\ f.state = "NvmDownload" => UpTo(w, f, c.got, f.nvmIndex)
  /\ f.state \in Late => UpTo(w, f, c.got, Count(w, f.selected))

GotInv ==
  /\ MachineFits(Files, fsm)
  /\ Before => ctl.got = << >>
  /\ worker \in Loop => ctl.awake
  /\ Sending => SendingNext(Files, fsm, op, ctl)
  /\ Asked /\ ~Sending => GotSent(Files, fsm, ctl, HasAck)
  /\ worker \in Loop /\ ~Sending /\ ~Asked => GotAll(Files, fsm, ctl)

DownInv == FilesInv /\ AckInv /\ TurnInv /\ GotInv

-----------------------------------------------------------------------------
(***************************************************************************)
(* The images: where the tags start, and which segment carries the byte    *)
(* of the baud rate.                                                       *)
(***************************************************************************)
Tags == Seq([hci : BOOLEAN, len : Nat])

Starts(tags, n, g) ==
  /\ g \in [1..n -> Nat]
  /\ \A i \in 1..n : g[i] = IF i = 1 THEN HeaderSize
                            ELSE g[i - 1] + TagHeader + tags[i - 1].len

\* The first of some places.
LEMMA FirstOf ==
  ASSUME NEW N \in Nat, NEW S, S \subseteq 1..N, S # {}
  PROVE  \E n \in S : n - 1 \notin S
<1> DEFINE T == {1..n : n \in S}
<1>1. IsFiniteSet(1..N)
  BY FS_Interval
<1>2. IsWellFoundedOn(StrictSubsetOrdering(1..N), SUBSET (1..N))
  BY <1>1, FS_StrictSubsetOrderingWellFounded, FS_FiniteSubsetsOfFinite
<1>3. T \subseteq SUBSET (1..N) /\ T # {}
  <2>1. \A n \in S : 1..n \subseteq 1..N
    OBVIOUS
  <2>2. QED
    BY <2>1
<1> HIDE DEF T
<1>4. \E s \in T : \A r \in T : ~(<<r, s>> \in StrictSubsetOrdering(1..N))
  BY <1>2, <1>3, WFMin
<1>5. PICK s \in T : \A r \in T : ~(<<r, s>> \in StrictSubsetOrdering(1..N))
  BY <1>4
<1>6. PICK n \in S : s = 1..n
  BY DEF T
<1>7. n - 1 \notin S
  <2> SUFFICES ASSUME n - 1 \in S PROVE FALSE
    OBVIOUS
  <2>1. 1..(n - 1) \in T
    BY DEF T
  <2>2. n \in Nat /\ 1..(n - 1) \subseteq 1..n /\ n \in 1..n /\ n \notin 1..(n - 1)
    OBVIOUS
  <2>3. <<1..(n - 1), s>> \in StrictSubsetOrdering(1..N)
    BY <1>3, <1>6, <2>1, <2>2 DEF StrictSubsetOrdering
  <2>4. QED
    BY <1>5, <2>1, <2>3
<1>8. QED
  BY <1>7

LEMMA TagsAre ==
  ASSUME NEW tags \in Tags
  PROVE  /\ Len(tags) + 1 \in Nat /\ Len(tags) + 1 \in 1..Len(tags) + 1
         /\ DOMAIN tags = 1..Len(tags) /\ TagHeader \in Nat /\ HeaderSize \in Nat
         /\ \A i \in 1..Len(tags) : tags[i].len \in Nat
<1>1. tags \in Seq([hci : BOOLEAN, len : Nat])
  BY DEF Tags
<1>2. Len(tags) \in Nat /\ DOMAIN tags = 1..Len(tags)
  BY <1>1
<1>3. \A i \in 1..Len(tags) : tags[i] \in [hci : BOOLEAN, len : Nat]
  BY <1>1, ElementOfSeq
<1>4. QED
  BY <1>2, <1>3, FsmAssumption DEF HeaderSize

LEMMA StartsExist ==
  ASSUME NEW tags \in Tags
  PROVE  \E g : Starts(tags, Len(tags) + 1, g)
<1> DEFINE N   == Len(tags) + 1
           bad == {n \in 1..N : ~\E g : Starts(tags, n, g)}
<1>1. /\ N \in Nat /\ N \in 1..N /\ TagHeader \in Nat /\ HeaderSize \in Nat
      /\ Len(tags) \in Nat /\ \A i \in 1..Len(tags) : tags[i].len \in Nat
  BY TagsAre
<1> SUFFICES ASSUME bad # {} PROVE FALSE
  BY <1>1
<1>2. PICK n \in bad : n - 1 \notin bad
  <2>1. bad \subseteq 1..N
    OBVIOUS
  <2> HIDE DEF bad
  <2>2. QED
    BY <1>1, <2>1, FirstOf
<1>3. n \in 1..N /\ ~\E g : Starts(tags, n, g)
  OBVIOUS
<1>4. CASE n = 1
  <2>1. Starts(tags, 1, [i \in 1..1 |-> HeaderSize])
    BY <1>1 DEF Starts
  <2>2. QED
    BY <1>3, <1>4, <2>1
<1>5. CASE n # 1
  <2>1. n \in Nat /\ n - 1 \in 1..N /\ n - 1 \in Nat /\ n - 1 \in 1..Len(tags)
        /\ n - 1 \in 1..n - 1
    BY <1>1, <1>3, <1>5
  <2>2. PICK g : Starts(tags, n - 1, g)
    BY <1>2, <2>1
  <2> DEFINE x == g[n - 1] + TagHeader + tags[n - 1].len
             h == [i \in 1..n |-> IF i = n THEN x ELSE g[i]]
  <2>3. x \in Nat
    <3>1. g[n - 1] \in Nat
      BY <2>1, <2>2 DEF Starts
    <3>2. tags[n - 1].len \in Nat
      BY <1>1, <2>1
    <3>3. \A a, b, c \in Nat : a + b + c \in Nat
      OBVIOUS
    <3>4. TagHeader \in Nat
      BY <1>1
    <3> HIDE DEF N, bad
    <3>5. QED
      BY <3>1, <3>2, <3>3, <3>4
  <2> HIDE DEF x
  <2>4. h \in [1..n -> Nat]
    BY <2>1, <2>2, <2>3 DEF Starts
  <2>5. \A i \in 1..n : h[i] = IF i = 1 THEN HeaderSize
                               ELSE h[i - 1] + TagHeader + tags[i - 1].len
    <3> SUFFICES ASSUME NEW i \in 1..n
                 PROVE  h[i] = IF i = 1 THEN HeaderSize
                               ELSE h[i - 1] + TagHeader + tags[i - 1].len
      OBVIOUS
    <3>1. i # 1 => i - 1 \in 1..n /\ i - 1 # n /\ h[i - 1] = g[i - 1]
      BY <2>1
    <3>2. CASE i = n
      BY <1>5, <3>1, <3>2 DEF x
    <3>3. CASE i # n
      <4>1. i \in 1..(n - 1) /\ h[i] = g[i]
        BY <2>1, <3>3
      <4>2. QED
        BY <2>2, <3>1, <4>1 DEF Starts
    <3>4. QED
      BY <3>2, <3>3
  <2>6. Starts(tags, n, h)
    BY <2>4, <2>5 DEF Starts
  <2>7. QED
    BY <1>3, <2>6
<1>6. QED
  BY <1>4, <1>5

\* There is one function only that starts there and goes on so.
LEMMA TagStartIs ==
  ASSUME NEW tags \in Tags
  PROVE  Starts(tags, Len(tags) + 1, TagStart(tags))
<1> DEFINE N == Len(tags) + 1
           E(g) == [i \in 1..N |-> IF i = 1 THEN HeaderSize
                                   ELSE g[i - 1] + TagHeader + tags[i - 1].len]
           f == TagStart(tags)
<1>1. PICK g : Starts(tags, N, g)
  BY StartsExist
<1>2. g = E(g)
  BY <1>1 DEF Starts
<1>3. f = CHOOSE h : h = E(h)
  BY DEF TagStart
<1> HIDE DEF f
<1>4. f = E(f)
  <2> HIDE DEF E
  <2>1. QED
    BY <1>2, <1>3
<1>5. N \in Nat
  BY TagsAre
<1>6. f = g
  <2> DEFINE S == {i \in 1..N : f[i] # g[i]}
  <2> SUFFICES ASSUME S # {} PROVE FALSE
    BY <1>2, <1>4
  <2>1. PICK n \in S : n - 1 \notin S
    <3>1. S \subseteq 1..N
      OBVIOUS
    <3> HIDE DEF S
    <3>2. QED
      BY <1>5, <3>1, FirstOf
  <2>2. n \in 1..N /\ f[n] # g[n] /\ (n # 1 => f[n - 1] = g[n - 1])
    BY <1>5, <2>1
  <2>3. QED
    BY <1>2, <1>4, <2>2
<1>7. QED
  BY <1>1, <1>6 DEF f

LEMMA BaudOffsetIs ==
  ASSUME NEW image, image.size \in Nat, image.tags \in Tags, HciTags(image) # {}
  PROVE  BaudOffset(image) \in Nat /\ BaudOffset(image) < image.size
<1> DEFINE tags == image.tags
           i    == CHOOSE j \in HciTags(image) : TRUE
           g    == TagStart(tags)
<1>1. i \in HciTags(image)
  OBVIOUS
<1> HIDE DEF i
<1>2. /\ i \in DOMAIN tags /\ tags[i].len >= 3 /\ g[i + 1] <= image.size
      /\ i \in 1..Len(tags)
  <2>1. i \in DOMAIN tags /\ tags[i].len >= 3 /\ TagsFit(image, i)
    BY <1>1 DEF HciTags
  <2>2. DOMAIN tags = 1..Len(tags)
    BY TagsAre
  <2>3. i \in 1..i
    BY <2>1, <2>2
  <2>4. \A j \in 1..i : g[j + 1] <= image.size
    BY <2>1 DEF TagsFit
  <2> HIDE DEF g, tags
  <2>5. g[i + 1] <= image.size
    BY <2>3, <2>4
  <2>6. QED
    BY <2>1, <2>2, <2>5
<1>3. Starts(tags, Len(tags) + 1, g) /\ TagHeader \in Nat /\ tags[i].len \in Nat
      /\ Len(tags) \in Nat
  BY <1>2, TagStartIs, TagsAre
<1> HIDE DEF g, tags
<1>4. i \in 1..Len(tags) + 1 /\ i + 1 \in 1..Len(tags) + 1 /\ i + 1 # 1
      /\ i + 1 - 1 = i
  BY <1>2, <1>3
<1>5. g[i] \in Nat /\ g[i + 1] = g[i] + TagHeader + tags[i].len
  <2>1. g \in [1..Len(tags) + 1 -> Nat]
    BY <1>3 DEF Starts
  <2>2. \A j \in 1..Len(tags) + 1 :
          g[j] = IF j = 1 THEN HeaderSize ELSE g[j - 1] + TagHeader + tags[j - 1].len
    BY <1>3 DEF Starts
  <2>3. g[i + 1] = IF i + 1 = 1 THEN HeaderSize
                   ELSE g[i + 1 - 1] + TagHeader + tags[i + 1 - 1].len
    BY <1>4, <2>2
  <2>4. QED
    BY <1>4, <2>1, <2>3
<1>6. BaudOffset(image) = g[i] + TagHeader + 1
  BY DEF BaudOffset, g, i, tags
<1>7. QED
  BY <1>2, <1>3, <1>5, <1>6

LEMMA CountIs ==
  ASSUME NEW image, image.size \in Nat, image.size >= 1
  PROVE  /\ SegmentCount(image) \in Nat /\ SegmentCount(image) >= 1
         /\ \A i \in Nat : i < SegmentCount(image) => i * SegmentSize < image.size
<1> DEFINE s == SegmentSize
           z == image.size
           q == (z + s - 1) \div s
<1>1. s \in Nat /\ s >= 1 /\ z \in Nat /\ z >= 1
  BY FsmAssumption
<1> HIDE DEF s, z
<1>2. q \in Nat /\ s * q <= z + s - 1
  BY <1>1
<1>3. q >= 1
  BY <1>1
<1> HIDE DEF q
<1>4. ASSUME NEW i \in Nat, i < q PROVE i * s < z
  <2>1. PICK d \in Nat : q = i + 1 + d
    BY <1>2, <1>4
  <2>2. s * q = i * s + s + s * d /\ s * d \in Nat /\ i * s \in Nat
    BY <1>1, <2>1
  <2> DEFINE x == i * s
             y == s * d
             w == s * q
  <2>3. w = x + s + y /\ y \in Nat /\ x \in Nat /\ w <= z + s - 1
    BY <1>2, <2>2
  <2> HIDE DEF x, y, w
  <2>4. x < z
    BY <1>1, <2>3
  <2>5. QED
    BY <2>4 DEF x
<1>5. QED
  BY <1>2, <1>3, <1>4 DEF SegmentCount, q, s, z

\* CarriesBaud names the segment of the offset.
LEMMA CarriesIs ==
  ASSUME NEW image, image.size \in Nat, image.tags \in Tags, HciTags(image) # {},
         image.size >= 1, NEW i \in Nat, i < SegmentCount(image)
  PROVE  CarriesBaud(image, i) <=> BaudOffset(image) \div SegmentSize = i
<1> DEFINE s == SegmentSize
           z == image.size
           b == BaudOffset(image)
           q == b \div s
           x == i * s
<1>1. s \in Nat /\ s >= 1 /\ z \in Nat /\ b \in Nat /\ b < z
  BY FsmAssumption, BaudOffsetIs
<1>2. x < z /\ x \in Nat
  BY <1>1, CountIs
<1>3. CarriesBaud(image, i) <=> b >= x /\ b - x < (IF z - x > s THEN s ELSE z - x)
  BY DEF CarriesBaud, SegmentLength
<1> HIDE DEF b, s, z
<1>4. q \in Nat /\ s * q <= b /\ b < s * q + s
  BY <1>1
<1> HIDE DEF q
<1>5. (b >= x /\ b - x < (IF z - x > s THEN s ELSE z - x)) <=> (x <= b /\ b < x + s)
  <2> HIDE DEF x
  <2>1. QED
    BY <1>1, <1>2
<1>6. CASE i = q
  <2>1. s * q = x
    BY <1>1, <1>4, <1>6
  <2>2. QED
    BY <1>3, <1>4, <1>5, <1>6, <2>1 DEF q, b, s
<1>7. CASE i < q
  <2>1. PICK d \in Nat : q = i + 1 + d
    BY <1>4, <1>7
  <2>2. s * q = x + s + s * d /\ s * d \in Nat
    BY <1>1, <2>1
  <2> DEFINE y == s * d
             w == s * q
  <2>3. w = x + s + y /\ y \in Nat /\ w <= b
    BY <1>4, <2>2
  <2> HIDE DEF x, y, w
  <2>4. ~(b < x + s)
    BY <1>1, <1>2, <2>3
  <2>5. QED
    BY <1>3, <1>5, <1>7, <2>4 DEF q, b, s
<1>8. CASE q < i
  <2>1. PICK d \in Nat : i = q + 1 + d
    BY <1>4, <1>8
  <2>2. x = s * q + s + s * d /\ s * d \in Nat /\ s * q \in Nat
    BY <1>1, <1>4, <2>1
  <2> DEFINE y == s * d
             w == s * q
  <2>3. x = w + s + y /\ y \in Nat /\ w \in Nat /\ b < w + s
    BY <1>4, <2>2
  <2> HIDE DEF x, y, w
  <2>4. ~(x <= b)
    BY <1>1, <1>2, <2>3
  <2>5. QED
    BY <1>3, <1>5, <1>8, <2>4 DEF q, b, s
<1>9. QED
  BY <1>4, <1>6, <1>7, <1>8

-----------------------------------------------------------------------------
(***************************************************************************)
(* The parts of a file.                                                    *)
(***************************************************************************)
\* The files of a bring-up that got past the check of the files.
Usable(w) ==
  /\ \E f \in Firmware : w.patch = f.patch /\ w.nvms = f.nvms
  /\ FsmValid(w.patch, w.nvms)

LEMMA UsableIs ==
  ASSUME NEW w, Usable(w)
  PROVE  /\ Count(w, "patch") \in Nat /\ Count(w, "patch") >= 1
         /\ "patch" \notin DOMAIN w.nvms
         /\ \A b \in DOMAIN w.nvms :
              /\ Count(w, b) \in Nat /\ Count(w, b) >= 1
              /\ \A i \in Nat : i < Count(w, b) =>
                   CarriesBaud(w.nvms[b], i)
                     = (BaudOffset(w.nvms[b]) \div SegmentSize = i)
<1>1. /\ w.patch.size \in Nat /\ "patch" \notin DOMAIN w.nvms
      /\ \A b \in DOMAIN w.nvms :
           w.nvms[b].size \in Nat /\ w.nvms[b].tags \in Tags
  BY BringUpAssumption DEF Usable, Tags
<1>2. w.patch.size >= 1
  BY <1>1 DEF Usable, FsmValid, UsablePatch, ParsesAs, HeaderSize
<1>3. \A b \in DOMAIN w.nvms : w.nvms[b].size >= 1 /\ HciTags(w.nvms[b]) # {}
  BY <1>1 DEF Usable, FsmValid, UsableNvm, ParsesAs, HeaderSize
<1>4. Count(w, "patch") = SegmentCount(w.patch)
      /\ \A b \in DOMAIN w.nvms : Count(w, b) = SegmentCount(w.nvms[b])
  BY <1>1 DEF Count, ImageIn
<1>5. ASSUME NEW b \in DOMAIN w.nvms, NEW i \in Nat, i < Count(w, b)
      PROVE  CarriesBaud(w.nvms[b], i) = (BaudOffset(w.nvms[b]) \div SegmentSize = i)
  <2>1. CarriesBaud(w.nvms[b], i) <=> BaudOffset(w.nvms[b]) \div SegmentSize = i
    BY <1>1, <1>3, <1>4, <1>5, CarriesIs
  <2>2. CarriesBaud(w.nvms[b], i) \in BOOLEAN
    BY DEF CarriesBaud
  <2>3. QED
    BY <2>1, <2>2
<1>6. Count(w, "patch") \in Nat /\ Count(w, "patch") >= 1
  BY <1>1, <1>2, <1>4, CountIs
<1>7. \A b \in DOMAIN w.nvms : Count(w, b) \in Nat /\ Count(w, b) >= 1
  BY <1>1, <1>3, <1>4, CountIs
<1>8. QED
  BY <1>1, <1>5, <1>6, <1>7

\* What the property says of the model's state, said of the files.
LEMMA UpToIs ==
  /\ \A file : Image(file) = ImageIn(Files, file)
  /\ \A n : GotUpTo(n) <=> UpTo(Files, fsm, ctl.got, n)
<1>1. \A file : Image(file) = ImageIn(Files, file)
  BY DEF Image, ImageIn, Files
<1>2. \A file, n : Pieces(file, n) = Parts(Files, file, n)
  BY <1>1 DEF Pieces, Parts
<1>3. \A file : Whole(file) = AllOf(Files, file)
  BY <1>1, <1>2 DEF Whole, AllOf, Count
<1>4. QED
  BY <1>1, <1>2, <1>3 DEF GotUpTo, UpTo, Count

Segments(G) == {Segment(g, i, b) : g \in G, i \in Nat, b \in BOOLEAN}

LEMMA SegmentIn ==
  ASSUME NEW G, NEW g \in G, NEW i \in Nat, NEW b \in BOOLEAN
  PROVE  Segment(g, i, b) \in Segments(G)
<1> DEFINE x == Segment(g, i, b)
<1>1. \E h \in G, j \in Nat, d \in BOOLEAN : x = Segment(h, j, d)
  OBVIOUS
<1> HIDE DEF x
<1>2. x \in {Segment(h, j, d) : h \in G, j \in Nat, d \in BOOLEAN}
  BY <1>1
<1>3. QED
  BY <1>2 DEF Segments, x

LEMMA PartsAre ==
  ASSUME NEW w, NEW G, NEW file \in G, NEW n \in Nat
  PROVE  /\ Parts(w, file, n) \in Seq(Segments(G))
         /\ Len(Parts(w, file, n)) = n
         /\ Parts(w, file, 0) = << >>
<1> DEFINE b(i) == file # "patch" /\ BaudOffset(ImageIn(w, file)) \div SegmentSize = i - 1
           p == [i \in 1..n |-> Segment(file, i - 1, b(i))]
<1>1. \A i \in 1..n : b(i) \in BOOLEAN /\ i - 1 \in Nat
  OBVIOUS
<1> HIDE DEF b
<1>2. \A i \in 1..n : Segment(file, i - 1, b(i)) \in Segments(G)
  BY <1>1 DEF Segments
<1>3. p \in Seq(Segments(G)) /\ Len(p) = n
  BY <1>2
<1>4. p = Parts(w, file, n)
  BY DEF Parts, b
<1>5. Parts(w, file, 0) = << >>
  BY DEF Parts
<1>6. QED
  BY <1>3, <1>4, <1>5

LEMMA OnePartMore ==
  ASSUME NEW w, NEW file, NEW n \in Nat, NEW b,
         b = (file # "patch" /\ BaudOffset(ImageIn(w, file)) \div SegmentSize = n)
  PROVE  Append(Parts(w, file, n), Segment(file, n, b)) = Parts(w, file, n + 1)
<1> DEFINE x == Segment(file, n, b)
           p == Parts(w, file, n)
           q == Parts(w, file, n + 1)
           S == Segments({file})
<1>1. p \in Seq(S) /\ Len(p) = n /\ q \in Seq(S) /\ Len(q) = n + 1
  <2>1. file \in {file} /\ n \in Nat /\ n + 1 \in Nat
    OBVIOUS
  <2> HIDE DEF S
  <2>2. \A m \in Nat : Parts(w, file, m) \in Seq(S) /\ Len(Parts(w, file, m)) = m
    BY <2>1, PartsAre DEF S
  <2>3. QED
    BY <2>1, <2>2
<1>2. x \in S
  <2>1. file \in {file} /\ b \in BOOLEAN
    OBVIOUS
  <2>2. QED
    BY <2>1, SegmentIn
<1>3. \A i \in 1..n : p[i] = q[i]
  BY DEF Parts
<1>4. q[n + 1] = x
  BY DEF Parts
<1> HIDE DEF p, q, S, x
<1>5. Append(p, x) \in Seq(S) /\ Len(Append(p, x)) = n + 1
  BY <1>1, <1>2
<1>6. \A i \in 1..n + 1 : Append(p, x)[i] = q[i]
  BY <1>1, <1>2, <1>3, <1>4
<1>7. Append(p, x) = q
  BY <1>1, <1>5, <1>6, SeqEqual
<1>8. QED
  BY <1>7 DEF p, q, x

\* The next segment of the selected image is one more.
LEMMA OneMore ==
  ASSUME NEW w, NEW f, NEW got, NEW n \in Nat, UpTo(w, f, got, n),
         f.selected # "patch", Count(w, "patch") \in Nat,
         NEW b, b = (BaudOffset(w.nvms[f.selected]) \div SegmentSize = n)
  PROVE  UpTo(w, f, Append(got, Segment(f.selected, n, b)), n + 1)
<1> DEFINE x == Segment(f.selected, n, b)
           G == {"patch", f.selected, f.board}
           S == Segments(G)
           P == AllOf(w, "patch")
           p == Parts(w, f.selected, n)
           q == Parts(w, f.selected, n + 1)
<1>1. Append(p, x) = q
  <2>1. b = (f.selected # "patch"
               /\ BaudOffset(ImageIn(w, f.selected)) \div SegmentSize = n)
    BY DEF ImageIn
  <2>2. QED
    BY <2>1, OnePartMore
<1>2. P \in Seq(S) /\ p \in Seq(S) /\ q \in Seq(S) /\ x \in S
      /\ \A k \in 0..Count(w, f.board) : Parts(w, f.board, k) \in Seq(S)
  <2>1. P \in Seq(S)
    BY PartsAre DEF AllOf
  <2>2. \A g \in G, m \in Nat : Parts(w, g, m) \in Seq(S)
    <3> HIDE DEF S, G
    <3>1. QED
      BY PartsAre DEF S
  <2>3. f.selected \in G /\ f.board \in G /\ b \in BOOLEAN /\ n + 1 \in Nat
    OBVIOUS
  <2>4. x \in S
    <3> HIDE DEF G
    <3>1. QED
      BY <2>3, SegmentIn
  <2>5. p \in Seq(S) /\ q \in Seq(S)
        /\ \A k \in 0..Count(w, f.board) : Parts(w, f.board, k) \in Seq(S)
    <3>1. \A k \in 0..Count(w, f.board) : k \in Nat
      OBVIOUS
    <3> HIDE DEF S, G
    <3>2. QED
      BY <2>2, <2>3, <3>1
  <2>6. QED
    BY <2>1, <2>4, <2>5
<1> HIDE DEF S, G, x, P, p, q
<1>3. \A a \in Seq(S) : Append(a \o p, x) = a \o q
  <2> TAKE a \in Seq(S)
  <2>1. Append(a \o p, x) = (a \o p) \o <<x>>
    BY <1>2
  <2>2. (a \o p) \o <<x>> = a \o (p \o <<x>>)
    <3>1. <<x>> \in Seq(S)
      BY <1>2
    <3>2. a \in Seq(S) /\ p \in Seq(S)
      BY <1>2
    <3>3. QED
      BY <3>1, <3>2, ConcatAssociative
  <2>3. p \o <<x>> = Append(p, x)
    BY <1>2
  <2>4. QED
    BY <1>1, <2>1, <2>2, <2>3
<1>4. CASE got = P \o p
  <2>1. Append(got, x) = P \o q
    BY <1>2, <1>3, <1>4
  <2>2. QED
    BY <2>1 DEF UpTo, P, q, x
<1>5. ASSUME f.fallbackUsed, NEW k \in 0..Count(w, f.board),
             got = P \o Parts(w, f.board, k) \o p
      PROVE  UpTo(w, f, Append(got, x), n + 1)
  <2>1. P \o Parts(w, f.board, k) \in Seq(S)
    BY <1>2
  <2>2. Append(got, x) = P \o Parts(w, f.board, k) \o q
    BY <1>3, <1>5, <2>1
  <2>3. QED
    BY <1>5, <2>2 DEF UpTo, P, q
<1>6. QED
  BY <1>4, <1>5 DEF UpTo, P, p, x

\* A patch that is there, and nothing of an image.
LEMMA NoneYet ==
  ASSUME NEW w, NEW f, Count(w, "patch") \in Nat
  PROVE  UpTo(w, f, AllOf(w, "patch"), 0)
<1> DEFINE P == AllOf(w, "patch")
<1>1. P \in Seq(Segments({"patch"}))
  BY PartsAre DEF AllOf
<1>2. Parts(w, f.selected, 0) = << >>
  BY DEF Parts
<1> HIDE DEF P
<1>3. P \o << >> = P
  BY <1>1, ConcatEmptySeq
<1>4. QED
  BY <1>2, <1>3 DEF UpTo, P

-----------------------------------------------------------------------------
(***************************************************************************)
(* The acknowledgements on their way.                                      *)
(***************************************************************************)
LEMMA NoAcks ==
  ASSUME NEW s \in Seq(Reply), NEW t \in Seq(Reply), Acks(t) = {}
  PROVE  /\ Acks(s \o t) = {} <=> Acks(s) = {}
         /\ OneAck(s) => OneAck(s \o t)
<1>1. /\ Len(s) \in Nat /\ Len(t) \in Nat /\ Len(s \o t) = Len(s) + Len(t)
      /\ DOMAIN s = 1..Len(s) /\ DOMAIN t = 1..Len(t)
      /\ DOMAIN (s \o t) = 1..Len(s) + Len(t)
  OBVIOUS
<1>2. \A i \in 1..Len(s) + Len(t) :
        (s \o t)[i] = IF i <= Len(s) THEN s[i] ELSE t[i - Len(s)]
  BY ConcatProperties
<1>3. \A i \in DOMAIN t : t[i].to # "ack"
  BY DEF Acks
<1>4. ASSUME NEW i \in DOMAIN (s \o t), (s \o t)[i].to = "ack"
      PROVE  i \in DOMAIN s /\ s[i].to = "ack"
  <2>1. CASE i <= Len(s)
    BY <1>1, <1>2, <1>4, <2>1
  <2>2. CASE i > Len(s)
    <3>1. i - Len(s) \in DOMAIN t /\ (s \o t)[i] = t[i - Len(s)]
      BY <1>1, <1>2, <2>2
    <3>2. QED
      BY <1>3, <1>4, <3>1
  <2>3. QED
    BY <1>1, <2>1, <2>2
<1>5. ASSUME NEW i \in DOMAIN s
      PROVE  i \in DOMAIN (s \o t) /\ (s \o t)[i] = s[i]
  BY <1>1, <1>2
<1>6. Acks(s \o t) = Acks(s)
  BY <1>4, <1>5 DEF Acks
<1>7. QED
  BY <1>6 DEF OneAck

LEMMA OneMoreAck ==
  ASSUME NEW s \in Seq(Reply), NEW a \in Reply
  PROVE  /\ Append(s, a) \in Seq(Reply)
         /\ Acks(s) = {} => OneAck(Append(s, a))
         /\ a.to # "ack" =>
              /\ Acks(Append(s, a)) = {} <=> Acks(s) = {}
              /\ OneAck(s) => OneAck(Append(s, a))
         /\ a.to = "ack" => Acks(Append(s, a)) # {}
<1>1. /\ Len(s) \in Nat /\ DOMAIN s = 1..Len(s)
      /\ DOMAIN Append(s, a) = 1..Len(s) + 1
      /\ \A i \in 1..Len(s) : Append(s, a)[i] = s[i]
      /\ Append(s, a)[Len(s) + 1] = a
      /\ Append(s, a) \in Seq(Reply)
  OBVIOUS
<1>2. Acks(Append(s, a)) = Acks(s) \cup (IF a.to = "ack" THEN {Len(s) + 1} ELSE {})
  BY <1>1 DEF Acks
<1>3. QED
  BY <1>1, <1>2 DEF OneAck

LEMMA OneAckLess ==
  ASSUME NEW s \in Seq(Reply), s # << >>
  PROVE  /\ Tail(s) \in Seq(Reply) /\ Head(s) \in Reply
         /\ Acks(s) = {} => Acks(Tail(s)) = {} /\ Head(s).to # "ack"
         /\ OneAck(s) => OneAck(Tail(s))
         /\ OneAck(s) /\ Head(s).to = "ack" => Acks(Tail(s)) = {} /\ Acks(s) # {}
<1>1. /\ Len(s) \in Nat /\ Len(s) >= 1 /\ DOMAIN s = 1..Len(s)
      /\ DOMAIN Tail(s) = 1..Len(s) - 1
      /\ \A i \in 1..Len(s) - 1 : Tail(s)[i] = s[i + 1]
      /\ Head(s) = s[1] /\ Tail(s) \in Seq(Reply) /\ Head(s) \in Reply
  OBVIOUS
<1>2. \A i \in Acks(Tail(s)) : i + 1 \in Acks(s) /\ i + 1 # 1 /\ i \in Nat
  BY <1>1 DEF Acks
<1>3. Head(s).to = "ack" <=> 1 \in Acks(s)
  BY <1>1 DEF Acks
<1>4. OneAck(s) => OneAck(Tail(s))
  BY <1>2 DEF OneAck
<1>5. OneAck(s) /\ 1 \in Acks(s) => Acks(Tail(s)) = {}
  BY <1>2 DEF OneAck
<1>6. QED
  BY <1>1, <1>2, <1>3, <1>4, <1>5

\* What a write brings on its way.
LEMMA AcksSaid ==
  ASSUME Types, NEW cmd, cmd.ask \in Kinds \ {"ack", "segment"}, Says(cmd),
         Acks(wire) = {}
  PROVE  Acks(wire') = {}
<1>1. InFlight(cmd) \in Seq(Reply) /\ Acks(InFlight(cmd)) = {}
  BY DEF Types, Records, InFlight, Acks
<1>2. ASSUME NEW a \in Answers(cmd) PROVE a \in Seq(Reply) /\ Acks(a) = {}
  <2>1. a \in Seq(Reply)
    BY AnswersAre DEF Types, Records
  <2>2. \A to \in Kinds \ {"ack"}, b \in Boards \cup {NoBoard} :
          Acks(<<Answer(to, b)>>) = {}
    <3> TAKE to \in Kinds \ {"ack"}, b \in Boards \cup {NoBoard}
    <3> DEFINE v == Answer(to, b)
    <3>1. v.to = to
      BY AnswerIs DEF Types, Records
    <3> HIDE DEF v
    <3>2. DOMAIN <<v>> = {1} /\ <<v>>[1] = v
      OBVIOUS
    <3>3. Acks(<<v>>) = {}
      BY <3>1, <3>2 DEF Acks
    <3>4. QED
      BY <3>3 DEF v
  <2>3. Acks(<< >>) = {} /\ "wake_ack" \in Kinds \ {"ack"}
    BY DEF Acks, Kinds, Asks
  <2>4. CASE cmd.ask = "board"
    BY <2>1, <2>2, <2>4 DEF Answers
  <2>5. CASE cmd.ask = "wake"
    <3>1. a \in {<< >>, <<Answer("wake_ack", NoBoard)>>}
      BY <2>5 DEF Answers
    <3>2. QED
      BY <2>1, <2>2, <2>3, <3>1
  <2>6. CASE cmd.ask \in {"soc_reset", "wake_ack"}
    BY <2>1, <2>3, <2>6 DEF Answers
  <2>7. CASE cmd.ask \notin {"board", "wake", "soc_reset", "wake_ack"}
    BY <2>1, <2>2, <2>7 DEF Answers
  <2>8. QED
    BY <2>4, <2>5, <2>6, <2>7
<1>3. wire' = InFlight(cmd) \/ \E a \in Answers(cmd) : wire' = InFlight(cmd) \o a
  BY DEF Says
<1>4. QED
  BY <1>1, <1>2, <1>3, NoAcks

\* A segment is obeyed or not; and one that is acknowledged is obeyed.
SaidSegment(cmd) ==
  /\ \/ wire' = wire
     \/ /\ Understands(cmd) /\ ctl' = Obeyed(cmd)
        /\ \E a \in Reply : a.to = "ack" /\ wire' = Append(wire, a)
        /\ Answers(cmd) # {<< >>}
  /\ ctl' = ctl \/ (Understands(cmd) /\ ctl' = Obeyed(cmd))
  /\ Understands(cmd) /\ Answers(cmd) = {<< >>} => ctl' = Obeyed(cmd)
  /\ ctl'.got = ctl.got \/ ctl'.got = Append(ctl.got, cmd)
  /\ ctl' = Obeyed(cmd) => ctl'.got = Append(ctl.got, cmd)
  /\ ctl'.alive = ctl.alive

LEMMA SegmentSaid ==
  ASSUME Types, NEW cmd, cmd.ask = "segment", Says(cmd)
  PROVE  SaidSegment(cmd)
<1> DEFINE o == Obeyed(cmd)
           v == Answer("ack", NoBoard)
<1>1. o.got = Append(ctl.got, cmd) /\ o.alive = ctl.alive
  <2>1. Controller(ctl)
    BY DEF Types, Records
  <2>2. o.alive = ctl.alive
    BY <2>1, ObeyedIs
  <2>3. o.got = Append(ctl.got, cmd)
    BY <2>1 DEF Obeyed, Controller
  <2>4. QED
    BY <2>2, <2>3
<1>2. InFlight(cmd) = wire /\ wire \in Seq(Reply)
  BY DEF InFlight, Types, Records
<1>3. Answers(cmd) \in {{<<v>>}, {<< >>}}
  BY DEF Answers
<1>4. v \in Reply /\ v.to = "ack"
  BY AnswerIs DEF Types, Records, Kinds
<1>5. Ignorable(cmd) <=> Answers(cmd) # {<< >>}
  BY DEF Ignorable
<1> HIDE DEF o, v
<1>6. ASSUME Understands(cmd), ctl' = o, NEW a \in Answers(cmd), wire' = InFlight(cmd) \o a
      PROVE  SaidSegment(cmd)
  <2>1. CASE Answers(cmd) = {<< >>}
    <3>1. wire' = wire
      BY <1>2, <1>6, <2>1
    <3>2. QED
      BY <1>1, <1>6, <3>1 DEF SaidSegment, o
  <2>2. CASE Answers(cmd) = {<<v>>}
    <3>1. wire' = Append(wire, v)
      <4>1. Append(wire, v) = wire \o <<v>>
        BY <1>2, <1>4
      <4>2. a = <<v>>
        BY <1>6, <2>2
      <4>3. QED
        BY <1>2, <1>6, <4>1, <4>2
    <3>2. Answers(cmd) # {<< >>}
      BY <2>2
    <3>3. QED
      BY <1>1, <1>4, <1>6, <3>1, <3>2 DEF SaidSegment, o
  <2>3. QED
    BY <1>3, <2>1, <2>2
<1>7. ASSUME Understands(cmd), Ignorable(cmd), ctl' \in {ctl, o}, wire' = InFlight(cmd)
      PROVE  SaidSegment(cmd)
  BY <1>1, <1>2, <1>5, <1>7 DEF SaidSegment, o
<1>8. ASSUME ~Understands(cmd), ctl' = ctl, wire' = InFlight(cmd)
      PROVE  SaidSegment(cmd)
  <2>1. wire' = wire /\ ctl'.got = ctl.got /\ ctl'.alive = ctl.alive
    BY <1>2, <1>8
  <2>2. ctl' = o => ctl'.got = Append(ctl.got, cmd)
    BY <1>1
  <2>3. QED
    BY <1>8, <2>1, <2>2 DEF SaidSegment, o
<1>9. QED
  BY <1>6, <1>7, <1>8 DEF Says, o

-----------------------------------------------------------------------------
(***************************************************************************)
(* The machine and what the controller has.                                *)
(***************************************************************************)
\* The selected image and the board's own are images of the files.
LEMMA SelectedIs ==
  ASSUME NEW w, Usable(w), NEW f, MachineFits(w, f),
         f.state \in {"NvmDownload"} \cup Late
  PROVE  /\ f.selected \in DOMAIN w.nvms /\ f.selected # "patch"
         /\ Count(w, f.selected) \in Nat /\ Count(w, f.selected) >= 1
         /\ ImageIn(w, f.selected) = w.nvms[f.selected]
<1>1. f.selected \in DOMAIN w.nvms /\ f.selected # "patch"
  BY UsableIs DEF MachineFits
<1>2. QED
  BY <1>1, UsableIs DEF ImageIn

\* A part of an image, behind another that begins again.
LEMMA BeginAgain ==
  ASSUME NEW w, Usable(w), NEW f, NEW got, NEW n \in Nat,
         f.selected \in DOMAIN w.nvms, f.board = f.selected, ~f.fallbackUsed,
         n <= Count(w, f.selected), UpTo(w, f, got, n),
         NEW h, h.board = f.board, h.fallbackUsed
  PROVE  UpTo(w, h, got, 0)
<1> DEFINE G == {"patch", f.selected}
           S == Segments(G)
           P == AllOf(w, "patch")
           p == Parts(w, f.selected, n)
<1>1. got = P \o p
  BY DEF UpTo
<1>2. P \in Seq(S) /\ p \in Seq(S)
  <2>1. Count(w, "patch") \in Nat /\ "patch" \in G /\ f.selected \in G
    BY UsableIs
  <2> HIDE DEF G
  <2>2. QED
    BY <2>1, PartsAre DEF AllOf
<1>3. Parts(w, h.selected, 0) = << >>
  BY DEF Parts
<1> HIDE DEF S, P, p
<1>4. (P \o p) \o << >> = P \o p
  <2>1. P \o p \in Seq(S)
    BY <1>2
  <2>2. QED
    BY <2>1, ConcatEmptySeq
<1>5. n \in 0..Count(w, h.board)
  BY UsableIs
<1>6. got = P \o Parts(w, h.board, n) \o Parts(w, h.selected, 0)
  BY <1>1, <1>3, <1>4 DEF p
<1>7. QED
  BY <1>5, <1>6 DEF UpTo, P

LEMMA ArmNvmKeeps ==
  ASSUME NEW w, Usable(w), NEW f, Machine(f), NEW b \in DOMAIN w.nvms,
         f.patchIndex \in Nat, b # NoBoard => f.board = b
  PROVE  LET h == ArmNvm(f, b)
         IN  /\ MachineFits(w, h) /\ h.state = "NvmDownload" /\ h.nvmIndex = 0
             /\ h.selected = b /\ h.board = f.board
             /\ h.fallbackUsed = f.fallbackUsed /\ Machine(h)
<1> DEFINE h == ArmNvm(f, b)
<1>1. /\ h.state = "NvmDownload" /\ h.nvmIndex = 0 /\ h.selected = b
      /\ h.board = f.board /\ h.patchIndex = f.patchIndex
      /\ h.fallbackUsed = f.fallbackUsed /\ Machine(h)
  BY DEF ArmNvm, Machine, FsmFields, States
<1> HIDE DEF h
<1>2. MachineFits(w, h)
  BY <1>1 DEF MachineFits, Early, Late
<1>3. QED
  BY <1>1, <1>2 DEF h

LEMMA FailsKeeps ==
  ASSUME NEW w, NEW f, Machine(f), MachineFits(w, f), NEW c
  PROVE  LET h == Fails(f)
         IN  h.state = "Failed" /\ MachineFits(w, h) /\ GotAll(w, h, c)
<1> DEFINE h == Fails(f)
<1>1. /\ h.state = "Failed" /\ h.nvmIndex = f.nvmIndex /\ h.patchIndex = f.patchIndex
  BY DEF Fails, Machine, FsmFields
<1> HIDE DEF h
<1>2. QED
  BY <1>1 DEF MachineFits, GotAll, Early, Late, h

\* The image is selected when the patch is there.
LEMMA SelectNvmKeeps ==
  ASSUME NEW w, Usable(w), NEW f, Machine(f), MachineFits(w, f), NEW b, NEW c
  PROVE  LET h == SelectNvm([f EXCEPT !.board = b], w.nvms)
         IN  /\ MachineFits(w, h) /\ h.state \in {"NvmDownload", "Failed"}
             /\ c.got = AllOf(w, "patch") => GotAll(w, h, c)
<1> DEFINE g == [f EXCEPT !.board = b]
           h == SelectNvm(g, w.nvms)
<1>1. Machine(g) /\ g.board = b /\ g.patchIndex \in Nat /\ g.nvmIndex \in Nat
  BY DEF Machine, FsmFields, MachineFits
<1> HIDE DEF g
<1>2. ASSUME NEW s \in DOMAIN w.nvms, s # NoBoard => g.board = s, h = ArmNvm(g, s)
      PROVE  /\ MachineFits(w, h) /\ h.state = "NvmDownload"
             /\ c.got = AllOf(w, "patch") => GotAll(w, h, c)
  <2>1. MachineFits(w, h) /\ h.state = "NvmDownload" /\ h.nvmIndex = 0
    BY <1>1, <1>2, ArmNvmKeeps
  <2> HIDE DEF h
  <2>2. UpTo(w, h, AllOf(w, "patch"), 0)
    BY NoneYet, UsableIs
  <2>3. QED
    BY <2>1, <2>2 DEF GotAll, Early, Late
<1>3. CASE h = Fails(g)
  <2>1. h.state = "Failed" /\ h.patchIndex \in Nat /\ h.nvmIndex \in Nat
    BY <1>1, <1>3 DEF Fails, Machine, FsmFields
  <2> HIDE DEF h
  <2>2. MachineFits(w, h) /\ GotAll(w, h, c)
    BY <2>1 DEF MachineFits, GotAll, Early, Late
  <2>3. QED
    BY <2>1, <2>2 DEF h, g
<1>4. h = Fails(g) \/ \E s \in DOMAIN w.nvms : (s # NoBoard => g.board = s) /\ h = ArmNvm(g, s)
  BY DEF SelectNvm
<1> HIDE DEF h
<1>5. QED
  BY <1>2, <1>3, <1>4 DEF h, g

LEMMA TimeoutKeeps ==
  ASSUME NEW w, Usable(w), NEW f, Machine(f), MachineFits(w, f), NEW c,
         GotAll(w, f, c)
  PROVE  LET h == OnBoardIdTimeout(f, w.nvms)
         IN  MachineFits(w, h) /\ GotAll(w, h, c)
<1>1. CASE f.state = "BoardIdRequest"
  <2>1. c.got = AllOf(w, "patch")
    BY <1>1 DEF GotAll
  <2>2. OnBoardIdTimeout(f, w.nvms) = SelectNvm([f EXCEPT !.board = NoBoard], w.nvms)
    BY <1>1 DEF OnBoardIdTimeout
  <2>3. QED
    BY <2>1, <2>2, SelectNvmKeeps
<1>2. CASE f.state # "BoardIdRequest"
  BY <1>2 DEF OnBoardIdTimeout
<1>3. QED
  BY <1>1, <1>2

LEMMA NvmFailureKeeps ==
  ASSUME NEW w, Usable(w), NEW f, Machine(f), MachineFits(w, f), NEW c,
         f.state = "NvmDownload", NEW a, GotSent(w, f, c, a)
  PROVE  LET h == OnNvmFailure(f, w.nvms)
         IN  MachineFits(w, h) /\ GotAll(w, h, c) /\ h.state \in {"NvmDownload", "Failed"}
<1> DEFINE h == OnNvmFailure(f, w.nvms)
<1>1. CASE f.fallbackUsed \/ f.selected = NoBoard \/ NoBoard \notin DOMAIN w.nvms
  <2>1. h = Fails(f)
    BY <1>1 DEF OnNvmFailure
  <2>2. QED
    BY <2>1, FailsKeeps
<1>2. CASE ~(f.fallbackUsed \/ f.selected = NoBoard \/ NoBoard \notin DOMAIN w.nvms)
  <2> DEFINE g == ArmNvm(f, NoBoard)
  <2>1. h = [g EXCEPT !.fallbackUsed = TRUE]
    BY <1>2 DEF OnNvmFailure
  <2>2. /\ MachineFits(w, g) /\ g.state = "NvmDownload" /\ g.nvmIndex = 0
        /\ g.selected = NoBoard /\ g.board = f.board /\ Machine(g)
    BY <1>2, ArmNvmKeeps DEF MachineFits
  <2> HIDE DEF g
  <2>3. /\ h.state = "NvmDownload" /\ h.nvmIndex = 0 /\ h.selected = NoBoard
        /\ h.board = f.board /\ h.fallbackUsed /\ h.patchIndex = g.patchIndex
    BY <2>1, <2>2 DEF Machine, FsmFields
  <2> HIDE DEF h
  <2>4. MachineFits(w, h)
    BY <2>2, <2>3 DEF MachineFits, Early, Late
  <2>5. f.selected \in DOMAIN w.nvms /\ f.board = f.selected /\ f.nvmIndex \in Nat
    BY <1>2 DEF MachineFits
  <2>6. f.nvmIndex < Count(w, f.selected) /\ Count(w, f.selected) \in Nat
        /\ (UpTo(w, f, c.got, f.nvmIndex) \/ UpTo(w, f, c.got, f.nvmIndex + 1))
    BY SelectedIs DEF GotSent
  <2>7. UpTo(w, h, c.got, 0)
    <3>1. PICK n \in {f.nvmIndex, f.nvmIndex + 1} : UpTo(w, f, c.got, n)
      BY <2>6
    <3>2. n \in Nat /\ n <= Count(w, f.selected)
      BY <2>5, <2>6
    <3>3. QED
      BY <1>2, <2>3, <2>5, <3>1, <3>2, BeginAgain
  <2>8. GotAll(w, h, c)
    BY <2>3, <2>7 DEF GotAll, Early, Late
  <2>9. QED
    BY <2>3, <2>4, <2>8 DEF h
<1>3. QED
  BY <1>1, <1>2

\* An answer that is no acknowledgement moves the machine outside of the
\* downloads only.
LEMMA AnswerKeeps ==
  ASSUME NEW w, Usable(w), NEW f, Machine(f), MachineFits(w, f), NEW c, NEW a,
         GotAll(w, f, c), a.to # "ack"
  PROVE  GotAll(w, OnPacket(f, a, w.patch, w.nvms), c)
<1> DEFINE h == OnPacket(f, a, w.patch, w.nvms)
<1>1. CASE ~Matches(f, a)
  BY <1>1 DEF OnPacket
<1>2. CASE Matches(f, a) /\ f.state \in {"PatchDownload", "NvmDownload"}
  BY <1>2 DEF Matches, Awaits
<1>3. CASE Matches(f, a) /\ f.state = "BoardIdRequest"
  <2>1. h = SelectNvm([f EXCEPT !.board = a.board], w.nvms)
    BY <1>3 DEF OnPacket
  <2>2. c.got = AllOf(w, "patch")
    BY <1>3 DEF GotAll
  <2>3. QED
    BY <2>1, <2>2, SelectNvmKeeps
<1>4. CASE /\ Matches(f, a)
           /\ f.state \notin {"PatchDownload", "NvmDownload", "BoardIdRequest"}
  <2>1. f.state \in {"VersionRequest"} \cup Late
    BY <1>4 DEF Matches, Awaits, Late
  <2>2. h = [f EXCEPT !.state = Follows[f.state]]
    BY <1>4 DEF OnPacket
  <2>3. /\ h.state = Follows[f.state] /\ h.selected = f.selected
        /\ h.board = f.board /\ h.fallbackUsed = f.fallbackUsed
    BY <2>2 DEF Machine, FsmFields
  <2>4. /\ f.state = "VersionRequest" => h.state = "SetBaudRate"
        /\ f.state \in Late => h.state \in Late \cup {"Ready"}
    BY <2>1, <2>3 DEF Follows, Late
  <2>5. \A n : UpTo(w, h, c.got, n) <=> UpTo(w, f, c.got, n)
    BY <2>3 DEF UpTo
  <2> HIDE DEF h
  <2>6. CASE f.state = "VersionRequest"
    BY <2>4, <2>6 DEF GotAll, Early, Late, h
  <2>7. CASE f.state \in Late
    <3>1. UpTo(w, f, c.got, Count(w, f.selected))
      BY <2>7 DEF GotAll
    <3>2. UpTo(w, h, c.got, Count(w, h.selected))
      BY <2>3, <2>5, <3>1
    <3>3. QED
      BY <2>4, <2>7, <3>2 DEF GotAll, Early, Late, h
  <2>8. QED
    BY <2>1, <2>6, <2>7 DEF h
<1>5. QED
  BY <1>1, <1>2, <1>3, <1>4

\* Nothing that is read makes the machine unfit, wherever the worker is.
LEMMA PacketFits ==
  ASSUME NEW w, Usable(w), NEW f, Machine(f), MachineFits(w, f), NEW a
  PROVE  MachineFits(w, OnPacket(f, a, w.patch, w.nvms))
<1> DEFINE h == OnPacket(f, a, w.patch, w.nvms)
<1>1. CASE ~Matches(f, a)
  BY <1>1 DEF OnPacket
<1>2. CASE Matches(f, a) /\ f.state = "PatchDownload"
  <2>1. h = PatchAcked(f, w.patch)
    BY <1>2 DEF OnPacket
  <2>2. /\ h.state \in {"PatchDownload", "BoardIdRequest"}
        /\ h.patchIndex = f.patchIndex + 1 /\ h.nvmIndex = f.nvmIndex
    BY <1>2, <2>1 DEF PatchAcked, Machine, FsmFields
  <2> HIDE DEF h
  <2>3. MachineFits(w, h)
    BY <2>2 DEF MachineFits, Early, Late
  <2>4. QED
    BY <2>3 DEF h
<1>3. CASE Matches(f, a) /\ f.state = "NvmDownload"
  <2>1. h = NvmAcked(f, w.nvms)
    BY <1>3 DEF OnPacket
  <2>2. /\ h.state \in {"NvmDownload", "DisableLogging"}
        /\ h.patchIndex = f.patchIndex /\ h.nvmIndex = f.nvmIndex + 1
        /\ h.selected = f.selected /\ h.board = f.board
    BY <1>3, <2>1 DEF NvmAcked, Machine, FsmFields
  <2> HIDE DEF h
  <2>3. MachineFits(w, h)
    BY <1>3, <2>2 DEF MachineFits, Early, Late
  <2>4. QED
    BY <2>3 DEF h
<1>4. CASE Matches(f, a) /\ f.state = "BoardIdRequest"
  <2>1. h = SelectNvm([f EXCEPT !.board = a.board], w.nvms)
    BY <1>4 DEF OnPacket
  <2>2. QED
    BY <2>1, SelectNvmKeeps
<1>5. CASE /\ Matches(f, a)
           /\ f.state \notin {"PatchDownload", "NvmDownload", "BoardIdRequest"}
  <2>1. f.state \in {"VersionRequest"} \cup Late
    BY <1>5 DEF Matches, Awaits, Late
  <2>2. h = [f EXCEPT !.state = Follows[f.state]]
    BY <1>5 DEF OnPacket
  <2>3. /\ h.state = Follows[f.state] /\ h.selected = f.selected
        /\ h.board = f.board /\ h.patchIndex = f.patchIndex /\ h.nvmIndex = f.nvmIndex
    BY <2>2 DEF Machine, FsmFields
  <2>4. /\ f.state = "VersionRequest" => h.state = "SetBaudRate"
        /\ f.state \in Late => h.state \in Late \cup {"Ready"}
    BY <2>1, <2>3 DEF Follows, Late
  <2> HIDE DEF h
  <2>5. MachineFits(w, h)
    BY <2>1, <2>3, <2>4 DEF MachineFits, Early, Late
  <2>6. QED
    BY <2>5 DEF h
<1>6. QED
  BY <1>1, <1>2, <1>3, <1>4, <1>5

\* An acknowledgement is for the segment that was sent last.
LEMMA AckKeeps ==
  ASSUME NEW w, Usable(w), NEW f, Machine(f), MachineFits(w, f), NEW c, NEW a,
         GotSent(w, f, c, TRUE), a.to = "ack"
  PROVE  /\ GotAll(w, OnPacket(f, a, w.patch, w.nvms), c)
         /\ Handles(f, a, w.patch, w.nvms)
<1> DEFINE h == OnPacket(f, a, w.patch, w.nvms)
<1>1. CASE f.state = "PatchDownload"
  <2>1. Matches(f, a)
    BY <1>1 DEF Matches, Awaits
  <2>2. h = PatchAcked(f, w.patch)
    BY <1>1, <2>1 DEF OnPacket
  <2>3. /\ h.patchIndex = f.patchIndex + 1
        /\ h.state = IF f.patchIndex + 1 >= SegmentCount(w.patch) THEN "BoardIdRequest"
                     ELSE "PatchDownload"
    BY <1>1, <2>2 DEF PatchAcked, Machine, FsmFields
  <2>4. f.patchIndex < Count(w, "patch") /\ c.got = Parts(w, "patch", f.patchIndex + 1)
    BY <1>1 DEF GotSent
  <2>5. Count(w, "patch") = SegmentCount(w.patch)
    BY DEF Count, ImageIn
  <2>6. f.patchIndex + 1 >= SegmentCount(w.patch) => c.got = AllOf(w, "patch")
    <3>1. SegmentCount(w.patch) \in Nat /\ f.patchIndex \in Nat
      BY <2>5, UsableIs DEF MachineFits
    <3>2. f.patchIndex + 1 >= SegmentCount(w.patch) => f.patchIndex + 1 = Count(w, "patch")
      BY <2>4, <2>5, <3>1
    <3>3. QED
      BY <2>4, <3>2 DEF AllOf
  <2> HIDE DEF h
  <2>7. GotAll(w, h, c) /\ h.state # "Failed"
    BY <2>3, <2>4, <2>6 DEF GotAll, Early, Late
  <2>8. QED
    BY <2>1, <2>7 DEF h, Handles
<1>2. CASE f.state = "NvmDownload"
  <2>1. Matches(f, a)
    BY <1>2 DEF Matches, Awaits
  <2>2. h = NvmAcked(f, w.nvms)
    BY <1>2, <2>1 DEF OnPacket
  <2>3. /\ h.nvmIndex = f.nvmIndex + 1 /\ h.selected = f.selected
        /\ h.board = f.board /\ h.fallbackUsed = f.fallbackUsed
        /\ h.state = IF f.nvmIndex + 1 >= SegmentCount(w.nvms[f.selected])
                     THEN "DisableLogging" ELSE "NvmDownload"
    BY <1>2, <2>2 DEF NvmAcked, Machine, FsmFields
  <2>4. f.nvmIndex < Count(w, f.selected) /\ UpTo(w, f, c.got, f.nvmIndex + 1)
    BY <1>2 DEF GotSent
  <2>5. /\ Count(w, f.selected) = SegmentCount(w.nvms[f.selected])
        /\ Count(w, f.selected) \in Nat
    BY <1>2, SelectedIs DEF Count
  <2>6. \A n : UpTo(w, h, c.got, n) <=> UpTo(w, f, c.got, n)
    BY <2>3 DEF UpTo
  <2>7. f.nvmIndex + 1 >= SegmentCount(w.nvms[f.selected]) =>
          f.nvmIndex + 1 = Count(w, h.selected)
    <3>1. f.nvmIndex \in Nat
      BY DEF MachineFits
    <3>2. QED
      BY <2>3, <2>4, <2>5, <3>1
  <2> HIDE DEF h
  <2>8. GotAll(w, h, c) /\ h.state # "Failed"
    BY <2>3, <2>4, <2>6, <2>7 DEF GotAll, Early, Late
  <2>9. QED
    BY <2>1, <2>8 DEF h, Handles
<1>3. QED
  BY <1>1, <1>2 DEF GotSent

\* What the machine asks for next.
NextSends(w, f, r, c) ==
  /\ MachineFits(w, r.fsm)
  /\ r.action \notin {"Done", "Failed"} =>
       /\ r.command.ask = "segment" <=> f.state \in {"PatchDownload", "NvmDownload"}
       /\ r.command.ask = "segment" =>
            SendingNext(w, r.fsm, r, c) /\ r.fsm.state = f.state
       /\ r.command.ask # "segment" => GotAll(w, r.fsm, c)
       /\ r.action = "SendBaudAndSwitch" => r.fsm.state = "PatchDownload"
       /\ f.state = "BoardIdRequest" => r.fsm.state = f.state

LEMMA NextIs ==
  ASSUME NEW w, Usable(w), NEW f, Machine(f), MachineFits(w, f), NEW c,
         GotAll(w, f, c)
  PROVE  NextSends(w, f, FsmNext(f, w.patch, w.nvms), c)
<1> DEFINE r == FsmNext(f, w.patch, w.nvms)
<1>1. ASSUME NEW act, NEW cmd, NEW h, r = Result(act, cmd, h)
      PROVE  r.action = act /\ r.command = cmd /\ r.fsm = h
  BY <1>1 DEF Result
<1>2. CASE r = Refused(f)
  <2>1. r.action = "Failed" /\ r.fsm = Fails(f)
    BY <1>1, <1>2 DEF Refused
  <2>2. QED
    BY <2>1, FailsKeeps DEF NextSends
<1>3. CASE f.state = "Start"
  <2> DEFINE h == [f EXCEPT !.state = "VersionRequest"]
  <2>1. r = Result("Send", Command("version"), h)
    BY <1>3 DEF FsmNext
  <2>2. h.state = "VersionRequest" /\ h.patchIndex = f.patchIndex /\ h.nvmIndex = f.nvmIndex
    BY DEF Machine, FsmFields
  <2> HIDE DEF h, r
  <2>3. r.action = "Send" /\ r.command.ask = "version" /\ r.fsm = h
    BY <1>1, <2>1 DEF Command
  <2>4. MachineFits(w, h) /\ GotAll(w, h, c)
    BY <1>3, <2>2 DEF MachineFits, GotAll, Early, Late
  <2>5. QED
    BY <1>3, <2>3, <2>4 DEF NextSends, r
<1>4. CASE f.state = "SetBaudRate"
  <2> DEFINE h == [f EXCEPT !.state = "PatchDownload"]
  <2>1. r = Result("SendBaudAndSwitch", Command("baud"), h)
    BY <1>4 DEF FsmNext
  <2>2. h.state = "PatchDownload" /\ h.patchIndex = f.patchIndex /\ h.nvmIndex = f.nvmIndex
    BY DEF Machine, FsmFields
  <2> HIDE DEF h, r
  <2>3. r.action = "SendBaudAndSwitch" /\ r.command.ask = "baud" /\ r.fsm = h
    BY <1>1, <2>1 DEF Command
  <2>4. c.got = << >> /\ h.patchIndex = 0 /\ Parts(w, "patch", 0) = << >>
    BY <1>4, <2>2 DEF MachineFits, GotAll, Early, Parts
  <2>5. MachineFits(w, h) /\ GotAll(w, h, c)
    BY <2>2, <2>4 DEF MachineFits, GotAll, Early, Late
  <2>6. QED
    BY <1>4, <2>2, <2>3, <2>5 DEF NextSends, r
<1>5. CASE f.state = "PatchDownload"
  <2> DEFINE i == f.patchIndex
             cmd == Segment("patch", i, FALSE)
             h == [f EXCEPT !.patchIndex = i + 1]
  <2>1. i \in Nat /\ SegmentCount(w.patch) \in Nat /\ Count(w, "patch") = SegmentCount(w.patch)
    BY UsableIs DEF MachineFits, Count, ImageIn
  <2>2. CASE i >= SegmentCount(w.patch)
    BY <1>2, <1>5, <2>2 DEF FsmNext, NextPatch
  <2>3. CASE i < SegmentCount(w.patch)
    <3>1. i \in 0..Count(w, "patch") - 1 /\ (c.got = Parts(w, "patch", i) \/ ~c.alive)
      BY <1>5, <2>1, <2>3 DEF GotAll
    <3>2. cmd.ask = "segment"
      BY DEF Segment
    <3>3. r = NextPatch(f, w.patch) /\ ~(i >= SegmentCount(w.patch))
      BY <1>5, <2>1, <2>3 DEF FsmNext
    <3>4. CASE AckExpected(w.patch, i, w.patch.mode)
      <4>1. r = Result("Send", cmd, f)
        BY <3>3, <3>4 DEF NextPatch
      <4> HIDE DEF r, cmd
      <4>2. r.action = "Send" /\ r.command = cmd /\ r.fsm = f
        BY <1>1, <4>1
      <4>3. SendingNext(w, f, r, c)
        BY <1>5, <3>1, <4>2 DEF SendingNext, cmd
      <4>4. QED
        BY <1>5, <3>2, <4>2, <4>3 DEF NextSends, r
    <3>5. CASE ~AckExpected(w.patch, i, w.patch.mode)
      <4>1. r = Result("SendNoWait", cmd, h)
        BY <3>3, <3>5 DEF NextPatch
      <4>2. h.state = "PatchDownload" /\ h.patchIndex = i + 1 /\ h.nvmIndex = f.nvmIndex
        BY <1>5 DEF Machine, FsmFields
      <4> HIDE DEF r, cmd, h
      <4>3. r.action = "SendNoWait" /\ r.command = cmd /\ r.fsm = h
        BY <1>1, <4>1
      <4>4. SendingNext(w, h, r, c)
        BY <3>1, <3>5, <4>2, <4>3 DEF SendingNext, cmd
      <4>5. MachineFits(w, h)
        BY <2>1, <4>2 DEF MachineFits, Early, Late
      <4>6. QED
        BY <1>5, <3>2, <4>2, <4>3, <4>4, <4>5 DEF NextSends, r
    <3>6. QED
      BY <3>4, <3>5
  <2>4. QED
    BY <2>1, <2>2, <2>3
<1>6. CASE f.state = "NvmDownload"
  <2> DEFINE i == f.nvmIndex
             cmd == Segment(f.selected, i, CarriesBaud(w.nvms[f.selected], i))
  <2>1. i \in Nat /\ SegmentCount(w.nvms[f.selected]) \in Nat
        /\ Count(w, f.selected) = SegmentCount(w.nvms[f.selected])
    BY <1>6, SelectedIs DEF MachineFits, Count
  <2>2. CASE i >= SegmentCount(w.nvms[f.selected])
    BY <1>2, <1>6, <2>2 DEF FsmNext, NextNvm
  <2>3. CASE i < SegmentCount(w.nvms[f.selected])
    <3>1. r = Result("Send", cmd, f)
      BY <1>6, <2>1, <2>3 DEF FsmNext, NextNvm
    <3>2. cmd.ask = "segment"
      BY DEF Segment
    <3> HIDE DEF r, cmd
    <3>3. r.action = "Send" /\ r.command = cmd /\ r.fsm = f
      BY <1>1, <3>1
    <3>4. SendingNext(w, f, r, c)
      BY <1>6, <2>1, <2>3, <3>3 DEF SendingNext, GotAll, cmd
    <3>5. QED
      BY <1>6, <3>2, <3>3, <3>4 DEF NextSends, r
  <2>4. QED
    BY <2>1, <2>2, <2>3
<1>7. CASE f.state \in {"BoardIdRequest", "DisableLogging", "BuildInfo", "HciReset",
                        "ReadLocalVersion"}
  <2>1. \E what \in {"board", "logging", "build", "hci_reset", "local_version"} :
          r = Result("Send", Command(what), f)
    BY <1>7 DEF FsmNext
  <2> HIDE DEF r
  <2>2. PICK what \in {"board", "logging", "build", "hci_reset", "local_version"} :
          r = Result("Send", Command(what), f)
    BY <2>1
  <2>3. r.action = "Send" /\ r.command.ask = what /\ r.fsm = f
    BY <1>1, <2>2 DEF Command
  <2>4. QED
    BY <1>7, <2>3 DEF NextSends, r
<1>8. CASE f.state \in {"VersionRequest", "Failed"}
  BY <1>2, <1>8 DEF FsmNext
<1>9. CASE f.state = "Ready"
  <2>1. r = Result("Done", NoCommand, f)
    BY <1>9 DEF FsmNext
  <2> HIDE DEF r
  <2>2. r.action = "Done" /\ r.fsm = f
    BY <1>1, <2>1
  <2>3. QED
    BY <2>2 DEF NextSends, r
<1>10. QED
  BY <1>3, <1>4, <1>5, <1>6, <1>7, <1>8, <1>9 DEF Machine, States

\* A segment that is written arrives, unless it is one whose loss would be
\* noticed, or the controller is dead.
LEMMA SentKeeps ==
  ASSUME NEW w, Usable(w), NEW f, MachineFits(w, f), NEW o, NEW c, NEW d,
         SendingNext(w, f, o, c), d.alive => c.alive,
         NEW arrives \in BOOLEAN,
         d.got = IF arrives THEN Append(c.got, o.command) ELSE c.got
  PROVE  /\ o.action = "Send" =>
              \A acked \in BOOLEAN :
                ((acked => arrives /\ c.alive) => GotSent(w, f, d, acked))
         /\ o.action = "SendNoWait" =>
              ((d.alive => arrives) => GotAll(w, f, d))
<1>1. ASSUME f.state = "PatchDownload", NEW i \in 0..Count(w, "patch") - 1,
             o.command = Segment("patch", i, FALSE),
             c.got = Parts(w, "patch", i) \/ ~c.alive
      PROVE  /\ i \in Nat /\ i < Count(w, "patch")
             /\ arrives /\ c.alive => d.got = Parts(w, "patch", i + 1)
  <2>1. i \in Nat /\ i < Count(w, "patch")
    BY UsableIs
  <2>2. FALSE = ("patch" # "patch" /\ BaudOffset(ImageIn(w, "patch")) \div SegmentSize = i)
    OBVIOUS
  <2>3. Append(Parts(w, "patch", i), Segment("patch", i, FALSE)) = Parts(w, "patch", i + 1)
    BY <2>1, <2>2, OnePartMore
  <2>4. QED
    BY <1>1, <2>1, <2>3
<1>2. ASSUME f.state = "NvmDownload", o.action = "Send", f.nvmIndex < Count(w, f.selected),
             o.command = Segment(f.selected, f.nvmIndex,
                                 CarriesBaud(w.nvms[f.selected], f.nvmIndex)),
             UpTo(w, f, c.got, f.nvmIndex)
      PROVE  arrives => UpTo(w, f, d.got, f.nvmIndex + 1)
  <2> DEFINE n == f.nvmIndex
             b == CarriesBaud(w.nvms[f.selected], n)
  <2>1. n \in Nat
    BY DEF MachineFits
  <2>2. f.selected \in DOMAIN w.nvms /\ f.selected # "patch"
    BY <1>2, SelectedIs
  <2>3. b = (BaudOffset(w.nvms[f.selected]) \div SegmentSize = n)
    BY <1>2, <2>1, <2>2, UsableIs
  <2>4. Count(w, "patch") \in Nat
    BY UsableIs
  <2> HIDE DEF b
  <2>5. UpTo(w, f, Append(c.got, Segment(f.selected, n, b)), n + 1)
    BY <1>2, <2>1, <2>2, <2>3, <2>4, OneMore
  <2>6. QED
    BY <1>2, <2>5 DEF b
<1>3. CASE f.state = "PatchDownload" /\ o.action = "Send"
  BY <1>1, <1>3 DEF SendingNext, GotSent
<1>4. CASE f.state = "PatchDownload" /\ o.action = "SendNoWait"
  <2>1. PICK i \in 0..Count(w, "patch") - 1 :
          /\ o.command = Segment("patch", i, FALSE)
          /\ c.got = Parts(w, "patch", i) \/ ~c.alive
          /\ i + 1 = f.patchIndex
    BY <1>4 DEF SendingNext
  <2>2. arrives /\ c.alive => d.got = Parts(w, "patch", f.patchIndex)
    BY <1>1, <1>4, <2>1
  <2>3. QED
    BY <1>4, <2>2 DEF GotAll, Early, Late
<1>5. CASE f.state = "NvmDownload"
  BY <1>2, <1>5 DEF SendingNext, GotSent
<1>6. QED
  BY <1>3, <1>4, <1>5 DEF SendingNext

-----------------------------------------------------------------------------
(***************************************************************************)
(* The steps that matter: a packet is read, a segment is written.          *)
(***************************************************************************)
\* What the controller has is all that counts of it.
LEMMA SameGot ==
  ASSUME NEW w, NEW f, NEW c, NEW d, d.got = c.got, d.alive => c.alive
  PROVE  /\ GotAll(w, f, c) => GotAll(w, f, d)
         /\ \A a : GotSent(w, f, c, a) => GotSent(w, f, d, a)
         /\ \A o : SendingNext(w, f, o, c) => SendingNext(w, f, o, d)
BY DEF GotAll, GotSent, SendingNext

LEMMA FilesAre ==
  ASSUME FilesInv, worker \in Loop
  PROVE  Usable(Files) /\ Files.patch = patch /\ Files.nvms = nvms
<1>1. Files.patch = patch /\ Files.nvms = nvms
  BY DEF Files
<1>2. FsmValid(patch, nvms)
  BY DEF FilesInv, Loop, Opening
<1>3. QED
  BY <1>1, <1>2 DEF Usable, FilesInv

LEMMA NoAcksAtAll ==
  /\ Acks(<< >>) = {}
  /\ \A s : Acks(s) = {} => OneAck(s)
BY DEF Acks, OneAck

LEMMA ReadInLoop ==
  ASSUME IInv, DownInv, Read, worker \in Loop
  PROVE  LET a == Head(fifo)
         IN  /\ UNCHANGED <<worker, op, before, reading, wire, ctl, phase>>
             /\ reading /\ fifo # << >> /\ fifo' = Tail(fifo)
             /\ \/ UNCHANGED <<waiting, event>>
                \/ waiting /\ ~waiting' /\ event'
             /\ ~waiting => fsm' = fsm
             /\ MachineFits(Files, fsm')
             /\ a.to = "ack" =>
                  worker = "wait" /\ Asked /\ GotAll(Files, fsm', ctl) /\ ~waiting'
             /\ a.to # "ack" /\ fsm.state \in {"PatchDownload", "NvmDownload", "Failed"} =>
                  UNCHANGED <<fsm, waiting, event>>
             /\ a.to # "ack" /\ GotAll(Files, fsm, ctl) => GotAll(Files, fsm', ctl)
             /\ fsm.state = "BoardIdRequest" /\ waiting' =>
                  fsm'.state \in {"BoardIdRequest", "Failed"}
<1> DEFINE a == Head(fifo)
           h == OnPacket(fsm, a, patch, nvms)
<1>1. phase = 1 /\ worker \notin Ladder
  BY DEF DownInv, TurnInv, Loop, Ladder
<1>2. /\ UNCHANGED <<worker, op, before, reading, wire, ctl, phase>>
      /\ reading /\ fifo # << >> /\ fifo' = Tail(fifo)
      /\ fsm' = IF waiting THEN h ELSE fsm
      /\ IF waiting /\ Handles(fsm, a, patch, nvms)
           THEN waiting' = FALSE /\ event' = TRUE ELSE UNCHANGED <<waiting, event>>
  BY <1>1 DEF Read, Identifying, Advances, outside, fsmVars
<1>3. Usable(Files) /\ Files.patch = patch /\ Files.nvms = nvms
  BY FilesAre DEF DownInv
<1>4. Machine(fsm) /\ MachineFits(Files, fsm)
  BY DEF IInv, Types, Records, DownInv, GotInv
<1>5. MachineFits(Files, h)
  BY <1>3, <1>4, PacketFits
<1>6. ASSUME a.to = "ack"
      PROVE  /\ worker = "wait" /\ Asked /\ GotAll(Files, h, ctl)
             /\ Handles(fsm, a, patch, nvms) /\ waiting
  <2>1. HasAck
    <3>1. fifo \in Seq(Reply)
      BY DEF IInv, Types, Records
    <3>2. Acks(fifo) # {}
      BY <1>2, <1>6, <3>1, OneAckLess
    <3>3. QED
      BY <1>2, <3>2 DEF HasAck
  <2>2. worker = "wait" /\ Asked
    BY <2>1 DEF DownInv, AckInv
  <2>3. GotSent(Files, fsm, ctl, TRUE)
    <3>1. GotSent(Files, fsm, ctl, HasAck)
      BY <2>2 DEF DownInv, GotInv, Sending
    <3>2. QED
      BY <2>1, <3>1 DEF GotSent
  <2>4. GotAll(Files, h, ctl) /\ Handles(fsm, a, patch, nvms)
    BY <1>3, <1>4, <1>6, <2>3, AckKeeps
  <2>5. QED
    BY <2>2, <2>4 DEF Asked
<1>7. ASSUME a.to # "ack", fsm.state \in {"PatchDownload", "NvmDownload", "Failed"}
      PROVE  h = fsm /\ ~Handles(fsm, a, patch, nvms)
  <2>1. ~Matches(fsm, a)
    BY <1>7 DEF Matches, Awaits
  <2>2. QED
    BY <2>1 DEF OnPacket, Handles
<1>8. a.to # "ack" /\ GotAll(Files, fsm, ctl) => GotAll(Files, h, ctl)
  BY <1>3, <1>4, AnswerKeeps
<1>9. fsm.state = "BoardIdRequest" /\ ~Handles(fsm, a, patch, nvms) =>
        h.state \in {"BoardIdRequest", "Failed"}
  BY DEF Handles, OnPacket
<1> HIDE DEF a, h
<1>10. QED
  BY <1>2, <1>4, <1>5, <1>6, <1>7, <1>8, <1>9 DEF a, IInv, Types, Flags

\* What is written that is no segment brings no acknowledgement.
LEMMA SendOther ==
  ASSUME IInv, DownInv, LoopSend, op.command.ask # "segment"
  PROVE  /\ Acks(wire') = {} /\ GotAll(Files, fsm, ctl')
<1>1. worker = "send" /\ Says(op.command)
  BY DEF LoopSend, At
<1>2. op.command.ask \in Kinds \ {"ack", "segment"} /\ op.command.ask # "soc_reset"
  BY DEF IInv, Types, Records, Kinds, Asks
<1>3. Acks(wire) = {}
  BY <1>1 DEF DownInv, AckInv, HasAck, Loop
<1>4. Acks(wire') = {}
  BY <1>1, <1>2, <1>3, AcksSaid DEF IInv
<1>5. ctl'.got = ctl.got /\ ctl'.alive = ctl.alive
  <2>1. Said(op.command)
    BY WritesAre DEF IInv
  <2>2. QED
    BY <1>2, <2>1, SaidIs DEF IInv
<1>6. GotAll(Files, fsm, ctl)
  BY <1>1 DEF DownInv, GotInv, Sending, Asked, Loop
<1>7. QED
  BY <1>4, <1>5, <1>6, SameGot

LEMMA SendSegment ==
  ASSUME IInv, DownInv, LoopSend, op.command.ask = "segment"
  PROVE  /\ op.action \in {"Send", "SendNoWait"}
         /\ OneAck(wire') /\ Acks(wire) = {} /\ (reading => Acks(fifo) = {})
         /\ op.action = "Send" =>
              GotSent(Files, fsm, ctl', Acks(wire') # {})
         /\ op.action = "SendNoWait" =>
              Acks(wire') = {} /\ GotAll(Files, fsm, ctl')
<1> DEFINE cmd == op.command
           arrives == ctl'.got = Append(ctl.got, cmd)
<1>1. worker = "send" /\ Says(cmd) /\ worker \in Loop
  BY DEF LoopSend, At, Loop
<1>2. SaidSegment(cmd)
  BY <1>1, SegmentSaid DEF IInv
<1>3. SendingNext(Files, fsm, op, ctl)
  BY <1>1 DEF DownInv, GotInv, Sending
<1>4. Acks(wire) = {} /\ (reading => Acks(fifo) = {}) /\ wire \in Seq(Reply)
  BY <1>1 DEF DownInv, AckInv, HasAck, IInv, Types, Records
<1>5. Usable(Files) /\ Files.patch = patch /\ MachineFits(Files, fsm)
  BY <1>1, FilesAre DEF DownInv, GotInv
<1>6. op.action \in {"Send", "SendNoWait"}
  BY <1>3 DEF SendingNext
<1>7. ctl.alive => Understands(cmd)
  <2>1. port = "oper" /\ CtlAt("oper")
    BY <1>1 DEF IInv, RateInv, AtOper
  <2>2. ctl.awake
    BY <1>1 DEF DownInv, GotInv
  <2>3. QED
    BY <2>1, <2>2 DEF CtlAt, Understands, Hears
<1>8. OneAck(wire') /\ (Acks(wire') # {} => wire' # wire)
  BY <1>2, <1>4, NoAcksAtAll, OneMoreAck DEF SaidSegment
<1>9. wire' # wire => arrives /\ ctl.alive
  BY <1>2 DEF SaidSegment, Understands, Hears
<1>10. op.action = "SendNoWait" => Answers(cmd) = {<< >>}
  <2> SUFFICES ASSUME op.action = "SendNoWait" PROVE Answers(cmd) = {<< >>}
    OBVIOUS
  <2>1. PICK i : cmd = Segment("patch", i, FALSE) /\ ~AckExpected(patch, i, patch.mode)
    BY <1>3, <1>5 DEF SendingNext
  <2>2. cmd.file = "patch" /\ cmd.index = i /\ cmd.ask = "segment"
    BY <2>1 DEF Segment
  <2>3. QED
    BY <2>1, <2>2 DEF Answers, Image
<1>11. /\ ctl'.got = IF arrives THEN Append(ctl.got, cmd) ELSE ctl.got
       /\ ctl'.alive = ctl.alive
  BY <1>2 DEF SaidSegment
<1>12. op.action = "SendNoWait" => (ctl.alive => arrives) /\ wire' = wire
  BY <1>2, <1>7, <1>10 DEF SaidSegment
<1>13. arrives \in BOOLEAN
  OBVIOUS
<1> HIDE DEF arrives
<1>14. /\ op.action = "Send" => GotSent(Files, fsm, ctl', Acks(wire') # {})
       /\ op.action = "SendNoWait" => GotAll(Files, fsm, ctl')
  <2>1. /\ op.action = "Send" =>
              \A acked \in BOOLEAN :
                ((acked => arrives /\ ctl.alive) => GotSent(Files, fsm, ctl', acked))
        /\ op.action = "SendNoWait" =>
              ((ctl'.alive => arrives) => GotAll(Files, fsm, ctl'))
    BY <1>3, <1>5, <1>11, <1>13, SentKeeps
  <2>2. (Acks(wire') # {}) \in BOOLEAN /\ (Acks(wire') # {} => arrives /\ ctl.alive)
    BY <1>8, <1>9
  <2>3. QED
    BY <1>11, <1>12, <2>1, <2>2
<1>15. QED
  BY <1>4, <1>6, <1>8, <1>12, <1>14

\* Fewer acknowledgements promise less.
LEMMA FewerAcks ==
  ASSUME NEW w, NEW f, NEW c, NEW a, NEW b, GotSent(w, f, c, a), b => a
  PROVE  GotSent(w, f, c, b)
BY DEF GotSent

-----------------------------------------------------------------------------
(***************************************************************************)
(* Every step keeps the parts of the download's invariant.                 *)
(***************************************************************************)

LEMMA BoardTimeoutIs ==
  ASSUME IInv, DownInv, worker \in Loop, fsm.state = "BoardIdRequest"
  PROVE  OnBoardIdTimeout(fsm, nvms).state \in {"NvmDownload", "Failed"}
<1>1. Usable(Files) /\ Files.nvms = nvms
  BY FilesAre DEF DownInv
<1>2. Machine(fsm) /\ MachineFits(Files, fsm)
  BY DEF IInv, Types, Records, DownInv, GotInv
<1>3. QED
  BY <1>1, <1>2, SelectNvmKeeps DEF OnBoardIdTimeout

LEMMA NvmTimeoutIs ==
  ASSUME IInv, DownInv, worker = "timedout", before = "NvmDownload"
  PROVE  LET h == OnNvmFailure(fsm, nvms)
         IN  /\ h.state \in {"NvmDownload", "Failed"} /\ MachineFits(Files, h)
             /\ GotAll(Files, h, ctl)
<1>1. worker \in Loop /\ Requesting
  BY DEF Loop, Requesting
<1>2. Usable(Files) /\ Files.nvms = nvms
  BY <1>1, FilesAre DEF DownInv
<1>3. Machine(fsm) /\ MachineFits(Files, fsm)
  BY DEF IInv, Types, Records, DownInv, GotInv
<1>4. Asked /\ fsm.state = "NvmDownload" /\ ~Sending
  BY <1>1 DEF DownInv, TurnInv, Asked, Sending
<1>5. GotSent(Files, fsm, ctl, HasAck)
  BY <1>4 DEF DownInv, GotInv
<1>6. QED
  BY <1>2, <1>3, <1>4, <1>5, NvmFailureKeeps


\* The files stay; the machine runs only on usable ones.
LEMMA FilesStep ==
  ASSUME IInv, FilesInv, [Next]_vars
  PROVE  FilesInv'
<1> USE DEF firmware, readerVars, fsmVars, lineVars, ladderVars, ibsVars,
  history, outside, counts, vars, At, Succeeds, Fails1, Quiesced, ToLadder,
  ToHandback, BackFromService, Opening, Ladder, Resets, Loop, Steady,
  FilesInv, Files
<1>1. CASE OpenTarget
  BY <1>1 DEF OpenTarget
<1>2. CASE OpenBaud
  BY <1>2 DEF OpenBaud
<1>3. CASE OpenWake
  BY <1>3 DEF OpenWake
<1>4. CASE OpenFails
  BY <1>4 DEF OpenFails
<1>5. CASE Rung
  BY <1>5 DEF Rung
<1>6. CASE RungBaud
  BY <1>6 DEF RungBaud
<1>7. CASE RungArm
  BY <1>7 DEF RungArm
<1>8. CASE RungAsk
  BY <1>8 DEF RungAsk
<1>9. CASE RungProbe
  BY <1>9 DEF RungProbe
<1>10. CASE RungHeard
  BY <1>10 DEF RungHeard
<1>11. CASE LadderFails
  BY <1>11 DEF LadderFails
<1>12. CASE Verdict
  BY <1>12 DEF Verdict
<1>13. CASE ResetBaud
  BY <1>13 DEF ResetBaud
<1>14. CASE ResetWake
  BY <1>14 DEF ResetWake
<1>15. CASE ResetSend
  BY <1>15 DEF ResetSend
<1>16. CASE ResetFails
  BY <1>16 DEF ResetFails
<1>17. CASE StartProbe
  BY <1>17 DEF StartProbe
<1>18. CASE StartReading
  BY <1>18 DEF StartReading
<1>19. CASE StartFails
  BY <1>19 DEF StartFails
<1>20. CASE LoopTop
  BY <1>20 DEF LoopTop
<1>21. CASE LoopNext
  BY <1>21 DEF LoopNext
<1>22. CASE LoopSend
  BY <1>22 DEF LoopSend
<1>23. CASE LoopSendFails
  BY <1>23 DEF LoopSendFails
<1>24. CASE SwitchQuiesce
  BY <1>24 DEF SwitchQuiesce
<1>25. CASE SwitchBaud
  BY <1>25 DEF SwitchBaud
<1>26. CASE SwitchRead
  BY <1>26 DEF SwitchRead
<1>27. CASE SwitchFails
  BY <1>27 DEF SwitchFails
<1>28. CASE WaitEnds
  BY <1>28 DEF WaitEnds
<1>29. CASE WaitTimesOut
  BY <1>29 DEF WaitTimesOut
<1>30. CASE TimedOut
  BY <1>30 DEF TimedOut
<1>31. CASE ProbeExit
  BY <1>31 DEF ProbeExit
<1>32. CASE Retire
  BY <1>32 DEF Retire
<1>33. CASE Handoff
  BY <1>33 DEF Handoff
<1>34. CASE SteadyRead
  BY <1>34 DEF SteadyRead
<1>35. CASE WakeHost
  BY <1>35 DEF WakeHost
<1>36. CASE WakeWaited
  BY <1>36 DEF WakeWaited
<1>37. CASE SteadyFails
  BY <1>37 DEF SteadyFails
<1>38. CASE ServeIbs
  BY <1>38 DEF ServeIbs
<1>39. CASE ServeEnds
  BY <1>39 DEF ServeEnds
<1>40. CASE Closed
  BY <1>40 DEF Closed
<1>41. CASE IbsClear
  BY <1>41 DEF IbsClear
<1>42. CASE IbsTake
  BY <1>42 DEF IbsTake
<1>43. CASE IbsAck
  BY <1>43 DEF IbsAck
<1>44. CASE IbsNoAck
  BY <1>44 DEF IbsNoAck
<1>45. CASE Read
  <2>1. UNCHANGED <<patch, nvms, moved, worker>>
    BY <1>45 DEF Read
  <2>2. fsm.state = "Failed" => fsm' = fsm
    <3>1. ASSUME fsm.state = "Failed", NEW a PROVE OnPacket(fsm, a, patch, nvms) = fsm
      BY <3>1 DEF OnPacket, Matches, Awaits
    <3>2. fsm' = fsm \/ fsm' = OnPacket(fsm, Head(fifo), patch, nvms)
      BY <1>45 DEF Read, Advances
    <3>3. QED
      BY <3>1, <3>2
  <2>3. QED
    BY <2>1, <2>2
<1>46. CASE IbsSignal
  BY <1>46 DEF IbsSignal
<1>47. CASE ReaderFails
  BY <1>47 DEF ReaderFails
<1>48. CASE Arrive
  BY <1>48 DEF Arrive
<1>49. CASE AskToTalk
  BY <1>49 DEF AskToTalk
<1>50. CASE Hush
  BY <1>50 DEF Hush
<1>51. CASE Die
  BY <1>51 DEF Die
<1>52. CASE RequestStop
  BY <1>52 DEF RequestStop
<1>53. CASE UNCHANGED vars
  BY <1>53
<1>54. QED
  BY <1>1, <1>2, <1>3, <1>4, <1>5, <1>6, <1>7, <1>8, <1>9, <1>10, <1>11,
    <1>12, <1>13, <1>14, <1>15, <1>16, <1>17, <1>18, <1>19, <1>20, <1>21,
    <1>22, <1>23, <1>24, <1>25, <1>26, <1>27, <1>28, <1>29, <1>30, <1>31,
    <1>32, <1>33, <1>34, <1>35, <1>36, <1>37, <1>38, <1>39, <1>40, <1>41,
    <1>42, <1>43, <1>44, <1>45, <1>46, <1>47, <1>48, <1>49, <1>50, <1>51,
    <1>52, <1>53 DEF Next, Worker, Completion, Environment, PrepareHardware,
    Identify, ResetSoc, RunProbe, ServeSteady


\* One acknowledgement at most is on its way, while the worker waits for it.
LEMMA AckStep ==
  ASSUME ~LateAnswers, IInv, DownInv, [Next]_vars
  PROVE  AckInv'
<1> USE DEF firmware, readerVars, fsmVars, lineVars, ladderVars, ibsVars,
  history, outside, counts, vars, At, Succeeds, Fails1, Quiesced, ToLadder,
  ToHandback, BackFromService, Opening, Ladder, Resets, Loop, Steady,
  DownInv, AckInv, TurnInv, Before, Searching, HasAck, Asked, Requesting,
  OneAck
<1>1. CASE OpenTarget
  BY <1>1 DEF OpenTarget
<1>2. CASE OpenBaud
  BY <1>2 DEF OpenBaud
<1>3. CASE OpenWake
  BY <1>3 DEF OpenWake
<1>4. CASE OpenFails
  BY <1>4 DEF OpenFails
<1>5. CASE Rung
  BY <1>5 DEF Rung
<1>6. CASE RungBaud
  BY <1>6 DEF RungBaud
<1>7. CASE RungArm
  BY <1>7, NoAcksAtAll DEF RungArm
<1>8. CASE RungAsk
  BY <1>8 DEF RungAsk
<1>9. CASE RungProbe
  <2>1. Command("version").ask \in Kinds \ {"ack", "segment"}
    BY CommandIs DEF Kinds, Asks
  <2>2. Acks(wire) = {} => Acks(wire') = {}
    BY <1>9, <2>1, AcksSaid DEF RungProbe, IInv
  <2>3. QED
    BY <1>9, <2>2 DEF RungProbe
<1>10. CASE RungHeard
  BY <1>10 DEF RungHeard
<1>11. CASE LadderFails
  BY <1>11 DEF LadderFails
<1>12. CASE Verdict
  BY <1>12 DEF Verdict
<1>13. CASE ResetBaud
  BY <1>13 DEF ResetBaud
<1>14. CASE ResetWake
  <2>1. Command("wake").ask \in Kinds \ {"ack", "segment"}
    BY CommandIs DEF Kinds, Asks
  <2>2. Acks(wire) = {} => Acks(wire') = {}
    BY <1>14, <2>1, AcksSaid DEF ResetWake, IInv
  <2>3. QED
    BY <1>14, <2>2 DEF ResetWake
<1>15. CASE ResetSend
  <2>1. Command("soc_reset").ask \in Kinds \ {"ack", "segment"}
    BY CommandIs DEF Kinds, Asks
  <2>2. Acks(wire) = {} => Acks(wire') = {}
    BY <1>15, <2>1, AcksSaid DEF ResetSend, IInv
  <2>3. QED
    BY <1>15, <2>2 DEF ResetSend
<1>16. CASE ResetFails
  BY <1>16 DEF ResetFails
<1>17. CASE StartProbe
  BY <1>17 DEF StartProbe
<1>18. CASE StartReading
  BY <1>18 DEF StartReading
<1>19. CASE StartFails
  BY <1>19 DEF StartFails
<1>20. CASE LoopTop
  BY <1>20 DEF LoopTop
<1>21. CASE LoopNext
  BY <1>21 DEF LoopNext
<1>22. CASE LoopSend
  <2>1. /\ UNCHANGED <<fsm, op, before, waiting, event, reading, fifo>> /\ worker = "send"
        /\ worker' = CASE op.action = "Send"       -> "wait"
                       [] op.action = "SendNoWait" -> "top"
                       [] OTHER                    -> "switch"
    BY <1>22 DEF LoopSend
  <2>2. Acks(wire) = {} /\ (reading => Acks(fifo) = {})
    BY <2>1
  <2>3. CASE op.command.ask = "segment"
    <3>1. /\ op.action \in {"Send", "SendNoWait"} /\ OneAck(wire')
          /\ op.action = "SendNoWait" => Acks(wire') = {}
      BY <1>22, <2>3, SendSegment
    <3>2. op.action = "Send" => waiting
      BY <2>1, <2>3 DEF Sending
    <3>3. QED
      BY <2>1, <2>2, <2>3, <3>1, <3>2
  <2>4. CASE op.command.ask # "segment"
    <3>1. Acks(wire') = {}
      BY <1>22, <2>4, SendOther
    <3>2. QED
      BY <2>1, <2>2, <3>1
  <2>5. QED
    BY <2>3, <2>4
<1>23. CASE LoopSendFails
  BY <1>23 DEF LoopSendFails
<1>24. CASE SwitchQuiesce
  BY <1>24 DEF SwitchQuiesce
<1>25. CASE SwitchBaud
  BY <1>25 DEF SwitchBaud
<1>26. CASE SwitchRead
  BY <1>26, NoAcksAtAll DEF SwitchRead
<1>27. CASE SwitchFails
  BY <1>27 DEF SwitchFails
<1>28. CASE WaitEnds
  BY <1>28 DEF WaitEnds
<1>29. CASE WaitTimesOut
  BY <1>29, NoAcksAtAll DEF WaitTimesOut
<1>30. CASE TimedOut
  BY <1>30 DEF TimedOut
<1>31. CASE ProbeExit
  BY <1>31 DEF ProbeExit
<1>32. CASE Retire
  BY <1>32 DEF Retire
<1>33. CASE Handoff
  BY <1>33 DEF Handoff
<1>34. CASE SteadyRead
  BY <1>34 DEF SteadyRead
<1>35. CASE WakeHost
  BY <1>35 DEF WakeHost
<1>36. CASE WakeWaited
  BY <1>36 DEF WakeWaited
<1>37. CASE SteadyFails
  BY <1>37 DEF SteadyFails
<1>38. CASE ServeIbs
  BY <1>38 DEF ServeIbs
<1>39. CASE ServeEnds
  BY <1>39 DEF ServeEnds
<1>40. CASE Closed
  BY <1>40 DEF Closed
<1>41. CASE IbsClear
  BY <1>41 DEF IbsClear
<1>42. CASE IbsTake
  BY <1>42 DEF IbsTake
<1>43. CASE IbsAck
  BY <1>43 DEF IbsAck
<1>44. CASE IbsNoAck
  BY <1>44 DEF IbsNoAck
<1>45. CASE Read
  <2>1. UNCHANGED <<worker, goal, op, reading, wire>> /\ reading /\ fifo # << >>
        /\ fifo' = Tail(fifo)
    BY <1>45 DEF Read
  <2>2. fifo \in Seq(Reply)
    BY DEF IInv, Types, Records
  <2>3. /\ Acks(fifo) = {} => Acks(fifo') = {} /\ Head(fifo).to # "ack"
        /\ OneAck(fifo) => OneAck(fifo')
        /\ OneAck(fifo) /\ Head(fifo).to = "ack" => Acks(fifo') = {} /\ Acks(fifo) # {}
    <3> HIDE DEF OneAck
    <3>1. QED
      BY <2>1, <2>2, OneAckLess
  <2>4. CASE worker \notin Loop
    BY <2>1, <2>3, <2>4
  <2>5. CASE worker \in Loop
    <3>1. HasAck' => HasAck
      BY <2>1, <2>3
    <3>2. OneAck(wire) /\ OneAck(fifo) /\ (Acks(wire) = {} \/ Acks(fifo) = {})
      BY <2>1, <2>5
    <3>3. CASE Head(fifo).to = "ack"
      <4>1. Acks(fifo') = {} /\ Acks(wire) = {}
        <5> HIDE DEF OneAck
        <5>1. QED
          BY <2>3, <3>2, <3>3
      <4>2. QED
        BY <2>1, <2>3, <2>5, <3>2, <4>1
    <3>4. CASE Head(fifo).to # "ack"
      <4>1. Asked => fsm' = fsm /\ waiting' = waiting
        BY <1>45, <2>5, <3>4, ReadInLoop
      <4>2. QED
        BY <2>1, <2>3, <2>5, <3>1, <3>2, <4>1
    <3>5. QED
      BY <3>3, <3>4
  <2>6. QED
    BY <2>4, <2>5
<1>46. CASE IbsSignal
  BY <1>46 DEF IbsSignal
<1>47. CASE ReaderFails
  BY <1>47 DEF ReaderFails
<1>48. CASE Arrive
  <2>1. UNCHANGED <<worker, goal, op, waiting, reading>> /\ wire # << >>
        /\ wire' = Tail(wire) /\ fifo' \in {fifo, Append(fifo, Head(wire))}
    BY <1>48 DEF Arrive
  <2>2. fifo \in Seq(Reply) /\ wire \in Seq(Reply)
    BY DEF IInv, Types, Records
  <2>3. /\ Head(wire) \in Reply
        /\ Acks(wire) = {} => Acks(wire') = {} /\ Head(wire).to # "ack"
        /\ OneAck(wire) => OneAck(wire')
        /\ OneAck(wire) /\ Head(wire).to = "ack" => Acks(wire') = {} /\ Acks(wire) # {}
    <3> HIDE DEF OneAck
    <3>1. QED
      BY <2>1, <2>2, OneAckLess
  <2>4. /\ Acks(fifo) = {} => OneAck(fifo')
        /\ Head(wire).to # "ack" =>
             (Acks(fifo') = {} <=> Acks(fifo) = {}) /\ (OneAck(fifo) => OneAck(fifo'))
    <3> HIDE DEF OneAck
    <3>1. QED
      BY <2>1, <2>2, <2>3, OneMoreAck, NoAcksAtAll
  <2> HIDE DEF OneAck
  <2>5. QED
    BY <2>1, <2>3, <2>4
<1>49. CASE AskToTalk
  <2>1. /\ UNCHANGED <<worker, goal, op, waiting, reading, fifo>> /\ phase = 2
        /\ wire' = <<[to |-> "wake_ind", board |-> NoBoard, rate |-> ctl.rate]>>
    BY <1>49 DEF AskToTalk
  <2>2. Acks(wire') = {}
    BY <2>1 DEF Acks
  <2>3. QED
    BY <2>1, <2>2
<1>50. CASE Hush
  BY <1>50 DEF Hush
<1>51. CASE Die
  BY <1>51 DEF Die
<1>52. CASE RequestStop
  BY <1>52 DEF RequestStop
<1>53. CASE UNCHANGED vars
  BY <1>53
<1>54. QED
  BY <1>1, <1>2, <1>3, <1>4, <1>5, <1>6, <1>7, <1>8, <1>9, <1>10, <1>11,
    <1>12, <1>13, <1>14, <1>15, <1>16, <1>17, <1>18, <1>19, <1>20, <1>21,
    <1>22, <1>23, <1>24, <1>25, <1>26, <1>27, <1>28, <1>29, <1>30, <1>31,
    <1>32, <1>33, <1>34, <1>35, <1>36, <1>37, <1>38, <1>39, <1>40, <1>41,
    <1>42, <1>43, <1>44, <1>45, <1>46, <1>47, <1>48, <1>49, <1>50, <1>51,
    <1>52, <1>53 DEF Next, Worker, Completion, Environment, PrepareHardware,
    Identify, ResetSoc, RunProbe, ServeSteady


\* The machine waits exactly while it has asked and was not answered.
LEMMA TurnStep ==
  ASSUME ~LateAnswers, IInv, DownInv, [Next]_vars
  PROVE  TurnInv'
<1> USE DEF firmware, readerVars, fsmVars, lineVars, ladderVars, ibsVars,
  history, outside, counts, vars, At, Succeeds, Fails1, Quiesced, ToLadder,
  ToHandback, BackFromService, Opening, Ladder, Resets, Loop, Steady,
  DownInv, TurnInv, Moving, Asked, Requesting, Sending, IInv, Types, Flags
<1>1. CASE OpenTarget
  BY <1>1 DEF OpenTarget
<1>2. CASE OpenBaud
  BY <1>2 DEF OpenBaud
<1>3. CASE OpenWake
  BY <1>3 DEF OpenWake
<1>4. CASE OpenFails
  BY <1>4 DEF OpenFails
<1>5. CASE Rung
  BY <1>5 DEF Rung
<1>6. CASE RungBaud
  BY <1>6 DEF RungBaud
<1>7. CASE RungArm
  BY <1>7 DEF RungArm
<1>8. CASE RungAsk
  BY <1>8 DEF RungAsk
<1>9. CASE RungProbe
  BY <1>9 DEF RungProbe
<1>10. CASE RungHeard
  BY <1>10 DEF RungHeard
<1>11. CASE LadderFails
  BY <1>11 DEF LadderFails
<1>12. CASE Verdict
  BY <1>12 DEF Verdict
<1>13. CASE ResetBaud
  BY <1>13 DEF ResetBaud
<1>14. CASE ResetWake
  BY <1>14 DEF ResetWake
<1>15. CASE ResetSend
  BY <1>15 DEF ResetSend
<1>16. CASE ResetFails
  BY <1>16 DEF ResetFails
<1>17. CASE StartProbe
  BY <1>17 DEF StartProbe
<1>18. CASE StartReading
  BY <1>18 DEF StartReading
<1>19. CASE StartFails
  BY <1>19 DEF StartFails
<1>20. CASE LoopTop
  BY <1>20 DEF LoopTop
<1>21. CASE LoopNext
  <2>1. /\ worker = "next" /\ worker \in Loop
        /\ op' = FsmNext(fsm, patch, nvms) /\ fsm' = op'.fsm
        /\ waiting' = (op'.action = "Send") /\ UNCHANGED <<before, event, phase>>
        /\ worker' = IF op'.action \in {"Done", "Failed"} THEN "exit" ELSE "send"
    BY <1>21 DEF LoopNext
  <2>2. NextSends(Files, fsm, op', ctl)
    <3>1. Usable(Files) /\ Files.patch = patch /\ Files.nvms = nvms
      BY <2>1, FilesAre
    <3>2. Machine(fsm) /\ MachineFits(Files, fsm) /\ GotAll(Files, fsm, ctl)
      BY <2>1 DEF Records, GotInv
    <3>3. QED
      BY <2>1, <3>1, <3>2, NextIs
  <2>3. QED
    BY <2>1, <2>2 DEF NextSends
<1>22. CASE LoopSend
  <2>1. /\ UNCHANGED <<fsm, op, before, waiting, event, phase>> /\ worker = "send"
        /\ worker' = CASE op.action = "Send"       -> "wait"
                       [] op.action = "SendNoWait" -> "top"
                       [] OTHER                    -> "switch"
    BY <1>22 DEF LoopSend
  <2>2. op.action \in {"Send", "SendNoWait", "SendBaudAndSwitch"}
    BY <2>1 DEF MachineInv, Records, Actions
  <2>3. QED
    BY <2>1, <2>2
<1>23. CASE LoopSendFails
  <2>1. /\ UNCHANGED <<op, before, waiting, event, phase>> /\ worker = "send"
        /\ IF before = "BoardIdRequest"
             THEN worker' = "top" /\ fsm' = OnBoardIdTimeout(fsm, nvms)
             ELSE worker' = "exit"
    BY <1>23 DEF LoopSendFails
  <2>2. fsm.state = "BoardIdRequest" =>
          OnBoardIdTimeout(fsm, nvms).state \in {"NvmDownload", "Failed"}
    BY <2>1, BoardTimeoutIs
  <2>3. fsm.state = "Failed" => OnBoardIdTimeout(fsm, nvms) = fsm
    BY DEF OnBoardIdTimeout
  <2>4. QED
    BY <2>1, <2>2, <2>3
<1>24. CASE SwitchQuiesce
  BY <1>24 DEF SwitchQuiesce
<1>25. CASE SwitchBaud
  BY <1>25 DEF SwitchBaud
<1>26. CASE SwitchRead
  BY <1>26 DEF SwitchRead
<1>27. CASE SwitchFails
  BY <1>27 DEF SwitchFails
<1>28. CASE WaitEnds
  BY <1>28 DEF WaitEnds
<1>29. CASE WaitTimesOut
  BY <1>29 DEF WaitTimesOut
<1>30. CASE TimedOut
  <2>1. /\ UNCHANGED <<op, before, waiting, event, phase>> /\ worker = "timedout"
        /\ waiting
    BY <1>30 DEF TimedOut
  <2>2. worker' \in {"top", "exit"}
    BY <1>30 DEF TimedOut
  <2>3. CASE worker' = "top" /\ before = "BoardIdRequest"
    <3>1. fsm' = OnBoardIdTimeout(fsm, nvms) /\ fsm.state \in {"BoardIdRequest", "Failed"}
      BY <1>30, <2>1, <2>3 DEF TimedOut
    <3>2. fsm'.state \in {"NvmDownload", "Failed"}
      BY <2>1, <3>1, BoardTimeoutIs DEF OnBoardIdTimeout
    <3>3. QED
      BY <2>1, <2>3, <3>2
  <2>4. CASE worker' = "top" /\ before # "BoardIdRequest"
    <3>1. before = "NvmDownload" /\ fsm' = OnNvmFailure(fsm, nvms)
      BY <1>30, <2>4 DEF TimedOut
    <3>2. fsm'.state \in {"NvmDownload", "Failed"}
      BY <2>1, <3>1, NvmTimeoutIs
    <3>3. QED
      BY <2>1, <2>4, <3>2
  <2>5. QED
    BY <2>1, <2>2, <2>3, <2>4
<1>31. CASE ProbeExit
  BY <1>31 DEF ProbeExit
<1>32. CASE Retire
  BY <1>32 DEF Retire
<1>33. CASE Handoff
  BY <1>33 DEF Handoff
<1>34. CASE SteadyRead
  BY <1>34 DEF SteadyRead
<1>35. CASE WakeHost
  BY <1>35 DEF WakeHost
<1>36. CASE WakeWaited
  BY <1>36 DEF WakeWaited
<1>37. CASE SteadyFails
  BY <1>37 DEF SteadyFails
<1>38. CASE ServeIbs
  BY <1>38 DEF ServeIbs
<1>39. CASE ServeEnds
  BY <1>39 DEF ServeEnds
<1>40. CASE Closed
  BY <1>40 DEF Closed
<1>41. CASE IbsClear
  BY <1>41 DEF IbsClear
<1>42. CASE IbsTake
  BY <1>42 DEF IbsTake
<1>43. CASE IbsAck
  BY <1>43 DEF IbsAck
<1>44. CASE IbsNoAck
  BY <1>44 DEF IbsNoAck
<1>45. CASE Read
  <2>1. UNCHANGED <<worker, op, before, phase>>
    BY <1>45 DEF Read
  <2>2. CASE worker \in Loop
    <3> DEFINE a == Head(fifo)
    <3>1. /\ UNCHANGED <<waiting, event>> \/ (waiting /\ ~waiting' /\ event')
          /\ ~waiting => fsm' = fsm
          /\ a.to = "ack" => worker = "wait" /\ Asked /\ ~waiting'
          /\ a.to # "ack" /\ fsm.state \in {"PatchDownload", "NvmDownload", "Failed"} =>
               UNCHANGED <<fsm, waiting, event>>
          /\ fsm.state = "BoardIdRequest" /\ waiting' =>
               fsm'.state \in {"BoardIdRequest", "Failed"}
      BY <1>45, <2>2, ReadInLoop
    <3>2. reading /\ fifo # << >>
      BY <1>45 DEF Read
    <3>3. worker # "timedout"
      BY <3>2 DEF AckInv
    <3> HIDE DEF a
    <3>4. QED
      BY <2>1, <2>2, <3>1, <3>3
  <2>3. CASE worker \notin Loop
    <3>1. waiting' => waiting
      BY <1>45 DEF Read, Identifies, Advances
    <3>2. QED
      BY <2>1, <2>3, <3>1
  <2>4. QED
    BY <2>2, <2>3
<1>46. CASE IbsSignal
  BY <1>46 DEF IbsSignal
<1>47. CASE ReaderFails
  BY <1>47 DEF ReaderFails, Identifying
<1>48. CASE Arrive
  BY <1>48 DEF Arrive
<1>49. CASE AskToTalk
  BY <1>49 DEF AskToTalk
<1>50. CASE Hush
  BY <1>50 DEF Hush
<1>51. CASE Die
  BY <1>51 DEF Die
<1>52. CASE RequestStop
  BY <1>52 DEF RequestStop
<1>53. CASE UNCHANGED vars
  BY <1>53
<1>54. QED
  BY <1>1, <1>2, <1>3, <1>4, <1>5, <1>6, <1>7, <1>8, <1>9, <1>10, <1>11,
    <1>12, <1>13, <1>14, <1>15, <1>16, <1>17, <1>18, <1>19, <1>20, <1>21,
    <1>22, <1>23, <1>24, <1>25, <1>26, <1>27, <1>28, <1>29, <1>30, <1>31,
    <1>32, <1>33, <1>34, <1>35, <1>36, <1>37, <1>38, <1>39, <1>40, <1>41,
    <1>42, <1>43, <1>44, <1>45, <1>46, <1>47, <1>48, <1>49, <1>50, <1>51,
    <1>52, <1>53 DEF Next, Worker, Completion, Environment, PrepareHardware,
    Identify, ResetSoc, RunProbe, ServeSteady


\* What was acknowledged, and what was sent without, has arrived.
LEMMA GotStep ==
  ASSUME ~LateAnswers, IInv, DownInv, [Next]_vars
  PROVE  GotInv'
<1> USE DEF firmware, readerVars, fsmVars, lineVars, ladderVars, ibsVars,
  history, outside, counts, vars, At, Succeeds, Fails1, Quiesced, ToLadder,
  ToHandback, BackFromService, Opening, Ladder, Resets, Loop, Steady,
  DownInv, TurnInv, GotInv, Before, Searching, Moving, Asked, Requesting,
  Sending, Files
<1>1. CASE OpenTarget
  BY <1>1 DEF OpenTarget
<1>2. CASE OpenBaud
  BY <1>2 DEF OpenBaud
<1>3. CASE OpenWake
  BY <1>3 DEF OpenWake
<1>4. CASE OpenFails
  BY <1>4 DEF OpenFails
<1>5. CASE Rung
  BY <1>5 DEF Rung
<1>6. CASE RungBaud
  BY <1>6 DEF RungBaud
<1>7. CASE RungArm
  BY <1>7 DEF RungArm
<1>8. CASE RungAsk
  BY <1>8 DEF RungAsk
<1>9. CASE RungProbe
  <2>1. ctl'.got = ctl.got
    BY <1>9, WritesAre, SaidIs, CommandIs DEF IInv, RungProbe
  <2>2. QED
    BY <1>9, <2>1 DEF RungProbe
<1>10. CASE RungHeard
  BY <1>10 DEF RungHeard
<1>11. CASE LadderFails
  BY <1>11 DEF LadderFails
<1>12. CASE Verdict
  BY <1>12 DEF Verdict
<1>13. CASE ResetBaud
  BY <1>13 DEF ResetBaud
<1>14. CASE ResetWake
  <2>1. ctl'.got = ctl.got
    BY <1>14, WritesAre, SaidIs, CommandIs DEF IInv, ResetWake
  <2>2. QED
    BY <1>14, <2>1 DEF ResetWake
<1>15. CASE ResetSend
  <2>1. ctl' = ctl \/ ctl' = Obeyed(Command("soc_reset"))
    BY <1>15, WritesAre DEF IInv, Said
  <2>2. Controller(ctl)
    BY DEF IInv, Types, Records
  <2>3. ctl.got = << >> => ctl'.got = << >>
    BY <2>1, <2>2, ObeyedIs, CommandIs
  <2>4. QED
    BY <1>15, <2>3 DEF ResetSend
<1>16. CASE ResetFails
  BY <1>16 DEF ResetFails
<1>17. CASE StartProbe
  BY <1>17 DEF StartProbe
<1>18. CASE StartReading
  <2>1. /\ worker = "fsmread" /\ worker' = "top" /\ UNCHANGED <<patch, nvms, fsm, ctl, op>>
    BY <1>18 DEF StartReading
  <2>2. fsm.state = "Start" /\ ctl.got = << >> /\ ctl.awake
    BY <2>1 DEF IInv, MachineInv, RateInv, AtInit
  <2>3. GotAll(Files, fsm, ctl)
    BY <2>2 DEF GotAll, Early, Late
  <2>4. QED
    BY <2>1, <2>2, <2>3
<1>19. CASE StartFails
  BY <1>19 DEF StartFails
<1>20. CASE LoopTop
  BY <1>20 DEF LoopTop
<1>21. CASE LoopNext
  <2>1. /\ worker = "next" /\ worker \in Loop
        /\ op' = FsmNext(fsm, patch, nvms) /\ fsm' = op'.fsm
        /\ UNCHANGED <<patch, nvms, ctl>>
        /\ worker' = IF op'.action \in {"Done", "Failed"} THEN "exit" ELSE "send"
    BY <1>21 DEF LoopNext
  <2>2. NextSends(Files, fsm, op', ctl)
    <3>1. Usable(Files) /\ Files.patch = patch /\ Files.nvms = nvms
      BY <2>1, FilesAre
    <3>2. Machine(fsm) /\ MachineFits(Files, fsm) /\ GotAll(Files, fsm, ctl)
      BY <2>1 DEF IInv, Types, Records
    <3>3. QED
      BY <2>1, <3>1, <3>2, NextIs
  <2>3. op'.command.ask = "segment" /\ worker' = "send" =>
          SendingNext(Files, fsm', op', ctl')
    BY <2>1, <2>2 DEF NextSends
  <2>4. op'.command.ask # "segment" /\ worker' = "send" => GotAll(Files, fsm', ctl')
    BY <2>1, <2>2 DEF NextSends
  <2>5. MachineFits(Files, fsm')
    BY <2>1, <2>2 DEF NextSends
  <2>6. QED
    BY <2>1, <2>3, <2>4, <2>5
<1>22. CASE LoopSend
  <2>1. /\ UNCHANGED <<fsm, op, waiting, reading, fifo, patch, nvms>> /\ worker = "send"
        /\ worker' = CASE op.action = "Send"       -> "wait"
                       [] op.action = "SendNoWait" -> "top"
                       [] OTHER                    -> "switch"
    BY <1>22 DEF LoopSend
  <2>2. ctl'.awake
    BY <1>22, <2>1, WritesAre, SaidIs DEF IInv
  <2>3. CASE op.command.ask = "segment"
    <3>1. /\ op.action \in {"Send", "SendNoWait"} /\ (reading => Acks(fifo) = {})
          /\ op.action = "Send" => GotSent(Files, fsm, ctl', Acks(wire') # {})
          /\ op.action = "SendNoWait" => GotAll(Files, fsm, ctl')
      BY <1>22, <2>3, SendSegment
    <3>2. op.action = "Send" => GotSent(Files, fsm, ctl', HasAck')
      BY <2>1, <3>1, FewerAcks DEF HasAck
    <3>3. op.action = "Send" => waiting
      BY <2>1, <2>3
    <3>4. QED
      BY <2>1, <2>2, <2>3, <3>1, <3>2, <3>3
  <2>4. CASE op.command.ask # "segment"
    <3>1. GotAll(Files, fsm, ctl')
      BY <1>22, <2>4, SendOther
    <3>2. worker' \in Loop /\ worker' # "send"
      BY <2>1
    <3>3. QED
      BY <2>1, <2>2, <2>4, <3>1, <3>2
  <2>5. QED
    BY <2>3, <2>4
<1>23. CASE LoopSendFails
  <2>1. /\ UNCHANGED <<op, ctl, patch, nvms>> /\ worker = "send"
        /\ IF before = "BoardIdRequest"
             THEN worker' = "top" /\ fsm' = OnBoardIdTimeout(fsm, nvms)
             ELSE worker' = "exit" /\ fsm' = fsm
    BY <1>23 DEF LoopSendFails
  <2>2. CASE before = "BoardIdRequest"
    <3>1. GotAll(Files, fsm, ctl) /\ Machine(fsm) /\ MachineFits(Files, fsm)
      BY <2>1, <2>2 DEF IInv, Types, Records
    <3>2. Usable(Files) /\ Files.nvms = nvms
      BY <2>1, FilesAre
    <3>3. MachineFits(Files, fsm') /\ GotAll(Files, fsm', ctl)
      BY <2>1, <2>2, <3>1, <3>2, TimeoutKeeps
    <3>4. QED
      BY <2>1, <2>2, <3>3
  <2>3. CASE before # "BoardIdRequest"
    BY <2>1, <2>3
  <2>4. QED
    BY <2>2, <2>3
<1>24. CASE SwitchQuiesce
  BY <1>24 DEF SwitchQuiesce
<1>25. CASE SwitchBaud
  BY <1>25 DEF SwitchBaud
<1>26. CASE SwitchRead
  BY <1>26 DEF SwitchRead
<1>27. CASE SwitchFails
  BY <1>27 DEF SwitchFails
<1>28. CASE WaitEnds
  BY <1>28 DEF WaitEnds
<1>29. CASE WaitTimesOut
  BY <1>29 DEF WaitTimesOut, HasAck
<1>30. CASE TimedOut
  <2>1. /\ UNCHANGED <<op, ctl, patch, nvms>> /\ worker = "timedout"
        /\ worker' \in {"top", "exit"}
    BY <1>30 DEF TimedOut
  <2>2. CASE ~stop /\ before = "BoardIdRequest"
    <3>1. fsm' = OnBoardIdTimeout(fsm, nvms)
      BY <1>30, <2>2 DEF TimedOut
    <3>2. GotAll(Files, fsm, ctl) /\ Machine(fsm) /\ MachineFits(Files, fsm)
      BY <2>1, <2>2 DEF IInv, Types, Records
    <3>3. Usable(Files) /\ Files.nvms = nvms
      BY <2>1, FilesAre
    <3>4. MachineFits(Files, fsm') /\ GotAll(Files, fsm', ctl)
      BY <3>1, <3>2, <3>3, TimeoutKeeps
    <3>5. QED
      BY <2>1, <3>4
  <2>3. CASE ~stop /\ before = "NvmDownload" /\ ~fsm.fallbackUsed
    <3>1. fsm' = OnNvmFailure(fsm, nvms)
      BY <1>30, <2>3 DEF TimedOut
    <3>2. MachineFits(Files, fsm') /\ GotAll(Files, fsm', ctl)
      BY <2>1, <2>3, <3>1, NvmTimeoutIs
    <3>3. QED
      BY <2>1, <3>2
  <2>4. CASE /\ stop \/ before # "BoardIdRequest"
             /\ stop \/ before # "NvmDownload" \/ fsm.fallbackUsed
    <3>1. fsm' = fsm /\ worker' = "exit"
      BY <1>30, <2>4 DEF TimedOut
    <3>2. QED
      BY <2>1, <3>1
  <2>5. QED
    BY <2>2, <2>3, <2>4
<1>31. CASE ProbeExit
  BY <1>31 DEF ProbeExit
<1>32. CASE Retire
  BY <1>32 DEF Retire
<1>33. CASE Handoff
  BY <1>33 DEF Handoff
<1>34. CASE SteadyRead
  BY <1>34 DEF SteadyRead
<1>35. CASE WakeHost
  BY <1>35 DEF WakeHost
<1>36. CASE WakeWaited
  BY <1>36 DEF WakeWaited
<1>37. CASE SteadyFails
  BY <1>37 DEF SteadyFails
<1>38. CASE ServeIbs
  BY <1>38 DEF ServeIbs
<1>39. CASE ServeEnds
  BY <1>39 DEF ServeEnds
<1>40. CASE Closed
  BY <1>40 DEF Closed
<1>41. CASE IbsClear
  BY <1>41 DEF IbsClear
<1>42. CASE IbsTake
  BY <1>42 DEF IbsTake
<1>43. CASE IbsAck
  BY <1>43 DEF IbsAck
<1>44. CASE IbsNoAck
  BY <1>44 DEF IbsNoAck
<1>45. CASE Read
  <2>1. /\ UNCHANGED <<worker, goal, op, ctl, patch, nvms, reading, wire>>
        /\ reading /\ fifo # << >> /\ fifo' = Tail(fifo)
    BY <1>45 DEF Read
  <2>2. HasAck' => HasAck
    <3>1. fifo \in Seq(Reply)
      BY DEF IInv, Types, Records
    <3>2. Acks(fifo) = {} => Acks(fifo') = {}
      BY <2>1, <3>1, OneAckLess
    <3>3. QED
      BY <2>1, <3>2 DEF HasAck
  <2>3. CASE worker \in Loop
    <3>1. MachineFits(Files, fsm')
      BY <1>45, <2>3, ReadInLoop
    <3>2. CASE Head(fifo).to = "ack"
      <4>1. worker = "wait" /\ GotAll(Files, fsm', ctl) /\ ~waiting'
        BY <1>45, <2>3, <3>2, ReadInLoop
      <4>2. QED
        BY <2>1, <3>1, <4>1
    <3>3. CASE Head(fifo).to # "ack" /\ (Sending \/ Asked)
      <4>1. fsm.state \in {"PatchDownload", "NvmDownload"}
        BY <3>3 DEF SendingNext
      <4>2. fsm' = fsm /\ waiting' = waiting
        BY <1>45, <2>3, <3>3, <4>1, ReadInLoop
      <4>3. Asked /\ ~Sending => GotSent(Files, fsm, ctl, HasAck')
        BY <2>2, FewerAcks
      <4>4. QED
        BY <2>1, <2>3, <3>1, <4>2, <4>3
    <3>4. CASE Head(fifo).to # "ack" /\ ~Sending /\ ~Asked
      <4>1. GotAll(Files, fsm', ctl)
        BY <1>45, <2>3, <3>4, ReadInLoop
      <4>2. waiting' => waiting
        BY <1>45, <2>3, ReadInLoop
      <4>3. QED
        BY <2>1, <2>3, <3>1, <3>4, <4>1, <4>2
    <3>5. QED
      BY <3>2, <3>3, <3>4
  <2>4. CASE worker \notin Loop
    <3>1. fsm' = fsm \/ fsm' = OnPacket(fsm, Head(fifo), patch, nvms)
      BY <1>45 DEF Read, Advances
    <3>2. MachineFits(Files, OnPacket(fsm, Head(fifo), patch, nvms))
      <4>1. CASE FsmValid(patch, nvms)
        <5>1. Usable(Files) /\ Files.patch = patch /\ Files.nvms = nvms
          BY <4>1 DEF Usable, FilesInv
        <5>2. QED
          BY <5>1, PacketFits DEF IInv, Types, Records
      <4>2. CASE ~FsmValid(patch, nvms)
        <5>1. fsm.state = "Failed"
          BY <4>2 DEF FilesInv
        <5>2. OnPacket(fsm, Head(fifo), patch, nvms) = fsm
          BY <5>1 DEF OnPacket, Matches, Awaits
        <5>3. QED
          BY <5>2
      <4>3. QED
        BY <4>1, <4>2
    <3>3. MachineFits(Files, fsm')
      BY <3>1, <3>2
    <3>4. QED
      BY <2>1, <2>4, <3>3
  <2>5. QED
    BY <2>3, <2>4
<1>46. CASE IbsSignal
  BY <1>46 DEF IbsSignal, HasAck
<1>47. CASE ReaderFails
  <2>1. UNCHANGED <<worker, goal, fsm, op, ctl, waiting, patch, nvms, wire>> /\ ~reading'
    BY <1>47 DEF ReaderFails
  <2>2. Asked /\ ~Sending => GotSent(Files, fsm, ctl, HasAck')
    BY <2>1, FewerAcks DEF HasAck
  <2>3. QED
    BY <2>1, <2>2
<1>48. CASE Arrive
  <2>1. /\ UNCHANGED <<worker, goal, fsm, op, ctl, waiting, patch, nvms, reading>>
        /\ wire # << >> /\ wire' = Tail(wire)
        /\ fifo' \in {fifo, Append(fifo, Head(wire))}
    BY <1>48 DEF Arrive
  <2>2. HasAck' => HasAck
    <3>1. fifo \in Seq(Reply) /\ wire \in Seq(Reply)
      BY DEF IInv, Types, Records
    <3>2. /\ Acks(wire) = {} => Acks(wire') = {} /\ Head(wire).to # "ack"
          /\ Head(wire) \in Reply
      BY <2>1, <3>1, OneAckLess
    <3>3. Acks(wire) = {} /\ Acks(fifo) = {} => Acks(fifo') = {}
      BY <2>1, <3>1, <3>2, OneMoreAck
    <3>4. QED
      BY <2>1, <3>2, <3>3 DEF HasAck
  <2>3. Asked /\ ~Sending => GotSent(Files, fsm, ctl, HasAck')
    BY <2>2, FewerAcks
  <2>4. QED
    BY <2>1, <2>3
<1>49. CASE AskToTalk
  BY <1>49 DEF AskToTalk
<1>50. CASE Hush
  <2>1. /\ UNCHANGED <<worker, goal, fsm, op, waiting, patch, nvms, reading, wire, fifo>>
        /\ ctl' = [ctl EXCEPT !.talk = "quiet"]
    BY <1>50 DEF Hush
  <2>2. ctl'.got = ctl.got /\ ctl'.alive = ctl.alive /\ ctl'.awake = ctl.awake
    BY <2>1 DEF IInv, Types, Records, Controller
  <2>3. QED
    BY <2>1, <2>2, SameGot DEF HasAck
<1>51. CASE Die
  <2>1. /\ UNCHANGED <<worker, goal, fsm, op, waiting, patch, nvms, reading, wire, fifo>>
        /\ ctl' = [ctl EXCEPT !.alive = FALSE]
    BY <1>51 DEF Die
  <2>2. ctl'.got = ctl.got /\ ~ctl'.alive /\ ctl'.awake = ctl.awake
    BY <2>1 DEF IInv, Types, Records, Controller
  <2>3. QED
    BY <2>1, <2>2, SameGot DEF HasAck
<1>52. CASE RequestStop
  BY <1>52 DEF RequestStop, HasAck
<1>53. CASE UNCHANGED vars
  BY <1>53 DEF HasAck
<1>54. QED
  BY <1>1, <1>2, <1>3, <1>4, <1>5, <1>6, <1>7, <1>8, <1>9, <1>10, <1>11,
    <1>12, <1>13, <1>14, <1>15, <1>16, <1>17, <1>18, <1>19, <1>20, <1>21,
    <1>22, <1>23, <1>24, <1>25, <1>26, <1>27, <1>28, <1>29, <1>30, <1>31,
    <1>32, <1>33, <1>34, <1>35, <1>36, <1>37, <1>38, <1>39, <1>40, <1>41,
    <1>42, <1>43, <1>44, <1>45, <1>46, <1>47, <1>48, <1>49, <1>50, <1>51,
    <1>52, <1>53 DEF Next, Worker, Completion, Environment, PrepareHardware,
    Identify, ResetSoc, RunProbe, ServeSteady

LEMMA DownInitially ==
  ASSUME Init
  PROVE  DownInv
<1>1. worker = "open" /\ wire = << >> /\ fifo = << >> /\ ctl.got = << >>
  BY DEF Init
<1>2. Acks(wire) = {} /\ Acks(fifo) = {}
  BY <1>1, NoAcksAtAll
<1>3. AckInv
  BY <1>1, <1>2 DEF AckInv, Loop
<1>4. TurnInv
  BY <1>1 DEF TurnInv, Loop, Sending, Requesting, Moving, Asked
<1>5. FilesInv
  <2>1. FsmValid(patch, nvms) \/ fsm.state = "Failed"
    BY DEF Init, FsmInit
  <2>2. QED
    BY <1>1, <2>1 DEF Init, FilesInv, Opening
<1>6. MachineFits(Files, fsm)
  <2>1. fsm = FsmInit(patch, nvms)
    BY DEF Init
  <2>2. fsm.state \in {"Start", "Failed"} /\ fsm.patchIndex = 0 /\ fsm.nvmIndex = 0
    BY <2>1 DEF FsmInit
  <2>3. QED
    BY <2>2 DEF MachineFits, Early, Late
<1>7. GotInv
  BY <1>1, <1>6 DEF GotInv, Loop, Sending, Asked, Requesting
<1>8. QED
  BY <1>3, <1>4, <1>5, <1>7 DEF DownInv

(***************************************************************************)
(* The controller has whole images: when the machine has left the download *)
(* it has received each segment of the patch and of the selected image     *)
(* once and in order, whatever the images, whichever of their segments go  *)
(* without an acknowledgement, and whatever was lost, if an answer that is *)
(* not there in time does not come at all.                                 *)
(***************************************************************************)
THEOREM ImagesArriveWhole ==
  ASSUME ~LateAnswers
  PROVE  Spec => []ImagesWhole
<1>1. Init => DownInv
  BY DownInitially
<1>2. IInv /\ DownInv /\ [Next]_vars => DownInv'
  <2> SUFFICES ASSUME IInv, DownInv, [Next]_vars PROVE DownInv'
    OBVIOUS
  <2>1. FilesInv' /\ AckInv' /\ TurnInv' /\ GotInv'
    BY FilesStep, AckStep, TurnStep, GotStep DEF DownInv
  <2>2. QED
    BY <2>1 DEF DownInv
<1>3. DownInv => ImagesWhole
  <2> SUFFICES ASSUME DownInv, worker \in Loop, fsm.state \in Late
               PROVE  GotUpTo(SegmentCount(Image(fsm.selected)))
    BY DEF ImagesWhole, Late
  <2>1. ~Asked /\ ~Sending
    BY DEF DownInv, TurnInv, GotInv, Late, SendingNext, Asked
  <2>2. GotAll(Files, fsm, ctl)
    BY <2>1 DEF DownInv, GotInv
  <2>3. UpTo(Files, fsm, ctl.got, Count(Files, fsm.selected))
    BY <2>2 DEF GotAll
  <2>4. QED
    BY <2>3, UpToIs DEF Count
<1>4. QED
  BY <1>1, <1>2, <1>3, Invariant, PTL DEF Spec
=============================================================================
