----------------------------- MODULE QcaBringUp -----------------------------
(***************************************************************************)
(* How the worker finds the controller, brings it up, keeps it awake and   *)
(* hands it back (QcaUartRunProbe, QcaUartServeSteady and what they call   *)
(* in src/src/driver/qca_uart.c; common/qca_identify.c): the ladder of     *)
(* baud rates, the reset, the loop around the machine of QcaInitFsm, the   *)
(* switch of the baud rate, the in-band sleep handshake.                   *)
(*                                                                         *)
(* Two processes share the line: the worker, and the read completion that  *)
(* delivers an answer.  The controller, external, runs at its own rate;    *)
(* what is said at another rate is lost.  ReadPump has the details of the  *)
(* reader, UartSession those of the stop.                                  *)
(*                                                                         *)
(* A definition BugXxx is a variant of the next definition with a          *)
(* plausible mistake, used only to show which property notices it.         *)
(***************************************************************************)
EXTENDS QcaInitFsm, FiniteSets

CONSTANTS
  Firmware,       \* what the files may hold: [patch: an image, nvms: board -> image]
  Boards,         \* board IDs the controller may answer
  Entries,        \* states of the controller at the start
  WakeTries,      \* QCA_UART_IBS_WAKE_TRIES
  MaxTroubles,    \* bound: requests the lower driver fails, commands the
                  \* controller does not answer, its death
  MaxAsks,        \* bound: times the controller wants to talk
  LateAnswers     \* may an answer come after the wait for it has ended?

Rates == <<"init", "oper", "high">>   \* 115200, 3000000, 3200000 (no host can)

ASSUME BringUpAssumption ==
  /\ WakeTries \in Nat /\ MaxTroubles \in Nat /\ MaxAsks \in Nat
  /\ LateAnswers \in BOOLEAN
  /\ \A e \in Entries : e \in [fw : {"rom", "patched"}, rate : {"init", "oper"},
                               awake : BOOLEAN]
  /\ \A e \in Entries : e.rate = "init" => e.fw = "rom"
  /\ \A f \in Firmware :
       /\ f.patch.size \in Nat /\ "patch" \notin DOMAIN f.nvms
       /\ \A b \in DOMAIN f.nvms :
            f.nvms[b].size \in Nat /\ f.nvms[b].tags \in Seq([hci : BOOLEAN, len : Nat])

VARIABLES
  worker,    \* the worker's place
  goal,      \* what a ladder or reset is for: "entry", "check", "handback"
  stop,      \* StopRequested
  port,      \* the rate the host UART is set to
  flow,      \* its flow control: "none" when opened, "handshake", or "manual" RTS
  rate,      \* CurrentBaudRate
  moved,     \* BaudFinal is not the initial rate
  reading,   \* the read pump runs
  waiting,   \* FsmWaitingForEvent
  event,     \* FsmEvent
  readFault, \* IdentifyReadStatus is a failure
  ident,     \* QCA_IDENTIFY: rungs tried, the rate that answered
  target,    \* the rate a reset is sent at
  fsm, before, op,  \* the machine, its state before the step, the step's result
  patch, nvms,
  phase,
  ibs, tries,  \* the sleep handshake of the steady session
  ctl,       \* external: the controller
  wire,      \* external: what it sent and the host UART has not received
  fifo,      \* external: what the host UART holds for the reader
  troubles, asks,
  touched,   \* history: this session told the controller to change its rate
  unnoted,   \* history: a request failed before the new rate was noted
  excused    \* history: the handback met a fault or a silent controller

firmware  == <<patch, nvms>>
readerVars == <<reading, waiting, event, readFault>>
fsmVars   == <<fsm, before, op>>
lineVars  == <<port, rate, flow>>
ladderVars == <<goal, ident, target>>
ibsVars   == <<ibs, tries>>
history   == <<touched, unnoted, excused>>
outside   == <<ctl, wire>>
counts    == <<troubles, asks>>
vars == <<worker, stop, moved, phase, fifo, firmware, readerVars, fsmVars,
          lineVars, ladderVars, ibsVars, history, outside, counts>>

Opening == {"open", "openbaud", "openwake"}
Ladder  == {"rung", "setbaud", "arm", "ask", "probe", "listen", "verdict"}
Resets  == {"reset", "wakebytes", "socreset"}
Loop    == {"top", "next", "send", "switch", "switchbaud", "switchread", "wait", "timedout"}
Steady  == {"handoff", "steadyread", "wake", "wakewait", "serve", "clear", "take", "ack"}

TypeOK ==
  /\ worker \in Opening \cup Ladder \cup Resets \cup Loop \cup Steady
                  \cup {"start", "fsmread", "exit", "close", "stop", "end"}
  /\ goal \in {"entry", "check", "handback"}
  /\ port \in {"init", "oper"} /\ rate \in {"init", "oper"}
  /\ flow \in {"none", "handshake", "manual"}
  /\ target \in {"init", "oper"} /\ phase \in 0..3
  /\ {stop, moved, reading, waiting, event, readFault} \subseteq BOOLEAN
  /\ {touched, unnoted, excused} \subseteq BOOLEAN
  /\ ident \in [tried : 0..3, at : {"none", "init", "oper", "high"}]
  /\ fsm.state \in States /\ before \in States /\ op.action \in Actions
  /\ tries \in 0..WakeTries
  /\ ibs \in [awake : BOOLEAN, pending : BOOLEAN, work : BOOLEAN, signal : BOOLEAN]
  /\ troubles \in 0..MaxTroubles /\ asks \in 0..MaxAsks

NoIdent == [tried |-> 0, at |-> "none"]
NoIbs   == [awake |-> FALSE, pending |-> FALSE, work |-> FALSE, signal |-> FALSE]

\* The files are read before anything is sent; a file that is missing or
\* bad ends the bring-up here.
Init ==
  /\ worker = "open" /\ goal = "entry" /\ stop = FALSE
  /\ port = "init" /\ rate = "init" /\ flow = "none" /\ moved = FALSE
  /\ reading = FALSE /\ waiting = FALSE /\ event = FALSE /\ readFault = FALSE
  /\ ident = NoIdent /\ target = "oper"
  /\ \E f \in Firmware : patch = f.patch /\ nvms = f.nvms
  /\ fsm = FsmInit(patch, nvms) /\ before = "Start" /\ op = Refused(fsm)
  /\ phase = 0 /\ ibs = NoIbs /\ tries = 0
  /\ \E e \in Entries : ctl = [fw |-> e.fw, rate |-> e.rate, awake |-> e.awake,
                               got |-> <<>>, alive |-> TRUE, talk |-> "quiet"]
  /\ wire = <<>> /\ fifo = <<>> /\ troubles = 0 /\ asks = 0
  /\ touched = FALSE /\ unnoted = FALSE /\ excused = FALSE

-----------------------------------------------------------------------------
(***************************************************************************)
(* The controller, and a write that reaches it.                            *)
(***************************************************************************)
Hears == ctl.alive /\ ctl.rate = port

\* A sleeping controller takes only the wake byte.
Understands(cmd) == Hears /\ (ctl.awake \/ cmd.ask = "wake")

Image(file) == IF file = "patch" THEN patch ELSE nvms[file]

Obeyed(cmd) ==
  CASE cmd.ask = "baud"      -> [ctl EXCEPT !.rate = "oper"]
    [] cmd.ask = "segment"   ->
         [ctl EXCEPT !.got = Append(@, cmd),
                     !.fw = IF cmd.file = "patch" /\ cmd.index = SegmentCount(patch) - 1
                              THEN "patched" ELSE @]
    [] cmd.ask = "soc_reset" -> [ctl EXCEPT !.fw = "rom", !.rate = "init", !.got = <<>>,
                                            !.talk = "quiet"]
    [] cmd.ask = "wake"      -> [ctl EXCEPT !.awake = TRUE]
    [] cmd.ask = "wake_ack"  -> [ctl EXCEPT !.talk = IF @ = "asking" THEN "talking" ELSE @]
    [] OTHER                 -> ctl

Answer(to, board) == [to |-> to, board |-> board, rate |-> Obeyed(Command(to)).rate]

Answers(cmd) ==
  CASE cmd.ask = "segment" ->
         IF AckExpected(Image(cmd.file), cmd.index,
                        IF cmd.file = "patch" THEN patch.mode ELSE "none")
           THEN {<<Answer("ack", NoBoard)>>} ELSE {<<>>}
    [] cmd.ask = "board" -> {<<Answer("board", b)>> : b \in Boards}
    [] cmd.ask = "wake"  -> {IF phase = 2 THEN <<Answer("wake_ack", NoBoard)>> ELSE <<>>}
    [] cmd.ask \in {"soc_reset", "wake_ack"} -> {<<>>}
    [] OTHER -> {<<Answer(cmd.ask, NoBoard)>>}

\* What is still on its way when a command is written: nothing 200 ms after a
\* reset, and what then has arrived the next rung purges.
InFlight(cmd) == IF cmd.ask = "soc_reset" THEN <<>> ELSE wire

\* 0xFC48 and a segment that is not acknowledged are taken as obeyed.
Ignorable(cmd) == cmd.ask # "baud" /\ (cmd.ask = "segment" => Answers(cmd) # {<<>>})

Says(cmd) ==
  \/ /\ Understands(cmd) /\ ctl' = Obeyed(cmd)
     /\ \E a \in Answers(cmd) : wire' = InFlight(cmd) \o a
     /\ UNCHANGED troubles
  \/ /\ Understands(cmd) /\ Ignorable(cmd) /\ troubles < MaxTroubles
     /\ troubles' = troubles + 1
     /\ ctl' \in {ctl, Obeyed(cmd)} /\ wire' = InFlight(cmd)
  \/ ~Understands(cmd) /\ wire' = InFlight(cmd) /\ UNCHANGED <<ctl, troubles>>

\* A request succeeds, unless the session is stopped; or it fails.
Succeeds == ~stop
Fails1   ==
  /\ IF stop THEN UNCHANGED troubles ELSE troubles < MaxTroubles /\ troubles' = troubles + 1
  /\ excused' = (excused \/ goal = "handback")

At(from, to) == worker = from /\ worker' = to

\* QcaUartQuiesceRead
Quiesced == reading' = FALSE /\ waiting' = FALSE /\ UNCHANGED <<event, readFault>>

\* QcaUartSetBaudRate, flow control last: a failure may come before or after
\* the line has changed.
BaudSet(r)    == port' = r /\ rate' = r /\ flow' = "handshake"
BaudFailed(r) == port' \in {port, r} /\ flow' \in {flow, "handshake"} /\ UNCHANGED rate

(***************************************************************************)
(* QcaUartWakeController.  CTS is high at once, or RTS is taken from the   *)
(* handshake, pulsed until CTS rises and given back.  It is given back     *)
(* also when CTS never rises or a request fails, unless that request fails.*)
(***************************************************************************)
LineWoken     == flow' \in {flow, "handshake"}
LineNotWoken  == flow' \in {flow, "handshake", "manual"}

-----------------------------------------------------------------------------
(***************************************************************************)
(* QcaUartPrepareHardware: the target, the first rate, and CTS before the  *)
(* first byte.                                                             *)
(***************************************************************************)
OpenTarget ==
  /\ At("open", "openbaud") /\ Succeeds
  /\ UNCHANGED <<ladderVars, stop, moved, phase, fifo, firmware, readerVars,
                 fsmVars, lineVars, ibsVars, history, outside, counts>>

OpenBaud ==
  /\ At("openbaud", "openwake") /\ Succeeds /\ BaudSet("init")
  /\ UNCHANGED <<ladderVars, stop, moved, phase, fifo, firmware, readerVars,
                 fsmVars, ibsVars, history, outside, counts>>

OpenWake ==
  /\ At("openwake", "start") /\ Succeeds /\ LineWoken
  /\ UNCHANGED <<ladderVars, stop, moved, phase, fifo, firmware, readerVars,
                 fsmVars, port, rate, ibsVars, history, outside, counts>>

\* Released at once; the worker releases what is left once more.
OpenFails ==
  /\ worker \in Opening /\ worker' = "stop" /\ Fails1
  /\ CASE worker = "open"     -> UNCHANGED lineVars
       [] worker = "openbaud" -> BaudFailed("init")
       [] worker = "openwake" -> LineNotWoken /\ UNCHANGED <<port, rate>>
  /\ UNCHANGED <<ladderVars, stop, moved, phase, fifo, firmware, readerVars,
                 fsmVars, ibsVars, touched, unnoted, outside, asks>>

-----------------------------------------------------------------------------
(***************************************************************************)
(* QcaUartRunIdentify.                                                     *)
(***************************************************************************)
ToLadder == worker' = "rung" /\ ident' = NoIdent /\ waiting' = FALSE /\ readFault' = FALSE

Answered == ident.at # "none"

Rung ==
  /\ worker = "rung" /\ Succeeds /\ Quiesced
  /\ IF readFault \/ Answered \/ ident.tried = Len(Rates)
       THEN worker' = "verdict" /\ UNCHANGED ident
       ELSE worker' = "setbaud" /\ ident' = [ident EXCEPT !.tried = @ + 1]
  /\ UNCHANGED <<goal, target, stop, moved, phase, fifo, firmware, fsmVars,
                 lineVars, ibsVars, history, outside, counts>>

RungBaud ==
  LET r == Rates[ident.tried]
  IN  /\ worker = "setbaud" /\ Succeeds
      /\ IF r = "high" THEN worker' = "rung" /\ UNCHANGED lineVars
                       ELSE worker' = "arm" /\ BaudSet(r)
      /\ UNCHANGED <<ladderVars, stop, moved, phase, fifo, firmware, readerVars,
                     fsmVars, ibsVars, history, outside, counts>>

BugNoPurge ==
  /\ At("arm", "ask") /\ Succeeds
  /\ LineWoken /\ reading' = TRUE /\ event' = FALSE
  /\ UNCHANGED <<ladderVars, stop, moved, phase, fifo, firmware, waiting, readFault,
                 fsmVars, port, rate, ibsVars, history, outside, counts>>

\* The purge of the UART, the CTS check, and the reader.
RungArm ==
  /\ At("arm", "ask") /\ Succeeds
  /\ fifo' = <<>> /\ LineWoken /\ reading' = TRUE /\ event' = FALSE
  /\ UNCHANGED <<ladderVars, stop, moved, phase, firmware, waiting, readFault,
                 fsmVars, port, rate, ibsVars, history, outside, counts>>

RungAsk ==
  /\ At("ask", IF readFault THEN "verdict" ELSE "probe") /\ waiting' = ~readFault
  /\ UNCHANGED <<ladderVars, stop, moved, phase, fifo, firmware, reading, event,
                 readFault, fsmVars, lineVars, ibsVars, history, outside, counts>>

RungProbe ==
  /\ At("probe", "listen") /\ Succeeds /\ Says(Command("version"))
  /\ UNCHANGED <<ladderVars, stop, moved, phase, fifo, firmware, readerVars,
                 fsmVars, lineVars, ibsVars, history, asks>>

\* The wait ends with an event or after 1.5 s.
RungHeard ==
  /\ worker = "listen"
  /\ worker' = IF stop \/ readFault \/ Answered \/ event THEN "verdict" ELSE "rung"
  /\ readFault' = (readFault \/ (event /\ ~Answered))
  /\ UNCHANGED <<ladderVars, stop, moved, phase, fifo, firmware, reading, waiting,
                 event, fsmVars, lineVars, ibsVars, history, outside, counts>>

\* A request of the ladder fails: no other rate is tried.
LadderFails ==
  /\ worker \in {"rung", "setbaud", "arm", "probe"} \/ (worker = "verdict" /\ ~stop)
  /\ worker' = "verdict" /\ Fails1
  /\ readFault' = TRUE
  /\ \/ /\ worker = "setbaud" /\ Rates[ident.tried] # "high"
        /\ BaudFailed(Rates[ident.tried])
     \/ worker = "arm" /\ LineNotWoken /\ UNCHANGED <<port, rate>>
     \/ /\ worker # "arm" /\ (worker = "setbaud" => Rates[ident.tried] = "high")
        /\ UNCHANGED lineVars
  /\ UNCHANGED <<ladderVars, stop, moved, phase, fifo, firmware, reading, waiting,
                 event, fsmVars, ibsVars, touched, unnoted, outside, asks>>

(***************************************************************************)
(* The end of the ladder and what EnsureRom or Handback makes of it: only  *)
(* an answer at the initial rate is taken for the ROM.                     *)
(***************************************************************************)
Verdict ==
  LET ok     == ~readFault /\ ~stop
      inRom  == ok /\ ident.at = "init"
  IN  /\ worker = "verdict" /\ Quiesced
      /\ IF goal = "handback" THEN worker' = "stop" /\ UNCHANGED <<goal, target>>
         ELSE IF inRom THEN worker' = "fsmread" /\ goal' = "entry" /\ UNCHANGED target
         ELSE IF ok /\ goal = "entry"
           THEN /\ worker' = "reset" /\ target' = IF Answered THEN ident.at ELSE "oper"
                /\ UNCHANGED goal
         ELSE worker' = "exit" /\ UNCHANGED <<goal, target>>
      /\ excused' = (excused \/ (goal = "handback" /\ ~ok))
      /\ UNCHANGED <<ident, stop, moved, phase, fifo, firmware, fsmVars,
                     lineVars, ibsVars, touched, unnoted, outside, counts>>

-----------------------------------------------------------------------------
(***************************************************************************)
(* QcaUartResetSoc, for EnsureRom and for Handback.                        *)
(***************************************************************************)
ResetBaud ==
  /\ At("reset", "wakebytes") /\ Succeeds /\ Quiesced
  /\ IF rate # target THEN BaudSet(target) ELSE LineWoken /\ UNCHANGED <<port, rate>>
  /\ UNCHANGED <<ladderVars, stop, moved, phase, fifo, firmware, fsmVars, ibsVars,
                 history, outside, counts>>

ResetWake ==
  /\ At("wakebytes", "socreset") /\ Succeeds /\ Says(Command("wake"))
  /\ excused' = (excused \/ (goal = "handback" /\ troubles' # troubles))
  /\ UNCHANGED <<ladderVars, stop, moved, phase, fifo, firmware, readerVars,
                 fsmVars, lineVars, ibsVars, touched, unnoted, asks>>

ResetSend ==
  /\ worker = "socreset" /\ Succeeds /\ Says(Command("soc_reset")) /\ ToLadder
  /\ goal' = IF goal = "entry" THEN "check" ELSE goal
  /\ excused' = (excused \/ (goal = "handback" /\ troubles' # troubles))
  /\ UNCHANGED <<target, stop, moved, phase, fifo, firmware, reading, event,
                 fsmVars, lineVars, ibsVars, touched, unnoted, asks>>

ResetFails ==
  /\ worker \in Resets /\ worker' = IF goal = "handback" THEN "stop" ELSE "exit"
  /\ Fails1
  /\ \/ worker = "reset" /\ rate # target /\ BaudFailed(target)
     \/ worker = "reset" /\ (IF rate # target THEN port' = target /\ rate' = target
                                              ELSE UNCHANGED <<port, rate>>) /\ LineNotWoken
     \/ worker # "reset" /\ UNCHANGED lineVars
  /\ UNCHANGED <<ladderVars, stop, moved, phase, fifo, firmware, readerVars,
                 fsmVars, ibsVars, touched, unnoted, outside, asks>>

-----------------------------------------------------------------------------
(***************************************************************************)
(* QcaUartRunProbe: the files and the machine, then EnsureRom.             *)
(***************************************************************************)
StartProbe ==
  /\ worker = "start"
  /\ IF fsm.state = "Start" /\ ~stop
       THEN ToLadder /\ UNCHANGED <<reading, event>>
       ELSE worker' = "exit" /\ UNCHANGED <<ident, readerVars>>
  /\ UNCHANGED <<goal, target, stop, moved, phase, fifo, firmware, fsmVars,
                 lineVars, ibsVars, history, outside, counts>>

StartReading ==
  /\ At("fsmread", "top") /\ Succeeds /\ phase' = 1 /\ reading' = TRUE
  /\ UNCHANGED <<ladderVars, stop, moved, fifo, firmware, waiting, event,
                 readFault, fsmVars, lineVars, ibsVars, history, outside, counts>>

StartFails ==
  /\ At("fsmread", "exit") /\ Fails1
  /\ UNCHANGED <<ladderVars, stop, moved, phase, fifo, firmware, readerVars,
                 fsmVars, lineVars, ibsVars, touched, unnoted, outside, asks>>

\* The top of the loop: the stop check, stateBefore, the event cleared.
LoopTop ==
  /\ worker = "top" /\ before' = fsm.state
  /\ IF stop THEN worker' = "exit" /\ UNCHANGED event
             ELSE worker' = "next" /\ event' = FALSE
  /\ UNCHANGED <<ladderVars, stop, moved, phase, fifo, firmware, reading, waiting,
                 readFault, fsm, op, lineVars, ibsVars, history, outside, counts>>

\* QcaFsmNext and FsmWaitingForEvent, under the lock.
LoopNext ==
  /\ worker = "next"
  /\ op' = FsmNext(fsm, patch, nvms) /\ fsm' = op'.fsm
  /\ waiting' = (op'.action = "Send")
  /\ worker' = IF op'.action \in {"Done", "Failed"} THEN "exit" ELSE "send"
  /\ UNCHANGED <<ladderVars, stop, moved, phase, fifo, firmware, reading, event,
                 readFault, before, lineVars, ibsVars, history, outside, counts>>

LoopSend ==
  /\ worker = "send" /\ Succeeds /\ Says(op.command)
  /\ worker' = CASE op.action = "Send"       -> "wait"
                 [] op.action = "SendNoWait" -> "top"
                 [] OTHER                    -> "switch"
  /\ touched' = (touched \/ (op.command.ask = "baud" /\ ctl'.rate # ctl.rate))
  /\ UNCHANGED <<ladderVars, stop, moved, phase, fifo, firmware, readerVars,
                 fsmVars, lineVars, ibsVars, unnoted, excused, asks>>

\* The board ID is optional: a write that fails selects the .bin image.
LoopSendFails ==
  /\ worker = "send" /\ Fails1
  /\ IF before = "BoardIdRequest"
       THEN worker' = "top" /\ fsm' = OnBoardIdTimeout(fsm, nvms)
       ELSE worker' = "exit" /\ UNCHANGED fsm
  /\ UNCHANGED <<ladderVars, stop, moved, phase, fifo, firmware, readerVars,
                 before, op, lineVars, ibsVars, touched, unnoted, outside, asks>>

(***************************************************************************)
(* QcaUartSwitchBaud: retire the reader, let the controller settle, follow *)
(* it, purge, read again; only then are the rate and BaudFinal noted.      *)
(***************************************************************************)
SwitchQuiesce ==
  /\ At("switch", "switchbaud") /\ Succeeds /\ Quiesced
  /\ UNCHANGED <<ladderVars, stop, moved, phase, fifo, firmware, fsmVars,
                 lineVars, ibsVars, history, outside, counts>>

BugKeepsRate ==
  /\ At("switchbaud", "switchread") /\ Succeeds /\ UNCHANGED lineVars
  /\ UNCHANGED <<ladderVars, stop, moved, phase, fifo, firmware, readerVars,
                 fsmVars, ibsVars, history, outside, counts>>

SwitchBaud ==
  /\ At("switchbaud", "switchread") /\ Succeeds /\ BaudSet("oper")
  /\ UNCHANGED <<ladderVars, stop, moved, phase, fifo, firmware, readerVars,
                 fsmVars, ibsVars, history, outside, counts>>

BugForgetsMove ==
  /\ At("switchread", "top") /\ Succeeds
  /\ fifo' = <<>> /\ reading' = TRUE
  /\ UNCHANGED <<ladderVars, stop, moved, phase, firmware, waiting, event, readFault,
                 fsmVars, lineVars, ibsVars, history, outside, counts>>

SwitchRead ==
  /\ At("switchread", "top") /\ Succeeds
  /\ fifo' = <<>> /\ reading' = TRUE /\ moved' = TRUE
  /\ UNCHANGED <<ladderVars, stop, phase, firmware, waiting, event, readFault,
                 fsmVars, lineVars, ibsVars, history, outside, counts>>

SwitchFails ==
  /\ worker \in {"switch", "switchbaud", "switchread"} /\ worker' = "exit"
  /\ Fails1 /\ unnoted' = TRUE
  /\ IF worker = "switchbaud" THEN BaudFailed("oper") ELSE UNCHANGED lineVars
  /\ UNCHANGED <<ladderVars, stop, moved, phase, fifo, firmware, readerVars,
                 fsmVars, ibsVars, touched, outside, asks>>

-----------------------------------------------------------------------------
(***************************************************************************)
(* The wait for the answer, at most 2 s.  What it means that FsmEvent is   *)
(* set is not asked: the state of the machine tells.  Without LateAnswers  *)
(* the controller answers in time or not at all.                           *)
(***************************************************************************)
WaitEnds ==
  /\ worker = "wait" /\ (event \/ stop)
  /\ worker' = IF stop THEN "exit"
               ELSE IF before # "HciReset" THEN "top"
               ELSE IF fsm.state = "ReadLocalVersion" THEN "handoff" ELSE "exit"
  /\ UNCHANGED <<ladderVars, stop, moved, phase, fifo, firmware, readerVars,
                 fsmVars, lineVars, ibsVars, history, outside, counts>>

BugWaitsForStop ==
  /\ At("wait", "timedout") /\ ~event /\ stop
  /\ UNCHANGED <<ladderVars, stop, moved, phase, fifo, firmware, readerVars,
                 fsmVars, lineVars, ibsVars, history, outside, counts>>

WaitTimesOut ==
  /\ At("wait", "timedout") /\ ~event
  /\ LateAnswers \/ (wire = <<>> /\ (reading => fifo = <<>>))
  /\ UNCHANGED <<ladderVars, stop, moved, phase, fifo, firmware, readerVars,
                 fsmVars, lineVars, ibsVars, history, outside, counts>>

\* Without the lock: an answer that comes now still finds FsmWaitingForEvent set.
TimedOut ==
  /\ worker = "timedout"
  /\ fsm' = IF stop THEN fsm
            ELSE IF before = "BoardIdRequest" THEN OnBoardIdTimeout(fsm, nvms)
            ELSE IF before = "NvmDownload" /\ ~fsm.fallbackUsed THEN OnNvmFailure(fsm, nvms)
            ELSE fsm
  /\ worker' = IF ~stop /\ (before = "BoardIdRequest"
                              \/ (before = "NvmDownload" /\ ~fsm.fallbackUsed
                                    /\ fsm'.state # "Failed"))
                 THEN "top" ELSE "exit"
  /\ UNCHANGED <<ladderVars, stop, moved, phase, fifo, firmware, readerVars, before,
                 op, lineVars, ibsVars, history, outside, counts>>

\* Exit without a steady session: the handback, then QcaUartStop.
ToHandback(ok) ==
  IF ok THEN worker' = "reset" /\ goal' = "handback" /\ target' = rate
        ELSE worker' = "stop" /\ UNCHANGED <<goal, target>>

ProbeExit ==
  /\ worker = "exit" /\ ToHandback(moved /\ ~stop)
  /\ UNCHANGED <<ident, stop, moved, phase, fifo, firmware, readerVars, fsmVars,
                 lineVars, ibsVars, history, outside, counts>>

Retire ==
  /\ At("stop", "end") /\ phase' = 3 /\ reading' = FALSE
  /\ UNCHANGED <<ladderVars, stop, moved, fifo, firmware, waiting, event, readFault,
                 fsmVars, lineVars, ibsVars, history, outside, counts>>

-----------------------------------------------------------------------------
(***************************************************************************)
(* QcaUartServeSteady: the handoff, the reader restarted, the host's wake  *)
(* handshake, then serving until a shutdown, and the handback.             *)
(***************************************************************************)
Handoff ==
  /\ At("handoff", "steadyread") /\ waiting' = FALSE /\ phase' = 2
  /\ ctl' \in {ctl, [ctl EXCEPT !.awake = FALSE]}
  /\ UNCHANGED <<ladderVars, stop, moved, fifo, firmware, reading, event, readFault,
                 fsmVars, lineVars, ibsVars, history, wire, counts>>

SteadyRead ==
  /\ At("steadyread", "wake") /\ Succeeds /\ reading' = TRUE /\ LineWoken
  /\ UNCHANGED <<ladderVars, stop, moved, phase, fifo, firmware, waiting, event,
                 readFault, fsmVars, port, rate, ibsVars, history, outside, counts>>

\* A wake that nobody acknowledges is not fatal.
WakeHost ==
  /\ worker = "wake"
  /\ IF ibs.awake \/ tries = WakeTries
       THEN worker' = "serve" /\ UNCHANGED <<tries, ctl, wire, troubles>>
       ELSE /\ worker' = "wakewait" /\ Succeeds /\ tries' = tries + 1
            /\ Says(Command("wake"))
  /\ UNCHANGED <<ladderVars, stop, moved, phase, fifo, firmware, readerVars,
                 fsmVars, lineVars, ibs, history, asks>>

WakeWaited ==
  /\ At("wakewait", IF stop THEN "close" ELSE "clear")
  /\ UNCHANGED <<ladderVars, stop, moved, phase, fifo, firmware, readerVars,
                 fsmVars, lineVars, ibsVars, history, outside, counts>>

SteadyFails ==
  /\ worker \in {"steadyread", "wake"} /\ worker' = "close" /\ Fails1
  /\ IF worker = "steadyread" THEN LineNotWoken ELSE UNCHANGED flow
  /\ UNCHANGED <<ladderVars, stop, moved, phase, fifo, firmware, readerVars,
                 fsmVars, port, rate, ibsVars, touched, unnoted, outside, asks>>

\* A stop is looked for before the handshake.
ServeIbs ==
  /\ At("serve", "clear") /\ ibs.work /\ ~stop
  /\ UNCHANGED <<ladderVars, stop, moved, phase, fifo, firmware, readerVars,
                 fsmVars, lineVars, ibsVars, history, outside, counts>>

\* A shutdown, or a stop.
ServeEnds ==
  /\ At("serve", "close")
  /\ UNCHANGED <<ladderVars, stop, moved, phase, fifo, firmware, readerVars,
                 fsmVars, lineVars, ibsVars, history, outside, counts>>

Closed ==
  /\ worker = "close" /\ phase' = 3 /\ ToHandback(~stop)
  /\ UNCHANGED <<ident, stop, moved, fifo, firmware, readerVars, fsmVars,
                 lineVars, ibsVars, history, outside, counts>>

(***************************************************************************)
(* QcaUartServiceIbs.  The event is cleared before the flag is taken.      *)
(***************************************************************************)
BackFromService == worker' = IF ibs.awake \/ tries = WakeTries THEN "serve" ELSE "wake"

IbsClear ==
  /\ At("clear", "take") /\ ibs' = [ibs EXCEPT !.work = FALSE]
  /\ UNCHANGED <<ladderVars, stop, moved, phase, fifo, firmware, readerVars,
                 fsmVars, lineVars, tries, history, outside, counts>>

IbsTake ==
  /\ worker = "take" /\ ibs' = [ibs EXCEPT !.pending = FALSE]
  /\ IF ibs.pending THEN worker' = "ack" ELSE BackFromService
  /\ UNCHANGED <<ladderVars, stop, moved, phase, fifo, firmware, readerVars,
                 fsmVars, lineVars, tries, history, outside, counts>>

IbsAck ==
  /\ worker = "ack" /\ Succeeds /\ BackFromService /\ Says(Command("wake_ack"))
  /\ UNCHANGED <<ladderVars, stop, moved, phase, fifo, firmware, readerVars,
                 fsmVars, lineVars, ibsVars, history, asks>>

\* CTS is low, or a request fails: no acknowledgement, the controller repeats.
IbsNoAck ==
  /\ worker = "ack" /\ BackFromService
  /\ UNCHANGED <<ladderVars, stop, moved, phase, fifo, firmware, readerVars,
                 fsmVars, lineVars, ibsVars, history, outside, counts>>

-----------------------------------------------------------------------------
(***************************************************************************)
(* The read completion: QcaUartOnH4Packet and QcaUartOnIbsByte.  A packet  *)
(* of the ladder, of the bring-up, or a byte of the sleep handshake.       *)
(***************************************************************************)
Identifies(a) ==
  IF waiting /\ a.to = "version" /\ ~Answered
    THEN ident' = [ident EXCEPT !.at = Rates[ident.tried]] /\ event' = TRUE
    ELSE UNCHANGED <<ident, event>>

Advances(a) ==
  /\ fsm' = IF waiting THEN OnPacket(fsm, a, patch, nvms) ELSE fsm
  /\ IF waiting /\ Handles(fsm, a, patch, nvms)
       THEN waiting' = FALSE /\ event' = TRUE ELSE UNCHANGED <<waiting, event>>

BugAwakeIgnores(a) ==
  CASE a.to = "wake_ind" /\ ~ibs.awake -> ibs' = [ibs EXCEPT !.pending = TRUE, !.signal = TRUE]
    [] a.to = "wake_ack" -> ibs' = [ibs EXCEPT !.awake = TRUE]
    [] OTHER             -> UNCHANGED ibs

IbsByte(a) ==
  CASE a.to = "wake_ind" -> ibs' = [ibs EXCEPT !.pending = TRUE, !.signal = TRUE]
    [] a.to = "wake_ack" -> ibs' = [ibs EXCEPT !.awake = TRUE]
    [] OTHER             -> UNCHANGED ibs

Identifying == worker \in Ladder

Read ==
  /\ reading /\ fifo # <<>> /\ ~ibs.signal /\ fifo' = Tail(fifo)
  /\ IF Identifying
       THEN Identifies(Head(fifo)) /\ UNCHANGED <<waiting, fsm, ibs>>
       ELSE /\ UNCHANGED ident
            /\ IF phase = 1 THEN Advances(Head(fifo)) ELSE UNCHANGED <<waiting, event, fsm>>
            /\ IF phase = 2 THEN IbsByte(Head(fifo)) ELSE UNCHANGED ibs
  /\ UNCHANGED <<worker, goal, target, stop, moved, phase, firmware, reading,
                 readFault, before, op, lineVars, tries, history, outside, counts>>

\* IbsWorkEvent, after IbsAckPending.
IbsSignal ==
  /\ ibs.signal /\ ibs' = [ibs EXCEPT !.signal = FALSE, !.work = TRUE]
  /\ UNCHANGED <<worker, ladderVars, stop, moved, phase, fifo, firmware, readerVars,
                 fsmVars, lineVars, tries, history, outside, counts>>

\* The reader dies of an error of the line: noticed in the ladder only.
ReaderFails ==
  /\ reading /\ phase # 2 /\ troubles < MaxTroubles /\ troubles' = troubles + 1
  /\ reading' = FALSE /\ excused' = (excused \/ goal = "handback")
  /\ IF Identifying THEN readFault' = TRUE /\ event' = TRUE
                    ELSE UNCHANGED <<readFault, event>>
  /\ UNCHANGED <<worker, ladderVars, stop, moved, phase, fifo, firmware, waiting,
                 fsmVars, lineVars, ibsVars, touched, unnoted, outside, asks>>

(***************************************************************************)
(* External: the line, the controller, and whoever stops the session.      *)
(***************************************************************************)
Arrive ==
  /\ wire # <<>> /\ wire' = Tail(wire)
  /\ fifo' = IF Head(wire).rate = port THEN Append(fifo, Head(wire)) ELSE fifo
  /\ UNCHANGED <<worker, ladderVars, stop, moved, phase, firmware, readerVars,
                 fsmVars, lineVars, ibsVars, history, ctl, counts>>

AskToTalk ==
  /\ phase = 2 /\ ctl.alive /\ wire = <<>> /\ fifo = <<>>
  /\ \/ ctl.talk = "quiet" /\ asks < MaxAsks /\ asks' = asks + 1
     \/ ctl.talk = "asking" /\ UNCHANGED asks
  /\ ctl' = [ctl EXCEPT !.talk = "asking"]
  /\ wire' = <<[to |-> "wake_ind", board |-> NoBoard, rate |-> ctl.rate]>>
  /\ UNCHANGED <<worker, ladderVars, stop, moved, phase, fifo, firmware, readerVars,
                 fsmVars, lineVars, ibsVars, history, troubles>>

Hush ==
  /\ ctl.talk = "talking" /\ ctl' = [ctl EXCEPT !.talk = "quiet"]
  /\ UNCHANGED <<worker, ladderVars, stop, moved, phase, fifo, firmware, readerVars,
                 fsmVars, lineVars, ibsVars, history, wire, counts>>

Die ==
  /\ ctl.alive /\ troubles < MaxTroubles /\ troubles' = troubles + 1
  /\ ctl' = [ctl EXCEPT !.alive = FALSE]
  /\ UNCHANGED <<worker, ladderVars, stop, moved, phase, fifo, firmware, readerVars,
                 fsmVars, lineVars, ibsVars, history, wire, asks>>

RequestStop ==
  /\ ~stop /\ stop' = TRUE
  /\ UNCHANGED <<worker, ladderVars, moved, phase, fifo, firmware, readerVars,
                 fsmVars, lineVars, ibsVars, history, outside, counts>>

-----------------------------------------------------------------------------
Identify == Rung \/ RungBaud \/ RungArm \/ RungAsk \/ RungProbe \/ RungHeard
              \/ LadderFails \/ Verdict
ResetSoc == ResetBaud \/ ResetWake \/ ResetSend \/ ResetFails
RunProbe == StartProbe \/ StartReading \/ StartFails \/ LoopTop \/ LoopNext \/ LoopSend
              \/ LoopSendFails \/ SwitchQuiesce \/ SwitchBaud \/ SwitchRead
              \/ SwitchFails \/ WaitEnds \/ WaitTimesOut \/ TimedOut \/ ProbeExit \/ Retire
ServeSteady == Handoff \/ SteadyRead \/ WakeHost \/ WakeWaited \/ SteadyFails \/ ServeIbs
                 \/ ServeEnds \/ Closed \/ IbsClear \/ IbsTake \/ IbsAck \/ IbsNoAck

PrepareHardware == OpenTarget \/ OpenBaud \/ OpenWake \/ OpenFails

Worker      == PrepareHardware \/ Identify \/ ResetSoc \/ RunProbe \/ ServeSteady
Completion  == Read \/ IbsSignal \/ ReaderFails
Environment == Arrive \/ AskToTalk \/ Hush \/ Die \/ RequestStop

Next == Worker \/ Completion \/ Environment
Spec == Init /\ [][Next]_vars

\* The worker runs, but nobody owes it an end of the steady session; what the
\* controller sent arrives and is read; CTS is not low for ever.
Fairness ==
  /\ WF_vars(PrepareHardware \/ Identify \/ ResetSoc \/ RunProbe)
  /\ WF_vars(Handoff \/ SteadyRead \/ WakeHost \/ WakeWaited \/ SteadyFails \/ Closed
               \/ IbsClear \/ IbsTake \/ IbsNoAck)
  /\ WF_vars(ServeIbs) /\ WF_vars(ServeEnds /\ stop)
  /\ SF_vars(IbsAck)
  /\ WF_vars(Read) /\ WF_vars(IbsSignal) /\ WF_vars(Arrive)
  /\ WF_vars(AskToTalk /\ ctl.talk = "asking")

FairSpec == Spec /\ Fairness

-----------------------------------------------------------------------------
(***************************************************************************)
(* The ladder tells the truth: the rate it reports is the one the          *)
(* controller runs at, although answers may come after their rung, and     *)
(* the bring-up begins only with a controller in ROM at 115200 that has    *)
(* received nothing.                                                       *)
(***************************************************************************)
LadderIsRight ==
  /\ TypeOK
  /\ worker = "verdict" /\ ~readFault /\ Answered /\ ctl.alive => ctl.rate = ident.at
  /\ worker \in Loop /\ fsm.state = "Start" /\ ctl.alive =>
       ctl.fw = "rom" /\ ctl.rate = "init" /\ port = "init" /\ ctl.got = <<>>

(***************************************************************************)
(* Nothing is said into the void: from the first command of the bring-up   *)
(* to the reset of the handback, whatever the worker writes is written at  *)
(* the rate the controller listens at, which is also the one it noted; and *)
(* an answer is only awaited while RTS is left to the handshake, although  *)
(* a line that would not wake may have left it under manual control.       *)
(***************************************************************************)
SpeaksAtItsRate ==
  /\ \/ worker \in {"send", "wake", "ack"}
     \/ goal = "handback" /\ worker \in {"wakebytes", "socreset"}
     => (ctl.alive => ctl.rate = port /\ rate = port)
  /\ worker \in {"listen", "wait", "wakewait", "serve"} => flow = "handshake"

(***************************************************************************)
(* The controller has whole images: when the machine leaves the download   *)
(* it has received every segment of the patch and then of the selected NVM *)
(* image once and in order, the baud byte patched where the image has it   *)
(* and nowhere else; and nothing else but, before a fallback to the .bin   *)
(* image, the beginning of the board's own.                                *)
(***************************************************************************)
Pieces(file, n) ==
  [i \in 1..n |->
     Segment(file, i - 1,
             file # "patch" /\ BaudOffset(Image(file)) \div SegmentSize = i - 1)]

Whole(file) == Pieces(file, SegmentCount(Image(file)))

\* All of the patch and n segments of the selected image.
GotUpTo(n) ==
  \/ ctl.got = Whole("patch") \o Pieces(fsm.selected, n)
  \/ fsm.fallbackUsed /\ \E k \in 0..SegmentCount(Image(fsm.board)) :
       ctl.got = Whole("patch") \o Pieces(fsm.board, k) \o Pieces(fsm.selected, n)

ImagesWhole ==
  worker \in Loop /\ fsm.state \in {"DisableLogging", "BuildInfo", "HciReset", "ReadLocalVersion"} =>
    GotUpTo(SegmentCount(Image(fsm.selected)))

(***************************************************************************)
(* A controller this session moved to another rate is handed back in ROM   *)
(* at 115200 when the session ends by itself.  Not if it died, if the      *)
(* handback itself met a fault, or if a request failed after the command   *)
(* that moved it and before the note of its new rate (qca_uart.c:2989 to   *)
(* 2998): then the exit does not know of the move.                         *)
(***************************************************************************)
HandedBack ==
  worker = "end" /\ touched /\ ~stop /\ ~unnoted /\ ~excused /\ ctl.alive =>
    ctl.fw = "rom" /\ ctl.rate = "init"

(***************************************************************************)
(* The same without the last exception, which is what the comment at       *)
(* qca_uart.c:3158 says of a controller "moved to the operating rate":     *)
(* "Hand it back in ROM before the terminal purge, while the target still  *)
(* accepts requests."                                                      *)
(***************************************************************************)
AlwaysHandedBack ==
  worker = "end" /\ touched /\ ~stop /\ ~excused /\ ctl.alive =>
    ctl.fw = "rom" /\ ctl.rate = "init"

(***************************************************************************)
(* The bring-up ends, whatever the controller answers or does not answer:  *)
(* in the steady session or at the end; and a stop always ends it.         *)
(***************************************************************************)
BringUpEnds == <>(worker \in {"serve", "end"}) /\ (stop ~> worker = "end")

(***************************************************************************)
(* A controller that asks to talk while the worker serves is acknowledged, *)
(* also if CTS was low at first and the first indications were dropped.    *)
(***************************************************************************)
WakeAnswered ==
  ctl.talk = "asking" /\ worker = "serve" ~>
    ctl.talk # "asking" \/ ~ctl.alive \/ worker \notin Steady
=============================================================================
