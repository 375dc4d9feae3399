----------------------------- MODULE QcaInitFsm -----------------------------
(***************************************************************************)
(* Firmware images and the bring-up state machine of the QCA2066, as       *)
(* operators on records (src/src/common/qca_tlv.c, qca_init_fsm.c).        *)
(*                                                                         *)
(* An image is a record of what the code looks at: type, size, declared    *)
(* length, download mode and, for an NVM image, its tags.  A file name is  *)
(* the board it is for; the generic .bin file has the board NoBoard.       *)
(* A definition BugXxx is a variant of the next definition with a          *)
(* plausible mistake, used only to show which property notices it.         *)
(***************************************************************************)
EXTENDS Naturals, Sequences

CONSTANTS
  SegmentSize,    \* QCA_MAX_SIZE_PER_TLV_SEGMENT (243)
  TagHeader,      \* QCA_NVM_TAG_HDR_SIZE (12)
  NoBoard         \* board ID 0x0000 or 0xFFFF: no specific board

ASSUME FsmAssumption == SegmentSize \in Nat \ {0} /\ TagHeader \in Nat \ {0}

Modes == {"none", "vse", "cc", "vse_cc"}   \* QCA_SKIP_EVT_xxx

-----------------------------------------------------------------------------
(***************************************************************************)
(* QcaParseTlv, QcaFindNvmHciBaudOffset, QcaTlvSegmentCount.               *)
(***************************************************************************)
HeaderSize  == 4
PatchHeader == 24

ParsesAs(image, type) ==
  /\ image.type = type /\ image.size >= HeaderSize
  /\ image.declared = image.size - HeaderSize
  /\ type = "patch" => image.size >= HeaderSize + PatchHeader /\ image.mode \in Modes

\* Where tag i starts, behind the header and the tags before it.
TagStart(tags) ==
  LET start[i \in 1..Len(tags) + 1] ==
        IF i = 1 THEN HeaderSize ELSE start[i - 1] + TagHeader + tags[i - 1].len
  IN  start

\* The tags up to the HCI tag fit into the image.
TagsFit(image, i) ==
  \A j \in 1..i : TagStart(image.tags)[j + 1] <= image.size

HciTags(image) ==
  {i \in DOMAIN image.tags :
     /\ image.tags[i].hci /\ image.tags[i].len >= 3 /\ TagsFit(image, i)
     /\ \A j \in 1..i - 1 : ~image.tags[j].hci}

BaudOffset(image) ==
  TagStart(image.tags)[CHOOSE i \in HciTags(image) : TRUE] + TagHeader + 1

UsablePatch(image) == ParsesAs(image, "patch")
UsableNvm(image)   == ParsesAs(image, "nvm") /\ HciTags(image) # {}

SegmentCount(image) == (image.size + SegmentSize - 1) \div SegmentSize

\* QcaBuildTlvSegmentCommand: only a full segment before the last may go
\* without an acknowledgement.
SegmentLength(image, i) ==
  IF image.size - i * SegmentSize > SegmentSize THEN SegmentSize
                                                ELSE image.size - i * SegmentSize

AckExpected(image, i, mode) ==
  \/ SegmentLength(image, i) < SegmentSize
  \/ i * SegmentSize + SegmentLength(image, i) >= image.size
  \/ mode \notin {"vse_cc", "vse"}

\* The segment that carries the baud byte of the HCI tag.
CarriesBaud(image, i) ==
  /\ BaudOffset(image) >= i * SegmentSize
  /\ BaudOffset(image) - i * SegmentSize < SegmentLength(image, i)

-----------------------------------------------------------------------------
(***************************************************************************)
(* The machine.  patch is an image and nvms a function from the boards     *)
(* whose files were loaded to images.                                      *)
(***************************************************************************)
States == {"Start", "VersionRequest", "SetBaudRate", "PatchDownload",
           "BoardIdRequest", "NvmDownload", "DisableLogging", "BuildInfo",
           "HciReset", "ReadLocalVersion", "Ready", "Failed"}

Actions == {"Send", "SendNoWait", "SendBaudAndSwitch", "Done", "Failed"}

\* QcaFsmInit
FsmValid(patch, nvms) ==
  UsablePatch(patch) /\ DOMAIN nvms # {} /\ \A b \in DOMAIN nvms : UsableNvm(nvms[b])

FsmInit(patch, nvms) ==
  [state |-> IF FsmValid(patch, nvms) THEN "Start" ELSE "Failed",
   patchIndex |-> 0, board |-> NoBoard, selected |-> NoBoard, nvmIndex |-> 0,
   fallbackUsed |-> FALSE]

Fails(f) == [f EXCEPT !.state = "Failed"]

BugFallbackResumes(f, b) == [f EXCEPT !.state = "NvmDownload", !.selected = b]

\* ArmNvm
ArmNvm(f, b) == [f EXCEPT !.state = "NvmDownload", !.selected = b, !.nvmIndex = 0]

\* SelectNvm: the board's own file, or the .bin file its name degrades to.
SelectNvm(f, nvms) ==
  IF f.board \in DOMAIN nvms THEN ArmNvm(f, f.board)
  ELSE IF f.board # NoBoard /\ NoBoard \in DOMAIN nvms THEN ArmNvm(f, NoBoard)
  ELSE Fails(f)

OnBoardIdTimeout(f, nvms) ==
  IF f.state = "BoardIdRequest" THEN SelectNvm([f EXCEPT !.board = NoBoard], nvms) ELSE f

\* A .bin file has no alternative name.
OnNvmFailure(f, nvms) ==
  IF f.fallbackUsed \/ f.selected = NoBoard \/ NoBoard \notin DOMAIN nvms
    THEN Fails(f)
    ELSE [ArmNvm(f, NoBoard) EXCEPT !.fallbackUsed = TRUE]

-----------------------------------------------------------------------------
(***************************************************************************)
(* QcaFsmNext: the next operation, and the machine after it.  A command is *)
(* what it asks for; a segment also says whether the baud byte is patched. *)
(***************************************************************************)
Segment(file, i, baud) == [ask |-> "segment", file |-> file, index |-> i, baud |-> baud]
Command(what)          == [ask |-> what]
NoCommand              == Command("nothing")

Result(action, command, f) == [action |-> action, command |-> command, fsm |-> f]
Refused(f)                 == Result("Failed", NoCommand, Fails(f))

NextPatch(f, patch) ==
  LET i   == f.patchIndex
      cmd == Segment("patch", i, FALSE)
  IN  IF i >= SegmentCount(patch) THEN Refused(f)
      ELSE IF AckExpected(patch, i, patch.mode) THEN Result("Send", cmd, f)
      ELSE Result("SendNoWait", cmd, [f EXCEPT !.patchIndex = i + 1])

\* The download mode of an NVM image is none: each segment is acknowledged.
NextNvm(f, nvms) ==
  LET i == f.nvmIndex
      image == nvms[f.selected]
  IN  IF i >= SegmentCount(image) THEN Refused(f)
      ELSE Result("Send", Segment(f.selected, i, CarriesBaud(image, i)), f)

FsmNext(f, patch, nvms) ==
  CASE f.state = "Start" ->
         Result("Send", Command("version"), [f EXCEPT !.state = "VersionRequest"])
    [] f.state = "SetBaudRate" ->
         Result("SendBaudAndSwitch", Command("baud"), [f EXCEPT !.state = "PatchDownload"])
    [] f.state = "PatchDownload"    -> NextPatch(f, patch)
    [] f.state = "BoardIdRequest"   -> Result("Send", Command("board"), f)
    [] f.state = "NvmDownload"      -> NextNvm(f, nvms)
    [] f.state = "DisableLogging"   -> Result("Send", Command("logging"), f)
    [] f.state = "BuildInfo"        -> Result("Send", Command("build"), f)
    [] f.state = "HciReset"         -> Result("Send", Command("hci_reset"), f)
    [] f.state = "ReadLocalVersion" -> Result("Send", Command("local_version"), f)
    [] f.state = "Ready"            -> Result("Done", NoCommand, f)
    [] OTHER                        -> Refused(f)

-----------------------------------------------------------------------------
(***************************************************************************)
(* QcaFsmOnPacket, and IsTlvAcknowledgement, IsBuildInfoResponse and       *)
(* IsCommandComplete: an answer is what it answers; each state takes one   *)
(* kind of answer, and an acknowledgement does not say of which segment.   *)
(***************************************************************************)
Awaits == [VersionRequest |-> "version", PatchDownload |-> "ack",
           BoardIdRequest |-> "board", NvmDownload |-> "ack",
           DisableLogging |-> "logging", BuildInfo |-> "build",
           HciReset |-> "hci_reset", ReadLocalVersion |-> "local_version"]

Follows == [VersionRequest |-> "SetBaudRate", DisableLogging |-> "BuildInfo",
            BuildInfo |-> "HciReset", HciReset |-> "ReadLocalVersion",
            ReadLocalVersion |-> "Ready"]

Matches(f, answer) == f.state \in DOMAIN Awaits /\ Awaits[f.state] = answer.to

PatchAcked(f, patch) ==
  [f EXCEPT !.patchIndex = @ + 1,
            !.state = IF f.patchIndex + 1 >= SegmentCount(patch) THEN "BoardIdRequest" ELSE @]

NvmAcked(f, nvms) ==
  [f EXCEPT !.nvmIndex = @ + 1,
            !.state = IF f.nvmIndex + 1 >= SegmentCount(nvms[f.selected])
                        THEN "DisableLogging" ELSE @]

OnPacket(f, answer, patch, nvms) ==
  IF ~Matches(f, answer) THEN f
  ELSE CASE f.state = "PatchDownload"  -> PatchAcked(f, patch)
         [] f.state = "NvmDownload"    -> NvmAcked(f, nvms)
         [] f.state = "BoardIdRequest" -> SelectNvm([f EXCEPT !.board = answer.board], nvms)
         [] OTHER                      -> [f EXCEPT !.state = Follows[f.state]]

\* A board ID for which no image is found fails the machine and is not handled.
Handles(f, answer, patch, nvms) ==
  Matches(f, answer) /\ OnPacket(f, answer, patch, nvms).state # "Failed"
=============================================================================
