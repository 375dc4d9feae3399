---------------------------- MODULE MCQcaBringUp ----------------------------
(***************************************************************************)
(* Small instances of QcaBringUp: segments of 32 units and tag headers of  *)
(* 4, so that an image has one to three segments and the baud byte may be  *)
(* in the first or in a later one.                                         *)
(***************************************************************************)
EXTENDS QcaBringUp, TLC

CONSTANT b1, b2     \* two boards; a file is there for at most the first

Tag(isHci, length) == [hci |-> isHci, len |-> length]

PatchOf(size, m) ==
  [type |-> "patch", size |-> size, declared |-> size - 4, mode |-> m, tags |-> <<>>]
NvmOf(size, t) ==
  [type |-> "nvm", size |-> size, declared |-> size - 4, mode |-> "none", tags |-> t]

\* The HCI tag behind a long one: baud byte at 4 + 24 + 4 + 1 = 33.
LateTag  == NvmOf(40, <<Tag(FALSE, 20), Tag(TRUE, 8)>>)
EarlyTag == NvmOf(40, <<Tag(TRUE, 22)>>)
ShortTag == NvmOf(40, <<Tag(TRUE, 2), Tag(TRUE, 26)>>)

MCFirmware ==
  {[patch |-> PatchOf(64, "none"),   nvms |-> (NoBoard :> EarlyTag) @@ (b1 :> LateTag)],
   [patch |-> PatchOf(40, "vse_cc"), nvms |-> NoBoard :> EarlyTag],
   [patch |-> PatchOf(40, "vse_cc"), nvms |-> b1 :> LateTag],
   [patch |-> PatchOf(40, "vse_cc"), nvms |-> NoBoard :> ShortTag]}
MCBoards  == {NoBoard, b1, b2}
MCEntries == {[fw |-> "rom", rate |-> "init", awake |-> TRUE],
              [fw |-> "rom", rate |-> "oper", awake |-> TRUE],
              [fw |-> "patched", rate |-> "oper", awake |-> FALSE]}
=============================================================================
