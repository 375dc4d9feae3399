---------------------------- MODULE MCLineFilter ----------------------------
(***************************************************************************)
(* A small instance of UartLine and one of BusTimeFilter, checked together.*)
(* They share no state: a behaviour explores one of the two and leaves the *)
(* other as it began.                                                      *)
(***************************************************************************)
EXTENDS UartLine, BusTimeFilter, TLC

\* An ACL packet whose data looks like the start of an event, voice, and an
\* event without parameters.
MCData == {<<2, 30, 2, 0, 4, 2>>, <<3, 30, 1, 9>>, <<4, 16, 0>>}

Symmetric == Permutations(Dev) \cup Permutations(BusContexts)

VARIABLE part

InLine   == part = "line" /\ UNCHANGED <<part, vars>>
InFilter == part = "filter" /\ UNCHANGED <<part, lineVars>>

MCInit == part \in {"line", "filter"} /\ LineInit /\ Init

\* The lower filter.
FilterNext ==
  \/ InFilter /\ LookForSelf
  \/ InFilter /\ LookForSaved
  \/ InFilter /\ CompareSaved
  \/ InFilter /\ LookForAny
  \/ \E d \in Dev : InFilter /\ DeviceAdd(d)
  \/ \E d \in Dev : InFilter /\ DeviceCleanup(d)
  \/ \E d \in Dev, room \in SUBSET Members : InFilter /\ QueryInterfaceComplete(d, room)
  \/ \E d \in Dev : InFilter /\ Call(d)
  \/ \E d \in Dev : InFilter /\ Dereference(d)
  \/ \E d \in Dev, x \in Members : InFilter /\ HookQueryBusTime(d, x)

MCNext ==
  \/ FilterNext
  \/ \E c \in Commands, taken \in BOOLEAN : InLine /\ QcaUartSubmitCommand(c, taken)
  \/ InLine /\ ControllerAnswers
  \/ InLine /\ Unasked
  \/ InLine /\ Feed
  \/ InLine /\ ResetTransport

MCSpec == MCInit /\ [][MCNext]_<<part, lineVars, vars>>
=============================================================================
