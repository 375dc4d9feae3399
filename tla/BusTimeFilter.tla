--------------------------- MODULE BusTimeFilter ---------------------------
(***************************************************************************)
(* The optional lower filter (src/src/filter/deckbtflt.c): a table of the  *)
(* devices it is attached to, the USBDI bus interface it hooks or makes up *)
(* when a client queries it, and the hooked QueryBusTime(Ex), which must   *)
(* find its device again by the bus context the client passes.             *)
(*                                                                         *)
(* The lookup takes no lock: it reads the table place by place while other *)
(* devices come and go, and reads what is saved in their contexts.         *)
(*                                                                         *)
(* External: the stack below, which may fail the interface, leave a member *)
(* NULL, fail a call, or give a bus context that is NULL or that another   *)
(* stack gave too; and the client, the function driver above, which drops  *)
(* its interface before the device goes away.  Lookups only read, so one   *)
(* call at a time is enough.                                               *)
(*                                                                         *)
(* A definition BugXxx is a variant of the next definition with a          *)
(* plausible mistake, used only to show which property notices it.         *)
(***************************************************************************)
EXTENDS Integers

CONSTANTS
  Dev,          \* devices the filter may be attached to
  Null,         \* a NULL pointer: an empty place of the table, no context
  BusContexts,  \* bus contexts the stacks below may give
  Members,      \* QueryBusTime and QueryBusTimeEx
  MaxDevices,   \* DECKBTFLT_MAX_DEVICES (4)
  Modes,        \* values of IsochClockMode in the registry
  NoMemory      \* the allocation of the completion context may fail

ASSUME FilterAssumption ==
  /\ Null \notin Dev \cup BusContexts /\ Dev \cap BusContexts = {}
  /\ Modes \subseteq 0..2 /\ NoMemory \in BOOLEAN /\ MaxDevices \in Nat \ {0}

VARIABLES
  table,     \* g_FilterDevices
  present,   \* devices with a filter device object
  mode,      \* IsochClockMode, read when the device is added
  bus,       \* external: the bus context of the stack below a device
  saved,     \* OriginalBusContext and whether OriginalQueryBusTime(Ex) are set
  synthesizing,  \* devices with IsochHookSynthesizing set
  iface,     \* the interface a client holds
  walk,      \* the lookup of the call under way
  freed,     \* history: a context it had in hand has gone
  answer     \* of a call, until the next step: whom it asked, who was asked
             \* for it, what it was told

devices == <<table, present, mode, bus>>
clocks  == <<saved, synthesizing, iface>>
vars == <<devices, clocks, walk, freed, answer>>

Contexts  == Dev \cup BusContexts \cup {Null}
NoSaved   == [ctx |-> Null, has |-> {}]

\* An interface: where it came from, its bus context, and who is behind its
\* members; "null" is a NULL pointer.
NoIface   == [from |-> "none", ctx |-> Null, fn |-> [x \in Members |-> "null"]]
NoAnswer  == [asked |-> Null, by |-> Null, lower |-> "absent", told |-> "error",
              source |-> "none"]

\* A lookup: for the interface of a device, in which of the three loops, at
\* which place, and the pointer in hand; at the end that is the result.
NoWalk    == [dev |-> Null, pass |-> "done", place |-> 1, seen |-> Null]

TypeOK ==
  /\ table \in [1..MaxDevices -> Dev \cup {Null}] /\ present \subseteq Dev
  /\ mode \in [Dev -> 0..2] /\ bus \in [Dev -> BusContexts \cup {Null}]
  /\ saved \in [Dev -> [ctx : Contexts, has : SUBSET Members]]
  /\ synthesizing \subseteq Dev
  /\ iface \in [Dev -> [from : {"none", "lower", "synthetic"}, ctx : Contexts,
                        fn : [Members -> {"null", "lower", "hook"}]]]
  /\ walk \in [dev : Dev \cup {Null}, pass : {"self", "saved", "any", "done"},
               place : 1..MaxDevices, seen : Dev \cup {Null}]
  /\ freed \in BOOLEAN
  /\ answer.asked \in Dev \cup {Null} /\ answer.by \in Dev \cup {Null}
  /\ answer.lower \in {"absent", "ok", "error"} /\ answer.told \in {"ok", "error"}
  /\ answer.source \in {"none", "lower", "synthetic"}

Init ==
  /\ table = [i \in 1..MaxDevices |-> Null] /\ present = {}
  /\ mode = [d \in Dev |-> 0] /\ bus = [d \in Dev |-> Null]
  /\ saved = [d \in Dev |-> NoSaved] /\ synthesizing = {}
  /\ iface = [d \in Dev |-> NoIface]
  /\ walk = NoWalk /\ freed = FALSE /\ answer = NoAnswer

-----------------------------------------------------------------------------
(***************************************************************************)
(* The table.                                                              *)
(***************************************************************************)
Places(x) == {i \in DOMAIN table : table[i] = x}
Lowest(S) == CHOOSE i \in S : \A j \in S : i <= j

\* A device for which there is no place stays out of the table.
RegisterDevice(d) ==
  table' = IF Places(Null) = {} THEN table ELSE [table EXCEPT ![Lowest(Places(Null))] = d]

UnregisterDevice(d) ==
  table' = IF Places(d) = {} THEN table ELSE [table EXCEPT ![Lowest(Places(d))] = Null]

Registered == {table[i] : i \in DOMAIN table} \ {Null}

(***************************************************************************)
(* FindContext: a place at a time, for the context itself; for the device  *)
(* whose saved lower context it is; for the first device there is.         *)
(***************************************************************************)
Context == iface[walk.dev].ctx

BugNotSaved(pass) == IF pass = "self" THEN "any" ELSE "done"

NextPass(pass) ==
  CASE pass = "self" -> "saved" [] pass = "saved" -> "any" [] OTHER -> "done"

GoesOn ==
  walk' = IF walk.place < MaxDevices
            THEN [walk EXCEPT !.place = @ + 1, !.seen = Null]
            ELSE [walk EXCEPT !.pass = NextPass(walk.pass), !.place = 1, !.seen = Null]

Finds(e) == walk' = [walk EXCEPT !.pass = "done", !.seen = e]

\* A client calls through a thunk.
Call(d) ==
  /\ walk = NoWalk
  /\ \E x \in Members : iface[d].fn[x] = "hook"
  /\ walk' = [NoWalk EXCEPT !.dev = d, !.pass = IF iface[d].ctx = Null THEN "any" ELSE "self"]
  /\ freed' = FALSE /\ answer' = NoAnswer /\ UNCHANGED <<devices, clocks>>

LookForSelf ==
  /\ walk.pass = "self"
  /\ IF table[walk.place] = Context THEN Finds(Context) ELSE GoesOn
  /\ UNCHANGED <<devices, clocks, freed, answer>>

LookForSaved ==
  /\ walk.pass = "saved" /\ walk.seen = Null
  /\ IF table[walk.place] = Null THEN GoesOn
     ELSE walk' = [walk EXCEPT !.seen = table[walk.place]]
  /\ UNCHANGED <<devices, clocks, freed, answer>>

\* What is read in the context of a device that has gone may be anything.
CompareSaved ==
  /\ walk.pass = "saved" /\ walk.seen # Null
  /\ \E same \in BOOLEAN :
       /\ walk.seen \in present => (same <=> saved[walk.seen].ctx = Context)
       /\ IF same THEN Finds(walk.seen) ELSE GoesOn
  /\ UNCHANGED <<devices, clocks, freed, answer>>

LookForAny ==
  /\ walk.pass = "any"
  /\ IF table[walk.place] = Null THEN GoesOn ELSE Finds(table[walk.place])
  /\ UNCHANGED <<devices, clocks, freed, answer>>

FindContext == LookForSelf \/ LookForSaved \/ CompareSaved \/ LookForAny

\* The lookup of a call through the interface of d has its result.
Found(d) == walk.dev = d /\ walk.pass = "done"

-----------------------------------------------------------------------------
(***************************************************************************)
(* Device add and cleanup.                                                 *)
(***************************************************************************)
\* The registry may hold another value for each device that is added.
ReadIsochClockMode(d) == \E m \in Modes : mode' = [mode EXCEPT ![d] = m]

DeviceAdd(d) ==
  /\ d \notin present /\ present' = present \cup {d}
  /\ ReadIsochClockMode(d)
  /\ \E b \in BusContexts \cup {Null} : bus' = [bus EXCEPT ![d] = b]
  /\ RegisterDevice(d) /\ answer' = NoAnswer
  /\ UNCHANGED <<clocks, walk, freed>>

\* The client has dropped what it held; the context goes with the device.
DeviceCleanup(d) ==
  /\ d \in present /\ iface[d] = NoIface /\ present' = present \ {d}
  /\ mode' = [mode EXCEPT ![d] = 0] /\ bus' = [bus EXCEPT ![d] = Null]
  /\ saved' = [saved EXCEPT ![d] = NoSaved] /\ synthesizing' = synthesizing \ {d}
  /\ answer' = NoAnswer
  /\ UnregisterDevice(d) /\ freed' = (freed \/ walk.seen = d) /\ UNCHANGED <<iface, walk>>

-----------------------------------------------------------------------------
(***************************************************************************)
(* IRP_MN_QUERY_INTERFACE for the USBDI interface, of a client whose Size  *)
(* and Version have room for the members `asked`; the stack below fails it *)
(* or fills in `given`.  Without memory for its completion routine, or in  *)
(* mode 0, the filter leaves the answer of the stack below alone.          *)
(***************************************************************************)
\* A member left NULL is hooked only when the clock is made up.
Hooked(d, isGiven) == isGiven \/ mode[d] = 2

PassThrough(d, asked, given) ==
  /\ iface' = [iface EXCEPT ![d] =
       [from |-> "lower", ctx |-> bus[d],
        fn |-> [x \in Members |-> IF x \in given \cap asked THEN "lower" ELSE "null"]]]
  /\ UNCHANGED <<saved, synthesizing>>

\* HookInterface: the lower function and context are saved, the function is
\* called once (a failure is only noted) and replaced by the thunk.
HookInterface(d, asked, given) ==
  \E failing \in SUBSET (given \cap asked) :
    /\ saved' = [saved EXCEPT ![d] = [ctx |-> bus[d], has |-> @.has \cup (given \cap asked)]]
    /\ synthesizing' = synthesizing \cup {e \in {d} : mode[d] = 2 /\ failing \cup (asked \ given) # {}}
    /\ iface' = [iface EXCEPT ![d] =
         [from |-> "lower", ctx |-> bus[d],
          fn |-> [x \in Members |-> IF x \in asked /\ Hooked(d, x \in given) THEN "hook"
                                    ELSE "null"]]]

\* SynthesizeInterface: the context is the filter's own.
SynthesizeInterface(d, asked) ==
  /\ synthesizing' = synthesizing \cup {d}
  /\ iface' = [iface EXCEPT ![d] =
       [from |-> "synthetic", ctx |-> d,
        fn |-> [x \in Members |-> IF x \in asked THEN "hook" ELSE "null"]]]
  /\ UNCHANGED saved

QueryInterfaceComplete(d, asked) ==
  /\ d \in present /\ iface[d] = NoIface
  /\ \/ (mode[d] = 0 \/ asked = {} \/ NoMemory)
        /\ \E given \in SUBSET Members : PassThrough(d, asked, given)
     \/ mode[d] # 0 /\ asked # {}
        /\ \E given \in SUBSET Members : HookInterface(d, asked, given)
     \/ mode[d] = 2 /\ SynthesizeInterface(d, asked)
     \/ (mode[d] # 2 \/ NoMemory) /\ UNCHANGED clocks
  /\ answer' = NoAnswer /\ UNCHANGED <<devices, walk, freed>>

\* The last reference.  Those of a synthesized interface count on a device
\* object, which only tells the framework when it may go.
Dereference(d) ==
  /\ iface[d] # NoIface /\ walk.dev # d
  /\ iface' = [iface EXCEPT ![d] = NoIface]
  /\ answer' = NoAnswer /\ UNCHANGED <<devices, saved, synthesizing, walk, freed>>

-----------------------------------------------------------------------------
(***************************************************************************)
(* A call of QueryBusTime or QueryBusTimeEx through the interface.         *)
(***************************************************************************)
\* What the stack below answers to the saved function, if there is one.
LowerAnswers(c, x) == IF x \in saved[c].has THEN {"ok", "error"} ELSE {"absent"}

\* Mode 2 replaces an error, or what nobody answered.
Synthesizes(c, low) == mode[c] = 2 /\ low # "ok"

\* Through a context that has gone anything may be answered.
HookQueryBusTime(d, x) ==
  LET c == walk.seen
      Answered(low, told, source) ==
        answer' = [asked |-> d, by |-> c, lower |-> low, told |-> told, source |-> source]
  IN  /\ Found(d) /\ iface[d].fn[x] = "hook" /\ walk' = NoWalk
      /\ \/ c = Null /\ Answered("absent", "error", "none") /\ UNCHANGED synthesizing
         \/ /\ c \in present
            /\ \E low \in LowerAnswers(c, x) :
                 Answered(low,
                          IF low = "ok" \/ Synthesizes(c, low) THEN "ok" ELSE "error",
                          IF Synthesizes(c, low) THEN "synthetic"
                          ELSE IF low = "ok" THEN "lower" ELSE "none")
                 /\ synthesizing' = synthesizing \cup {e \in {c} : Synthesizes(c, low)}
         \/ /\ c \in Dev \ present
            /\ \E low, told \in {"ok", "error"}, source \in {"none", "lower", "synthetic"} :
                 Answered(low, told, source)
            /\ UNCHANGED synthesizing
      /\ UNCHANGED <<devices, saved, iface, freed>>

Next ==
  \/ FindContext
  \/ \E d \in Dev :
       \/ DeviceAdd(d) \/ DeviceCleanup(d)
       \/ \E asked \in SUBSET Members : QueryInterfaceComplete(d, asked)
       \/ Call(d) \/ Dereference(d)
       \/ \E x \in Members : HookQueryBusTime(d, x)

Spec == Init /\ [][Next]_vars

-----------------------------------------------------------------------------
\* What the head of the file says of the modes: mode 1 passes on what the
\* stack below answered; mode 2 never fails, hands out the lower clock while
\* that works, and the published flags tell who was given a made-up time.
ModeKept(d) ==
  /\ mode[d] = 1 =>
       answer.source # "synthetic" /\ (answer.told = "ok" <=> answer.lower = "ok")
  /\ mode[d] = 2 =>
       /\ answer.told = "ok" /\ (answer.source = "lower" <=> answer.lower = "ok")
       /\ answer.source = "synthetic" => d \in synthesizing

\* The context of the interface tells its device from the others: it is the
\* filter's own, or no other attached stack gave it.
Told(d) ==
  \/ iface[d].ctx = d
  \/ bus[d] # Null /\ \A e \in present \ {d} : bus[e] # bus[d]

(***************************************************************************)
(* A hooked call through the interface of a device that has a place in the *)
(* table is answered for that device and no other, and in its mode,        *)
(* whatever devices come and go while the table is searched: provided that *)
(* no other stack gave the same bus context, and that no device goes whose *)
(* context the search has in hand, which nothing in the file prevents.     *)
(* One without a place is never answered for itself (the fallback of       *)
(* deckbtflt.c:132): it gets the answer, and the mode, of another attached *)
(* device, or an error if there is none.                                   *)
(***************************************************************************)
AnsweredByItsStack ==
  /\ TypeOK /\ Registered \subseteq present
  /\ answer.asked # Null /\ ~freed =>
       /\ answer.by \in present \cup {Null}
       /\ answer.asked \in Registered /\ Told(answer.asked) => answer.by = answer.asked
       /\ answer.asked \notin Registered => answer.by # answer.asked
       /\ IF answer.by = Null THEN answer.told = "error" ELSE ModeKept(answer.by)
=============================================================================
