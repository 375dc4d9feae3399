--------------------------- MODULE BusTimeProofs ---------------------------
(***************************************************************************)
(* For which device a hooked call of the lower filter is answered, for     *)
(* every set of devices and bus contexts, every size of the table, every   *)
(* mix of modes, and whatever happens to the table while it is searched.   *)
(***************************************************************************)
EXTENDS BusTimeFilter, FiniteSetTheorems, WellFoundedInduction, TLAPS

-----------------------------------------------------------------------------
(***************************************************************************)
(* The inductive invariant.                                                *)
(***************************************************************************)
\* A device has at most one place, and is attached while it has one.
OnePlace ==
  /\ Registered \subseteq present
  /\ \A i, j \in 1..MaxDevices : table[i] = table[j] /\ table[i] # Null => i = j

\* What the filter saved of a device is the context of its own stack.
OwnContext == \A d \in Dev : saved[d].ctx \in {Null, bus[d]}

\* Nothing is left of a device that is not attached.
NothingLeft ==
  \A d \in Dev \ present :
    bus[d] = Null /\ iface[d] = NoIface /\ saved[d] = NoSaved

Hooks(d) == \E x \in Members : iface[d].fn[x] = "hook"

\* A hooked interface names its device: by the context of its stack, which is
\* saved, or by the filter's own.
HookKnows ==
  \A d \in present : Hooks(d) =>
    \/ iface[d].ctx = d
    \/ iface[d].ctx = bus[d] /\ saved[d].ctx = bus[d]

Typed ==
  /\ table \in [1..MaxDevices -> Dev \cup {Null}] /\ present \subseteq Dev
  /\ mode \in [Dev -> 0..2] /\ bus \in [Dev -> BusContexts \cup {Null}]
  /\ saved \in [Dev -> [ctx : Contexts, has : SUBSET Members]]
  /\ synthesizing \subseteq Dev
  /\ iface \in [Dev -> [from : {"none", "lower", "synthetic"}, ctx : Contexts,
                        fn : [Members -> {"null", "lower", "hook"}]]]

Inv == Typed /\ OnePlace /\ OwnContext /\ NothingLeft /\ HookKnows

WalkTyped ==
  /\ walk \in [dev : Dev \cup {Null}, pass : {"self", "saved", "any", "done"},
               place : 1..MaxDevices, seen : Dev \cup {Null}]
  /\ freed \in BOOLEAN

\* A lookup is for a client that holds its interface meanwhile; what it has in
\* hand is attached, or has gone since; and it is the device looked for only
\* if that has a place.
InHand ==
  /\ walk.dev = Null => walk = NoWalk
  /\ walk.dev # Null => walk.dev \in present /\ Hooks(walk.dev) /\ answer = NoAnswer
  /\ ~freed /\ walk.seen # Null => walk.seen \in present
  /\ walk.dev # Null /\ walk.seen = walk.dev => walk.dev \in Registered

Ahead == \E i \in walk.place..MaxDevices : table[i] = walk.dev

\* The lookup has not passed the device it is for, and does not come to the
\* last loop; what it ends with has saved the context.
OnTheWay ==
  walk.dev \in Registered /\ Context # Null =>
    /\ walk.pass = "self" /\ Context = walk.dev => Ahead
    /\ walk.pass = "saved" =>
         /\ Ahead /\ Context # walk.dev
         /\ walk.seen # Null /\ table[walk.place] = walk.dev => walk.seen = walk.dev
    /\ walk.pass # "any"
    /\ walk.pass = "done" =>
         /\ walk.seen # Null
         /\ Context = walk.dev => walk.seen = walk.dev
         /\ Context # walk.dev /\ ~freed => saved[walk.seen].ctx = Context

WalkInv == WalkTyped /\ InHand /\ OnTheWay

AnswerTyped ==
  /\ answer.asked \in Dev \cup {Null} /\ answer.by \in Dev \cup {Null}
  /\ answer.lower \in {"absent", "ok", "error"} /\ answer.told \in {"ok", "error"}
  /\ answer.source \in {"none", "lower", "synthetic"}

Answers ==
  answer.asked # Null /\ ~freed =>
    /\ answer.by \in present \cup {Null}
    /\ answer.asked \in Registered /\ Told(answer.asked) => answer.by = answer.asked
    /\ answer.asked \notin Registered => answer.by # answer.asked
    /\ IF answer.by = Null THEN answer.told = "error" ELSE ModeKept(answer.by)

AnswerInv == AnswerTyped /\ Answers

IInv == Inv /\ WalkInv /\ AnswerInv

-----------------------------------------------------------------------------
(***************************************************************************)
(* Places of the table.                                                    *)
(***************************************************************************)
\* Of some places one is the lowest.
LEMMA LowestIs ==
  ASSUME NEW S, S \subseteq 1..MaxDevices, S # {}
  PROVE  Lowest(S) \in S
<1> DEFINE N == MaxDevices
           T == {1..n : n \in S}
<1>1. N \in Nat
  BY FilterAssumption
<1>2. IsWellFoundedOn(StrictSubsetOrdering(1..N), SUBSET (1..N))
  <2>1. IsFiniteSet(1..N)
    BY <1>1, FS_Interval
  <2>2. QED
    BY <2>1, FS_StrictSubsetOrderingWellFounded, FS_FiniteSubsetsOfFinite
<1>3. T \subseteq SUBSET (1..N) /\ T # {}
  <2>1. \A n \in S : 1..n \subseteq 1..N
    BY <1>1
  <2>2. QED
    BY <2>1
<1>4. PICK s \in T : \A r \in T : ~(<<r, s>> \in StrictSubsetOrdering(1..N))
  <2> HIDE DEF T, N
  <2>1. QED
    BY <1>2, <1>3, WFMin
<1>5. PICK n \in S : s = 1..n
  OBVIOUS
<1>6. \A m \in S : n <= m
  <2> SUFFICES ASSUME NEW m \in S, ~(n <= m) PROVE FALSE
    OBVIOUS
  <2>1. m \in Nat /\ n \in Nat /\ m \in 1..N /\ n \in 1..N
    BY <1>1
  <2>2. 1..m \subseteq 1..n /\ n \in 1..n /\ n \notin 1..m
    BY <2>1
  <2>3. 1..m \in T /\ 1..m \in SUBSET (1..N) /\ 1..n \in SUBSET (1..N) /\ 1..m # 1..n
    BY <1>3, <2>2
  <2> HIDE DEF T, N
  <2>4. <<1..m, s>> \in StrictSubsetOrdering(1..N)
    BY <1>5, <2>2, <2>3 DEF StrictSubsetOrdering
  <2>5. QED
    BY <1>4, <2>3, <2>4
<1>7. QED
  BY <1>6 DEF Lowest

-----------------------------------------------------------------------------
(***************************************************************************)
(* One lemma per action: its effect on the invariant.                      *)
(***************************************************************************)
LEMMA InitHolds == Init => IInv
<1> SUFFICES ASSUME Init PROVE IInv
  OBVIOUS
<1> USE FilterAssumption
<1>1. Registered = {}
  BY DEF Init, Registered
<1>2. Typed /\ WalkTyped /\ AnswerTyped
  <2>1. /\ [i \in 1..MaxDevices |-> Null] \in [1..MaxDevices -> Dev \cup {Null}]
        /\ 1 \in 1..MaxDevices
    OBVIOUS
  <2>2. NoSaved \in [ctx : Contexts, has : SUBSET Members]
    BY DEF NoSaved, Contexts
  <2>3. NoIface \in [from : {"none", "lower", "synthetic"}, ctx : Contexts,
                     fn : [Members -> {"null", "lower", "hook"}]]
    BY DEF NoIface, Contexts
  <2>4. Typed
    BY <2>1, <2>2, <2>3 DEF Init, Typed
  <2>5. WalkTyped
    BY <2>1 DEF Init, WalkTyped, NoWalk
  <2>6. AnswerTyped
    BY DEF Init, AnswerTyped, NoAnswer
  <2>7. QED
    BY <2>4, <2>5, <2>6
<1>3. OnePlace
  BY <1>1 DEF Init, OnePlace
<1>4. OwnContext /\ NothingLeft /\ HookKnows
  BY DEF Init, OwnContext, NothingLeft, HookKnows, NoSaved
<1>5. InHand /\ OnTheWay
  BY <1>1 DEF Init, InHand, OnTheWay, NoWalk
<1>6. Answers
  BY DEF Init, Answers, NoAnswer
<1>7. QED
  BY <1>2, <1>3, <1>4, <1>5, <1>6 DEF IInv, Inv, WalkInv, AnswerInv

\* An action that is no call forgets the last answer.
LEMMA ForgetsAnswer ==
  ASSUME answer' = NoAnswer
  PROVE  AnswerInv'
BY FilterAssumption DEF AnswerInv, AnswerTyped, Answers, NoAnswer

LEMMA AddKeeps ==
  ASSUME Inv, NEW d \in Dev, DeviceAdd(d)
  PROVE  Inv'
<1> USE FilterAssumption
<1>1. d \notin present /\ present' = present \cup {d}
      /\ UNCHANGED <<saved, synthesizing, iface>>
  BY DEF DeviceAdd, clocks
<1>2. PICK m \in Modes : mode' = [mode EXCEPT ![d] = m]
  BY DEF DeviceAdd, ReadIsochClockMode
<1>3. PICK b \in BusContexts \cup {Null} : bus' = [bus EXCEPT ![d] = b]
  BY DEF DeviceAdd
<1>4. /\ table \in [1..MaxDevices -> Dev \cup {Null}] /\ table' \in [1..MaxDevices -> Dev \cup {Null}]
      /\ d \notin Registered
      /\ \/ table' = table
         \/ \E i \in 1..MaxDevices : table[i] = Null /\ table' = [table EXCEPT ![i] = d]
  <2>1. table \in [1..MaxDevices -> Dev \cup {Null}] /\ d \notin Registered
    BY <1>1 DEF Inv, Typed, OnePlace
  <2>2. table' = IF Places(Null) = {} THEN table ELSE [table EXCEPT ![Lowest(Places(Null))] = d]
    BY DEF DeviceAdd, RegisterDevice
  <2>3. Places(Null) # {} => Lowest(Places(Null)) \in Places(Null)
    <3>1. Places(Null) \subseteq 1..MaxDevices
      BY <2>1 DEF Places
    <3>2. QED
      BY <3>1, LowestIs
  <2>4. \A i \in Places(Null) : i \in 1..MaxDevices /\ table[i] = Null
    BY <2>1 DEF Places
  <2>5. QED
    BY <2>1, <2>2, <2>3, <2>4
<1>5. Typed'
  <2>1. table' \in [1..MaxDevices -> Dev \cup {Null}] /\ present' \subseteq Dev
    BY <1>1, <1>4 DEF Inv, Typed
  <2>2. mode' \in [Dev -> 0..2] /\ bus' \in [Dev -> BusContexts \cup {Null}]
    BY <1>2, <1>3 DEF Inv, Typed
  <2>3. /\ saved' \in [Dev -> [ctx : Contexts, has : SUBSET Members]]
        /\ synthesizing' \subseteq Dev
        /\ iface' \in [Dev -> [from : {"none", "lower", "synthetic"}, ctx : Contexts,
                        fn : [Members -> {"null", "lower", "hook"}]]]
    BY <1>1 DEF Inv, Typed
  <2>4. QED
    BY <1>1, <2>1, <2>2, <2>3 DEF Typed
<1>6. OnePlace'
  <2>1. Registered' \subseteq Registered \cup {d}
    BY <1>4 DEF Registered
  <2>2. Registered' \subseteq present'
    BY <1>1, <2>1 DEF Inv, OnePlace
  <2>3. ASSUME NEW i \in 1..MaxDevices, NEW j \in 1..MaxDevices,
               table'[i] = table'[j], table'[i] # Null
        PROVE  i = j
    <3>1. \A k \in 1..MaxDevices : table[k] # d
      BY <1>4 DEF Registered
    <3>2. CASE table' = table
      BY <2>3, <3>2 DEF Inv, OnePlace
    <3>3. CASE \E k \in 1..MaxDevices : table[k] = Null /\ table' = [table EXCEPT ![k] = d]
      BY <1>4, <2>3, <3>1, <3>3 DEF Inv, OnePlace
    <3>4. QED
      BY <1>4, <3>2, <3>3
  <2>4. QED
    BY <2>2, <2>3 DEF OnePlace
<1>7. /\ bus \in [Dev -> BusContexts \cup {Null}] /\ present \subseteq Dev
      /\ saved[d] = NoSaved /\ iface[d] = NoIface
  BY <1>1 DEF Inv, Typed, NothingLeft
<1>8. OwnContext'
  BY <1>1, <1>3, <1>7 DEF Inv, OwnContext, NoSaved
<1>9. NothingLeft'
  BY <1>1, <1>3, <1>7 DEF Inv, NothingLeft
<1>10. HookKnows'
  <2>1. \A x \in Members : iface'[d].fn[x] # "hook"
    BY <1>1, <1>7 DEF NoIface
  <2>2. \A e \in present : bus'[e] = bus[e]
    BY <1>1, <1>3, <1>7
  <2>3. QED
    BY <1>1, <2>1, <2>2 DEF Inv, HookKnows, Hooks
<1>11. QED
  BY <1>1, <1>5, <1>6, <1>8, <1>9, <1>10 DEF Inv

LEMMA CleanupKeeps ==
  ASSUME Inv, NEW d \in Dev, DeviceCleanup(d)
  PROVE  Inv'
<1> USE FilterAssumption
<1>1. /\ d \in present /\ iface[d] = NoIface /\ present' = present \ {d}
      /\ mode' = [mode EXCEPT ![d] = 0] /\ bus' = [bus EXCEPT ![d] = Null]
      /\ saved' = [saved EXCEPT ![d] = NoSaved] /\ synthesizing' = synthesizing \ {d}
      /\ iface' = iface
  BY DEF DeviceCleanup
<1>2. /\ table' \in [1..MaxDevices -> Dev \cup {Null}]
      /\ \A i \in 1..MaxDevices : table'[i] = IF table[i] = d THEN Null ELSE table[i]
  <2>1. table \in [1..MaxDevices -> Dev \cup {Null}]
    BY DEF Inv, Typed
  <2>2. table' = IF Places(d) = {} THEN table ELSE [table EXCEPT ![Lowest(Places(d))] = Null]
    BY DEF DeviceCleanup, UnregisterDevice
  <2>3. Places(d) # {} => Lowest(Places(d)) \in Places(d)
    <3>1. Places(d) \subseteq 1..MaxDevices
      BY <2>1 DEF Places
    <3>2. QED
      BY <3>1, LowestIs
  <2>4. \A i \in 1..MaxDevices : i \in Places(d) <=> table[i] = d
    BY <2>1 DEF Places
  <2>5. Places(d) \subseteq 1..MaxDevices
    BY <2>1 DEF Places
  <2>6. \A i, j \in Places(d) : i = j
    BY <2>4, <2>5 DEF Inv, OnePlace
  <2>7. QED
    BY <2>1, <2>2, <2>3, <2>4, <2>5, <2>6
<1>3. Typed'
  <2>1. table' \in [1..MaxDevices -> Dev \cup {Null}] /\ present' \subseteq Dev
    BY <1>1, <1>2 DEF Inv, Typed
  <2>2. mode' \in [Dev -> 0..2] /\ bus' \in [Dev -> BusContexts \cup {Null}]
    BY <1>1 DEF Inv, Typed
  <2>3. saved' \in [Dev -> [ctx : Contexts, has : SUBSET Members]]
    BY <1>1 DEF Inv, Typed, NoSaved, Contexts
  <2>4. /\ synthesizing' \subseteq Dev
        /\ iface' \in [Dev -> [from : {"none", "lower", "synthetic"}, ctx : Contexts,
                        fn : [Members -> {"null", "lower", "hook"}]]]
    BY <1>1 DEF Inv, Typed
  <2>5. QED
    BY <1>1, <2>1, <2>2, <2>3, <2>4 DEF Typed
<1>4. OnePlace'
  <2>1. DOMAIN table = 1..MaxDevices /\ DOMAIN table' = 1..MaxDevices
    BY <1>2 DEF Inv, Typed
  <2>2. Registered' \subseteq Registered \ {d}
    BY <1>2, <2>1 DEF Registered
  <2>3. QED
    BY <1>1, <1>2, <2>2 DEF Inv, OnePlace
<1>5. /\ bus \in [Dev -> BusContexts \cup {Null}] /\ present \subseteq Dev
      /\ DOMAIN saved = Dev /\ DOMAIN iface = Dev
  BY DEF Inv, Typed
<1>6. OwnContext'
  BY <1>1, <1>5 DEF Inv, OwnContext, NoSaved
<1>7. NothingLeft'
  BY <1>1, <1>5 DEF Inv, NothingLeft
<1>8. HookKnows'
  BY <1>1, <1>5 DEF Inv, HookKnows, Hooks
<1>9. QED
  BY <1>1, <1>3, <1>4, <1>6, <1>7, <1>8 DEF Inv

\* Of a query: an interface changes hands, and with it what was saved.
QueryInterfaces(d) ==
  [from : {"lower", "synthetic"}, ctx : {d, bus[d]},
   fn : [Members -> {"null", "lower", "hook"}]]

\* What a query may do to the interface of its device and to what is saved.
LEMMA QueryDoes ==
  ASSUME Inv, NEW d \in Dev, NEW asked \in SUBSET Members,
         QueryInterfaceComplete(d, asked)
  PROVE  /\ d \in present
         /\ UNCHANGED <<table, present, mode, bus>>
         /\ synthesizing' \subseteq synthesizing \cup {d}
         /\ \/ saved' = saved /\ iface' = iface
            \/ \E n \in QueryInterfaces(d), has \in SUBSET Members :
                 /\ iface' = [iface EXCEPT ![d] = n]
                 /\ saved' \in {saved, [saved EXCEPT ![d] = [ctx |-> bus[d], has |-> has]]}
                 /\ (\E x \in Members : n.fn[x] = "hook") =>
                      \/ n.ctx = d
                      \/ n.ctx = bus[d]
                         /\ saved' = [saved EXCEPT ![d] = [ctx |-> bus[d], has |-> has]]
<1> DEFINE Effect ==
             \/ saved' = saved /\ iface' = iface
             \/ \E n \in QueryInterfaces(d), has \in SUBSET Members :
                  /\ iface' = [iface EXCEPT ![d] = n]
                  /\ saved' \in {saved, [saved EXCEPT ![d] = [ctx |-> bus[d], has |-> has]]}
                  /\ (\E x \in Members : n.fn[x] = "hook") =>
                       \/ n.ctx = d
                       \/ n.ctx = bus[d]
                          /\ saved' = [saved EXCEPT ![d] = [ctx |-> bus[d], has |-> has]]
<1>1. /\ d \in present /\ UNCHANGED <<table, present, mode, bus>>
  BY DEF QueryInterfaceComplete, devices
<1>2. ASSUME NEW given \in SUBSET Members, PassThrough(d, asked, given)
      PROVE  Effect /\ synthesizing' = synthesizing
  <2> DEFINE n == [from |-> "lower", ctx |-> bus[d],
                   fn |-> [x \in Members |-> IF x \in given \cap asked THEN "lower" ELSE "null"]]
  <2>1. n \in QueryInterfaces(d) /\ \A x \in Members : n.fn[x] # "hook"
    BY DEF QueryInterfaces
  <2>2. iface' = [iface EXCEPT ![d] = n] /\ saved' = saved
        /\ synthesizing' = synthesizing
    BY <1>2 DEF PassThrough
  <2> HIDE DEF n
  <2>3. \E has \in SUBSET Members : TRUE
    OBVIOUS
  <2>4. QED
    BY <2>1, <2>2, <2>3
<1>3. ASSUME NEW given \in SUBSET Members, HookInterface(d, asked, given)
      PROVE  Effect /\ synthesizing' \subseteq synthesizing \cup {d}
  <2> DEFINE n == [from |-> "lower", ctx |-> bus[d],
                   fn |-> [x \in Members |-> IF x \in asked /\ Hooked(d, x \in given)
                                             THEN "hook" ELSE "null"]]
             has == saved[d].has \cup (given \cap asked)
  <2>1. n \in QueryInterfaces(d) /\ n.ctx = bus[d]
    BY DEF QueryInterfaces
  <2>2. saved \in [Dev -> [ctx : Contexts, has : SUBSET Members]]
    BY DEF Inv, Typed
  <2>3. has \in SUBSET Members
    BY <2>2
  <2>4. PICK failing \in SUBSET (given \cap asked) :
          /\ saved' = [saved EXCEPT ![d] = [ctx |-> bus[d], has |-> @.has \cup (given \cap asked)]]
          /\ synthesizing' = synthesizing \cup
               {e \in {d} : mode[d] = 2 /\ failing \cup (asked \ given) # {}}
          /\ iface' = [iface EXCEPT ![d] = n]
    BY <1>3 DEF HookInterface
  <2>5. saved' = [saved EXCEPT ![d] = [ctx |-> bus[d], has |-> has]]
    BY <2>2, <2>4
  <2>6. synthesizing' \subseteq synthesizing \cup {d}
    BY <2>4
  <2> HIDE DEF n, has
  <2>7. QED
    BY <2>1, <2>3, <2>4, <2>5, <2>6
<1>4. ASSUME SynthesizeInterface(d, asked)
      PROVE  Effect /\ synthesizing' \subseteq synthesizing \cup {d}
  <2> DEFINE n == [from |-> "synthetic", ctx |-> d,
                   fn |-> [x \in Members |-> IF x \in asked THEN "hook" ELSE "null"]]
  <2>1. n \in QueryInterfaces(d) /\ n.ctx = d
    BY DEF QueryInterfaces
  <2>2. iface' = [iface EXCEPT ![d] = n] /\ saved' = saved
        /\ synthesizing' = synthesizing \cup {d}
    BY <1>4 DEF SynthesizeInterface
  <2> HIDE DEF n
  <2>3. \E has \in SUBSET Members : TRUE
    OBVIOUS
  <2>4. QED
    BY <2>1, <2>2, <2>3
<1>5. \/ \E given \in SUBSET Members : PassThrough(d, asked, given)
      \/ \E given \in SUBSET Members : HookInterface(d, asked, given)
      \/ SynthesizeInterface(d, asked)
      \/ UNCHANGED <<iface, saved, synthesizing>>
  BY DEF QueryInterfaceComplete, clocks
<1> HIDE DEF Effect
<1>6. Effect /\ synthesizing' \subseteq synthesizing \cup {d}
  <2>1. CASE UNCHANGED <<iface, saved, synthesizing>>
    BY <2>1 DEF Effect
  <2>2. QED
    BY <1>2, <1>3, <1>4, <1>5, <2>1
<1>7. QED
  BY <1>1, <1>6 DEF Effect

LEMMA QueryKeeps ==
  ASSUME Inv, NEW d \in Dev, NEW asked \in SUBSET Members,
         QueryInterfaceComplete(d, asked)
  PROVE  Inv'
<1> USE FilterAssumption
<1>1. /\ d \in present
      /\ UNCHANGED <<table, present, mode, bus>>
      /\ synthesizing' \subseteq synthesizing \cup {d}
  BY QueryDoes
<1>2. Registered' = Registered
  BY <1>1 DEF Registered
<1>3. /\ Typed /\ bus[d] \in Contexts /\ d \in Contexts
      /\ saved \in [Dev -> [ctx : Contexts, has : SUBSET Members]]
      /\ iface \in [Dev -> [from : {"none", "lower", "synthetic"}, ctx : Contexts,
                        fn : [Members -> {"null", "lower", "hook"}]]]
  BY <1>1 DEF Inv, Typed, Contexts
<1>4. CASE saved' = saved /\ iface' = iface
  <2>1. Typed'
    BY <1>1, <1>3, <1>4 DEF Typed
  <2>2. OnePlace' /\ OwnContext' /\ NothingLeft' /\ HookKnows'
    BY <1>1, <1>2, <1>4 DEF Inv, OnePlace, OwnContext, NothingLeft, HookKnows, Hooks
  <2>3. QED
    BY <1>1, <2>1, <2>2 DEF Inv
<1>5. ASSUME NEW n \in QueryInterfaces(d), NEW has \in SUBSET Members,
             iface' = [iface EXCEPT ![d] = n],
             saved' \in {saved, [saved EXCEPT ![d] = [ctx |-> bus[d], has |-> has]]},
             (\E x \in Members : n.fn[x] = "hook") =>
               \/ n.ctx = d
               \/ n.ctx = bus[d]
                  /\ saved' = [saved EXCEPT ![d] = [ctx |-> bus[d], has |-> has]]
      PROVE  Inv'
  <2>1. n \in [from : {"none", "lower", "synthetic"}, ctx : Contexts,
               fn : [Members -> {"null", "lower", "hook"}]]
    BY <1>3 DEF QueryInterfaces
  <2>2. /\ saved' \in [Dev -> [ctx : Contexts, has : SUBSET Members]]
        /\ \A e \in Dev : e # d => saved'[e] = saved[e]
        /\ saved'[d].ctx \in {saved[d].ctx, bus[d]}
    <3>1. CASE saved' = saved
      BY <1>3, <3>1
    <3>2. CASE saved' = [saved EXCEPT ![d] = [ctx |-> bus[d], has |-> has]]
      <4>1. [ctx |-> bus[d], has |-> has] \in [ctx : Contexts, has : SUBSET Members]
        BY <1>3
      <4>2. QED
        BY <1>3, <3>2, <4>1
    <3>3. QED
      BY <1>5, <3>1, <3>2
  <2>3. /\ iface' \in [Dev -> [from : {"none", "lower", "synthetic"}, ctx : Contexts,
                        fn : [Members -> {"null", "lower", "hook"}]]]
        /\ \A e \in Dev : e # d => iface'[e] = iface[e]
        /\ iface'[d] = n
    BY <1>3, <1>5, <2>1
  <2>4. Typed'
    BY <1>1, <1>3, <2>2, <2>3 DEF Typed
  <2>5. OnePlace'
    BY <1>1, <1>2 DEF Inv, OnePlace
  <2>6. OwnContext'
    BY <1>1, <2>2 DEF Inv, OwnContext
  <2>7. NothingLeft'
    BY <1>1, <2>2, <2>3 DEF Inv, NothingLeft
  <2>8. present \subseteq Dev
    BY <1>3 DEF Typed
  <2>9. HookKnows'
    <3> SUFFICES ASSUME NEW e \in present, \E x \in Members : iface'[e].fn[x] = "hook"
                 PROVE  \/ iface'[e].ctx = e
                        \/ iface'[e].ctx = bus[e] /\ saved'[e].ctx = bus[e]
      BY <1>1 DEF HookKnows, Hooks
    <3>1. CASE e # d
      BY <2>2, <2>3, <2>8, <3>1 DEF Inv, HookKnows, Hooks
    <3>2. CASE e = d
      BY <1>3, <1>5, <2>3, <3>2
    <3>3. QED
      BY <3>1, <3>2
  <2>10. QED
    BY <1>1, <2>4, <2>5, <2>6, <2>7, <2>9 DEF Inv
<1>6. QED
  BY <1>4, <1>5, QueryDoes


LEMMA DereferenceKeeps ==
  ASSUME Inv, NEW d \in Dev, Dereference(d)
  PROVE  Inv'
<1>1. /\ iface' = [iface EXCEPT ![d] = NoIface]
      /\ UNCHANGED <<table, present, mode, bus, saved, synthesizing>>
  BY DEF Dereference, devices
<1>2. /\ NoIface \in [from : {"none", "lower", "synthetic"}, ctx : Contexts,
                      fn : [Members -> {"null", "lower", "hook"}]]
      /\ \A x \in Members : NoIface.fn[x] # "hook"
  BY DEF NoIface, Contexts
<1>3. Typed'
  BY <1>1, <1>2 DEF Inv, Typed
<1>4. OnePlace' /\ OwnContext'
  BY <1>1 DEF Inv, OnePlace, OwnContext, Registered
<1>5. NothingLeft'
  BY <1>1 DEF Inv, NothingLeft, Typed
<1>6. HookKnows'
  BY <1>1, <1>2 DEF Inv, HookKnows, Hooks, Typed
<1>7. QED
  BY <1>3, <1>4, <1>5, <1>6 DEF Inv

-----------------------------------------------------------------------------
(***************************************************************************)
(* The lookup.                                                             *)
(***************************************************************************)
\* What else happens disturbs no lookup: the client holds its interface and
\* keeps its device; what goes of the rest is noted.
LEMMA WalkIsKept ==
  ASSUME Inv, Inv', WalkInv, walk' = walk, answer' = NoAnswer,
         freed' \in BOOLEAN, freed => freed',
         walk.dev # Null =>
           /\ iface'[walk.dev] = iface[walk.dev] /\ walk.dev \in present'
           /\ \A i \in 1..MaxDevices : table'[i] = walk.dev <=> table[i] = walk.dev,
         ~freed' /\ walk.seen # Null =>
           /\ walk.seen \in present'
           /\ saved[walk.seen].ctx # Null => saved'[walk.seen].ctx = saved[walk.seen].ctx
  PROVE  WalkInv'
<1>1. DOMAIN table = 1..MaxDevices /\ DOMAIN table' = 1..MaxDevices
  BY DEF Inv, Typed
<1>2. walk.dev # Null => (walk.dev \in Registered' <=> walk.dev \in Registered)
  BY <1>1 DEF Registered
<1>3. WalkTyped'
  BY DEF WalkInv, WalkTyped
<1>4. InHand'
  <2>1. walk.dev # Null => Hooks(walk.dev)'
    BY DEF WalkInv, InHand, Hooks
  <2>2. QED
    BY <1>2, <2>1 DEF WalkInv, InHand
<1>5. OnTheWay'
  <2> SUFFICES ASSUME walk.dev \in Registered', Context' # Null
               PROVE  OnTheWay'
    BY DEF OnTheWay
  <2>1. walk.dev # Null
    BY DEF Registered
  <2>2. Context' = Context /\ walk.dev \in Registered
    BY <1>2, <2>1 DEF Context
  <2>3. walk.place \in 1..MaxDevices /\ walk.place..MaxDevices \subseteq 1..MaxDevices
    BY FilterAssumption DEF WalkInv, WalkTyped
  <2>4. Ahead => Ahead'
    BY <2>1, <2>3 DEF Ahead
  <2>5. table'[walk.place] = walk.dev => table[walk.place] = walk.dev
    BY <2>1, <2>3
  <2>6. QED
    BY <2>2, <2>4, <2>5 DEF WalkInv, OnTheWay
<1>6. QED
  BY <1>3, <1>4, <1>5 DEF WalkInv

LEMMA AddSparesWalk ==
  ASSUME Inv, Inv', WalkInv, NEW d \in Dev, DeviceAdd(d)
  PROVE  WalkInv'
<1>1. /\ d \notin present /\ present' = present \cup {d} /\ answer' = NoAnswer
      /\ UNCHANGED <<saved, iface, walk, freed>>
  BY DEF DeviceAdd, clocks
<1>2. table \in [1..MaxDevices -> Dev \cup {Null}]
  BY DEF Inv, Typed
<1>3. \A i \in 1..MaxDevices : table'[i] = table[i] \/ (table[i] = Null /\ table'[i] = d)
  <2>1. table' = IF Places(Null) = {} THEN table ELSE [table EXCEPT ![Lowest(Places(Null))] = d]
    BY DEF DeviceAdd, RegisterDevice
  <2>2. Places(Null) # {} => Lowest(Places(Null)) \in Places(Null)
    <3>1. Places(Null) \subseteq 1..MaxDevices
      BY <1>2 DEF Places
    <3>2. QED
      BY <3>1, LowestIs
  <2>3. \A i \in Places(Null) : i \in 1..MaxDevices /\ table[i] = Null
    BY <1>2 DEF Places
  <2>4. QED
    BY <1>2, <2>1, <2>2, <2>3
<1>4. walk.dev # Null => walk.dev # d /\ walk.dev \in present
  BY <1>1 DEF WalkInv, InHand
<1>5. ~freed /\ walk.seen # Null => walk.seen \in present
  BY DEF WalkInv, InHand
<1>6. freed \in BOOLEAN
  BY DEF WalkInv, WalkTyped
<1>7. QED
  BY <1>1, <1>3, <1>4, <1>5, <1>6, WalkIsKept

LEMMA CleanupSparesWalk ==
  ASSUME Inv, Inv', WalkInv, NEW d \in Dev, DeviceCleanup(d)
  PROVE  WalkInv'
<1>1. /\ iface[d] = NoIface /\ present' = present \ {d} /\ answer' = NoAnswer
      /\ saved' = [saved EXCEPT ![d] = NoSaved]
      /\ freed' = (freed \/ walk.seen = d) /\ UNCHANGED <<iface, walk>>
  BY DEF DeviceCleanup
<1>2. table \in [1..MaxDevices -> Dev \cup {Null}] /\ DOMAIN saved = Dev /\ present \subseteq Dev
  BY DEF Inv, Typed
<1>3. \A i \in 1..MaxDevices : table'[i] = table[i] \/ (table[i] = d /\ table'[i] = Null)
  <2>1. table' = IF Places(d) = {} THEN table ELSE [table EXCEPT ![Lowest(Places(d))] = Null]
    BY DEF DeviceCleanup, UnregisterDevice
  <2>2. Places(d) # {} => Lowest(Places(d)) \in Places(d)
    <3>1. Places(d) \subseteq 1..MaxDevices
      BY <1>2 DEF Places
    <3>2. QED
      BY <3>1, LowestIs
  <2>3. \A i \in Places(d) : i \in 1..MaxDevices /\ table[i] = d
    BY <1>2 DEF Places
  <2>4. QED
    BY <1>2, <2>1, <2>2, <2>3
<1>4. ~Hooks(d)
  BY <1>1 DEF Hooks, NoIface
<1>5. walk.dev # Null => walk.dev # d /\ walk.dev \in present
  BY <1>4 DEF WalkInv, InHand
<1>6. ~freed /\ walk.seen # Null => walk.seen \in present
  BY DEF WalkInv, InHand
<1>7. freed \in BOOLEAN
  BY DEF WalkInv, WalkTyped
<1>8. ~freed' /\ walk.seen # Null =>
        walk.seen \in present' /\ saved'[walk.seen] = saved[walk.seen]
  BY <1>1, <1>2, <1>6
<1>9. freed' \in BOOLEAN /\ (freed => freed')
  BY <1>1, <1>7
<1>10. walk.dev # Null =>
         /\ iface'[walk.dev] = iface[walk.dev] /\ walk.dev \in present'
         /\ \A i \in 1..MaxDevices : table'[i] = walk.dev <=> table[i] = walk.dev
  BY <1>1, <1>3, <1>5
<1>11. QED
  BY <1>1, <1>8, <1>9, <1>10, WalkIsKept

LEMMA QuerySparesWalk ==
  ASSUME Inv, Inv', WalkInv, NEW d \in Dev, NEW asked \in SUBSET Members,
         QueryInterfaceComplete(d, asked)
  PROVE  WalkInv'
<1>1. /\ iface[d] = NoIface /\ answer' = NoAnswer
      /\ UNCHANGED <<table, present, bus, walk, freed>>
  BY DEF QueryInterfaceComplete, devices
<1>2. /\ DOMAIN saved = Dev /\ DOMAIN iface = Dev /\ present \subseteq Dev
      /\ \A e \in Dev : saved[e].ctx \in {Null, bus[e]}
  BY DEF Inv, Typed, OwnContext
<1>3. \A e \in Dev : e # d => saved'[e] = saved[e] /\ iface'[e] = iface[e]
  BY <1>2, QueryDoes
<1>4. saved'[d].ctx \in {saved[d].ctx, bus[d]}
  BY <1>2, QueryDoes
<1>5. walk.dev # Null => walk.dev # d /\ walk.dev \in present
  <2>1. ~Hooks(d)
    BY <1>1 DEF Hooks, NoIface
  <2>2. QED
    BY <2>1 DEF WalkInv, InHand
<1>6. ~freed /\ walk.seen # Null => walk.seen \in present
  BY DEF WalkInv, InHand
<1>7. \A e \in Dev : saved[e].ctx # Null => saved'[e].ctx = saved[e].ctx
  BY <1>2, <1>3, <1>4
<1>8. freed \in BOOLEAN
  BY DEF WalkInv, WalkTyped
<1>9. QED
  BY <1>1, <1>2, <1>3, <1>5, <1>6, <1>7, <1>8, WalkIsKept

LEMMA DereferenceSparesWalk ==
  ASSUME Inv, Inv', WalkInv, NEW d \in Dev, Dereference(d)
  PROVE  WalkInv'
<1>1. /\ walk.dev # d /\ iface' = [iface EXCEPT ![d] = NoIface] /\ answer' = NoAnswer
      /\ UNCHANGED <<table, present, saved, walk, freed>>
  BY DEF Dereference, devices
<1>2. walk.dev # Null => walk.dev \in present
  BY DEF WalkInv, InHand
<1>3. ~freed /\ walk.seen # Null => walk.seen \in present
  BY DEF WalkInv, InHand
<1>4. freed \in BOOLEAN /\ DOMAIN iface = Dev
  BY DEF WalkInv, WalkTyped, Inv, Typed
<1>5. QED
  BY <1>1, <1>2, <1>3, <1>4, WalkIsKept

LEMMA CallSparesWalk ==
  ASSUME Inv, WalkInv, NEW d \in Dev, Call(d)
  PROVE  WalkInv'
<1> USE FilterAssumption
<1>1. /\ walk' = [NoWalk EXCEPT !.dev = d, !.pass = IF iface[d].ctx = Null THEN "any" ELSE "self"]
      /\ Hooks(d) /\ freed' = FALSE /\ answer' = NoAnswer
      /\ UNCHANGED <<table, present, iface, saved>>
  BY DEF Call, Hooks, devices, clocks
<1>2. /\ walk'.dev = d /\ walk'.place = 1 /\ walk'.seen = Null
      /\ walk'.pass = IF iface[d].ctx = Null THEN "any" ELSE "self"
  BY <1>1 DEF NoWalk
<1>3. d # Null /\ d \in present /\ Hooks(d)'
  <2>1. d \in present
    BY <1>1 DEF Inv, NothingLeft, Hooks, NoIface
  <2>2. QED
    BY <1>1, <2>1 DEF Hooks
<1>4. WalkTyped'
  <2>1. 1 \in 1..MaxDevices
    OBVIOUS
  <2>2. QED
    BY <1>1, <2>1 DEF WalkTyped, NoWalk
<1>5. InHand'
  BY <1>1, <1>2, <1>3 DEF InHand
<1>6. OnTheWay'
  <2> SUFFICES ASSUME d \in Registered', iface[d].ctx # Null
               PROVE  \E i \in 1..MaxDevices : table'[i] = d
    BY <1>1, <1>2 DEF OnTheWay, Ahead, Context
  <2>1. DOMAIN table' = 1..MaxDevices
    BY <1>1 DEF Inv, Typed
  <2>2. QED
    BY <2>1 DEF Registered
<1>7. QED
  BY <1>4, <1>5, <1>6 DEF WalkInv

\* The loops write nothing but where the lookup is.
LEMMA LookingSpares ==
  ASSUME UNCHANGED <<devices, clocks, freed, answer>>
  PROVE  /\ UNCHANGED <<table, present, mode, bus, saved, synthesizing, iface>>
         /\ (Inv => Inv') /\ Registered' = Registered
<1>1. UNCHANGED <<table, present, mode, bus, saved, synthesizing, iface>>
  BY DEF devices, clocks
<1>2. QED
  BY <1>1 DEF Inv, Typed, OnePlace, OwnContext, NothingLeft, HookKnows, Hooks, Registered

\* A loop goes on over a place that is not that of the device looked for, or
\* of which this loop cannot tell.
LEMMA GoingOnSpares ==
  ASSUME Inv, WalkInv, walk.pass # "done", GoesOn,
         UNCHANGED <<devices, clocks, freed, answer>>,
         walk.dev \in Registered /\ Context # Null =>
           /\ walk.pass = "self" /\ Context = walk.dev => table[walk.place] # walk.dev
           /\ walk.pass = "saved" => table[walk.place] # walk.dev
  PROVE  WalkInv'
<1> USE FilterAssumption
<1>1. /\ UNCHANGED <<table, present, mode, bus, saved, synthesizing, iface>>
      /\ Registered' = Registered
  BY LookingSpares
<1>2. /\ walk \in [dev : Dev \cup {Null}, pass : {"self", "saved", "any", "done"},
                   place : 1..MaxDevices, seen : Dev \cup {Null}]
      /\ walk.place \in 1..MaxDevices
  BY DEF WalkInv, WalkTyped
<1>3. /\ walk'.dev = walk.dev /\ walk'.seen = Null
      /\ IF walk.place < MaxDevices
           THEN walk'.pass = walk.pass /\ walk'.place = walk.place + 1
           ELSE walk'.pass = NextPass(walk.pass) /\ walk'.place = 1
  BY <1>2 DEF GoesOn
<1>4. WalkTyped'
  <2>1. walk.place < MaxDevices => walk.place + 1 \in 1..MaxDevices
    BY <1>2
  <2>2. 1 \in 1..MaxDevices
    OBVIOUS
  <2>3. NextPass(walk.pass) \in {"self", "saved", "any", "done"}
    BY DEF NextPass
  <2>4. QED
    BY <1>2, <2>1, <2>2, <2>3 DEF GoesOn, WalkTyped, WalkInv
<1>5. walk.dev # Null
  BY DEF WalkInv, InHand, NoWalk
<1>6. InHand'
  BY <1>1, <1>3, <1>5 DEF WalkInv, InHand, Hooks
<1>7. OnTheWay'
  <2> SUFFICES ASSUME walk.dev \in Registered, Context # Null
               PROVE  OnTheWay'
    BY <1>1, <1>3 DEF OnTheWay, Context
  <2>1. Context' = Context
    BY <1>1, <1>3 DEF Context
  <2>2. /\ walk.pass \in {"self", "saved"}
        /\ walk.pass = "self" /\ Context = walk.dev => Ahead /\ table[walk.place] # walk.dev
        /\ walk.pass = "saved" =>
             Ahead /\ Context # walk.dev /\ table[walk.place] # walk.dev
    BY <1>2 DEF WalkInv, OnTheWay
  <2>3. CASE walk.place < MaxDevices
    <3>1. Ahead /\ table[walk.place] # walk.dev => Ahead'
      <4>1. \A i \in walk.place..MaxDevices : i = walk.place \/ i \in (walk.place + 1)..MaxDevices
        BY <1>2
      <4>2. QED
        BY <1>1, <1>3, <2>3, <4>1 DEF Ahead
    <3>2. walk'.pass = walk.pass
      BY <1>3, <2>3
    <3>3. QED
      BY <1>3, <2>1, <2>2, <3>1, <3>2 DEF OnTheWay
  <2>4. CASE ~(walk.place < MaxDevices)
    <3>1. ~(Ahead /\ table[walk.place] # walk.dev)
      <4>1. \A i \in walk.place..MaxDevices : i = walk.place
        BY <1>2, <2>4
      <4>2. QED
        BY <4>1 DEF Ahead
    <3>2. walk.pass = "self" /\ Context # walk.dev
      BY <2>2, <3>1
    <3>3. walk'.pass = "saved" /\ walk'.place = 1
      BY <1>3, <2>4, <3>2 DEF NextPass
    <3>4. \E i \in 1..MaxDevices : table[i] = walk.dev
      BY DEF Registered, Inv, Typed
    <3>5. Ahead'
      BY <1>1, <1>3, <3>3, <3>4 DEF Ahead
    <3>6. QED
      BY <1>3, <2>1, <3>2, <3>3, <3>5 DEF OnTheWay
  <2>5. QED
    BY <2>3, <2>4
<1>8. QED
  BY <1>4, <1>6, <1>7 DEF WalkInv

\* A loop ends with a device that is attached, and that has the context.
LEMMA FindingSpares ==
  ASSUME Inv, WalkInv, walk.pass # "done", NEW e \in Dev \cup {Null}, Finds(e),
         UNCHANGED <<devices, clocks, freed, answer>>,
         ~freed /\ e # Null => e \in present,
         e = walk.dev => walk.dev \in Registered,
         walk.dev \in Registered /\ Context # Null =>
           /\ e # Null
           /\ Context = walk.dev => e = walk.dev
           /\ Context # walk.dev /\ ~freed => saved[e].ctx = Context
  PROVE  WalkInv'
<1>1. /\ UNCHANGED <<table, present, mode, bus, saved, synthesizing, iface>>
      /\ Registered' = Registered
  BY LookingSpares
<1>2. walk \in [dev : Dev \cup {Null}, pass : {"self", "saved", "any", "done"},
                place : 1..MaxDevices, seen : Dev \cup {Null}]
  BY DEF WalkInv, WalkTyped
<1>3. /\ walk'.dev = walk.dev /\ walk'.seen = e /\ walk'.pass = "done"
      /\ walk'.place = walk.place
  BY <1>2 DEF Finds
<1>4. WalkTyped'
  BY <1>2 DEF Finds, WalkTyped, WalkInv
<1>5. walk.dev # Null
  BY DEF WalkInv, InHand, NoWalk
<1>6. InHand'
  BY <1>1, <1>3, <1>5 DEF WalkInv, InHand, Hooks
<1>7. OnTheWay'
  <2>1. Context' = Context
    BY <1>1, <1>3 DEF Context
  <2>2. QED
    BY <1>1, <1>3, <2>1 DEF OnTheWay
<1>8. QED
  BY <1>4, <1>6, <1>7 DEF WalkInv

\* The context of a hooked interface under way: the filter's own, or that of
\* the stack, which is saved and is no device.
LEMMA ContextIs ==
  ASSUME Inv, WalkInv, walk.dev # Null, Context # walk.dev
  PROVE  /\ walk.dev \in present /\ Context = bus[walk.dev] /\ saved[walk.dev].ctx = Context
         /\ Context # Null => Context \notin Dev
<1>1. walk.dev \in present /\ Hooks(walk.dev)
  BY DEF WalkInv, InHand
<1>2. Context = bus[walk.dev] /\ saved[walk.dev].ctx = Context
  BY <1>1 DEF Inv, HookKnows, Context
<1>3. bus[walk.dev] \in BusContexts \cup {Null}
  BY <1>1 DEF Inv, Typed
<1>4. QED
  BY <1>1, <1>2, <1>3, FilterAssumption

LEMMA FindContextSparesWalk ==
  ASSUME Inv, WalkInv, FindContext
  PROVE  WalkInv'
<1> USE FilterAssumption
<1>1. /\ walk \in [dev : Dev \cup {Null}, pass : {"self", "saved", "any", "done"},
                   place : 1..MaxDevices, seen : Dev \cup {Null}]
      /\ table \in [1..MaxDevices -> Dev \cup {Null}] /\ present \subseteq Dev
  BY DEF WalkInv, WalkTyped, Inv, Typed
<1>2. DEFINE t == table[walk.place]
<1>3. /\ t \in Dev \cup {Null}
      /\ t # Null => t \in Registered /\ t \in present
  BY <1>1 DEF Registered, Inv, OnePlace
<1> HIDE DEF t
<1>4. walk.pass # "done" => walk.dev # Null
  BY DEF WalkInv, InHand, NoWalk
<1>5. CASE LookForSelf
  <2>1. /\ walk.pass = "self" /\ UNCHANGED <<devices, clocks, freed, answer>>
        /\ IF t = Context THEN Finds(Context) ELSE GoesOn
    BY <1>5 DEF LookForSelf, t
  <2>2. CASE t = Context
    <3>1. /\ Context \in Dev \cup {Null} /\ Finds(Context)
          /\ Context # Null => Context \in present
          /\ Context = walk.dev => walk.dev \in Registered
      BY <1>3, <1>4, <2>1, <2>2
    <3>2. Context # Null => Context = walk.dev
      BY <1>4, <2>1, <3>1, ContextIs
    <3>3. QED
      BY <2>1, <3>1, <3>2, FindingSpares
  <2>3. CASE t # Context
    BY <2>1, <2>3, GoingOnSpares DEF t
  <2>4. QED
    BY <2>2, <2>3
<1>6. CASE LookForSaved
  <2>1. /\ walk.pass = "saved" /\ walk.seen = Null /\ UNCHANGED <<devices, clocks, freed, answer>>
        /\ IF t = Null THEN GoesOn ELSE walk' = [walk EXCEPT !.seen = t]
    BY <1>6 DEF LookForSaved, t
  <2>2. CASE t = Null
    BY <1>4, <2>1, <2>2, GoingOnSpares DEF t
  <2>3. CASE t # Null
    <3>1. /\ UNCHANGED <<table, present, mode, bus, saved, synthesizing, iface>>
          /\ Registered' = Registered
      BY <2>1, LookingSpares
    <3>2. /\ walk' = [walk EXCEPT !.seen = t] /\ walk'.dev = walk.dev /\ walk'.seen = t
          /\ walk'.pass = walk.pass /\ walk'.place = walk.place
      BY <1>1, <2>1, <2>3
    <3>3. WalkTyped'
      BY <1>1, <1>3, <2>1, <3>2 DEF WalkTyped, WalkInv
    <3>4. InHand'
      BY <1>3, <1>4, <2>1, <3>1, <3>2 DEF WalkInv, InHand, Hooks
    <3>5. OnTheWay'
      <4>1. Context' = Context
        BY <3>1, <3>2 DEF Context
      <4>2. Ahead => Ahead'
        BY <3>1, <3>2 DEF Ahead
      <4>3. table'[walk'.place] = t
        BY <3>1, <3>2 DEF t
      <4>4. QED
        BY <2>1, <3>1, <3>2, <4>1, <4>2, <4>3 DEF WalkInv, OnTheWay
    <3>6. QED
      BY <3>3, <3>4, <3>5 DEF WalkInv
  <2>4. QED
    BY <2>2, <2>3
<1>7. CASE CompareSaved
  <2>1. /\ walk.pass = "saved" /\ walk.seen # Null /\ UNCHANGED <<devices, clocks, freed, answer>>
    BY <1>7 DEF CompareSaved
  <2>2. PICK same \in BOOLEAN :
          /\ walk.seen \in present => (same <=> saved[walk.seen].ctx = Context)
          /\ IF same THEN Finds(walk.seen) ELSE GoesOn
    BY <1>7 DEF CompareSaved
  <2>3. CASE same
    <3>1. /\ walk.seen \in Dev \cup {Null} /\ Finds(walk.seen)
          /\ ~freed => walk.seen \in present
          /\ walk.seen = walk.dev => walk.dev \in Registered
      BY <1>1, <1>4, <2>1, <2>2, <2>3 DEF WalkInv, InHand
    <3>2. walk.dev \in Registered /\ Context # Null => Context # walk.dev
      BY <2>1 DEF WalkInv, OnTheWay
    <3>3. ~freed => saved[walk.seen].ctx = Context
      BY <2>2, <2>3, <3>1
    <3>4. QED
      BY <2>1, <3>1, <3>2, <3>3, FindingSpares
  <2>4. CASE ~same
    <3>1. walk.dev \in Registered /\ Context # Null => t # walk.dev
      <4> SUFFICES ASSUME walk.dev \in Registered, Context # Null, t = walk.dev PROVE FALSE
        OBVIOUS
      <4>1. walk.seen = walk.dev /\ Context # walk.dev
        BY <2>1 DEF WalkInv, OnTheWay, t
      <4>2. walk.dev \in present /\ saved[walk.dev].ctx = Context
        BY <1>4, <2>1, <4>1, ContextIs
      <4>3. QED
        BY <2>2, <2>4, <4>1, <4>2
    <3>2. GoesOn
      BY <2>2, <2>4
    <3>3. QED
      BY <2>1, <3>1, <3>2, GoingOnSpares DEF t
  <2>5. QED
    BY <2>3, <2>4
<1>8. CASE LookForAny
  <2>1. /\ walk.pass = "any" /\ UNCHANGED <<devices, clocks, freed, answer>>
        /\ IF t = Null THEN GoesOn ELSE Finds(t)
    BY <1>8 DEF LookForAny, t
  <2>2. ~(walk.dev \in Registered /\ Context # Null)
    BY <2>1 DEF WalkInv, OnTheWay
  <2>3. CASE t = Null
    BY <2>1, <2>2, <2>3, GoingOnSpares
  <2>4. CASE t # Null
    BY <1>3, <2>1, <2>2, <2>4, FindingSpares
  <2>5. QED
    BY <2>3, <2>4
<1>9. QED
  BY <1>5, <1>6, <1>7, <1>8 DEF FindContext

-----------------------------------------------------------------------------
(***************************************************************************)
(* The answer of a call.                                                   *)
(***************************************************************************)
\* The device a lookup ends with, when its context tells it from the others.
LEMMA FoundIsTold ==
  ASSUME Inv, WalkInv, NEW d \in Dev, Found(d), Told(d), d \in Registered, ~freed
  PROVE  walk.seen = d
<1> USE FilterAssumption
<1>1. walk.dev = d /\ walk.pass = "done" /\ d # Null
  BY DEF Found
<1>2. Context = d \/ (Context = bus[d] /\ bus[d] # Null /\ \A e \in present \ {d} : bus[e] # bus[d])
  BY <1>1, ContextIs DEF Told, Context
<1>3. Context # Null
  BY <1>1, <1>2
<1>4. /\ walk.seen # Null /\ walk.seen \in present
      /\ Context = d => walk.seen = d
      /\ Context # d => saved[walk.seen].ctx = Context
  BY <1>1, <1>3 DEF WalkInv, InHand, OnTheWay
<1>5. CASE Context # d
  <2>1. saved[walk.seen].ctx \in {Null, bus[walk.seen]}
    BY <1>4 DEF Inv, Typed, OwnContext
  <2>2. QED
    BY <1>2, <1>3, <1>4, <1>5, <2>1
<1>6. QED
  BY <1>4, <1>5

LEMMA CallIsAnswered ==
  ASSUME IInv, NEW d \in Dev, NEW x \in Members, HookQueryBusTime(d, x)
  PROVE  IInv'
<1> USE FilterAssumption
<1>0. PICK c \in Dev \cup {Null} : c = walk.seen
  BY DEF IInv, WalkInv, WalkTyped
<1>1. /\ Found(d) /\ walk' = NoWalk /\ Inv /\ WalkInv
      /\ UNCHANGED <<table, present, mode, bus, saved, iface, freed>>
  BY DEF HookQueryBusTime, devices, IInv
<1>2. c \in Dev \cup {Null} /\ (~freed => c \in present \cup {Null}) /\ walk.dev = d
  BY <1>0, <1>1 DEF WalkInv, WalkTyped, InHand, Found
<1>3. \/ /\ c = Null /\ UNCHANGED synthesizing
         /\ answer' = [asked |-> d, by |-> c, lower |-> "absent", told |-> "error", source |-> "none"]
      \/ /\ c \in present
         /\ \E low \in LowerAnswers(c, x) :
              /\ answer' = [asked |-> d, by |-> c, lower |-> low,
                            told |-> IF low = "ok" \/ Synthesizes(c, low) THEN "ok" ELSE "error",
                            source |-> IF Synthesizes(c, low) THEN "synthetic"
                                       ELSE IF low = "ok" THEN "lower" ELSE "none"]
              /\ synthesizing' = synthesizing \cup {e \in {c} : Synthesizes(c, low)}
      \/ /\ c \in Dev \ present /\ UNCHANGED synthesizing
         /\ \E low, told \in {"ok", "error"}, source \in {"none", "lower", "synthetic"} :
              answer' = [asked |-> d, by |-> c, lower |-> low, told |-> told, source |-> source]
  BY <1>0 DEF HookQueryBusTime
<1>4. synthesizing' \subseteq synthesizing \cup {c} /\ (c = Null => synthesizing' = synthesizing)
  <2>1. present \subseteq Dev
    BY <1>1 DEF Inv, Typed
  <2>2. QED
    BY <1>3, <2>1
<1>5. Inv' /\ Registered' = Registered
  <2>1. Registered' = Registered
    BY <1>1 DEF Registered
  <2>2. Typed'
    BY <1>1, <1>2, <1>4 DEF Inv, Typed
  <2>3. OnePlace' /\ OwnContext' /\ NothingLeft' /\ HookKnows'
    BY <1>1, <2>1 DEF Inv, OnePlace, OwnContext, NothingLeft, HookKnows, Hooks
  <2>4. QED
    BY <2>1, <2>2, <2>3 DEF Inv
<1>6. WalkInv'
  <2>1. WalkTyped'
    <3>1. 1 \in 1..MaxDevices
      OBVIOUS
    <3>2. freed \in BOOLEAN
      BY <1>1 DEF WalkInv, WalkTyped
    <3>3. QED
      BY <1>1, <3>1, <3>2 DEF WalkTyped, NoWalk
  <2>2. InHand' /\ OnTheWay'
    BY <1>1 DEF InHand, OnTheWay, NoWalk, Registered
  <2>3. QED
    BY <2>1, <2>2 DEF WalkInv
<1>7. AnswerTyped' /\ answer'.asked = d /\ answer'.by = c
  BY <1>2, <1>3 DEF AnswerTyped, LowerAnswers
<1>8. Told(d)' <=> Told(d)
  BY <1>1 DEF Told
<1>9. d \in Registered /\ Told(d) /\ ~freed => c = d
  BY <1>0, <1>1, FoundIsTold
<1>10. d \notin Registered => c # d
  <2>1. d # Null
    OBVIOUS
  <2>2. QED
    BY <1>0, <1>1, <1>2, <2>1 DEF WalkInv, InHand
<1>11. ~freed => IF c = Null THEN answer'.told = "error" ELSE ModeKept(c)'
  <2>1. CASE c = Null
    BY <1>1, <1>3, <2>1 DEF Inv, Typed
  <2>2. CASE c \in present
    <3>1. c # Null
      BY <1>1, <2>2 DEF Inv, Typed
    <3>2. PICK low \in LowerAnswers(c, x) :
              /\ answer' = [asked |-> d, by |-> c, lower |-> low,
                            told |-> IF low = "ok" \/ Synthesizes(c, low) THEN "ok" ELSE "error",
                            source |-> IF Synthesizes(c, low) THEN "synthetic"
                                       ELSE IF low = "ok" THEN "lower" ELSE "none"]
              /\ synthesizing' = synthesizing \cup {e \in {c} : Synthesizes(c, low)}
      BY <1>3, <2>2, <3>1
    <3>3. ModeKept(c)'
      <4>1. /\ answer'.lower = low
            /\ answer'.told = IF low = "ok" \/ Synthesizes(c, low) THEN "ok" ELSE "error"
            /\ answer'.source = IF Synthesizes(c, low) THEN "synthetic"
                               ELSE IF low = "ok" THEN "lower" ELSE "none"
            /\ Synthesizes(c, low) => c \in synthesizing'
            /\ mode' = mode
        BY <1>1, <3>2
      <4>2. mode[c] = 1 => answer'.source # "synthetic" /\ (answer'.told = "ok" <=> low = "ok")
        BY <4>1 DEF Synthesizes
      <4>3. mode[c] = 2 =>
              /\ answer'.told = "ok" /\ (answer'.source = "lower" <=> low = "ok")
              /\ answer'.source = "synthetic" => c \in synthesizing'
        BY <4>1 DEF Synthesizes
      <4>4. QED
        BY <4>1, <4>2, <4>3 DEF ModeKept
    <3>4. QED
      BY <3>1, <3>3
  <2>3. QED
    BY <1>2, <2>1, <2>2
<1>12. Answers'
  <2> SUFFICES ASSUME ~freed
               PROVE  /\ c \in present \cup {Null}
                      /\ d \in Registered /\ Told(d) => c = d
                      /\ d \notin Registered => c # d
                      /\ IF c = Null THEN answer'.told = "error" ELSE ModeKept(c)'
    BY <1>1, <1>5, <1>7, <1>8 DEF Answers
  <2>1. QED
    BY <1>2, <1>9, <1>10, <1>11
<1>13. QED
  BY <1>5, <1>6, <1>7, <1>12 DEF IInv, AnswerInv

-----------------------------------------------------------------------------
LEMMA StepKeeps == IInv /\ [Next]_vars => IInv'
<1> SUFFICES ASSUME IInv, [Next]_vars PROVE IInv'
  OBVIOUS
<1>1. Inv /\ WalkInv /\ AnswerInv
  BY DEF IInv
<1>2. CASE FindContext
  <2>1. UNCHANGED <<devices, clocks, freed, answer>> /\ walk.pass # "done"
    BY <1>2 DEF FindContext, LookForSelf, LookForSaved, CompareSaved, LookForAny
  <2>2. Inv' /\ WalkInv'
    BY <1>1, <1>2, <2>1, LookingSpares, FindContextSparesWalk
  <2>3. answer' = NoAnswer
    BY <1>1, <2>1 DEF WalkInv, InHand, NoWalk
  <2>4. QED
    BY <2>2, <2>3, ForgetsAnswer DEF IInv
<1>3. ASSUME NEW d \in Dev, DeviceAdd(d) PROVE IInv'
  <2>1. answer' = NoAnswer
    BY <1>3 DEF DeviceAdd
  <2>2. QED
    BY <1>1, <1>3, <2>1, AddKeeps, AddSparesWalk, ForgetsAnswer DEF IInv
<1>4. ASSUME NEW d \in Dev, DeviceCleanup(d) PROVE IInv'
  <2>1. answer' = NoAnswer
    BY <1>4 DEF DeviceCleanup
  <2>2. QED
    BY <1>1, <1>4, <2>1, CleanupKeeps, CleanupSparesWalk, ForgetsAnswer DEF IInv
<1>5. ASSUME NEW d \in Dev, NEW asked \in SUBSET Members, QueryInterfaceComplete(d, asked)
      PROVE  IInv'
  <2>1. answer' = NoAnswer
    BY <1>5 DEF QueryInterfaceComplete
  <2>2. QED
    BY <1>1, <1>5, <2>1, QueryKeeps, QuerySparesWalk, ForgetsAnswer DEF IInv
<1>6. ASSUME NEW d \in Dev, Call(d) PROVE IInv'
  <2>1. answer' = NoAnswer /\ UNCHANGED <<table, present, mode, bus, saved, synthesizing, iface>>
    BY <1>6 DEF Call, devices, clocks
  <2>2. Inv'
    BY <1>1, <2>1 DEF Inv, Typed, OnePlace, OwnContext, NothingLeft, HookKnows, Hooks, Registered
  <2>3. QED
    BY <1>1, <1>6, <2>1, <2>2, CallSparesWalk, ForgetsAnswer DEF IInv
<1>7. ASSUME NEW d \in Dev, Dereference(d) PROVE IInv'
  <2>1. answer' = NoAnswer
    BY <1>7 DEF Dereference
  <2>2. QED
    BY <1>1, <1>7, <2>1, DereferenceKeeps, DereferenceSparesWalk, ForgetsAnswer DEF IInv
<1>8. ASSUME NEW d \in Dev, NEW x \in Members, HookQueryBusTime(d, x) PROVE IInv'
  BY <1>8, CallIsAnswered
<1>9. CASE UNCHANGED vars
  <2>1. /\ UNCHANGED <<table, present, mode, bus, saved, synthesizing, iface>>
        /\ UNCHANGED <<walk, freed, answer>>
    BY <1>9 DEF vars, devices, clocks
  <2>2. Inv' /\ Registered' = Registered
    BY <1>1, <2>1 DEF Inv, Typed, OnePlace, OwnContext, NothingLeft, HookKnows, Hooks, Registered
  <2>3. WalkInv'
    BY <1>1, <2>1, <2>2 DEF WalkInv, WalkTyped, InHand, OnTheWay, Ahead, Context, Hooks
  <2>4. AnswerInv'
    BY <1>1, <2>1, <2>2 DEF AnswerInv, AnswerTyped, Answers, Told, ModeKept
  <2>5. QED
    BY <2>2, <2>3, <2>4 DEF IInv
<1>10. QED
  BY <1>2, <1>3, <1>4, <1>5, <1>6, <1>7, <1>8, <1>9 DEF Next

LEMMA InvAnswers == IInv => AnsweredByItsStack
<1> SUFFICES ASSUME IInv PROVE AnsweredByItsStack
  OBVIOUS
<1>1. TypeOK
  BY DEF IInv, Inv, Typed, WalkInv, WalkTyped, AnswerInv, AnswerTyped, TypeOK
<1>2. Registered \subseteq present /\ Answers
  BY DEF IInv, Inv, OnePlace, AnswerInv
<1>3. QED
  BY <1>1, <1>2 DEF Answers, AnsweredByItsStack

\* For every set of devices and of bus contexts, shared or NULL, every size of
\* the table and every mode: a call through the interface of a device that has
\* a place, and whose context tells it from the other attached ones, is
\* answered for that device and in its mode, however the table changes under
\* the search (FindContext and HookQueryBusTime, deckbtflt.c:112-140 and
\* 313-389).  A device without a place gets another's answer or an error, never
\* its own.  Nothing is claimed of a call during which a device goes whose
\* context the search has in hand.
THEOREM CallsFindTheirDevice == Spec => []AnsweredByItsStack
<1>1. Spec => []IInv
  BY InitHolds, StepKeeps, PTL DEF Spec
<1>2. QED
  BY <1>1, InvAnswers, PTL
=============================================================================
