---------------------------- MODULE MCScoFraming ----------------------------
(***************************************************************************)
(* Small instances of ScoFraming.                                          *)
(***************************************************************************)
EXTENDS ScoFraming

Host(l, n) == [link |-> l, voice |-> n]
Radio(l, n) == [link |-> l, voice |-> n, whole |-> TRUE]

\* Packets that span chunks, fill less than one, and change the link.
MCSent == <<Host("l1", 3), Host("l1", 1), Host("l2", 3), Host("l1", 5)>>

\* Packets smaller and larger than a payload, of two links, and a broken one.
MCAir == <<Radio("l1", 4), Radio("l1", 7),
           [link |-> "l2", voice |-> 3, whole |-> FALSE],
           Radio("l2", 3), Radio("l2", 8), Radio("l1", 12)>>
=============================================================================
