--------------------------- MODULE MCBridgeLink ----------------------------
(***************************************************************************)
(* Small instances of BridgeLink.                                          *)
(***************************************************************************)
EXTENDS BridgeLink

MCWorlds ==
  {[counts |-> TRUE,  refuses |-> TRUE,  sessions |-> 1],
   [counts |-> FALSE, refuses |-> FALSE, sessions |-> 2]}

LateDataWorlds == {[counts |-> TRUE, refuses |-> FALSE, sessions |-> 1]}
=============================================================================
