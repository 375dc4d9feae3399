---------------------------- MODULE MCScoPacing ----------------------------
(***************************************************************************)
(* A small instance of ScoPacing: a transfer of one packet and one of two, *)
(* each OUT or IN, and a ring that a second packet of voice overflows.     *)
(***************************************************************************)
EXTENDS ScoPacing, TLC

CONSTANTS t1, t2

Shapes == t1 :> <<"voice">> @@ t2 :> <<"empty", "voice">>
=============================================================================
