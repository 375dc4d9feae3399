----------------------------- MODULE MCReadPump -----------------------------
(***************************************************************************)
(* Small instances of ReadPump.                                            *)
(***************************************************************************)
EXTENDS ReadPump
=============================================================================
