--------------------------- MODULE MCUartSession ---------------------------
(***************************************************************************)
(* Small instances of UartSession.                                         *)
(***************************************************************************)
EXTENDS UartSession
=============================================================================
