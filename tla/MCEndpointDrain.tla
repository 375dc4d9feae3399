-------------------------- MODULE MCEndpointDrain --------------------------
(***************************************************************************)
(* Small instances of EndpointDrain.                                       *)
(***************************************************************************)
EXTENDS EndpointDrain
=============================================================================
