-------------------------- MODULE MCJsonRPCServer --------------------------
(***************************************************************************)
(* Reads of at most four bytes, a limit of six, and requests that fit into *)
(* one read or exceed the limit.                                           *)
(***************************************************************************)
EXTENDS JsonRPCServer
=============================================================================
