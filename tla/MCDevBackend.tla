---------------------------- MODULE MCDevBackend ----------------------------
(* DevBackend on small instances.                                          *)
EXTENDS DevBackend

CONSTANT seed0

OneSeed == <<seed0>>
=============================================================================
