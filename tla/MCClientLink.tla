---------------------------- MODULE MCClientLink ----------------------------
(* ClientLink on small instances.                                          *)
EXTENDS ClientLink

CONSTANTS big (* the request that is too large *)
=============================================================================
