---------------------------- MODULE MCServerSync ----------------------------
(***************************************************************************)
(* ServerSync with one cycle of the API thread and two readings, a server  *)
(* that accepts or refuses, and a config file that may disable warnings.   *)
(***************************************************************************)
EXTENDS ServerSync

CONSTANT b1

MCBases      == {b1}
MCTokens     == {}
MCStatuses   == {200, 500}
MCConfigured == {"WARNING"}

=============================================================================
