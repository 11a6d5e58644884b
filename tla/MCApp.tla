------------------------------- MODULE MCApp -------------------------------
(***************************************************************************)
(* The whole process, from the config file to the exit of main().          *)
(***************************************************************************)
EXTENDS App

=============================================================================
