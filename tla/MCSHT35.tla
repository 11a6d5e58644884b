------------------------------ MODULE MCSHT35 ------------------------------
(***************************************************************************)
(* SHT35 with registers of two bits: every register map of one or two      *)
(* entries that fits, in either order and overlapping ones included, every *)
(* content of the registers.                                               *)
(***************************************************************************)
EXTENDS SHT35

MCMaps ==
    {map \in {<<c>> : c \in Entries}
             \cup {<<c, d>> : c \in Entries, d \in Entries} : WellFormed(map)}

=============================================================================
