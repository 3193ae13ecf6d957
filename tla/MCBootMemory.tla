---------------------------- MODULE MCBootMemory ----------------------------
(***************************************************************************)
(* BootMemory with short ranges below MaxPage reported in any order, enough *)
(* for a map that merges transitively and one that fills up, and with a    *)
(* type for each outcome of the conversion.                                *)
(***************************************************************************)
EXTENDS BootMemory

CONSTANTS MaxPage, MaxLength, Types

MCDescriptors ==
    {d \in [addr : 0 .. MaxPage - 1, length : 1 .. MaxLength, typ : Types] : EndOf(d) <= MaxPage}
=============================================================================
