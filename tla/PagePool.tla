------------------------------ MODULE PagePool ------------------------------
(***************************************************************************)
(* The state that the kernel's page table code works on: Frames are those  *)
(* of the frame allocator.                                                 *)
(***************************************************************************)
EXTENDS PageMemory

VARIABLES free,            \* the frame allocator
          panicked,        \* an expect failed
          wild             \* a table entry that nobody wrote was followed

=============================================================================
