-------------------------- MODULE MCMemoryManager --------------------------
(* A small machine: three levels of five entries.  The device is nearly as   *)
(* large as a top level entry, so the vmalloc area grows into its second.   *)
(* The first segment ends inside the page in which the second starts, to    *)
(* spill into its last page.                                                *)
EXTENDS MemoryManager, TLC

MCFrames == 2 .. 22
MCDevices == {[paddr |-> 40, size |-> 70]}
MCSegments == {[vaddr |-> 4, size |-> 4], [vaddr |-> 8, size |-> 5]}
ProcessSymmetry == Permutations(Processes)
=============================================================================
