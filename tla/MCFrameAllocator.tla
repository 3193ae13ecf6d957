-------------------------- MODULE MCFrameAllocator --------------------------
(***************************************************************************)
(* FrameAllocator with every memory map of at most two entries below page  *)
(* MaxPage, so that Available regions touch, are out of address order, or  *)
(* are separated by Reserved memory, and the four low pages are inside one *)
(* region, split over two, or partly missing.                              *)
(***************************************************************************)
EXTENDS FrameAllocator

CONSTANT MaxPage

Entries ==
    {e \in [addr : 0 .. MaxPage - 1, length : {2, 3, 4, 5},
            typ : {"Available", "Reserved"}] : EndOf(e) <= MaxPage}

MCBootInfos ==
    {b \in [memory_map : {<<e>> : e \in Entries} \cup (Entries \X Entries),
            kernel_start : {0, 3, 4}, kernel_length : {2}] :
        /\ \E i \in DOMAIN b.memory_map : b.memory_map[i].typ = "Available"
        /\ AvailableDisjoint(b.memory_map)
        /\ KernelPlaced(b)}
=============================================================================
