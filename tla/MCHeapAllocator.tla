-------------------------- MODULE MCHeapAllocator --------------------------
(***************************************************************************)
(* HeapAllocator scaled down: nodes of 4 bytes aligned to 2 (16 and 8 in   *)
(* the kernel), layouts smaller than a node, not a multiple of their       *)
(* alignment, and aligned more strictly than a node.                       *)
(***************************************************************************)
EXTENDS HeapAllocator

L(size, align) == [size |-> size, align |-> align]

MCLayouts == {L(1, 1), L(5, 2), L(8, 4), L(3, 8)}
=============================================================================
