--------------------------- MODULE HeapAllocator ---------------------------
(***************************************************************************)
(* The kernel heap, kernel/src/mm/heap_alloc.rs: a linked list of free     *)
(* nodes that live in the free memory they describe.  free_list is the     *)
(* list from the head; a node is its address and its size.  Blocks are     *)
(* what callers of the GlobalAlloc hold, with the layout they asked for    *)
(* (and pass again to dealloc, as GlobalAlloc demands).                    *)
(***************************************************************************)
EXTENDS Integers, Sequences, SequencesExt

CONSTANTS HeapStart, HeapSize,     \* crate::heap()
          NodeSize, NodeAlign,     \* size_of and align_of AllocNode (16 and 8)
          Layouts                  \* the layouts callers ask for

ASSUME HeapAssumption ==
    /\ HeapStart \in Nat /\ HeapSize \in Nat
    /\ NodeSize \in Nat \ {0} /\ NodeAlign \in Nat \ {0}
    /\ HeapStart % NodeAlign = 0 /\ NodeSize % NodeAlign = 0
    /\ NodeSize <= HeapSize

ASSUME LayoutAssumption ==
    Layouts \subseteq [size : Nat \ {0}, align : Nat \ {0}]

\* Alignments are powers of two: the larger is a multiple of the smaller.
ASSUME AlignAssumption ==
    \A layout \in Layouts :
        /\ layout.align > NodeAlign => layout.align % NodeAlign = 0
        /\ layout.align <= NodeAlign => NodeAlign % layout.align = 0

VARIABLES free_list,       \* the nodes from the head of the list on
          blocks,          \* what callers hold: an address and a layout
          panicked         \* alloc has panicked, and the kernel halts

vars == <<free_list, blocks, panicked>>

\* util.rs align_up; the code masks bits, since alignments are powers of two.
AlignUp(x, align) == ((x + align - 1) \div align) * align

\* Mutant of AlignOf: the layout's own alignment is forgotten.
AlignOfNode(layout) == NodeAlign

\* Allocator::size_align: Layout::align_to, pad_to_align, and room for a node.
AlignOf(layout) == IF layout.align > NodeAlign THEN layout.align ELSE NodeAlign

\* Mutant of SizeOf: without pad_to_align.
SizeOfUnpadded(layout) == IF layout.size > NodeSize THEN layout.size ELSE NodeSize

SizeOf(layout) ==
    LET padded == AlignUp(layout.size, AlignOf(layout))
    IN  IF padded > NodeSize THEN padded ELSE NodeSize

\* Mutant of Suitable: the end is computed from the unaligned start.
SuitableUnaligned(node, size, align) ==
    LET excess == node.size - size
    IN  excess = 0 \/ excess >= NodeSize

\* Allocator::alloc_from_region answering Ok: the aligned range lies in the
\* region, and what remains behind it is nothing or room for a node.
Suitable(node, size, align) ==
    LET excess == (node.addr + node.size) - (AlignUp(node.addr, align) + size)
    IN  excess = 0 \/ excess >= NodeSize

\* Allocator::add_free_region inserts at the head.
AddFreeRegion(list, addr, size) == <<[addr |-> addr, size |-> size]>> \o list

Init ==
    /\ free_list = AddFreeRegion(<< >>, HeapStart, HeapSize)
    /\ blocks = {}
    /\ panicked = FALSE

\* GlobalAlloc::alloc with alloc_memory and find_region: the first suitable
\* node is unlinked, and the memory behind the block goes back to the list.
Alloc(layout) ==
    LET size == SizeOf(layout)
        align == AlignOf(layout)
    IN
    /\ ~panicked
    /\ \E i \in DOMAIN free_list :
         LET node == free_list[i]
             start == AlignUp(node.addr, align)
             excess == (node.addr + node.size) - (start + size)
             rest == RemoveAt(free_list, i)
         IN
         /\ Suitable(node, size, align)
         /\ \A j \in DOMAIN free_list : j < i => ~Suitable(free_list[j], size, align)
         /\ free_list' = IF excess > 0 THEN AddFreeRegion(rest, start + size, excess)
                                       ELSE rest
         /\ blocks' = blocks \cup {[addr |-> start, layout |-> layout]}
    /\ UNCHANGED panicked

\* No node is suitable: alloc_memory answers None and alloc panics.
AllocPanic(layout) ==
    /\ ~panicked
    /\ \A i \in DOMAIN free_list :
         ~Suitable(free_list[i], SizeOf(layout), AlignOf(layout))
    /\ panicked' = TRUE
    /\ UNCHANGED <<free_list, blocks>>

\* Mutant of Dealloc: frees the size asked for, not the size reserved.
DeallocAsked(b) ==
    /\ ~panicked
    /\ free_list' = AddFreeRegion(free_list, b.addr, b.layout.size)
    /\ blocks' = blocks \ {b}
    /\ UNCHANGED panicked

\* GlobalAlloc::dealloc with free_memory: no neighbours are merged.
Dealloc(b) ==
    /\ ~panicked
    /\ free_list' = AddFreeRegion(free_list, b.addr, SizeOf(b.layout))
    /\ blocks' = blocks \ {b}
    /\ UNCHANGED panicked

Next ==
    \/ \E layout \in Layouts : Alloc(layout) \/ AllocPanic(layout)
    \/ \E b \in blocks : Dealloc(b)

Spec == Init /\ [][Next]_vars
-----------------------------------------------------------------------------
Node == [addr : Nat, size : Nat \ {0}]
Block == [addr : Nat, layout : Layouts]

TypeOK ==
    /\ free_list \in Seq(Node)
    /\ blocks \subseteq Block
    /\ panicked \in BOOLEAN

\* Two ranges that share no byte.
Apart(a, m, b, n) == a + m <= b \/ b + n <= a

\* The bytes a block occupies are those of no other block and of no free
\* node (writing a node would destroy the block), free nodes do not overlap
\* either, and nothing lies outside the heap: after any sequence of
\* allocations and frees, whatever the alignments.
NoOverlap ==
    /\ \A b \in blocks :
         /\ HeapStart <= b.addr /\ b.addr + SizeOf(b.layout) <= HeapStart + HeapSize
         /\ \A c \in blocks \ {b} :
              Apart(b.addr, SizeOf(b.layout), c.addr, SizeOf(c.layout))
         /\ \A i \in DOMAIN free_list :
              Apart(b.addr, SizeOf(b.layout), free_list[i].addr, free_list[i].size)
    /\ \A i \in DOMAIN free_list :
         /\ HeapStart <= free_list[i].addr
         /\ free_list[i].addr + free_list[i].size <= HeapStart + HeapSize
         /\ \A j \in DOMAIN free_list \ {i} :
              Apart(free_list[i].addr, free_list[i].size, free_list[j].addr, free_list[j].size)

\* The two assertions of add_free_region hold of every node that is ever
\* put on the list, although layouts have any size and any alignment.
NodesFit ==
    \A i \in DOMAIN free_list :
        free_list[i].addr % NodeAlign = 0 /\ free_list[i].size >= NodeSize

\* Every block starts at the alignment its layout asks for and has room for
\* its size.
BlocksSuit ==
    \A b \in blocks : b.addr % b.layout.align = 0 /\ SizeOf(b.layout) >= b.layout.size

\* The bytes on the free list or in a block.
Held ==
    (UNION {free_list[i].addr .. free_list[i].addr + free_list[i].size - 1 :
               i \in DOMAIN free_list})
    \cup (UNION {b.addr .. b.addr + SizeOf(b.layout) - 1 : b \in blocks})

\* Memory is lost for good only in one way: the padding in front of a block
\* whose layout is aligned more strictly than a node, and it is less than
\* that alignment.  In particular a free followed by the same allocation
\* loses nothing.
LossIsPadding ==
    [][/\ Held' \subseteq Held
       /\ Held' # Held =>
            \E b \in blocks' \ blocks :
                /\ b.layout.align > NodeAlign
                /\ Held \ Held' \subseteq b.addr - b.layout.align + 1 .. b.addr - 1]_vars
=============================================================================
