----------------------------- MODULE MemoryMap -----------------------------
(***************************************************************************)
(* The memory map entries that the loader and the kernel share             *)
(* (shared/boot/src/lib.rs).  Addresses and lengths are counted in 4 KiB   *)
(* pages: the UEFI descriptors they come from are page granular.           *)
(***************************************************************************)
EXTENDS Integers, Sequences

\* BootMemoryMapType without Unknown, which the loader never stores.
BootMemoryMapType == {"Available", "Reserved", "Acpi"}

\* BootMemoryMapEntry; firmware descriptors are never empty.
MemoryMapEntry ==
    [addr : Nat, length : Nat \ {0}, typ : BootMemoryMapType]

\* The first page after an entry, and the pages of an entry.
EndOf(e) == e.addr + e.length
PagesOf(e) == e.addr .. EndOf(e) - 1

\* No page belongs to both entries.
Disjoint(d, e) == EndOf(d) <= e.addr \/ EndOf(e) <= d.addr

\* BootMemoryMapEntry::overlaps.  Both ends are inclusive, so entries that
\* only touch overlap too.  The swaps of the code never happen, since no
\* length is negative.
Overlaps(d, e) == d.addr <= EndOf(e) /\ e.addr <= EndOf(d)

\* The pages of two different Available entries never meet.
AvailableDisjoint(map) ==
    \A i, j \in DOMAIN map :
        (i # j /\ map[i].typ = "Available" /\ map[j].typ = "Available")
            => Disjoint(map[i], map[j])

\* What the frame allocator reads of BootInfo: the memory map, kernel_start
\* and kernel_end - kernel_start.
BootInfoType ==
    [memory_map : Seq(MemoryMapEntry), kernel_start : Nat, kernel_length : Nat \ {0}]

\* The kernel as a memory range.
KernelOf(b) ==
    [addr |-> b.kernel_start, length |-> b.kernel_length, typ |-> "Available"]

\* Range d lies inside entry e.
Inside(d, e) == e.addr <= d.addr /\ EndOf(d) <= EndOf(e)

\* The kernel lies inside one Available entry, or outside all of them.
KernelPlaced(b) ==
    LET avail == {i \in DOMAIN b.memory_map : b.memory_map[i].typ = "Available"}
    IN  \/ \E i \in avail : Inside(KernelOf(b), b.memory_map[i])
        \/ \A i \in avail : Disjoint(KernelOf(b), b.memory_map[i])

\* A boot information structure the kernel can rely on.
WellFormed(b) ==
    b \in BootInfoType /\ AvailableDisjoint(b.memory_map) /\ KernelPlaced(b)
=============================================================================
