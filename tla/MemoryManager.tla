--------------------------- MODULE MemoryManager ---------------------------
(***************************************************************************)
(* The memory manager, kernel/src/mm/mod.rs: the reference page table, the *)
(* vmalloc area that only ever grows in it, the page tables of processes   *)
(* that copy its top level, and the page fault that brings such a copy up  *)
(* to date.  Every operation holds the lock MM to its end, so each is one  *)
(* step.  A failed expect panics and leaves what was written so far.       *)
(***************************************************************************)
EXTENDS PagePool

CONSTANTS KernelStart,     \* the kernel image: its first frame and its frames
          KernelPages,
          HighestFrame,    \* end of the last entry of the memory map
          PhysP4,          \* PHYSICAL_MEMORY_START, KERNEL_TEXT_START and the
          TextP4,          \*   ends of the vmalloc area, as top level indices
          VmallocStartP4,
          VmallocEndP4,
          VmSizes,         \* sizes asked of allocate_kernel_vm
          Devices,         \* [paddr, size] asked of map_physical_to_kernel_vm
          Segments,        \* [vaddr, size] asked of map_in_userspace
          Processes,
          NoSpace

ASSUME LayoutAssumption ==
    /\ {PhysP4, VmallocStartP4, VmallocEndP4, TextP4} \subseteq Nat
    /\ 0 < PhysP4 /\ PhysP4 < VmallocStartP4
    /\ VmallocStartP4 < VmallocEndP4 /\ VmallocEndP4 <= TextP4
    /\ TextP4 < Entries

VARIABLES initialized,     \* MM is Some
          reference,       \* reference_page_table
          next_addr,       \* the next free page of the vmalloc area
          kernel_regions,  \* VMRegion records
          spaces           \* Process.memory_space: page table and regions

vars == <<initialized, mem, free, reference, next_addr, kernel_regions, spaces, panicked, wild>>

\* The first page under a top level index.
PageOf(p4) == p4 * Span[Levels - 1]
VmallocPages == PageOf(VmallocStartP4) .. PageOf(VmallocEndP4) - 1
IsVmallocAddr(v) == v \in VmallocPages
UserPages == 0 .. PageOf(PhysP4) - 1

\* The kernel image fits under its top level entry, and physical memory, in
\* whole 2M pages, below the vmalloc area.
ASSUME KernelAssumption ==
    /\ KernelStart \in Nat
    /\ KernelPages \in Nat /\ KernelPages <= Span[Levels - 1]
    /\ HighestFrame \in Nat
    /\ PageOf(PhysP4) + HighestFrame + Entries <= PageOf(VmallocStartP4)

\* What the callers ask for: devices lie outside the allocator's frames, and
\* segments, which start and end anywhere, have their pages in the user half.
ASSUME CallerAssumption ==
    /\ VmSizes \subseteq Nat
    /\ Devices \subseteq [paddr : Nat, size : Nat]
    /\ \A d \in Devices : \A i \in 0 .. d.size \div PAGE_SIZE : d.paddr + i \notin Frames
    /\ Segments \subseteq [vaddr : Nat, size : Nat]
    /\ \A s \in Segments : (s.vaddr \div PAGE_SIZE) + (s.size \div PAGE_SIZE) \in UserPages
    /\ NoSpace \notin [table : Frames, regions : SUBSET Segments]

\* Mutant of PageCount: rounds down.
PageCountDown(size) == size \div PAGE_SIZE

PageCount(size) == (size \div PAGE_SIZE) + 1

\* The frames come as the firmware left them.  The first becomes the
\* reference table, and which of its entries are PRESENT then is chance.
Init ==
    /\ initialized = FALSE
    /\ \E leftover \in SUBSET (0 .. Entries - 1) :
           mem = [f \in Frames |-> IF f = Min(Frames) THEN PartlyStale(f, leftover)
                                                     ELSE StaleTable(f)]
    /\ free = Frames
    /\ reference = NoFrame
    /\ next_addr = PageOf(VmallocStartP4)
    /\ kernel_regions = {}
    /\ spaces = [p \in Processes |-> NoSpace]
    /\ panicked = FALSE
    /\ wild = FALSE

\* n pages from `page' on, to frames from paddr on or to frames taken one by
\* one from the allocator: the loops of map_region, of map_in_userspace and
\* of the kernel text in initialize.
MapPages(m, fr, root, page, n, paddr) ==
    LET step[i \in 0 .. n] ==
            IF i = 0 THEN [mem |-> m, free |-> fr, ok |-> TRUE]
            ELSE LET s == step[i - 1]
                     taken == IF paddr = NoFrame THEN Min(s.free) ELSE paddr + (i - 1)
                     left == IF paddr = NoFrame THEN Taken(s.free, taken) ELSE s.free
                 IN  IF ~s.ok \/ (paddr = NoFrame /\ s.free = {})
                     THEN [s EXCEPT !.ok = FALSE]
                     ELSE MapRaw(s.mem, left, root, page + (i - 1), taken, Page4K)
    IN  step[n]

\* KernelPhysicalMemory::translate
PhysicalToVirtual(frame) == PageOf(PhysP4) + frame

\* Mutant of MapPhysical: the last 2M page is left out when it is not full.
MapPhysicalDown(s0, root) ==
    LET step[j \in 0 .. HighestFrame \div Entries] ==
            IF j = 0 THEN s0
            ELSE LET s == step[j - 1]
                     first == (j - 1) * Entries
                 IN  IF ~s.ok THEN s
                     ELSE MapRaw(s.mem, s.free, root, PageOf(PhysP4) + first, first, Page2M)
    IN  step[HighestFrame \div Entries]

\* The loop of initialize that maps all of physical memory with 2M pages.
MapPhysical(s0, root) ==
    LET step[j \in 0 .. (HighestFrame \div Entries) + 1] ==
            IF j = 0 THEN s0
            ELSE LET s == step[j - 1]
                     first == (j - 1) * Entries
                 IN  IF ~s.ok THEN s
                     ELSE MapRaw(s.mem, s.free, root, PageOf(PhysP4) + first, first, Page2M)
    IN  step[(HighestFrame \div Entries) + 1]

Outcome(s) ==
    /\ mem' = s.mem
    /\ free' = s.free
    /\ panicked' = ~s.ok

\* mm::initialize: MemoryManager::new with PageTable::create, which does not
\* clear its frame, and initialize.  Entries that the frame happens to hold
\* lead the kernel's mappings and every process to wherever they point:
\* nothing is known from there on.
Initialize ==
    /\ ~initialized
    /\ initialized' = TRUE
    /\ reference' = Min(free)
    /\ IF \E i \in 0 .. Entries - 1 : Present(mem[reference'][i])
       THEN wild' = TRUE /\ free' = Taken(free, reference') /\ UNCHANGED <<mem, panicked>>
       ELSE LET text == MapPages(mem, Taken(free, reference'), reference',
                                 PageOf(TextP4), KernelPages, KernelStart)
            IN  Outcome(MapPhysical(text, reference')) /\ UNCHANGED wild
    /\ UNCHANGED <<next_addr, kernel_regions, spaces>>

Running == initialized /\ ~panicked /\ ~wild

\* The common part of allocate_kernel_vm and map_physical_to_kernel_vm: take
\* the next addresses, keep the region, map it in the reference table.
NewRegion(size, paddr) ==
    LET region == [vaddr |-> next_addr, paddr |-> paddr, page_count |-> PageCount(size), size |-> size]
    IN  /\ next_addr' = next_addr + region.page_count
        /\ kernel_regions' = kernel_regions \cup {region}
        /\ Outcome(MapPages(mem, free, reference, region.vaddr, region.page_count, paddr))
        /\ UNCHANGED <<initialized, reference, spaces, wild>>

\* The code never looks at VMALLOC_END.  Bound: 16 TiB are not used up.
RoomFor(size) == next_addr + PageCount(size) <= PageOf(VmallocEndP4)

AllocateKernelVm(size) ==
    /\ Running
    /\ RoomFor(size)
    /\ NewRegion(size, NoFrame)

MapPhysicalToKernelVm(device) ==
    /\ Running
    /\ RoomFor(device.size)
    /\ NewRegion(device.size, device.paddr)

\* Mutant of CreatePageTable: the frame of the table stays free.
CreatePageTableFree(p) ==
    /\ Running
    /\ spaces[p] = NoSpace
    /\ free # {}
    /\ mem' = [mem EXCEPT ![Min(free)] = mem[reference]]
    /\ spaces' = [spaces EXCEPT ![p] = [table |-> Min(free), regions |-> {}]]
    /\ UNCHANGED <<initialized, free, reference, next_addr, kernel_regions, panicked, wild>>

\* Mutant of CreatePageTable: the last entry is not copied.
CreatePageTableShort(p) ==
    /\ Running
    /\ spaces[p] = NoSpace
    /\ free # {}
    /\ mem' = [mem EXCEPT ![Min(free)] =
                   [mem[reference] EXCEPT ![Entries - 1] = mem[Min(free)][Entries - 1]]]
    /\ free' = Taken(free, Min(free))
    /\ spaces' = [spaces EXCEPT ![p] = [table |-> Min(free), regions |-> {}]]
    /\ UNCHANGED <<initialized, reference, next_addr, kernel_regions, panicked, wild>>

\* MemorySpace::new with create_page_table: a fresh table takes every entry
\* of the reference table's top level.
CreatePageTable(p) ==
    /\ Running
    /\ spaces[p] = NoSpace
    /\ IF free = {}
       THEN panicked' = TRUE /\ UNCHANGED <<mem, free, spaces>>
       ELSE LET table == Min(free)
            IN  /\ mem' = [mem EXCEPT ![table] = mem[reference]]
                /\ free' = Taken(free, table)
                /\ spaces' = [spaces EXCEPT ![p] = [table |-> table, regions |-> {}]]
                /\ UNCHANGED panicked
    /\ UNCHANGED <<initialized, reference, next_addr, kernel_regions, wild>>

\* Mutant of MapInUserspace: maps in the reference table.
MapInUserspaceReference(p, segment) ==
    /\ Running
    /\ spaces[p] # NoSpace
    /\ segment \notin spaces[p].regions
    /\ Outcome(MapPages(mem, free, reference, segment.vaddr \div PAGE_SIZE,
                        PageCount(segment.size), NoFrame))
    /\ spaces' = [spaces EXCEPT ![p].regions = @ \cup {segment}]
    /\ UNCHANGED <<initialized, reference, next_addr, kernel_regions, wild>>

\* map_in_userspace for the segments and the stack of a program: pages are
\* counted from the size alone, wherever in its first page a segment starts,
\* and a page that another segment has is mapped again.  The region is noted
\* after it is mapped.
MapInUserspace(p, segment) ==
    /\ Running
    /\ spaces[p] # NoSpace
    /\ segment \notin spaces[p].regions
    /\ LET s == MapPages(mem, free, spaces[p].table, segment.vaddr \div PAGE_SIZE,
                         PageCount(segment.size), NoFrame)
       IN  /\ Outcome(s)
           /\ spaces' = IF s.ok
                        THEN [spaces EXCEPT ![p].regions = @ \cup {segment}]
                        ELSE spaces
    /\ UNCHANGED <<initialized, reference, next_addr, kernel_regions, wild>>

\* Mutant of WithVmallocOf: off by one at the end of the area.
WithVmallocOfShort(from, to) ==
    [i \in 0 .. Entries - 1 |->
        IF VmallocStartP4 <= i /\ i < VmallocEndP4 - 1 THEN from[i] ELSE to[i]]

\* The top level after page_fault_vmalloc: the vmalloc entries from `from',
\* the others from `to'.
WithVmallocOf(from, to) ==
    [i \in 0 .. Entries - 1 |->
        IF VmallocStartP4 <= i /\ i < VmallocEndP4 THEN from[i] ELSE to[i]]

Faults(p, v) == spaces[p] # NoSpace /\ Translate(mem, spaces[p].table, v) = NoFrame

\* The memory after page_fault_vmalloc of process p.
VmallocFaulted(p) ==
    [mem EXCEPT ![spaces[p].table] = WithVmallocOf(mem[reference], @)]

\* page_fault for process p, and the panic of interrupt_handler when it
\* answers false.
PageFault(p, v) ==
    /\ Running
    /\ Faults(p, v)
    /\ IF IsVmallocAddr(v)
       THEN mem' = VmallocFaulted(p) /\ UNCHANGED panicked
       ELSE panicked' = TRUE /\ UNCHANGED mem
    /\ UNCHANGED <<initialized, free, reference, next_addr, kernel_regions, spaces, wild>>

PagesOfRegion(r) == r.vaddr .. r.vaddr + r.page_count - 1
RegionPages == UNION {PagesOfRegion(r) : r \in kernel_regions}

Operation ==
    \/ Initialize
    \/ \E size \in VmSizes : AllocateKernelVm(size)
    \/ \E d \in Devices : MapPhysicalToKernelVm(d)
    \/ \E p \in Processes : CreatePageTable(p)
    \/ \E p \in Processes, s \in Segments : MapInUserspace(p, s)

\* The kernel touches the addresses it was given; a program may touch any
\* page of its half.
Next ==
    \/ Operation
    \/ \E p \in Processes : \E v \in RegionPages \cup {Max(UserPages)} : PageFault(p, v)

Spec == Init /\ [][Next]_vars

-----------------------------------------------------------------------------
Regions == [vaddr : VmallocPages, paddr : Nat \cup {NoFrame}, page_count : Nat \ {0}, size : Nat]

TypeOK ==
    /\ initialized \in BOOLEAN
    /\ mem \in [Frames -> [0 .. Entries - 1 ->
                    [flags : SUBSET EntryFlags, frame : Nat \cup {NoFrame}]]]
    /\ free \subseteq Frames
    /\ reference \in (Frames \ free) \cup {NoFrame}
    /\ next_addr \in PageOf(VmallocStartP4) .. PageOf(VmallocEndP4)
    /\ kernel_regions \subseteq Regions
    /\ \A p \in Processes : spaces[p] # NoSpace =>
           spaces[p].table \in Frames \ free /\ spaces[p].regions \subseteq Segments
    /\ panicked \in BOOLEAN
    /\ wild \in BOOLEAN

Spaces == {p \in Processes : spaces[p] # NoSpace}
Roots == {reference} \cup {spaces[p].table : p \in Spaces}

\* Every process sees one kernel: below the top level its kernel half is the
\* reference table's own, so a later allocation shows in all of them; only a
\* vmalloc entry may still be missing.
KernelShared ==
    ~wild => \A p \in Spaces : \A i \in PhysP4 .. Entries - 1 :
        LET e == mem[spaces[p].table][i]
        IN  \/ e = mem[reference][i]
            \/ VmallocStartP4 <= i /\ i < VmallocEndP4 /\ ~Present(e)

\* Whichever process runs, the kernel reaches all of physical memory through
\* KernelPhysicalMemory, whatever has been mapped since: it reads and writes
\* every page table that way.
PhysicalReachable ==
    Running => \A root \in Roots : \A f \in 0 .. HighestFrame - 1 :
        Translate(mem, root, PhysicalToVirtual(f)) = f

\* The frames a region of either kind owns, read from the table.
Backing(root, pages) == {Translate(mem, root, v) : v \in pages}

\* Regions of the kernel do not overlap and keep their frames: a named region
\* has frames of the allocator, each its own, a device region the device's
\* frames in order, and every byte asked for is mapped.
RegionsBacked ==
    Running =>
        /\ \A r \in kernel_regions : \A i \in 0 .. (r.size - 1) \div PAGE_SIZE :
               LET f == Translate(mem, reference, r.vaddr + i)
               IN  IF r.paddr = NoFrame THEN f \in Frames ELSE f = r.paddr + i
        /\ \A r, q \in kernel_regions : r # q => PagesOfRegion(r) \cap PagesOfRegion(q) = {}

FirstPage(s) == s.vaddr \div PAGE_SIZE
LastPage(s) == (s.vaddr + s.size - 1) \div PAGE_SIZE

\* Where the segment starts in its first page and where it would end in its
\* last one take more than a page together.
Spills(s) == (s.vaddr % PAGE_SIZE) + (s.size % PAGE_SIZE) > PAGE_SIZE

\* In whatever order the segments of a program are mapped, and although they
\* may share pages, every page of each is mapped to memory of the allocator,
\* but for the last page of a segment that spills into it; and the user half
\* of a process has nothing else, but perhaps the page of the byte after one.
SegmentsBacked ==
    Running => \A p \in Spaces :
        LET frame(v) == Translate(mem, spaces[p].table, v)
        IN  /\ \A s \in spaces[p].regions : \A v \in FirstPage(s) .. LastPage(s) :
                   frame(v) \in Frames \/ (Spills(s) /\ v = LastPage(s))
            /\ \A v \in UserPages : frame(v) # NoFrame =>
                   \E s \in spaces[p].regions : v \in FirstPage(s) .. (s.vaddr + s.size) \div PAGE_SIZE

\* A frame has one use, for all interleavings of allocations by the kernel
\* and by processes and when frames run out half way: it is free, or a
\* table, or kernel memory, or memory of one process.
FramesHaveOneUse ==
    initialized /\ ~wild =>
        LET tables == UNION {TableFrames(mem, r) : r \in Roots}
            kernel == Backing(reference, VmallocPages) \cap Frames
            user(p) == Backing(spaces[p].table, UserPages) \cap Frames
            uses == <<free, tables, kernel>>
        IN  /\ \A i, j \in 1 .. 3 : i # j => uses[i] \cap uses[j] = {}
            /\ \A p \in Spaces : user(p) \cap (free \cup tables \cup kernel) = {}
            /\ \A p, q \in Spaces : p # q => user(p) \cap user(q) = {}
            /\ \A p \in Spaces : Cardinality(user(p)) =
                   Cardinality({v \in UserPages : Translate(mem, spaces[p].table, v) \in Frames})

\* A page fault on memory the kernel owns is resolved at once, however much
\* the reference table has grown since the process's table was made or last
\* faulted: the interrupted instruction goes on and finds the right frame.
FaultResolves ==
    Running => \A p \in Spaces : \A v \in RegionPages : Faults(p, v) =>
        Translate(VmallocFaulted(p), spaces[p].table, v) = Translate(mem, reference, v)
=============================================================================
