# A TLA+ model of rest-os

rest-os is a small x86-64 kernel in Rust with a UEFI loader. This directory
holds TLA+ modules for its core, TLC configurations that check them on small
instances, and TLAPS proofs for every size. `PROJECT.json` lists every run,
every mapped definition with its source lines, the mutants, the findings, the
hazards and the theorems. Paths below are relative to the repository (`src/`).

    tlc -workers 2 -config FrameAllocator.cfg MCFrameAllocator
    tlapm FrameAllocatorProofs.tla

## 1. The system

One processor runs everything: the loader, then the kernel with interrupts
off, then kernel threads and one user program with interrupts on.

| Component | State | Operations | Works with |
|---|---|---|---|
| loader (`uefi-loader/src/main.rs`, `efi.rs`) | block of frames for tables, first page table, memory-map key | `efi_main` and the functions it calls | firmware calls; hands BootInfo, page table and stack to the kernel |
| ELF parser (`shared/elf`) | none | `parse`, header iteration, segment data | loader, `replace_image` |
| boot memory map (`shared/boot`) | `BootInfo.memory_map` | `add_memory_map_entry` with its merge loop | filled by the loader, read by the memory manager |
| frame allocator (`mm/frame_alloc.rs`) | regions with bitmaps | `init`, `lock_region`, `alloc_frame`, `free_frame` | owned by the memory manager |
| kernel heap (`mm/heap_alloc.rs`) | free list threaded through free memory | `init`, `alloc`, `dealloc` | every `Box`, `Vec`, `Arc` of the kernel |
| page tables (`arch/x86_64/page_table.rs`, `mm/physical_memory.rs`) | tables in frames | `create`, `map_raw`, `unmap_raw`, translate | frame allocator |
| memory manager (`mm/mod.rs`) | reference table, vmalloc cursor and regions, memory spaces | `initialize`, `allocate_kernel_vm`, `map_physical_to_kernel_vm`, `create_page_table`, `map_in_userspace`, `page_fault` | called by processes and by the page fault handler, under the lock `MM` |
| scheduler, threads, processes (`scheduler.rs`, `thread.rs`, `process.rs`) | queue, current thread, saved registers, `update` | `add_process`, `start`, `schedule`, `replace_image`, `set_ready` | timer interrupt, memory manager |
| kernel entry and exit (`interrupts.rs`, `syscall.rs`, `processor.rs`) | gs bases, interrupt flag, interrupt frame, saved user stack pointer | `syscall_entry`, vectors, `interrupt_handler`, `without_interrupts` | everything that uses `core!()` |
| locks (`spin`, `processor.rs`, `util.rs`) | who holds each lock, `were_enabled` of each masked section | `lock`, `without_interrupts`, `verify_interrupts_disabled` | taken by threads, system calls and handlers |
| kernel initialisation (`lib.rs`, `arch/x86_64/mod.rs`) | which facilities are up, the interrupt flag | `kernel_init`, `arch::initialize`, `kernel_init_thread` | calls every other component |
| print path (`print.rs`, `serial.rs`) | early buffer, `USE_EARLY_PRINTING`, console | `_print_fmt`, `switch_early_print`, `console_init`, `flush_early_print_buffer` | everybody prints, handlers included |
| CPIO, ACPI and MADT parsers (`cpio.rs`, `acpi.rs`, `apic.rs`) | position in the data, `NUM_CORES`, `IOAPIC` | `read_file`, `find_table`, `parse_madt_table` | read during initialisation |
| interrupt controllers (`apic.rs`, `pic.rs`) | unmasked vectors, interrupts in service | `initialize`, `set_vector`, `eoi`, `send_eoi` | handlers |
| multiboot, build tool, userland | | | not modelled, see section 8 |

What is hard here: interrupts arrive between any two instructions, and the
timer replaces the interrupted thread; the page table changes under running
code twice (trampoline, `mm::initialize`); processes hold copies of the
kernel's top-level table that go stale; memory is handed from firmware to
loader to kernel with ownership recorded only in a merged memory map; frames
and heap run out half way through an operation; boot services may refuse the
loader's key any number of times; spin locks are shared by handlers and by the
code they interrupt; the print path, the interrupt controllers and the current
thread are used by code that may run before they are set up.

What makes each component correct:

- boot map: merging loses, invents and shares no page, in any order;
- frame allocator: a frame has at most one owner, is never the kernel's or low
  memory, and comes from memory the firmware said is free;
- loader: at the jump everything the kernel touches is mapped, to the right
  contents and to memory nobody else uses;
- heap: blocks and nodes never overlap, suit their layout, and nothing but
  padding is lost;
- page tables and memory manager: what was mapped translates, tables are never
  used as pages, processes share one kernel, faults on kernel memory resolve;
- scheduler: no thread is lost, doubled or passed over twice by another, and
  each resumes where it was or at its new image, on its own page table;
- entry and exit: gs and the syscall stack are right wherever an interrupt falls;
- locks: nobody waits for a lock of the code it interrupted, and every
  interrupt is ended;
- initialisation: nothing is used before it is initialised, nothing printed is
  lost but what the early buffer cannot hold, and the machine reaches its
  program or a panic;
- parsers: they find what the data holds, read nothing else, and end.

## 2. Modules

`MemoryMap`, `PageWalk`, `CpioArchive`, `AcpiTables` and `ElfImage` are
libraries of operators; all others have state.
Definitions keep the names of the functions they model.

| Module | Models | Notes |
|---|---|---|
| `MemoryMap` | `BootMemoryMapEntry`, `overlaps`, what a usable BootInfo is (`WellFormed`) | in pages |
| `FramePool` | abstract: a set of free and a set of owned frames | specification of the frame allocator |
| `FrameAllocator` | `create_frame_allocator`, `alloc_frame`, `free_frame` | a bitmap is the set of its set bits; `owned` is history |
| `BootInfo` | the merge loop, one iteration per step | `offered`, `accepted` are history |
| `BootMemory` | the loop of `efi_main` over the firmware's descriptors and types, composed with BootInfo and the kernel's FrameAllocator | `boot_data`: a page of the initrd or of BootInfo |
| `UefiLoader` | the rest of `efi_main`: table frames, kernel, stack, identity map, trampoline, ACPI table, BootInfo page, exit, jump | the firmware picks every place |
| `HeapAllocator` | the linked-list allocator | free list in list order; addresses in units |
| `PageWalk` | walks, `map_raw`, `unmap_raw` | levels and entries per table are parameters |
| `PageMemory` | the frames that tables lie in, and what they hold as tables | state shared by loader and kernel |
| `PagePool` | which of these frames are free | state shared by the next two |
| `PageTable` | one table, sequences of mappings and unmappings | frames start dirty, the root's with any entries (`leftover`); `wild` once one of them is followed |
| `MemoryManager` | reference table, vmalloc, processes' tables, faults | each operation holds `MM`: one step; `wild` if the reference table's frame held entries |
| `Scheduler` | queue, contexts, `update`, page table of the running thread | a context is an image and a program point; `passed` is history |
| `TrapEntry` | syscall entry and exit, vectors, handler, thread switch | one step per instruction group |
| `KernelLocks` | `TrapEntry` with what runs in between: every lock, masked section and end of interrupt of threads, system calls and handlers | a routine is the sequence of its steps |
| `CpioArchive` | archives: where headers, names and data lie, with their padding | in bytes |
| `AcpiTables` | root table, MADT and its records with their lengths | offsets in bytes |
| `ElfImage` | the file header and what `Elf::parse` refuses | program headers are in `UefiLoader` |
| `KernelInit` | `kernel_init`, `arch::initialize` and `kernel_init_thread`, stage by stage, with print path, ACPI and initrd | loops over records are one step per record; a message is two parts, time and text, with interrupts between them (`pending`) |
| `DataLemmas` | induction over numbers, recursive functions, counting, removal from sequences | lemmas only |
| `FrameAllocatorProofs`, `BootMemoryProofs`, `HeapAllocatorProofs`, `SchedulerProofs`, `KernelInitProofs` | theorems about the module they are named after | section 4 |
| `TrapEntryProofs` | theorems about `TrapEntry` and `KernelLocks` | section 4 |
| `PagingProofs` | theorems about `MemoryManager`, `PageTable` and `UefiLoader`, with the lemmas about walks and tables they rest on | section 4 |
| `MC*` | constants and symmetry for TLC | |

`BootMemory` instantiates `BootInfo` and `FrameAllocator` and adds only their
order and the hand-over; `MemoryManager` and `PageTable` extend `PagePool`, which
like `UefiLoader` extends `PageMemory` and through it `PageWalk`; `KernelLocks` extends `TrapEntry` and runs its actions together with
the locks; `KernelInit` extends the three parser libraries. `FrameAllocator` is
shown to implement `FramePool` with
`free <- FreeFrames`, `open <- created`.

Correspondence worth knowing:

- The bitmap's bytes become a set of bit indices; a region's size in frames
  and the order of regions are kept, since `alloc_frame` takes the first clear
  bit of the first region and `lock_region` the first region that fits.
- `map_raw` that runs out of frames leaves the tables it has linked; the
  caller's `expect` then panics. The models keep that partial state.
- `Entry::set_flags` ors, so `unmap_raw` is modelled as it behaves, not as
  intended.
- `size / PAGE_SIZE + 1` pages per region is kept.
- The block of `interrupt_handler` that calls `schedule`
  (`interrupts.rs` 139-198) is commented out at this commit. `Scheduler` and
  `TrapEntry` follow it, as the only described use of `schedule`; `KernelLocks`
  has both builds, told apart by `scheduling`.
- `UefiLoader` and `BootMemory` are two views of `efi_main`: the first has its
  allocations and page tables, the second its loop over the memory map.

## 3. Runs

Each run answers one question; every property of a passing run is also shown
to be violated by a mutant, an operator kept in the module next to the
definition it distorts and named `Mutant of ...` in its comment.

| Run | Distinct states | What it shows |
|---|---|---|
| `frame_allocator` | 28,815 | for every small memory map and kernel position the allocator refines `FramePool` and never frees or hands out kernel or low frames |
| `boot_memory` | 978,732 | whatever the firmware reports and in whatever order, no page is lost or invented, the map handed over is fully merged and `WellFormed` (the assumption of the proofs), and frames are handed out of free memory only |
| `uefi_loader` | 45,376 | image, stack, trampoline, BootInfo and low memory are mapped right at the jump and agree with the mapping the kernel makes next; the exit loop ends, in the jump or in the panic of a memory map that outgrew its buffer |
| `heap_allocator` | 77,761 | all sequences of allocations and frees on a small heap |
| `page_table` | 25,049 | 4K and 2M mappings under a root that was not cleared, until frames run out or a leftover entry is followed |
| `memory_manager` | 23,428 | two processes, kernel allocations, segments that share a page and end in another, and faults in every order |
| `scheduler` | 1,574 | the timer at every instruction, image replacement, the order of turns |
| `kernel_locks` | 4,531 | interrupts, faults and switches at every point of threads, system calls and handlers: gs, stacks, locks and ends of interrupt, and that the init thread gets its image |
| `kernel_init` | 522,410 | the boot sequence over small sets of ACPI tables and initrds, with failures, MADT records without a length, an early buffer that overflows, and interrupts as soon as they are enabled, also between the time and the text of a message |
| `boot_memory_data`, `page_table_unmap`, `trap_entry_window` | violations | the findings of section 6 |

### Bounds

- `FrameAllocator` (8 pages): every map of at most two entries. `LowPages` is
  the code's 4.
- `BootMemory`: five pages, descriptors of at most two, in every order, of five
  types: two that become Available, one for each other type, and one the loader
  cannot parse. Three descriptors are the fewest that can join two stored
  entries; a map of three entries fills up before all are offered.
- `UefiLoader`: three levels of four entries, nine table frames, 17 frames of
  memory, so that tables are shared, several are needed per range, and each
  allocation of the loader can fail. `MaxMapChanges` bounds how often the
  firmware changes its map; `KernelStarts` is about finitely many changes. A map
  has two or three descriptors (`MapSizes`) and the buffer room for two
  (`MapBuffer`), so each call of `memory_map` can find it too small.
- `HeapAllocator`: 26 bytes with nodes of 4 (16 in the kernel), which is room
  for several blocks and for none; layouts smaller than a node, not a multiple
  of their alignment, and aligned more strictly than a node.
- `PageTable`: the code's four levels with two entries each, so that every
  walk and every shared or separate table occurs; 13 frames, which
  run out while there are still pages to map. Each of the two entries of the
  root's frame may be left over.
- `MemoryManager`: three levels, five top-level entries: user, physical
  memory, two for vmalloc (a process's copy can miss the second), text. Pages
  of three bytes and two segments, of which the first ends inside the page in
  which the second starts, and the second spills into a page that its size
  alone does not count.
  `RoomFor` keeps `next_addr` below `VMALLOC_END`, which the code (16 TiB)
  never compares.
- `Scheduler`: three threads, the smallest number where order in the queue
  matters; `LastPoint` program points, after which a thread loops.
- `KernelLocks`: the kernel's two threads and the program the first becomes; no
  counters, so no bounds. A handler that prints several times prints once.
- `KernelInit`: MADTs of one or two records, each kind of record with its proper
  length and two kinds with the length 0, first and last in the table (a pair
  has a core or an IO APIC in it); archives of at most two entries before the
  trailer, the second an `init`, with files that need padding and files that do
  not; IO APICs with and without an entry for the keyboard, memory maps of
  one and three entries so that the early buffer of 17 parts overflows in the
  second case only, and one interrupt (`MaxInterrupts`), which may come at any
  point from `enable_interrupts` on.
- `TrapEntry` (in `trap_entry_window`): no counters, so no bounds.
  Once `core!()` has been read through a program's gs (`wild`) nothing more is
  claimed.

Processes are symmetric in `memory_manager`, which has no liveness property.
Deadlock is not an error where a panic or the end of a bounded input stops the
system.

### Fairness

- `KernelLocks`: weak fairness of a handler's steps, which nothing but a fault
  interrupts; strong fairness of the steps of kernel threads, which interrupts
  disturb for a while only, the timer's period being longer than its handler.
- `KernelInit`: weak fairness of `Boot`, the sequence itself: the processor runs
  it whenever it is not in a handler.
- `UefiLoader`: weak fairness of `GetMemoryMap` and `ExitBootServices`: the
  loader runs alone and the firmware's calls return.

## 4. What is proved

All for arbitrary constants under the named assumptions; TLC evaluates the
assumptions on every run. Each theorem `Spec => []P` goes through an inductive
invariant, `IInv`, of which the module says why `P` alone is not enough.

**Induction and recursion** (`DataLemmas`). The induction theorems of the
library take an operator as a parameter, which the provers here cannot
instantiate. `SetInduction` states the same of a set (a set that holds 0 and
with every number its successor holds all), and a predicate becomes the set of
numbers that satisfy it; `Ascent` is the bounded form. `Recursion` says that a
recursive function over an interval exists, given its step as a function; a
definition of the models (`TablesOn`, `MapRaw`, `Span`, the parsers' offsets) is
then shown to satisfy its own equation, and `Ascent` proves what it computes.
`Least` gives the first element, `Counting` what is counted in a prefix.

**`FrameAllocatorProofs`** (`BootInfoAssumption`: every BootInfo is
`WellFormed`, that is, Available entries are disjoint and the kernel lies in
one of them or in none; `NoFrameAssumption`: None is no frame).
- `TypeCorrect`: the type invariant, which no run repeats.
- `KernelSafe`, `LowSafe`: no frame of the kernel or of low memory is ever free
  or handed out.
- `ImplementsPool`: the bitmap allocator implements `FramePool`.

`KernelNeverHandedOut` is not inductive: that a freed frame is not the
kernel's needs to be known of owned frames, and that a clear bit stands for one
frame only needs disjoint regions. The inductive invariant adds: regions are
disjoint, owned frames are set bits of regions, and reserved frames in a region
are set bits that nobody owns. `FreeFrame` clears the bit of an owned frame,
`AllocFrame` sets a clear one, and neither touches another region. Lemmas about
`LockRegion` carry the invariant through `CreateFrameAllocator`, where
`KernelPlaced` makes the first region that fits the only one concerned. The
refinement uses the same facts: the abstract free set loses or gains exactly
one frame per step.

**`BootMemoryProofs`** (descriptors and map of any size).
- `MergedCompletely`, `NoPageLost`, `OnlyFreeMemory`: the three properties of
  the merge loop and of what the kernel makes of its map.
- `WellFormedHandedOver`: the map handed over is `WellFormed`. It discharges
  `BootInfoAssumption`.
- `ImplementsFrameAllocator`: after the hand-over the composition behaves as
  `FrameAllocator`, started with some well-formed BootInfo.
- `KernelSafeFromFirmware`: the two developments joined, from the firmware's
  descriptors to `alloc_frame`.

The loop adds lengths, so the pages of a merged entry are the union of the
pages of its parts only when these are disjoint: the invariant adds that the
live entries, the one being merged included, share no page, that each accepted
entry lies inside one live entry of its type, and that live entries have no
other pages. `FullyMerged` is kept because an entry is compared with the whole
map again after every merge.

**`HeapAllocatorProofs`** (`HeapAssumption`, `LayoutAssumption`,
`AlignAssumption`: alignments divide one another, as powers of two do).
- `HeapSound`: blocks and nodes never overlap and stay in the heap.
- `AssertionsHold`: every node fits and is aligned, as `add_free_region` asserts.
- `BlocksCorrect`: a block is as large and as aligned as its layout asks.
- `OnlyPaddingLost`: the action property that a step loses at most the padding.

The node written into a freed block, or behind an allocated one, must have room
and be aligned: blocks must be multiples of `NodeAlign`, which is added to the
conjunction of the four properties, none of which is inductive by itself.

**`PagingProofs`**, page tables (any number of levels and entries,
`PoolAssumption`, `AreasAssumption`: areas of 2M pages are aligned and map memory
outside the pool; the root's frame may hold any entries).
- `TranslationCorrect`: every page under an entry that was clear translates to
  what it was last mapped to.
- `TablesSafe`: tables, mapped frames and free frames stay apart, also when
  frames run out in the middle of `map_raw`.

A page number is the sequence of its digits, and `Prefix(v, k)` its first k.
Several roots may share tables, so the lemmas are about a `Forest` of roots `R`:
a table is reached at one level and by one prefix only, and by one root only
where its top-level entry is private (the entries `P`; `Distinct`); no table is
free; and 2M pages occur under the entries `B` only. Without `Distinct` a write
to one slot could change other walks. Linking a cleared table then changes
exactly the walks with the same prefix, none of which led anywhere (`LinkWalk`,
`LinkTranslate`); writing the page's entry changes no walk and exactly the
translations under it (`LeafWalk`, `LeafTranslate`). `Progress` carries both
through the levels of `map_raw`: it is in tables that were there, or in one it
has just cleared. `MapRawCorrect` is the result: what a call does to every page
of every root, whether it succeeds or fails. A single table is the forest of
one root, but with leftover entries in its frame it is none: they lead anywhere.
So the invariant (`TableInv`) speaks of the memory in which just those entries
are cleared (`Masked`): there the tables are a forest, translation is what the
callers believe, and what they mapped is neither a table nor free. `MaskedMap`
says that `map_raw` of a page under another entry does to both memories the
same, step by step (`Twins`), because no such walk comes to a leftover entry
(`RootOnce`: nothing in the forest leads back to the root), and `MaskedWalk` that
those pages are seen alike. Both properties end when a leftover entry is followed
(`wild`).

**`PagingProofs`**, memory manager (any number of processes, any sizes, devices
and segments; `LayoutAssumption`: the four areas lie in order; `KernelAssumption`:
the kernel image fits under its top-level entry, as its 1 GiB does, and physical
memory, rounded up to a 2M page, below the vmalloc area; `CallerAssumption`:
devices lie outside the allocator's frames and the pages counted for a segment,
which may start and end anywhere, lie in the user half).
- `OneKernel` (`KernelShared`): every process sees one kernel.
- `PhysicalMemory` (`PhysicalReachable`): all of physical memory stays reachable.
- `KernelRegions` (`RegionsBacked`): regions stay mapped and apart.
- `UserSegments` (`SegmentsBacked`): every page of every segment is mapped, but
  for the last one of a segment that spills into it, and hardly anything else:
  the page of the byte after a segment at most.
- `OneUse` (`FramesHaveOneUse`): no frame has two uses.
- `FaultsResolve` (`FaultResolves`): one page fault brings a process up to date.
- `MemoryManagerTypeOK`: the type invariant.

None of the six is inductive, since each depends on which tables are shared. The
invariant is
`Typed /\ Unbooted /\ Strayed /\ Rooted /\ OneTable /\ RegionsApart /\ Works`.
`Strayed` is the case in which the frame of the reference table held entries: no
process exists then, and the six properties claim nothing more.
Its core, `Core` under `Rooted`, says that the tables of the reference and of the
processes are a `Forest` in which the user entries are private and physical
memory alone has 2M pages; that the reference has nothing in its user half; that
a process's kernel entry is the reference's own or a vmalloc entry not yet there
(`Shared`); and that the pages that own their frames (`Owned`: user pages of a process, vmalloc
pages of the reference) are mapped to frames that are not free, no table, and no
other such page's (`Apart`). The last is also what makes an operation that runs
out of frames half way harmless: the frames it took stay accounted for. `Works`
holds as long as the kernel has not panicked and says that regions, segments and
physical memory translate as promised; for a segment that is the pages counted
from its size, and `SegmentCovers` and `SegmentPast` compare them with those it
lies on. The argument has three parts:
`MapPagesCorrect` and `MapPhysicalCorrect` carry `MapRawCorrect` through the
loops of `map_region`, `map_in_userspace` and `initialize`; `CopiedForest` and
`CopiedApart` are about copies of top-level entries
(`create_page_table_for_process` and the fault handler), where every walk after
the copy is a walk of an older root; and `CoreKernel`, `CoreUser`, `CoreCreate`
and `CoreFault` put them together, one per kind of operation.

**`PagingProofs`**, loader (any depth and width of tables, any memory the firmware
may have and any choice it makes, kernels of any number and size of segments;
`LoaderAssumption`: the kernel's addresses lie above the frames and the identity
map, as KERNEL_TEXT_START lies in the upper half; `ExecutablesAssumption`: the
kernel is linked by `uefi-linker.ld`, has a segment, and fits under its tables).
- `KernelRemap` (`RemapAgrees`): image and stack are mapped as the memory manager
  will map them again.
- `KernelImage` (`ImageLoaded`): the kernel finds its segments, with zeroes where
  the file has no bytes.
- `BootMemorySeen` (`EarlyMemory`): low memory, trampoline and BootInfo are mapped
  to themselves.
- `LoaderMemory` (`MemoryApart`): no memory of the loader has two uses.

All four speak of the jump only, so none is inductive. `LoaderInv` says what is
true when `efi_main` comes to each of its calls: from `HasTables` on the tables
are a `Tree` in the used part of `frame_alloc`'s block, which the firmware no
longer has; from `HasKernel` on the kernel's memory lies apart from it; from
`HasImage`, `HasStack`, `HasIdentity`, `HasTrampoline` and `HasBootInfo` on, what
each call mapped is still mapped. A panic ends all of these. A `Tree` is a `Forest`
of one root whose pool is the unused rest of the block, so the lemmas about links
and leaves serve `map_page_4k` too: `WalkingNext` is one level of its descent,
`Page4KCorrect` its result, `MapRangeCorrect` that of a loop over a range, and
`MapSegmentsCorrect` that of the loop over the program headers, which needs that
the offsets grow with the headers (`Offsets`) and that segments linked in order
leave no gap (`PackedNext`). Later calls keep what earlier ones mapped because
frames, and so the pages of the identity map, the trampoline and BootInfo, lie
below `TextStart`; where the trampoline or BootInfo lies below 16 MiB, it is
mapped twice to the same place. TLC confirmed `LoaderInv` on an instance with two
levels before it was proved.

**`SchedulerProofs`** (`ThreadsAssumption`, `PointsAssumption`; any number of threads).
- `ThreadsKept`: every thread is current or queued, exactly once.
- `ResumeCorrect`: it resumes where it was interrupted or at its new image.
- `PageTableCorrect`: the page table loaded is that of the running process.
- `WaitBounded`: between two turns of a thread no other gets two.

`ResumesRight` says nothing of the running thread, whose context the next tick
saves or, after `replace_image`, does not: `RunningRight` says which. For
`BoundedWait` the invariant (`Turns`) counts from the place in the queue: a thread
at place i of n has been passed over at most n - i + 1 times.

**`TrapEntryProofs`** (`ThreadsAssumption`).
- `GsCorrect`: gs is the program's in programs and the kernel's in kernel code.
- `StackCorrect`: a system call returns on the stack it came from.

`GsRight` says nothing of the entry and exit sequences and the saved frames,
which decide gs later. The inductive invariant states, for every place, whose
gs is active and whether interrupts are masked, what the interrupted frame and
every saved frame may look like, and that from `cli` on only a page fault, which
never switches threads, can interrupt a system call.

Of `KernelLocks` (`CastAssumption`: the two kernel threads, the program and the
handler, whatever their names):
- `NobodySpins`: whoever takes a lock finds it free, except `schedule` the heap's
  lock of `kernel_init_thread` (section 6).
- `InterruptsEnded`: every interrupt is ended at its controller before the
  interrupted code goes on.
- `FrameSafe`: no interrupt overwrites the frame of another.
- `EntriesCorrect`: gs and the stack are right also with the masking that the
  routines do.

`CastAssumption` leaves no counters and fixes the number of threads, so the
states of the run are all there are; the proof is there for its reasons, and does
not enumerate them. A routine is a sequence of steps, and `Runs` says that its
steps lead from one state (depth of `without_interrupts`, locks held, controllers
waiting) to another and are all permitted to that routine: a handler, for
instance, takes no lock of the devices, the console or the archive. Runs compose
(`RunsJoin`), and wrapping one in a lock or in `without_interrupts` gives a run
(`HoldingRuns`, `MaskedRuns`), so that those of the threads, the system calls and
the handlers follow the structure of the code.

`LocksFree` speaks of one moment; whether a lock is free then depends on what
everybody else was doing when interrupted. The invariant `LocksInv` adds to the
one of the entries that what is left of every routine is a run to a state with
nothing held, masked or waiting (`CodeRuns`); that a thread which does not execute
kernel code was interrupted with interrupts enabled, and then holds nothing, or in
`kernel_init_thread` only a lock it takes unmasked (`QuietThreads`); that only the
outermost `without_interrupts` found interrupts enabled (`Nesting`); and which
controller waits for whom (`Serving`). The handler's locks are then disjoint from
those that `kernel_init_thread` may be interrupted with, except for the heap's.
TLC confirmed the invariant on all states of the run before it was proved.

**`KernelInitProofs`** (`FirmwareAssumption`: what the tables and the initrd are
made of, and that a MADT has a record; any number and size of them).
- `OutputCorrect`: the serial port shows what the kernel printed, in order,
  whatever handlers print before, after and inside its messages.
- `NeverTooEarly`: nothing is used before it is initialised.
- `MadtCorrect`: every usable core is counted and the IO APIC found, whatever
  lengths the records claim; only a record without a length keeps the loop.
- `FileCorrect`: `read_file` returns the contents of the first `init` before the
  trailer.

The invariant ties what has been printed to the stage: in the buffer up to
`switch_early_print`, nothing between the switch and the flush, on the port
after it, with the part of a message that the running code is still to print
(`pending`) and without what handlers print (`Own`, and `OwnAppend` for what it
makes of one more part); and it says which facilities are up after which stage. For the
parsers (`MadtWalk`, `FileSearch`) it says that the offset is the start of a
record, and that what was counted or passed over is exactly what lies before it.

## 5. What is only model-checked

- Liveness (`KernelStarts`, `InitThreadEnds`, `BootEnds`), which needs fairness
  and ENABLED.

Every safety property of the passing runs is also stated by a theorem.

## 6. Findings

1. `page_table_unmap`: `unmap_raw` does not unmap. It removes PRESENT from a
   copy of the flags and ors the copy into the entry. Its only caller is
   commented out.
2. `boot_memory_data`: the pages of BootInfo and of the initrd are counted as
   free memory and not locked, yet read after the frame allocator is in use.
3. `trap_entry_window`: MSR_FMASK is 0x002 and not 0x200, so an interrupt
   between `syscall` and `cli` makes `interrupt_handler` run on the program's
   gs.

Five weaknesses that the properties of the passing runs name as exceptions:

- `kernel_init_thread` takes the heap's lock with interrupts enabled
  (`String::from`, the release of the path in `read_file`), and `schedule`
  allocates in the timer's handler. With the block of `interrupt_handler` that
  schedules compiled in, a tick at that point spins for ever. `LocksFree` names
  this case (`HeapInterrupted`) and shows that there is no other. For the same
  reason nothing is claimed of how often the timer schedules; `BoundedWait`
  counts calls of `schedule`.
- `PageTable::create` does not clear the frame it takes (`page_table.rs` 82-93),
  which becomes the reference table: entries that happen to be PRESENT in it are
  walked, written through and copied to every process (`leftover`, `wild`).
- `map_in_userspace` counts pages from a segment's size alone, and `replace_image`
  passes addresses as they are in the file: a segment whose start in its first
  page and end in its last take more than a page together is not mapped in its
  last page (`Spills`). A page that two segments share is mapped twice; the first
  frame is lost with what was in it.
- The buffer of `memory_map` is two pages: a firmware whose map outgrows it stops
  the loader with the panic of the `expect` (`MemoryMapFits`).
- A MADT record with the length 0 keeps `parse_madt_table` in its loop (`hung`).

## 7. Assumptions of the models

- Every frame starts with entries that look present and lead back to it; of the
  frame that becomes the root any of them. Nothing is said of what happens once
  a leftover entry of the root is followed (`wild`): where it leads is up to the
  firmware.
- The pages that `map_in_userspace` counts for a segment lie in the user half
  (`CallerAssumption`); nothing else is assumed of where it starts and ends.
- The kernel is linked by `uefi-linker.ld`: its segments follow one another
  from KERNEL_TEXT_START, each at the next page (`ExecutablesAssumption`).
- The firmware reports every page once and gives out every page once.
- Callers free only frames and blocks they own.
- Translation depends on PRESENT and SIZE alone; access flags and the TLB are
  left out. The code reloads cr3 only when it changes tables, and entries only
  ever become present.
- Each operation of the memory manager is one step, as it holds `MM`;
  `KernelLocks` shows that nobody finds it held.
- The MADT has at least one record and ends where its last record does. The
  redirection entries of the IO APIC are zero, as after a reset.
- The loader always passes an ACPI table; `KernelInit` also has the case in
  which it does not, since `kernel_init` handles it.
- The lines a stage of `kernel_init` prints count as one message, in two parts,
  the time and the text, which are two steps once they go to the serial port.
- `replace_image` does not copy the data of a segment: that code is commented
  out at this commit, and so it is not in the models.

## 8. Not modelled

- What GDT, IDT and clock hold, and what is written to the registers of PIC,
  APIC and serial port: values without state of their own. When they are set up
  and which vectors they unmask is in `KernelInit`.
- Multiboot and `boot.asm`: nothing on the boot path of this commit calls them.
- `Scheduler::exec`, which has no caller, and the idle process, which is never
  queued; `ioctl` and the dummy device, which nothing uses.
- The build tool, which runs other programs, and userland, a test program
  without state.
- Two processors: only the boot processor is started. Other cores are counted.

## 9. Plan

Done, in order: frame allocator with its abstract pool and proofs; boot map and
its composition with the allocator; heap; page tables; memory manager;
scheduler; kernel entry and exit with proofs; loader; locks; memory types of the
firmware; parsers, print path and boot sequence; proofs of heap, boot map,
scheduler, boot sequence, parsers, page tables, memory manager, loader and
locks.

Next: processes as a composition of `Scheduler` and `MemoryManager`, in which the
page table that `schedule` loads maps what `replace_image` mapped.
