----------------------------- MODULE UefiLoader -----------------------------
(***************************************************************************)
(* The UEFI loader, uefi-loader/src/main.rs: efi_main takes memory from the*)
(* firmware, builds the first page table, copies the kernel's segments     *)
(* (shared/elf/src/lib.rs) into memory, exits the boot services and jumps. *)
(* One action per function efi_main calls; the firmware chooses where      *)
(* memory lies and may change its memory map between two calls.  How the   *)
(* memory map gets into BootInfo is the module BootInfo's.                 *)
(***************************************************************************)
EXTENDS PageMemory, Sequences

CONSTANTS Executables,     \* program headers of kernel.elf
          Memories,        \* the frames the firmware may have to give
          MaxFrames,       \* the argument of FrameAlloc::new
          StackPages,      \* STACK_PAGE_COUNT
          IdentityPages,   \* pages below 16 MiB
          TextStart,       \* KERNEL_TEXT_START, KERNEL_VMA of the linker script
          MapSizes,        \* the sizes the firmware's memory map may have
          MapBuffer,       \* the size of efi_main's buffer for it
          MaxMapChanges    \* bound on the changes of the firmware's memory map

VARIABLES pc,              \* the next call of efi_main
          headers,         \* of the embedded kernel
          conventional,    \* frames the firmware has not given out
          image,           \* the contents of frames as parts of the kernel
          frame_alloc,     \* FrameAlloc: start_address, num_allocated_frames
          kernel_start,
          end_paddr,       \* what map_in_kernel answers
          end_vaddr,
          trampoline,
          boot_info,
          map_key,         \* the loader's key
          current_key,     \* the firmware's
          map_size         \* of the firmware's memory map

memory == <<mem, frame_alloc>>
places == <<kernel_start, end_paddr, end_vaddr, trampoline, boot_info>>
keys == <<map_key, current_key, map_size>>
loaderVars == <<pc, headers, conventional, image, memory, places, keys>>

ProgramHeader ==
    [typ : {"Load", "Other"}, vaddr : Nat, memory_size : Nat, file_size : Nat]

\* The headers that map_in_kernel and get_page_count do not skip.
IsLoad(h) == h.typ = "Load"
Loads(hs) == {k \in DOMAIN hs : IsLoad(hs[k])}

HeaderPages(h) == IF IsLoad(h) THEN (h.memory_size + PAGE_SIZE - 1) \div PAGE_SIZE ELSE 0

\* current_offset before header k, in pages.
PagesBefore(hs, k) ==
    LET offset[j \in 1 .. Len(hs) + 1] ==
            IF j = 1 THEN 0 ELSE offset[j - 1] + HeaderPages(hs[j - 1])
    IN  offset[k]
ImagePages(hs) == PagesBefore(hs, Len(hs) + 1)

\* get_page_count
TotalPages(hs) == ImagePages(hs) + StackPages

\* uefi-linker.ld: the segments follow one another from KERNEL_VMA on, each
\* at the next page boundary.
LinkedInOrder(hs) == \A k \in Loads(hs) : hs[k].vaddr = TextStart + PagesBefore(hs, k)

\* The kernel has segments and lies, with its stack, above all of memory.
ASSUME LoaderAssumption ==
    /\ {MaxFrames, StackPages, IdentityPages, TextStart, MapBuffer, MaxMapChanges} \subseteq Nat
    /\ MapSizes \subseteq Nat
    /\ MaxFrames > 0
    /\ Memories \subseteq SUBSET Frames
    /\ IdentityPages <= TextStart /\ \A f \in Frames : f < TextStart
ASSUME ExecutablesAssumption ==
    \A hs \in Executables :
        /\ Len(hs) \in Nat /\ hs \in [1 .. Len(hs) -> ProgramHeader]
        /\ Loads(hs) # {} /\ LinkedInOrder(hs) /\ TextStart + TotalPages(hs) <= Span[Levels]
        /\ \A k \in Loads(hs) : hs[k].file_size <= hs[k].memory_size

Stale == "stale"
Zero == "zero"

LoaderInit ==
    /\ pc = "frame_alloc"
    /\ headers \in Executables
    /\ conventional \in Memories
    /\ mem = [f \in Frames |-> StaleTable(f)]
    /\ image = [f \in Frames |-> Stale]
    /\ frame_alloc = [start |-> NoFrame, num |-> 0]
    /\ kernel_start = NoFrame /\ end_paddr = NoFrame /\ end_vaddr = NoFrame
    /\ trampoline = NoFrame /\ boot_info = NoFrame
    /\ map_key = 0 /\ current_key = 0 /\ map_size \in MapSizes

\* efi::allocate_pages: AllocateAnyPages.
MayGive(start, n) == start .. start + n - 1 \subseteq conventional

\* A failed expect, or panic.
Panic == pc' = "panicked" /\ UNCHANGED <<headers, conventional, image, memory, places, keys>>

\* Mutant of AllocZeroed: the counter is not advanced.
AllocZeroedStuck(s, start) ==
    [s EXCEPT !.mem[start + s.num] = ZeroTable, !.table = start + s.num]

\* FrameAlloc::alloc and alloc_zeroed.  A walk state s has the tables, the
\* number of allocated frames, the frame just allocated and whether the
\* loader goes on.
AllocZeroed(s, start) ==
    IF s.num >= MaxFrames
    THEN [s EXCEPT !.ok = FALSE]
    ELSE [s EXCEPT !.mem[start + s.num] = ZeroTable, !.table = start + s.num, !.num = @ + 1]

Root == frame_alloc.start
WalkState == [mem |-> mem, num |-> frame_alloc.num, table |-> Root, ok |-> TRUE]

\* map_page_4k: down from the root, adding the tables that are missing.
MapPage4K(s, page, frame) ==
    LET idx == Index(page)
        leaf(f) == [flags |-> {"PRESENT"}, frame |-> f]
        walk[k \in 1 .. Levels] ==
            IF k = 1 THEN [s EXCEPT !.table = Root]
            ELSE LET w == walk[k - 1]
                     e == w.mem[w.table][idx[k - 1]]
                     new == AllocZeroed(w, Root)
                 IN  IF ~w.ok THEN w
                     ELSE IF Present(e) THEN [w EXCEPT !.table = e.frame]
                     ELSE IF ~new.ok THEN new
                     ELSE [new EXCEPT !.mem[w.table][idx[k - 1]] = leaf(new.table)]
        last == walk[Levels]
    IN  IF last.ok THEN [last EXCEPT !.mem[last.table][idx[Levels]] = leaf(frame)] ELSE last

\* The loops over the pages of a range.
MapRange(s, page, frame, n) ==
    LET step[i \in 0 .. n] ==
            IF i = 0 THEN s
            ELSE LET w == step[i - 1]
                 IN  IF w.ok THEN MapPage4K(w, page + (i - 1), frame + (i - 1)) ELSE w
    IN  step[n]

\* The loader goes on to `next' with what s wrote, or panics.
Proceed(s, next) ==
    /\ mem' = s.mem
    /\ frame_alloc' = [frame_alloc EXCEPT !.num = s.num]
    /\ pc' = IF s.ok THEN next ELSE "panicked"

\* FrameAlloc::new and the kernel page table, its first frame.
NewFrameAlloc ==
    /\ pc = "frame_alloc"
    /\ \/ \E start \in conventional :
            /\ MayGive(start, MaxFrames)
            /\ conventional' = conventional \ (start .. start + MaxFrames - 1)
            /\ mem' = [mem EXCEPT ![start] = ZeroTable]
            /\ frame_alloc' = [start |-> start, num |-> 1]
            /\ pc' = "kernel"
            /\ UNCHANGED <<headers, image, places, keys>>
       \/ Panic /\ \A start \in conventional : ~MayGive(start, MaxFrames)

\* The pages of the kernel and its stack.
AllocateKernel ==
    /\ pc = "kernel"
    /\ \/ \E start \in conventional :
            /\ MayGive(start, TotalPages(headers))
            /\ conventional' = conventional \ (start .. start + TotalPages(headers) - 1)
            /\ kernel_start' = start
            /\ pc' = "map_in_kernel"
            /\ UNCHANGED <<headers, image, memory, end_paddr, end_vaddr, trampoline, boot_info, keys>>
       \/ Panic /\ \A start \in conventional : ~MayGive(start, TotalPages(headers))

\* What page i of header k holds once it is zeroed and the file is copied.
Content(hs, k, i) == IF i * PAGE_SIZE < hs[k].file_size THEN <<k, i>> ELSE Zero

\* Mutant of ImageCopied: the pages are not zeroed first.
ImageCopiedOverStale(start) ==
    LET at(f, k) == f - start - PagesBefore(headers, k)
        copied(f, k) ==
            at(f, k) \in 0 .. ((headers[k].file_size + PAGE_SIZE - 1) \div PAGE_SIZE) - 1
    IN  [f \in Frames |->
            IF \E k \in Loads(headers) : copied(f, k)
            THEN LET k == CHOOSE k \in Loads(headers) : copied(f, k)
                 IN  Content(headers, k, at(f, k))
            ELSE image[f]]

\* The contents of the frames from `start' on after map_in_kernel.
ImageCopied(start) ==
    LET at(f, k) == f - start - PagesBefore(headers, k)      \* the page of header k
        within(f, k) == at(f, k) \in 0 .. HeaderPages(headers[k]) - 1
    IN  [f \in Frames |->
            IF \E k \in Loads(headers) : within(f, k)
            THEN LET k == CHOOSE k \in Loads(headers) : within(f, k)
                 IN  Content(headers, k, at(f, k))
            ELSE image[f]]

\* Mutant of MapSegments: the offset is not advanced for the next segment.
MapSegmentsSamePlace(s, start) ==
    LET mapped[k \in 0 .. Len(headers)] ==
            IF k = 0 THEN s
            ELSE MapRange(mapped[k - 1], headers[k].vaddr, start, HeaderPages(headers[k]))
    IN  mapped[Len(headers)]

\* The loop of map_in_kernel: the segments are packed from `start' on.
MapSegments(s, start) ==
    LET mapped[k \in 0 .. Len(headers)] ==
            IF k = 0 THEN s
            ELSE MapRange(mapped[k - 1], headers[k].vaddr,
                          start + PagesBefore(headers, k), HeaderPages(headers[k]))
    IN  mapped[Len(headers)]

MapInKernel ==
    /\ pc = "map_in_kernel"
    /\ Proceed(MapSegments(WalkState, kernel_start), "map_in_stack")
    /\ image' = ImageCopied(kernel_start)
    /\ end_paddr' = kernel_start + ImagePages(headers)
    /\ end_vaddr' = Max({0} \cup {headers[k].vaddr + HeaderPages(headers[k]) : k \in Loads(headers)})
    /\ UNCHANGED <<headers, conventional, kernel_start, trampoline, boot_info, keys>>

MapInStack ==
    /\ pc = "map_in_stack"
    /\ Proceed(MapRange(WalkState, end_vaddr, end_paddr, StackPages), "identity_map")
    /\ UNCHANGED <<headers, conventional, image, places, keys>>

\* Mutant of IdentityMap: the last page is left out.
IdentityMapShort ==
    /\ pc = "identity_map"
    /\ Proceed(MapRange(WalkState, 0, 0, IdentityPages - 1), "trampoline")
    /\ UNCHANGED <<headers, conventional, image, places, keys>>

IdentityMap ==
    /\ pc = "identity_map"
    /\ Proceed(MapRange(WalkState, 0, 0, IdentityPages), "trampoline")
    /\ UNCHANGED <<headers, conventional, image, places, keys>>

\* prepare_trampoline
PrepareTrampoline ==
    /\ pc = "trampoline"
    /\ \/ \E f \in conventional :
            /\ MayGive(f, 1)
            /\ conventional' = conventional \ {f}
            /\ trampoline' = f
            /\ Proceed(MapPage4K(WalkState, f, f), "memory_map")
            /\ UNCHANGED <<headers, image, kernel_start, end_paddr, end_vaddr, boot_info, keys>>
       \/ Panic /\ \A f \in conventional : ~MayGive(f, 1)

\* efi::memory_map succeeds: the buffer holds the whole map.
MemoryMapFits == map_size <= MapBuffer

\* The first memory_map, which BootInfo is made from (module BootMemory).
ReadMemoryMap ==
    /\ pc = "memory_map"
    /\ \/ /\ MemoryMapFits
          /\ pc' = "acpi"
          /\ UNCHANGED <<headers, conventional, image, memory, places, keys>>
       \/ Panic /\ ~MemoryMapFits

\* find_acpi_table: a configuration table with the GUID of ACPI 2.0 and the
\* signature of an RSDP.
ConfigurationTables == [guid : {"ACPI_20", "another"}, signature : {"RSD PTR ", "another"}]
FindAcpiTable ==
    /\ pc = "acpi"
    /\ \E configuration \in SUBSET ConfigurationTables :
         IF [guid |-> "ACPI_20", signature |-> "RSD PTR "] \in configuration
         THEN /\ pc' = "boot_info"
              /\ UNCHANGED <<headers, conventional, image, memory, places, keys>>
         ELSE Panic

\* efi_main: the page of BootInfo comes from frame_alloc.
WriteBootInfo ==
    /\ pc = "boot_info"
    /\ LET page == AllocZeroed(WalkState, Root)
       IN  /\ boot_info' = IF page.ok THEN page.table ELSE NoFrame
           /\ Proceed(IF page.ok THEN MapPage4K(page, page.table, page.table) ELSE page, "exit")
    /\ UNCHANGED <<headers, conventional, image, kernel_start, end_paddr, end_vaddr, trampoline, keys>>

\* Mutant of GetMemoryMap: the key of the first call is used for good.
GetMemoryMapOnce ==
    /\ pc = "exit"
    /\ \/ /\ MemoryMapFits
          /\ pc' = "exit_call"
          /\ UNCHANGED <<headers, conventional, image, memory, places, keys>>
       \/ Panic /\ ~MemoryMapFits

\* The loop at the end of efi_main: memory_map, into the same buffer, ...
GetMemoryMap ==
    /\ pc = "exit"
    /\ \/ /\ MemoryMapFits
          /\ pc' = "exit_call"
          /\ map_key' = current_key
          /\ UNCHANGED <<headers, conventional, image, memory, places, current_key, map_size>>
       \/ Panic /\ ~MemoryMapFits

\* ... and exit_boot_services, which refuses an old key; then the jump.
ExitBootServices ==
    /\ pc = "exit_call"
    /\ pc' = IF map_key = current_key THEN "jumped" ELSE "exit"
    /\ UNCHANGED <<headers, conventional, image, memory, places, keys>>

\* The firmware changes its memory map: for the loader's calls, or by itself.
FirmwareChanges ==
    /\ pc \notin {"jumped", "panicked"}
    /\ current_key < MaxMapChanges
    /\ current_key' = current_key + 1
    /\ map_size' \in MapSizes
    /\ UNCHANGED <<pc, headers, conventional, image, memory, places, map_key>>

LoaderStep ==
    \/ NewFrameAlloc \/ AllocateKernel
    \/ MapInKernel \/ MapInStack \/ IdentityMap \/ PrepareTrampoline
    \/ ReadMemoryMap \/ FindAcpiTable \/ WriteBootInfo \/ GetMemoryMap \/ ExitBootServices

LoaderNext == LoaderStep \/ FirmwareChanges

LoaderSpec == LoaderInit /\ [][LoaderNext]_loaderVars

\* The loader runs alone and the firmware's calls return.
LoaderFairSpec == LoaderSpec /\ WF_loaderVars(GetMemoryMap) /\ WF_loaderVars(ExitBootServices)
-----------------------------------------------------------------------------
Seen(page) == Translate(mem, Root, page)

LoaderTypeOK ==
    /\ pc \in {"frame_alloc", "kernel", "map_in_kernel", "map_in_stack", "identity_map",
               "trampoline", "memory_map", "acpi", "boot_info", "exit", "exit_call", "jumped",
               "panicked"}
    /\ headers \in Executables
    /\ conventional \subseteq Frames
    /\ DOMAIN mem = Frames /\ DOMAIN image = Frames
    /\ frame_alloc.num \in 0 .. MaxFrames
    /\ {frame_alloc.start, kernel_start, end_paddr, trampoline, boot_info}
           \subseteq Nat \cup {NoFrame}
    /\ map_key <= current_key /\ current_key <= MaxMapChanges /\ map_size \in MapSizes

\* When the kernel starts, its image and its stack are mapped from TextStart
\* on as MemoryManager::initialize will map them again, offset by offset from
\* kernel_start to kernel_end: the kernel does not notice the change of cr3
\* under its code and its stack.
RemapAgrees ==
    pc = "jumped" =>
        \A off \in 0 .. TotalPages(headers) - 1 : Seen(TextStart + off) = kernel_start + off

\* The kernel finds every page of every segment at its virtual address with
\* the file's bytes, or zeroes where the file has none.
ImageLoaded ==
    pc = "jumped" =>
        \A k \in Loads(headers) : \A i \in 0 .. HeaderPages(headers[k]) - 1 :
            image[Seen(headers[k].vaddr + i)] = Content(headers, k, i)

\* BootPhysicalMemory::translate
BootToVirtual(frame) == frame

\* The trampoline survives its own change of cr3, kernel_init can read
\* BootInfo, and BootPhysicalMemory reaches everything below 16 MiB.
EarlyMemory ==
    pc = "jumped" =>
        \A f \in (0 .. IdentityPages - 1) \cup {trampoline, boot_info} :
            Seen(BootToVirtual(f)) = f

\* No memory has two uses: tables, BootInfo, trampoline and kernel lie apart
\* and all of it was given by the firmware.
MemoryApart ==
    LET tables == TableFrames(mem, Root)
        used == tables \cup {boot_info, trampoline}
    IN  pc = "jumped" =>
            /\ used \subseteq Frames \ conventional
            /\ boot_info \notin tables /\ trampoline \notin tables \cup {boot_info}
            /\ used \cap (kernel_start .. kernel_start + TotalPages(headers) - 1) = {}
            /\ \A f \in Frames : image[f] # Stale => f \in kernel_start .. end_paddr - 1

\* However often the firmware changes its memory map, short of for ever, the
\* loop at the end of efi_main ends: it leaves the boot services and starts
\* the kernel, or panics, which it only may when the map has outgrown the
\* buffer.
KernelStarts ==
    /\ pc = "exit" ~> pc \in {"jumped", "panicked"}
    /\ []MemoryMapFits => (pc = "exit" ~> pc = "jumped")
=============================================================================
