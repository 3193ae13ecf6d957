----------------------------- MODULE BootMemory -----------------------------
(***************************************************************************)
(* From the firmware's memory map to the frames the kernel hands out: the  *)
(* loader parses the firmware's descriptors, converts their types and adds *)
(* them to BootInfo (efi_main, uefi-loader/src/main.rs), passes BootInfo   *)
(* to the kernel with the range its kernel image occupies, and the kernel  *)
(* builds its frame allocator from it (MemoryManager::new).  BootInfo and  *)
(* FrameAllocator are the two components; this module adds the conversion  *)
(* and the order in which they run.                                        *)
(***************************************************************************)
EXTENDS MemoryMap, FiniteSetsExt

CONSTANTS EfiDescriptors,          \* what the firmware may report
          MaxMemoryMapEntries, NoEntry, NoFrame

\* EfiMemoryType, by the types BootInfo has for them.
ReservedTypes ==
    {"ReservedMemoryType", "RuntimeServicesCode", "RuntimeServicesData", "UnusableMemory",
     "MemoryMappedIO", "MemoryMappedIOPortSpace", "PalCode", "PersistentMemory",
     "UnacceptedMemoryType"}
AvailableTypes ==
    {"LoaderCode", "LoaderData", "BootServicesCode", "BootServicesData", "ConventionalMemory"}
AcpiTypes == {"ACPIReclaimMemory", "ACPIMemoryNVS"}
EfiMemoryType == ReservedTypes \cup AvailableTypes \cup AcpiTypes

\* A descriptor of the firmware.  Unknown is a type, or an attribute, that
\* MemoryDescriptor::parse has no name for.
EfiDescriptor ==
    [addr : Nat, length : Nat \ {0}, typ : EfiMemoryType \cup {"Unknown"}]

ASSUME EfiDescriptorsAssumption == EfiDescriptors \subseteq EfiDescriptor
ASSUME MaxAssumption == MaxMemoryMapEntries \in Nat \ {0}
ASSUME NoEntryAssumption == NoEntry \notin MemoryMapEntry
ASSUME NoFrameAssumption == NoFrame \notin Nat

\* Mutant of BootTypeOf: runtime memory counts as boot memory.
BootTypeOfRuntime(typ) ==
    CASE typ \in AvailableTypes \cup {"RuntimeServicesCode", "RuntimeServicesData"} -> "Available"
      [] typ \in AcpiTypes -> "Acpi"
      [] OTHER -> "Reserved"

\* The match in efi_main.
BootTypeOf(typ) ==
    CASE typ \in ReservedTypes -> "Reserved"
      [] typ \in AvailableTypes -> "Available"
      [] typ \in AcpiTypes -> "Acpi"

\* The entry efi_main makes of a descriptor.
Convert(d) == [addr |-> d.addr, length |-> d.length, typ |-> BootTypeOf(d.typ)]

\* MemoryDescriptor::parse returns Ok.
Parses(d) == d.typ \in EfiMemoryType

VARIABLES reported,                                \* the descriptors efi_main has looked at
          stopped,                                 \* efi_main has panicked
          memory_map, entry, offered, accepted,    \* the loader's BootInfo
          created, regions, kernel, owned, ret,    \* the kernel's frame allocator
          boot_data        \* pages of the initrd and of BootInfo, which the kernel reads

bootInfoVars == <<memory_map, entry, offered, accepted>>
loaderVars == <<reported, stopped, bootInfoVars>>
kernelVars == <<created, regions, kernel, owned, ret>>
vars == <<loaderVars, kernelVars, boot_data>>

Loader == INSTANCE BootInfo WITH Descriptors <- {Convert(d) : d \in {x \in EfiDescriptors : Parses(x)}}
Frames == INSTANCE FrameAllocator WITH BootInfos <- {b \in BootInfoType : WellFormed(b)}

Init ==
    /\ reported = {}
    /\ stopped = FALSE
    /\ Loader!Init
    /\ Frames!Init
    /\ boot_data = {}

\* One descriptor of the loop in efi_main; a full map refuses the entry and
\* the loader goes on.  The firmware never reports a page twice.
AddDescriptor(d) ==
    /\ ~created /\ ~stopped
    /\ \A e \in reported : Disjoint(d, e)
    /\ Parses(d)
    /\ Loader!AddMemoryMapEntry(Convert(d)) \/ Loader!RefuseMemoryMapEntry(Convert(d))
    /\ reported' = reported \cup {d}
    /\ UNCHANGED <<stopped, kernelVars, boot_data>>

\* "Failed to parse memory descriptor"
PanicOnDescriptor(d) ==
    /\ ~created /\ ~stopped
    /\ entry = NoEntry
    /\ ~Parses(d)
    /\ stopped' = TRUE
    /\ UNCHANGED <<reported, bootInfoVars, kernelVars, boot_data>>

\* The merge loop of add_memory_map_entry goes on.
LoaderMerges ==
    /\ Loader!MergeEntry \/ Loader!StoreEntry
    /\ UNCHANGED <<reported, stopped, kernelVars, boot_data>>

\* Memory of the loader lies in one descriptor: the loader's image, which
\* holds the initrd, is LoaderCode, and so are the pages efi::allocate_pages
\* gives out for the kernel and for BootInfo.
InLoaderMemory(start, length) ==
    \E d \in reported :
        d.typ = "LoaderCode" /\ d.addr <= start /\ start + length <= EndOf(d)

\* efi_main jumps to the kernel, whose MemoryManager::new builds the frame
\* allocator.  `data' is a page of the initrd or of BootInfo.
StartKernel(start, length, data) ==
    /\ entry = NoEntry /\ ~stopped
    /\ InLoaderMemory(start, length)
    /\ InLoaderMemory(data, 1)
    /\ data \notin start .. start + length - 1
    /\ Frames!CreateFrameAllocator(
           [memory_map |-> memory_map, kernel_start |-> start, kernel_length |-> length])
    /\ boot_data' = {data}
    /\ UNCHANGED loaderVars

\* The kernel allocates and frees frames.
KernelStep ==
    /\ Frames!AllocFrame \/ Frames!AllocNone \/ \E f \in owned : Frames!FreeFrame(f)
    /\ UNCHANGED <<loaderVars, boot_data>>

Next ==
    \/ \E d \in EfiDescriptors : AddDescriptor(d) \/ PanicOnDescriptor(d)
    \/ LoaderMerges
    \/ \E d \in reported : \E start \in PagesOf(d) : \E length \in 1 .. d.length :
           \E e \in reported : \E data \in PagesOf(e) : StartKernel(start, length, data)
    \/ KernelStep

Spec == Init /\ [][Next]_vars
-----------------------------------------------------------------------------
\* Entries of one type are merged completely whatever the order the firmware
\* reports them in, so that lock_region finds the low pages and the kernel in
\* one entry.
FullyMerged == Loader!FullyMerged

\* The merge loop neither loses nor invents a page of any type, while it runs
\* and when the map is full.
PagesPreserved == Loader!PagesPreserved

\* Only memory that the firmware says is free once boot services have ended
\* is handed out: not its runtime services, its ACPI tables, or memory it did
\* not report, however the descriptors were converted and merged.
OnlyAvailableHandedOut ==
    \A f \in owned : \E d \in reported :
        f \in PagesOf(d) /\ d.typ \in {"LoaderCode", "LoaderData", "BootServicesCode",
                                       "BootServicesData", "ConventionalMemory"}

\* Whatever the firmware reports, the kernel gets a map it can rely on: the
\* assumption BootInfoAssumption, from which FrameAllocatorProofs proves the
\* frame allocator correct, is what the loader establishes.
HandsOverWellFormed ==
    created => WellFormed([memory_map |-> memory_map, kernel_start |-> Min(kernel),
                           kernel_length |-> Cardinality(kernel)])

\* After mm::initialize kernel_init still reads the loader's structure, "Get
\* a new reference to the boot info because the memory address has moved when
\* we initialized the memory manager", and later the initrd: their pages are
\* never handed out.
BootDataNeverHandedOut == boot_data \cap owned = {}
=============================================================================
