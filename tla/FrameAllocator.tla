--------------------------- MODULE FrameAllocator ---------------------------
(***************************************************************************)
(* The physical frame allocator, kernel/src/mm/frame_alloc.rs, and the     *)
(* boot step of the memory manager that fills it                           *)
(* (MemoryManager::create_frame_allocator, kernel/src/mm/mod.rs).          *)
(*                                                                         *)
(* Addresses are page numbers (see MemoryMap).  A bitmap is the set of its *)
(* set bits.  The Vec of regions is a function whose domain is the set of  *)
(* indices of the Available memory map entries: it is always walked in     *)
(* increasing order.                                                       *)
(***************************************************************************)
EXTENDS MemoryMap

CONSTANTS BootInfos,       \* the boot information the loader may pass
          NoFrame          \* the answer None of alloc_frame

VARIABLES created,         \* whether create_frame_allocator has run
          regions,         \* BitmapFrameAllocator.bitmap_regions
          kernel,          \* the kernel's frames, as boot_info gives them
          owned,           \* frames handed out and not yet given back, by any caller
          ret              \* the answer of the last alloc_frame

vars == <<created, regions, kernel, owned, ret>>

\* What the loader guarantees; BootMemory shows that it does.
ASSUME BootInfoAssumption == \A b \in BootInfos : WellFormed(b)

ASSUME NoFrameAssumption == NoFrame \notin Nat
-----------------------------------------------------------------------------
\* BitmapRegion: start, num_frames and the bits that are set.
Region == [start : Nat, num_frames : Nat \ {0}, bitmap : SUBSET Nat]

\* The storage is rounded up to bytes, but only these bits are ever looked at.
Bits(r) == 0 .. r.num_frames - 1

Contains(r, f) == r.start <= f /\ f < r.start + r.num_frames

\* BitmapFrameAllocator::init, with BitmapRegion::new: one region with a
\* clear bitmap for each Available entry.
InitRegions(map) ==
    [i \in {k \in DOMAIN map : map[k].typ = "Available"} |->
        [start |-> map[i].addr, num_frames |-> map[i].length, bitmap |-> {}]]

\* A range is locked only if it lies wholly inside one region.
Fits(r, addr, n) == r.start <= addr /\ addr + n <= r.start + r.num_frames

\* Mutant of LockFrames: the last frame of the range stays free.
LockFramesShort(r, addr, n) ==
    [r EXCEPT !.bitmap = @ \cup (addr - r.start .. addr - r.start + n - 2)]

LockFrames(r, addr, n) ==
    [r EXCEPT !.bitmap = @ \cup (addr - r.start .. addr - r.start + n - 1)]

\* lock_region: the first region that fits; with none, the caller ignores
\* the None and nothing is locked.
LockRegion(rs, addr, n) ==
    [i \in DOMAIN rs |->
        IF Fits(rs[i], addr, n) /\ \A j \in DOMAIN rs : j < i => ~Fits(rs[j], addr, n)
        THEN LockFrames(rs[i], addr, n)
        ELSE rs[i]]

\* The first 0x4000 bytes, which create_frame_allocator locks.
LowPages == 4

Init ==
    /\ created = FALSE
    /\ regions = << >>
    /\ kernel = {}
    /\ owned = {}
    /\ ret = NoFrame

\* Mutant of CreateFrameAllocator: the low pages are not locked.
CreateFrameAllocatorNoLow(b) ==
    /\ ~created
    /\ created' = TRUE
    /\ regions' = LockRegion(InitRegions(b.memory_map), b.kernel_start, b.kernel_length)
    /\ kernel' = PagesOf(KernelOf(b))
    /\ UNCHANGED <<owned, ret>>

\* MemoryManager::create_frame_allocator
CreateFrameAllocator(b) ==
    /\ ~created
    /\ created' = TRUE
    /\ regions' = LockRegion(LockRegion(InitRegions(b.memory_map), 0, LowPages),
                             b.kernel_start, b.kernel_length)
    /\ kernel' = PagesOf(KernelOf(b))
    /\ UNCHANGED <<owned, ret>>

HasFree(r) == \E i \in Bits(r) : i \notin r.bitmap

\* The index BitmapRegion::alloc_frame finds: the lowest clear bit.
FirstClear(r, i) ==
    /\ i \notin r.bitmap
    /\ \A j \in Bits(r) : j < i => j \in r.bitmap

\* alloc_frame answering Some: the first region with a clear bit.
AllocFrame ==
    /\ created
    /\ \E k \in DOMAIN regions :
         /\ \A j \in DOMAIN regions : j < k => ~HasFree(regions[j])
         /\ \E i \in Bits(regions[k]) :
              /\ FirstClear(regions[k], i)
              /\ regions' = [regions EXCEPT ![k].bitmap = @ \cup {i}]
              /\ ret' = regions[k].start + i
              /\ owned' = owned \cup {regions[k].start + i}
    /\ UNCHANGED <<created, kernel>>

\* alloc_frame answering None.
AllocNone ==
    /\ created
    /\ \A k \in DOMAIN regions : ~HasFree(regions[k])
    /\ ret' = NoFrame
    /\ UNCHANGED <<created, regions, kernel, owned>>

\* Mutant of FreeFrame: the bit is not relative to the region's start.
FreeFrameAbsolute(f) ==
    /\ created
    /\ f \in owned
    /\ regions' = [k \in DOMAIN regions |->
           IF Contains(regions[k], f)
           THEN [regions[k] EXCEPT !.bitmap = @ \ {f}]
           ELSE regions[k]]
    /\ owned' = owned \ {f}
    /\ UNCHANGED <<created, kernel, ret>>

\* free_frame: the first region that contains the frame.  Callers give back
\* only frames they were handed.
FreeFrame(f) ==
    /\ created
    /\ f \in owned
    /\ regions' = [k \in DOMAIN regions |->
           IF /\ Contains(regions[k], f)
              /\ \A j \in DOMAIN regions : j < k => ~Contains(regions[j], f)
           THEN [regions[k] EXCEPT !.bitmap = @ \ {f - regions[k].start}]
           ELSE regions[k]]
    /\ owned' = owned \ {f}
    /\ UNCHANGED <<created, kernel, ret>>

Next ==
    \/ \E b \in BootInfos : CreateFrameAllocator(b)
    \/ AllocFrame
    \/ AllocNone
    \/ \E f \in owned : FreeFrame(f)

Spec == Init /\ [][Next]_vars
-----------------------------------------------------------------------------
TypeOK ==
    /\ created \in BOOLEAN
    /\ kernel \subseteq Nat
    /\ DOMAIN regions \subseteq Nat
    /\ \A k \in DOMAIN regions : regions[k] \in Region
    /\ owned \subseteq Nat
    /\ ret \in Nat \cup {NoFrame}

\* The frames of region r whose bit is clear.
ClearFrames(r) == {r.start + i : i \in Bits(r) \ r.bitmap}

\* The frames the allocator may still hand out.
FreeOf(rs) == UNION {ClearFrames(rs[k]) : k \in DOMAIN rs}
FreeFrames == FreeOf(regions)

\* The kernel image, its heap and its boot stack, which lie between
\* kernel_start and kernel_end, are never handed out as a free frame, in
\* whatever order frames are taken and given back.
KernelNeverHandedOut == kernel \cap (owned \cup FreeFrames) = {}

\* The frames below 0x4000 are never handed out when they belong to one
\* region.  (When a hole splits them, lock_region locks none of them.)
LowNeverHandedOut ==
    (\E k \in DOMAIN regions : Fits(regions[k], 0, LowPages))
        => (0 .. LowPages - 1) \cap (owned \cup FreeFrames) = {}

\* Whatever the bitmaps and the regions look like, callers see a pool: every
\* answer of alloc_frame is a frame nobody holds, None is answered only when
\* no frame of any region is free, and free_frame makes exactly the frame it
\* is given available again.
Pool == INSTANCE FramePool WITH open <- created, free <- FreeFrames
RefinesFramePool == Pool!Spec
=============================================================================
