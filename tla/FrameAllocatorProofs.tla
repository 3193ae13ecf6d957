------------------------ MODULE FrameAllocatorProofs ------------------------
(***************************************************************************)
(* Proofs about FrameAllocator for every set of boot information           *)
(* structures: the kernel's frames and the low frames are never handed     *)
(* out, and the bitmap allocator implements FramePool.                     *)
(***************************************************************************)
EXTENDS FrameAllocator, TLAPS

\* No frame belongs to two regions.
RegionsDisjoint ==
    \A j, k \in DOMAIN regions :
        j # k => \/ regions[j].start + regions[j].num_frames <= regions[k].start
                 \/ regions[k].start + regions[k].num_frames <= regions[j].start

\* The bit of frame f is set in the region that contains it.
Backed(f) ==
    \E k \in DOMAIN regions :
        Contains(regions[k], f) /\ f - regions[k].start \in regions[k].bitmap

\* The bit of frame f is clear in a region that contains it.
ClearAt(rs, f) ==
    \E k \in DOMAIN rs : Contains(rs[k], f) /\ f - rs[k].start \notin rs[k].bitmap
ClearIn(f) == ClearAt(regions, f)

OwnedBacked == \A f \in owned : Backed(f)

\* The frames create_frame_allocator locks: the kernel's, and the low ones if
\* one region holds them all.
LowFits == \E k \in DOMAIN regions : Fits(regions[k], 0, LowPages)
Reserved == kernel \cup {f \in 0 .. LowPages - 1 : LowFits}

ReservedLocked == \A f \in Reserved : f \notin owned /\ ~ClearIn(f)

NothingBefore == ~created => owned = {} /\ kernel = {} /\ DOMAIN regions = {}

\* The inductive invariant.  KernelNeverHandedOut and LowNeverHandedOut alone
\* are not inductive: a step of free_frame could clear a reserved bit if a
\* frame lay in two regions, or if an owned frame were a reserved frame of
\* another region.
IInv == TypeOK /\ RegionsDisjoint /\ OwnedBacked /\ ReservedLocked /\ NothingBefore
-----------------------------------------------------------------------------
\* FreeFrames, written as a set of sums, is the set of frames with a clear bit.
LEMMA FreeFramesIsClear ==
    ASSUME NEW rs, \A k \in DOMAIN rs : rs[k] \in Region, NEW f
    PROVE  f \in FreeOf(rs) <=> f \in Nat /\ ClearAt(rs, f)
<1>1. ASSUME f \in FreeOf(rs) PROVE f \in Nat /\ ClearAt(rs, f)
  <2>1. PICK k \in DOMAIN rs : f \in ClearFrames(rs[k])
    BY <1>1 DEF FreeOf
  <2>2. PICK i \in Bits(rs[k]) \ rs[k].bitmap : f = rs[k].start + i
    BY <2>1 DEF ClearFrames
  <2>3. rs[k] \in Region
    OBVIOUS
  <2>4. i \in Nat /\ i < rs[k].num_frames
    BY <2>2, <2>3 DEF Bits, Region
  <2>5. f - rs[k].start = i
    BY <2>2, <2>3, <2>4 DEF Region
  <2>6. f \in Nat /\ Contains(rs[k], f)
    BY <2>2, <2>3, <2>4 DEF Region, Contains
  <2> QED
    BY <2>2, <2>5, <2>6 DEF ClearAt
<1>2. ASSUME f \in Nat, ClearAt(rs, f) PROVE f \in FreeOf(rs)
  <2>1. PICK k \in DOMAIN rs :
            Contains(rs[k], f) /\ f - rs[k].start \notin rs[k].bitmap
    BY <1>2 DEF ClearAt
  <2>2. rs[k] \in Region
    OBVIOUS
  <2>3. f - rs[k].start \in Bits(rs[k])
    BY <1>2, <2>1, <2>2 DEF Region, Contains, Bits
  <2>4. f = rs[k].start + (f - rs[k].start)
    BY <1>2, <2>2 DEF Region
  <2>5. f \in ClearFrames(rs[k])
    BY <2>1, <2>3, <2>4 DEF ClearFrames
  <2> QED
    BY <2>5 DEF FreeOf
<1> QED
  BY <1>1, <1>2

\* lock_region only adds bits to regions, and leaves everything else alone.
LEMMA LockRegionShape ==
    ASSUME NEW rs, NEW addr \in Nat, NEW n \in Nat,
           \A k \in DOMAIN rs : rs[k] \in Region
    PROVE  LET ls == LockRegion(rs, addr, n) IN
           /\ DOMAIN ls = DOMAIN rs
           /\ \A k \in DOMAIN rs :
                /\ ls[k] \in Region
                /\ ls[k].start = rs[k].start
                /\ ls[k].num_frames = rs[k].num_frames
                /\ rs[k].bitmap \subseteq ls[k].bitmap
<1> DEFINE ls == LockRegion(rs, addr, n)
<1>1. DOMAIN ls = DOMAIN rs
  BY DEF LockRegion
<1>2. ASSUME NEW k \in DOMAIN rs
      PROVE  /\ ls[k] \in Region
             /\ ls[k].start = rs[k].start
             /\ ls[k].num_frames = rs[k].num_frames
             /\ rs[k].bitmap \subseteq ls[k].bitmap
  <2>1. CASE Fits(rs[k], addr, n) /\ \A j \in DOMAIN rs : j < k => ~Fits(rs[j], addr, n)
    <3>1. ls[k] = LockFrames(rs[k], addr, n)
      BY <2>1 DEF LockRegion
    <3>2. (addr - rs[k].start .. addr - rs[k].start + n - 1) \subseteq Nat
      BY <2>1 DEF Fits, Region
    <3> QED
      BY <3>1, <3>2 DEF LockFrames, Region
  <2>2. CASE ~(Fits(rs[k], addr, n) /\ \A j \in DOMAIN rs : j < k => ~Fits(rs[j], addr, n))
    <3>1. ls[k] = rs[k]
      BY <2>2 DEF LockRegion
    <3> QED
      BY <3>1
  <2> QED
    BY <2>1, <2>2
<1> QED
  BY <1>1, <1>2

\* When no two regions share a frame, lock_region sets the bit of every
\* frame of a range that one region contains.
LEMMA LockRegionLocks ==
    ASSUME NEW rs, NEW addr \in Nat, NEW n \in Nat \ {0},
           DOMAIN rs \subseteq Nat,
           \A k \in DOMAIN rs : rs[k] \in Region,
           \A j, k \in DOMAIN rs :
               j # k => \/ rs[j].start + rs[j].num_frames <= rs[k].start
                        \/ rs[k].start + rs[k].num_frames <= rs[j].start,
           NEW i \in DOMAIN rs, Fits(rs[i], addr, n),
           NEW f \in Nat, addr <= f, f < addr + n,
           NEW k \in DOMAIN rs, Contains(rs[k], f)
    PROVE  f - rs[k].start \in LockRegion(rs, addr, n)[k].bitmap
<1>1. k = i
  BY DEF Fits, Contains, Region
<1>2. \A j \in DOMAIN rs : j < i => ~Fits(rs[j], addr, n)
  BY DEF Fits, Region
<1>3. LockRegion(rs, addr, n)[i] = LockFrames(rs[i], addr, n)
  BY <1>2 DEF LockRegion
<1>4. f - rs[i].start \in (addr - rs[i].start .. addr - rs[i].start + n - 1)
  BY DEF Region
<1> QED
  BY <1>1, <1>3, <1>4 DEF LockFrames, Region
-----------------------------------------------------------------------------
\* Init establishes the invariant.
LEMMA InitIInv == Init => IInv
<1> SUFFICES ASSUME Init PROVE IInv
  OBVIOUS
<1>1. DOMAIN regions = {}
  BY DEF Init
<1>2. TypeOK
  BY <1>1 DEF Init, TypeOK
<1> QED
  BY <1>1, <1>2 DEF Init, IInv, RegionsDisjoint, OwnedBacked, ReservedLocked, Reserved, LowFits, NothingBefore

\* create_frame_allocator establishes it for the regions it builds.
LEMMA CreateIInv ==
    ASSUME IInv, NEW b \in BootInfos, CreateFrameAllocator(b)
    PROVE  IInv'
<1> DEFINE map == b.memory_map
           K == KernelOf(b)
           rs0 == InitRegions(map)
           rs1 == LockRegion(rs0, 0, LowPages)
<1>1. /\ WellFormed(b)
      /\ map \in Seq(MemoryMapEntry)
      /\ b.kernel_start \in Nat
      /\ b.kernel_length \in Nat \ {0}
  BY BootInfoAssumption DEF WellFormed, BootInfoType
<1>2. /\ DOMAIN rs0 = {k \in DOMAIN map : map[k].typ = "Available"}
      /\ DOMAIN rs0 \subseteq Nat
      /\ \A k \in DOMAIN rs0 :
           /\ rs0[k] = [start |-> map[k].addr, num_frames |-> map[k].length, bitmap |-> {}]
           /\ map[k] \in MemoryMapEntry
  BY <1>1 DEF InitRegions
<1>3. \A k \in DOMAIN rs0 :
        /\ rs0[k] \in Region
        /\ rs0[k].start = map[k].addr
        /\ rs0[k].num_frames = map[k].length
  <2> HIDE DEF map, rs0
  <2> TAKE k \in DOMAIN rs0
  <2>1. map[k].addr \in Nat /\ map[k].length \in Nat \ {0}
    BY <1>2 DEF MemoryMapEntry
  <2>2. rs0[k] = [start |-> map[k].addr, num_frames |-> map[k].length, bitmap |-> {}]
    BY <1>2
  <2>3. rs0[k] \in [start : Nat, num_frames : Nat \ {0}, bitmap : SUBSET Nat]
    BY <2>1, <2>2
  <2> QED
    BY <2>2, <2>3 DEF Region
<1>4. \A j, k \in DOMAIN rs0 :
        j # k => \/ rs0[j].start + rs0[j].num_frames <= rs0[k].start
                 \/ rs0[k].start + rs0[k].num_frames <= rs0[j].start
  BY <1>1, <1>2, <1>3 DEF WellFormed, AvailableDisjoint, Disjoint, EndOf
<1>5. LowPages \in Nat
  BY DEF LowPages
<1>6. /\ DOMAIN rs1 = DOMAIN rs0
      /\ \A k \in DOMAIN rs0 :
           /\ rs1[k] \in Region
           /\ rs1[k].start = rs0[k].start
           /\ rs1[k].num_frames = rs0[k].num_frames
  <2> HIDE DEF rs0
  <2>0. PICK rs : rs = rs0
    OBVIOUS
  <2>1. PICK low \in Nat, n \in Nat : low = 0 /\ n = LowPages
    BY <1>5
  <2>2. \A k \in DOMAIN rs : rs[k] \in Region
    BY <1>3, <2>0
  <2> DEFINE ls == LockRegion(rs, low, n)
  <2>3. /\ DOMAIN ls = DOMAIN rs
        /\ \A k \in DOMAIN rs :
             /\ ls[k] \in Region
             /\ ls[k].start = rs[k].start
             /\ ls[k].num_frames = rs[k].num_frames
    BY <2>2, LockRegionShape
  <2>4. ls = rs1
    BY <2>0, <2>1
  <2> HIDE DEF ls, rs1
  <2> QED
    BY <2>0, <2>3, <2>4
<1>7. \A j, k \in DOMAIN rs1 :
        j # k => \/ rs1[j].start + rs1[j].num_frames <= rs1[k].start
                 \/ rs1[k].start + rs1[k].num_frames <= rs1[j].start
  BY <1>4, <1>6
<1>8. regions' = LockRegion(rs1, b.kernel_start, b.kernel_length)
  BY DEF CreateFrameAllocator
<1>9. /\ DOMAIN regions' = DOMAIN rs0
      /\ \A k \in DOMAIN rs0 :
           /\ regions'[k] \in Region
           /\ regions'[k].start = rs0[k].start
           /\ regions'[k].num_frames = rs0[k].num_frames
           /\ rs1[k].bitmap \subseteq regions'[k].bitmap
  <2> HIDE DEF rs1
  <2> QED
    BY <1>1, <1>6, <1>8, LockRegionShape
<1>10. owned' = {} /\ created' = TRUE /\ ret' = ret
  BY DEF CreateFrameAllocator, IInv, NothingBefore
<1>11. kernel' = {f \in Nat : b.kernel_start <= f /\ f < b.kernel_start + b.kernel_length}
  BY <1>1 DEF CreateFrameAllocator, PagesOf, EndOf, KernelOf
<1>12. TypeOK'
  BY <1>2, <1>9, <1>10, <1>11 DEF TypeOK, IInv
<1>13. RegionsDisjoint'
  BY <1>4, <1>9 DEF RegionsDisjoint
<1>14. ASSUME NEW f \in kernel', NEW k \in DOMAIN regions', Contains(regions'[k], f)
       PROVE  f - regions'[k].start \in regions'[k].bitmap
  <2>1. f \in Nat /\ b.kernel_start <= f /\ f < b.kernel_start + b.kernel_length
    BY <1>11
  <2>2. k \in DOMAIN rs1 /\ Contains(rs1[k], f) /\ regions'[k].start = rs1[k].start
    BY <1>6, <1>9, <1>14 DEF Contains
  <2>3. CASE \E i \in DOMAIN rs0 : Inside(K, map[i])
    <3>1. PICK i \in DOMAIN rs0 : Inside(K, map[i])
      BY <2>3
    <3>2. i \in DOMAIN rs1 /\ Fits(rs1[i], b.kernel_start, b.kernel_length)
      BY <1>1, <1>3, <1>6, <3>1 DEF Inside, Fits, KernelOf, EndOf
    <3> HIDE DEF rs1
    <3>3. f - rs1[k].start \in LockRegion(rs1, b.kernel_start, b.kernel_length)[k].bitmap
      BY <1>1, <1>2, <1>6, <1>7, <2>1, <2>2, <3>2, LockRegionLocks
    <3> QED
      BY <1>8, <2>2, <3>3
  <2>4. CASE \A i \in DOMAIN rs0 : Disjoint(K, map[i])
    <3>1. Disjoint(K, map[k]) /\ map[k] \in MemoryMapEntry
      BY <1>2, <1>6, <2>2, <2>4
    <3>2. b.kernel_start + b.kernel_length <= map[k].addr \/ map[k].addr + map[k].length <= b.kernel_start
      BY <3>1 DEF Disjoint, KernelOf, EndOf
    <3>3. map[k].addr <= f /\ f < map[k].addr + map[k].length
      BY <1>3, <1>6, <2>2 DEF Contains
    <3>4. PICK a \in Nat, n \in Nat : a = map[k].addr /\ n = map[k].length
      BY <3>1 DEF MemoryMapEntry
    <3>5. PICK s \in Nat, l \in Nat : s = b.kernel_start /\ l = b.kernel_length
      BY <1>1
    <3> QED
      BY <2>1, <3>2, <3>3, <3>4, <3>5
  <2> QED
    BY <1>1, <1>2, <2>3, <2>4 DEF WellFormed, KernelPlaced
<1>15. ASSUME NEW f \in 0 .. LowPages - 1, LowFits',
              NEW k \in DOMAIN regions', Contains(regions'[k], f)
       PROVE  f - regions'[k].start \in regions'[k].bitmap
  <2>1. PICK i \in DOMAIN regions' : Fits(regions'[i], 0, LowPages)
    BY <1>15 DEF LowFits
  <2>2. i \in DOMAIN rs0 /\ Fits(rs0[i], 0, LowPages)
    BY <1>9, <2>1 DEF Fits
  <2>3. k \in DOMAIN rs0 /\ Contains(rs0[k], f)
    BY <1>9, <1>15 DEF Contains
  <2>4. f \in Nat /\ 0 <= f /\ f < 0 + LowPages /\ LowPages \in Nat \ {0}
    BY <1>15 DEF LowPages
  <2> HIDE DEF rs0
  <2>5. f - rs0[k].start \in rs1[k].bitmap
    BY <1>2, <1>3, <1>4, <2>2, <2>3, <2>4, LockRegionLocks
  <2> QED
    BY <1>9, <2>3, <2>5
<1>16. ReservedLocked'
  BY <1>10, <1>14, <1>15 DEF ReservedLocked, Reserved, ClearIn, ClearAt
<1> QED
  BY <1>10, <1>12, <1>13, <1>16 DEF IInv, OwnedBacked, NothingBefore

\* alloc_frame preserves it: the frame it takes was clear, so neither owned
\* nor reserved.
LEMMA AllocIInv ==
    ASSUME IInv, AllocFrame
    PROVE  IInv'
<1>0. PICK k \in DOMAIN regions : \E i \in Bits(regions[k]) :
        /\ FirstClear(regions[k], i)
        /\ regions' = [regions EXCEPT ![k].bitmap = @ \cup {i}]
        /\ ret' = regions[k].start + i
        /\ owned' = owned \cup {regions[k].start + i}
  BY DEF AllocFrame
<1>1. PICK i \in Bits(regions[k]) :
        /\ FirstClear(regions[k], i)
        /\ regions' = [regions EXCEPT ![k].bitmap = @ \cup {i}]
        /\ ret' = regions[k].start + i
        /\ owned' = owned \cup {regions[k].start + i}
  BY <1>0
<1>2. created /\ created' = created /\ kernel' = kernel
  BY DEF AllocFrame
<1>3. regions[k] \in Region /\ i \in Nat /\ i < regions[k].num_frames /\ i \notin regions[k].bitmap
  BY <1>1 DEF IInv, TypeOK, Region, Bits, FirstClear
<1>4. PICK f \in Nat : /\ f = regions[k].start + i
                       /\ f - regions[k].start = i
                       /\ Contains(regions[k], f)
  BY <1>3 DEF Region, Contains
<1>5. /\ DOMAIN regions' = DOMAIN regions
      /\ \A j \in DOMAIN regions :
           /\ regions'[j] \in Region
           /\ regions'[j].start = regions[j].start
           /\ regions'[j].num_frames = regions[j].num_frames
           /\ regions[j].bitmap \subseteq regions'[j].bitmap
      /\ regions'[k].bitmap = regions[k].bitmap \cup {i}
  BY <1>1, <1>3 DEF IInv, TypeOK, Region
<1>6. TypeOK'
  BY <1>1, <1>2, <1>4, <1>5 DEF IInv, TypeOK
<1>7. RegionsDisjoint'
  BY <1>5 DEF IInv, RegionsDisjoint
<1>8. OwnedBacked'
  <2>1. Backed(f)'
    BY <1>4, <1>5 DEF Backed, Contains
  <2>2. ASSUME NEW g \in owned PROVE Backed(g)'
    BY <1>5 DEF IInv, OwnedBacked, Backed, Contains
  <2> QED
    BY <1>1, <1>4, <2>1, <2>2 DEF OwnedBacked
<1>9. ReservedLocked'
  <2> SUFFICES ASSUME NEW g \in Reserved PROVE (g \notin owned /\ ~ClearIn(g))'
    BY <1>2, <1>5 DEF ReservedLocked, Reserved, LowFits, Fits
  <2>1. g \notin owned /\ ~ClearIn(g)
    BY DEF IInv, ReservedLocked
  <2>2. g # f
    BY <1>3, <1>4, <2>1 DEF ClearIn, ClearAt
  <2> QED
    BY <1>1, <1>4, <1>5, <2>1, <2>2 DEF ClearIn, ClearAt, Contains
<1> QED
  BY <1>2, <1>6, <1>7, <1>8, <1>9 DEF IInv, NothingBefore

\* What free_frame does to the region k that contains f: it clears the bit
\* of f there, and leaves the other regions alone.
LEMMA FreeFrameShape ==
    ASSUME IInv, NEW f \in owned, FreeFrame(f),
           NEW k \in DOMAIN regions, Contains(regions[k], f)
    PROVE  /\ DOMAIN regions' = DOMAIN regions
           /\ regions'[k] \in Region
           /\ regions'[k].start = regions[k].start
           /\ regions'[k].num_frames = regions[k].num_frames
           /\ regions'[k].bitmap = regions[k].bitmap \ {f - regions[k].start}
           /\ \A j \in DOMAIN regions \ {k} : regions'[j] = regions[j]
<1>1. \A j \in DOMAIN regions : regions[j] \in Region
  BY DEF IInv, TypeOK
<1>2. f \in Nat
  BY DEF IInv, TypeOK
<1>3. \A j \in DOMAIN regions \ {k} : ~Contains(regions[j], f)
  BY <1>1, <1>2 DEF IInv, RegionsDisjoint, Contains, Region
<1>4. \A j \in DOMAIN regions : j < k => j # k
  BY DEF IInv, TypeOK
<1>5. regions'[k] = [regions[k] EXCEPT !.bitmap = @ \ {f - regions[k].start}]
  BY <1>3, <1>4 DEF FreeFrame
<1>6. DOMAIN regions' = DOMAIN regions /\ \A j \in DOMAIN regions \ {k} : regions'[j] = regions[j]
  BY <1>3 DEF FreeFrame
<1> QED
  BY <1>1, <1>5, <1>6 DEF Region

\* free_frame preserves the invariant: the frame it clears was owned, and
\* lies in no other region.
LEMMA FreeIInv ==
    ASSUME IInv, NEW f \in owned, FreeFrame(f)
    PROVE  IInv'
<1>1. PICK k \in DOMAIN regions :
        Contains(regions[k], f) /\ f - regions[k].start \in regions[k].bitmap
  BY DEF IInv, OwnedBacked, Backed
<1>2. /\ DOMAIN regions' = DOMAIN regions
      /\ regions'[k] \in Region
      /\ regions'[k].start = regions[k].start
      /\ regions'[k].num_frames = regions[k].num_frames
      /\ regions'[k].bitmap = regions[k].bitmap \ {f - regions[k].start}
      /\ \A j \in DOMAIN regions \ {k} : regions'[j] = regions[j]
  BY <1>1, FreeFrameShape
<1>3. created' = created /\ kernel' = kernel /\ ret' = ret /\ owned' = owned \ {f} /\ created
  BY DEF FreeFrame
<1>4. TypeOK'
  BY <1>2, <1>3 DEF IInv, TypeOK
<1>5. RegionsDisjoint'
  <2>1. \A j \in DOMAIN regions :
          regions'[j].start = regions[j].start /\ regions'[j].num_frames = regions[j].num_frames
    BY <1>2
  <2> QED
    BY <1>2, <2>1 DEF IInv, RegionsDisjoint
<1>6. OwnedBacked'
  <2> SUFFICES ASSUME NEW g \in owned, g # f PROVE Backed(g)'
    BY <1>3 DEF OwnedBacked
  <2>1. PICK m \in DOMAIN regions :
          Contains(regions[m], g) /\ g - regions[m].start \in regions[m].bitmap
    BY DEF IInv, OwnedBacked, Backed
  <2>2. f \in Nat /\ g \in Nat /\ regions[k].start \in Nat
    BY DEF IInv, TypeOK, Region
  <2>3. m = k => g - regions[k].start # f - regions[k].start
    BY <2>2
  <2>4. Contains(regions'[m], g) /\ g - regions'[m].start \in regions'[m].bitmap
    BY <1>2, <2>1, <2>3 DEF Contains
  <2> QED
    BY <1>2, <2>4 DEF Backed
<1>7. ReservedLocked'
  <2>0. Reserved' = Reserved
    <3>1. \A j \in DOMAIN regions :
            regions'[j].start = regions[j].start /\ regions'[j].num_frames = regions[j].num_frames
      BY <1>2
    <3> QED
      BY <1>2, <1>3, <3>1 DEF Reserved, LowFits, Fits
  <2> SUFFICES ASSUME NEW g \in Reserved PROVE (g \notin owned /\ ~ClearIn(g))'
    BY <2>0 DEF ReservedLocked
  <2>1. g \notin owned /\ ~ClearIn(g) /\ g # f
    BY DEF IInv, ReservedLocked
  <2>2. f \in Nat /\ g \in Nat /\ regions[k].start \in Nat
    BY DEF IInv, TypeOK, Region, Reserved, LowPages
  <2>3. g - regions[k].start # f - regions[k].start
    BY <2>1, <2>2
  <2>4. ASSUME NEW m \in DOMAIN regions, Contains(regions'[m], g)
        PROVE  g - regions'[m].start \in regions'[m].bitmap
    <3>1. Contains(regions[m], g) /\ regions'[m].start = regions[m].start
      BY <1>2, <2>4 DEF Contains
    <3>2. g - regions[m].start \in regions[m].bitmap
      BY <2>1, <3>1 DEF ClearIn, ClearAt
    <3> QED
      BY <1>2, <2>3, <3>1, <3>2
  <2> QED
    BY <1>2, <1>3, <2>1, <2>4 DEF ClearIn, ClearAt
<1> QED
  BY <1>3, <1>4, <1>5, <1>6, <1>7 DEF IInv, NothingBefore

\* Every step preserves the invariant.
LEMMA NextIInv == IInv /\ [Next]_vars => IInv'
<1> SUFFICES ASSUME IInv, [Next]_vars PROVE IInv'
  OBVIOUS
<1>1. ASSUME NEW b \in BootInfos, CreateFrameAllocator(b) PROVE IInv'
  BY <1>1, CreateIInv
<1>2. CASE AllocFrame
  BY <1>2, AllocIInv
<1>3. CASE AllocNone
  BY <1>3, NoFrameAssumption
     DEF AllocNone, IInv, TypeOK, RegionsDisjoint, OwnedBacked, Backed, ReservedLocked,
         Reserved, LowFits, ClearIn, ClearAt, NothingBefore
<1>4. ASSUME NEW f \in owned, FreeFrame(f) PROVE IInv'
  BY <1>4, FreeIInv
<1>5. CASE UNCHANGED vars
  BY <1>5
     DEF vars, IInv, TypeOK, RegionsDisjoint, OwnedBacked, Backed, ReservedLocked,
         Reserved, LowFits, ClearIn, ClearAt, NothingBefore
<1> QED
  BY <1>1, <1>2, <1>3, <1>4, <1>5 DEF Next

\* No step of the frame allocator breaks the invariant.
THEOREM Invariance == Spec => []IInv
BY InitIInv, NextIInv, PTL DEF Spec
-----------------------------------------------------------------------------
\* The allocator's state always has its type, whatever the boot information.
THEOREM TypeCorrect == Spec => []TypeOK
<1>1. IInv => TypeOK
  BY DEF IInv
<1> QED
  BY <1>1, Invariance, PTL

\* The frames of the kernel image, heap and boot stack are never handed out
\* and never free, for every well formed boot information
\* (create_frame_allocator, alloc_frame, free_frame).
THEOREM KernelSafe == Spec => []KernelNeverHandedOut
<1>1. IInv => KernelNeverHandedOut
  <2> SUFFICES ASSUME IInv, NEW f \in kernel PROVE f \notin owned /\ f \notin FreeFrames
    BY DEF KernelNeverHandedOut
  <2>1. f \notin owned /\ ~ClearIn(f) /\ TypeOK
    BY DEF IInv, ReservedLocked, Reserved
  <2> QED
    BY <2>1, FreeFramesIsClear DEF TypeOK, FreeFrames, ClearIn
<1> QED
  BY <1>1, Invariance, PTL

\* The frames below 0x4000 are never handed out and never free once one region
\* holds them all (the first lock_region call of create_frame_allocator, and
\* every later alloc_frame and free_frame).
THEOREM LowSafe == Spec => []LowNeverHandedOut
<1>1. IInv => LowNeverHandedOut
  <2> SUFFICES ASSUME IInv, LowFits, NEW f \in 0 .. LowPages - 1
               PROVE  f \notin owned /\ f \notin FreeFrames
    BY DEF LowNeverHandedOut, LowFits
  <2>1. f \notin owned /\ ~ClearIn(f) /\ TypeOK
    BY DEF IInv, ReservedLocked, Reserved
  <2> QED
    BY <2>1, FreeFramesIsClear DEF TypeOK, FreeFrames, ClearIn
<1> QED
  BY <1>1, Invariance, PTL
-----------------------------------------------------------------------------
\* The invariant holds before and after a step; FreeFrames changes as the
\* abstract pool's free does.
LEMMA AllocIsPoolAlloc ==
    ASSUME IInv, IInv', AllocFrame
    PROVE  Pool!Alloc
<1>0. PICK k \in DOMAIN regions : \E i \in Bits(regions[k]) :
        /\ FirstClear(regions[k], i)
        /\ regions' = [regions EXCEPT ![k].bitmap = @ \cup {i}]
        /\ ret' = regions[k].start + i
        /\ owned' = owned \cup {regions[k].start + i}
  BY DEF AllocFrame
<1>1. PICK i \in Bits(regions[k]) :
        /\ FirstClear(regions[k], i)
        /\ regions' = [regions EXCEPT ![k].bitmap = @ \cup {i}]
        /\ ret' = regions[k].start + i
        /\ owned' = owned \cup {regions[k].start + i}
  BY <1>0
<1>2. \A j \in DOMAIN regions : regions[j] \in Region
  BY DEF IInv, TypeOK
<1>3. i \in Nat /\ i < regions[k].num_frames /\ i \notin regions[k].bitmap
  BY <1>1, <1>2 DEF Region, Bits, FirstClear
<1>4. PICK f \in Nat : /\ f = regions[k].start + i
                       /\ f - regions[k].start = i
                       /\ Contains(regions[k], f)
  BY <1>2, <1>3 DEF Region, Contains
<1>5. ClearIn(f)
  BY <1>3, <1>4 DEF ClearIn, ClearAt
<1>6. f \in FreeFrames
  BY <1>2, <1>5, FreeFramesIsClear DEF FreeFrames, ClearIn
<1>7. /\ DOMAIN regions' = DOMAIN regions
      /\ \A j \in DOMAIN regions : /\ regions'[j].start = regions[j].start
                                   /\ regions'[j].num_frames = regions[j].num_frames
      /\ \A j \in DOMAIN regions \ {k} : regions'[j] = regions[j]
      /\ regions'[k].bitmap = regions[k].bitmap \cup {i}
  BY <1>1, <1>2 DEF Region
<1>8. ASSUME NEW g \in Nat
      PROVE  ClearIn(g)' <=> ClearIn(g) /\ g # f
  <2>1. ~ClearIn(f)'
    <3> SUFFICES ASSUME NEW j \in DOMAIN regions, Contains(regions[j], f)
                 PROVE  f - regions'[j].start \in regions'[j].bitmap
      BY <1>7 DEF ClearIn, ClearAt, Contains
    <3>1. j = k
      BY <1>2, <1>4 DEF IInv, RegionsDisjoint, Contains, Region
    <3> QED
      BY <1>4, <1>7, <3>1
  <2>2. ASSUME ClearIn(g)' PROVE ClearIn(g)
    BY <1>7, <2>2 DEF ClearIn, ClearAt, Contains
  <2>3. ASSUME ClearIn(g), g # f PROVE ClearIn(g)'
    <3>1. PICK j \in DOMAIN regions :
            Contains(regions[j], g) /\ g - regions[j].start \notin regions[j].bitmap
      BY <2>3 DEF ClearIn, ClearAt
    <3>2. j = k => g - regions[j].start # i
      BY <1>2, <1>4, <2>3 DEF Region
    <3> QED
      BY <1>7, <3>1, <3>2 DEF ClearIn, ClearAt, Contains
  <2> QED
    BY <2>1, <2>2, <2>3
<1>9. FreeFrames' = FreeFrames \ {f}
  <2>1. \A g : g \in FreeFrames' <=> g \in Nat /\ ClearIn(g)'
    BY FreeFramesIsClear DEF IInv, TypeOK, FreeFrames, ClearIn
  <2>2. \A g : g \in FreeFrames <=> g \in Nat /\ ClearIn(g)
    BY FreeFramesIsClear DEF IInv, TypeOK, FreeFrames, ClearIn
  <2> QED
    BY <1>8, <2>1, <2>2
<1> QED
  BY <1>1, <1>4, <1>6, <1>9 DEF Pool!Alloc, AllocFrame

LEMMA FreeIsPoolFree ==
    ASSUME IInv, IInv', NEW f \in owned, FreeFrame(f)
    PROVE  Pool!Free
<1>1. PICK k \in DOMAIN regions :
        Contains(regions[k], f) /\ f - regions[k].start \in regions[k].bitmap
  BY DEF IInv, OwnedBacked, Backed
<1>2. /\ DOMAIN regions' = DOMAIN regions
      /\ regions'[k] \in Region
      /\ regions'[k].start = regions[k].start
      /\ regions'[k].num_frames = regions[k].num_frames
      /\ regions'[k].bitmap = regions[k].bitmap \ {f - regions[k].start}
      /\ \A j \in DOMAIN regions \ {k} : regions'[j] = regions[j]
  BY <1>1, FreeFrameShape
<1>3. f \in Nat /\ regions[k].start \in Nat
  BY DEF IInv, TypeOK, Region
<1>4. ASSUME NEW g \in Nat
      PROVE  ClearIn(g)' <=> ClearIn(g) \/ g = f
  <2>1. ClearIn(f)'
    BY <1>1, <1>2 DEF ClearIn, ClearAt, Contains
  <2>2. ASSUME ClearIn(g)', g # f PROVE ClearIn(g)
    <3>1. PICK j \in DOMAIN regions :
            Contains(regions'[j], g) /\ g - regions'[j].start \notin regions'[j].bitmap
      BY <1>2, <2>2 DEF ClearIn, ClearAt
    <3>2. g - regions[k].start # f - regions[k].start
      BY <1>3, <2>2
    <3> QED
      BY <1>2, <3>1, <3>2 DEF ClearIn, ClearAt, Contains
  <2>3. ASSUME ClearIn(g) PROVE ClearIn(g)'
    BY <1>2, <2>3 DEF ClearIn, ClearAt, Contains
  <2> QED
    BY <2>1, <2>2, <2>3
<1>5. FreeFrames' = FreeFrames \cup {f}
  <2>1. \A g : g \in FreeFrames' <=> g \in Nat /\ ClearIn(g)'
    BY FreeFramesIsClear DEF IInv, TypeOK, FreeFrames, ClearIn
  <2>2. \A g : g \in FreeFrames <=> g \in Nat /\ ClearIn(g)
    BY FreeFramesIsClear DEF IInv, TypeOK, FreeFrames, ClearIn
  <2> QED
    BY <1>3, <1>4, <2>1, <2>2
<1> QED
  BY <1>5 DEF Pool!Free, FreeFrame

\* Only an empty pool makes alloc_frame answer None.
LEMMA NoneIsExhausted ==
    ASSUME IInv, AllocNone
    PROVE  Pool!Exhausted
<1>1. FreeFrames = {}
  <2> SUFFICES ASSUME NEW f \in FreeFrames PROVE FALSE
    OBVIOUS
  <2>1. PICK k \in DOMAIN regions : f \in ClearFrames(regions[k])
    BY DEF FreeFrames, FreeOf
  <2> QED
    BY <2>1 DEF ClearFrames, AllocNone, HasFree
<1> QED
  BY <1>1 DEF AllocNone, Pool!Exhausted, FreeFrames

\* The bitmap allocator implements the abstract pool of frames, for every
\* well formed boot information: no frame is ever handed out to two holders,
\* and alloc_frame answers None only when every frame is taken or locked.
THEOREM ImplementsPool == Spec => RefinesFramePool
<1>1. Init => Pool!Init
  <2> SUFFICES ASSUME Init PROVE FreeFrames = {}
    BY DEF Init, Pool!Init
  <2>1. DOMAIN regions = {}
    BY DEF Init
  <2> QED
    BY <2>1 DEF FreeFrames, FreeOf
<1>2. IInv /\ IInv' /\ [Next]_vars => [Pool!Next]_(Pool!vars)
  <2> SUFFICES ASSUME IInv, IInv', [Next]_vars PROVE [Pool!Next]_(Pool!vars)
    OBVIOUS
  <2>1. ASSUME NEW b \in BootInfos, CreateFrameAllocator(b) PROVE Pool!Open
    <3>1. FreeFrames' \subseteq Nat
      BY FreeFramesIsClear DEF IInv, TypeOK, FreeFrames
    <3> QED
      BY <2>1, <3>1 DEF CreateFrameAllocator, Pool!Open
  <2>2. CASE AllocFrame
    BY <2>2, AllocIsPoolAlloc DEF Pool!Next
  <2>3. CASE AllocNone
    BY <2>3, NoneIsExhausted DEF Pool!Next
  <2>4. ASSUME NEW f \in owned, FreeFrame(f) PROVE Pool!Free
    BY <2>4, FreeIsPoolFree
  <2>5. CASE UNCHANGED vars
    BY <2>5 DEF vars, Pool!vars, FreeFrames
  <2> QED
    BY <2>1, <2>2, <2>3, <2>4, <2>5 DEF Next, Pool!Next
<1> QED
  BY <1>1, <1>2, Invariance, PTL DEF Spec, Pool!Spec, RefinesFramePool
=============================================================================
