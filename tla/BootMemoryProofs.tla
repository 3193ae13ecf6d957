-------------------------- MODULE BootMemoryProofs --------------------------
(***************************************************************************)
(* Proofs about BootMemory for every set of descriptors and every capacity *)
(* of the memory map: the merge loop keeps exactly the pages it was given  *)
(* and merges completely, the kernel gets a well formed map, and only free *)
(* memory is handed out.                                                   *)
(***************************************************************************)
EXTENDS BootMemory, DataLemmas

\* The types of the loader's state; the array of the memory map never
\* overflows, also while an entry is being merged.
LoaderTyped ==
    /\ memory_map \in Seq(MemoryMapEntry)
    /\ Len(memory_map) <= MaxMemoryMapEntries
    /\ entry \in MemoryMapEntry \cup {NoEntry}
    /\ entry # NoEntry => Len(memory_map) < MaxMemoryMapEntries

\* What the loader has passed on is what the firmware reported, converted.
ReportsConverted ==
    /\ reported \subseteq {d \in EfiDescriptor : Parses(d)}
    /\ offered = {Convert(d) : d \in reported}
    /\ accepted \subseteq offered
    /\ \A a, b \in offered : a # b => Disjoint(a, b)

\* No two entries share a page, the one being merged included.
LiveApart ==
    /\ \A i, j \in DOMAIN memory_map : i # j => Disjoint(memory_map[i], memory_map[j])
    /\ entry # NoEntry => \A i \in DOMAIN memory_map : Disjoint(entry, memory_map[i])

Live == {memory_map[i] : i \in DOMAIN memory_map} \cup ({entry} \ {NoEntry})

\* Every accepted entry lies inside one live entry of its type, and live
\* entries have no other pages.
Covered == \A a \in accepted : \E e \in Live : e.typ = a.typ /\ Inside(a, e)

OnlyAccepted ==
    \A e \in Live : \A p \in PagesOf(e) :
        \E a \in accepted : a.typ = e.typ /\ p \in PagesOf(a)

\* The inductive invariant of the loader.  FullyMerged and PagesPreserved
\* alone are not inductive: the sum of two lengths is the length of the
\* union only because the two entries share no page.
LoaderInv ==
    LoaderTyped /\ ReportsConverted /\ LiveApart /\ Covered /\ OnlyAccepted /\ FullyMerged

\* The regions are those of the Available entries, and a frame that is handed
\* out lies in one.
RegionsOfMap ==
    /\ ~created => owned = {}
    /\ created => /\ entry = NoEntry
                  /\ \A k \in DOMAIN regions :
                       /\ regions[k] \in Frames!Region
                       /\ k \in DOMAIN memory_map
                       /\ memory_map[k].typ = "Available"
                       /\ regions[k].start = memory_map[k].addr
                       /\ regions[k].num_frames = memory_map[k].length

IInv == LoaderInv /\ RegionsOfMap /\ OnlyAvailableHandedOut /\ HandsOverWellFormed
-----------------------------------------------------------------------------
\* The operators of MemoryMap mean the same in the instances of BootInfo and
\* of FrameAllocator.
LEMMA SameOperators ==
    /\ \A d, e : Loader!Disjoint(d, e) <=> Disjoint(d, e)
    /\ \A d, e : Loader!Overlaps(d, e) <=> Overlaps(d, e)
    /\ \A d : Loader!PagesOf(d) = PagesOf(d)
    /\ \A s, i : Loader!RemoveAt(s, i) = RemoveAt(s, i)
    /\ Loader!BootMemoryMapType = BootMemoryMapType
    /\ \A b : Frames!PagesOf(Frames!KernelOf(b)) = PagesOf(KernelOf(b))
BY DEF Loader!Disjoint, Disjoint, Loader!Overlaps, Overlaps, Loader!PagesOf, PagesOf,
       Loader!EndOf, EndOf, Loader!BootMemoryMapType, BootMemoryMapType, Loader!RemoveAt,
       RemoveAt, Frames!PagesOf, Frames!EndOf, Frames!KernelOf, KernelOf

LEMMA EntryProperties ==
    ASSUME NEW e \in MemoryMapEntry
    PROVE  e.addr \in Nat /\ e.length \in Nat \ {0} /\ e.typ \in BootMemoryMapType
BY DEF MemoryMapEntry

\* Entries that are not disjoint share a page.
LEMMA SharedPage ==
    ASSUME NEW d \in MemoryMapEntry, NEW e \in MemoryMapEntry
    PROVE  Disjoint(d, e) <=> \A p \in PagesOf(d) : p \notin PagesOf(e)
<1>1. /\ d.addr \in Nat /\ d.length \in Nat \ {0}
      /\ e.addr \in Nat /\ e.length \in Nat \ {0}
  BY EntryProperties
<1>2. ASSUME ~Disjoint(d, e) PROVE \E p \in PagesOf(d) : p \in PagesOf(e)
  <2>1. CASE d.addr <= e.addr
    <3>1. e.addr \in PagesOf(d) /\ e.addr \in PagesOf(e)
      BY <1>1, <1>2, <2>1 DEF Disjoint, PagesOf, EndOf
    <3> QED
      BY <3>1
  <2>2. CASE e.addr <= d.addr
    <3>1. d.addr \in PagesOf(d) /\ d.addr \in PagesOf(e)
      BY <1>1, <1>2, <2>2 DEF Disjoint, PagesOf, EndOf
    <3> QED
      BY <3>1
  <2> QED
    BY <1>1, <2>1, <2>2
<1>3. ASSUME Disjoint(d, e), NEW p \in PagesOf(d) PROVE p \notin PagesOf(e)
  BY <1>1, <1>3 DEF Disjoint, PagesOf, EndOf
<1> QED
  BY <1>2, <1>3

\* The merged entry of one iteration: entries that overlap by the code's
\* inclusive ends and share no page touch, so that the merged entry is
\* exactly their union.
Merged(d, e) ==
    [addr |-> IF e.addr <= d.addr THEN e.addr ELSE d.addr,
     length |-> e.length + d.length,
     typ |-> e.typ]

LEMMA MergeIsUnion ==
    ASSUME NEW d \in MemoryMapEntry, NEW e \in MemoryMapEntry, Disjoint(e, d), Overlaps(d, e)
    PROVE  /\ Merged(d, e) \in MemoryMapEntry
           /\ Merged(d, e).typ = e.typ
           /\ Inside(d, Merged(d, e))
           /\ Inside(e, Merged(d, e))
           /\ \A p \in PagesOf(Merged(d, e)) : p \in PagesOf(d) \/ p \in PagesOf(e)
           /\ \A x \in MemoryMapEntry :
                Disjoint(x, d) /\ Disjoint(e, x) => Disjoint(Merged(d, e), x)
<1>1. /\ d.addr \in Nat /\ d.length \in Nat \ {0}
      /\ e.addr \in Nat /\ e.length \in Nat \ {0} /\ e.typ \in BootMemoryMapType
  BY EntryProperties
<1>2. PICK m : m = Merged(d, e)
  OBVIOUS
<1>3. /\ m.addr = IF e.addr <= d.addr THEN e.addr ELSE d.addr
      /\ m.length = e.length + d.length
      /\ m.typ = e.typ
  BY <1>2 DEF Merged
<1>4. m \in MemoryMapEntry
  <2>1. (IF e.addr <= d.addr THEN e.addr ELSE d.addr) \in Nat /\ e.length + d.length \in Nat \ {0}
    BY <1>1
  <2> QED
    BY <1>1, <1>2, <2>1 DEF Merged, MemoryMapEntry
<1>5. EndOf(e) = d.addr \/ EndOf(d) = e.addr
  BY <1>1 DEF Disjoint, Overlaps, EndOf
<1>6. Inside(d, m) /\ Inside(e, m)
  BY <1>1, <1>3, <1>5 DEF Inside, EndOf
<1>7. \A p \in PagesOf(m) : p \in PagesOf(d) \/ p \in PagesOf(e)
  BY <1>1, <1>3, <1>5 DEF PagesOf, EndOf
<1>8. ASSUME NEW x \in MemoryMapEntry, Disjoint(x, d), Disjoint(e, x)
      PROVE  Disjoint(m, x)
  <2>1. x.addr \in Nat /\ x.length \in Nat \ {0}
    BY EntryProperties
  <2> QED
    BY <1>1, <1>3, <1>5, <1>8, <2>1 DEF Disjoint, EndOf
<1> QED
  BY <1>2, <1>3, <1>4, <1>6, <1>7, <1>8

LEMMA InsidePages ==
    ASSUME NEW d \in MemoryMapEntry, NEW e \in MemoryMapEntry, Inside(d, e)
    PROVE  \A p \in PagesOf(d) : p \in PagesOf(e)
<1>1. /\ d.addr \in Nat /\ d.length \in Nat \ {0}
      /\ e.addr \in Nat /\ e.length \in Nat \ {0}
  BY EntryProperties
<1> QED
  BY <1>1 DEF Inside, PagesOf, EndOf

LEMMA InsideTransitive ==
    ASSUME NEW d \in MemoryMapEntry, NEW e \in MemoryMapEntry, NEW f \in MemoryMapEntry,
           Inside(d, e), Inside(e, f)
    PROVE  Inside(d, f)
BY EntryProperties DEF Inside, EndOf

\* The match in efi_main gives every descriptor that parses a type BootInfo
\* has, and Available exactly to memory that is free after boot services.
LEMMA ConvertProperties ==
    ASSUME NEW d \in EfiDescriptor, Parses(d)
    PROVE  /\ Convert(d) \in MemoryMapEntry
           /\ Convert(d).addr = d.addr /\ Convert(d).length = d.length
           /\ PagesOf(Convert(d)) = PagesOf(d)
           /\ Convert(d).typ = "Available" <=> d.typ \in AvailableTypes
<1>1. d.addr \in Nat /\ d.length \in Nat \ {0} /\ d.typ \in EfiMemoryType
  BY DEF EfiDescriptor, Parses
<1>2. /\ BootTypeOf(d.typ) \in BootMemoryMapType
      /\ BootTypeOf(d.typ) = "Available" <=> d.typ \in AvailableTypes
  BY <1>1 DEF BootTypeOf, BootMemoryMapType, EfiMemoryType, ReservedTypes, AvailableTypes, AcpiTypes
<1>3. /\ Convert(d).addr = d.addr /\ Convert(d).length = d.length
      /\ Convert(d).typ = BootTypeOf(d.typ)
  BY DEF Convert
<1>4. Convert(d) \in MemoryMapEntry
  BY <1>1, <1>2 DEF Convert, MemoryMapEntry
<1> QED
  BY <1>2, <1>3, <1>4 DEF PagesOf, EndOf
-----------------------------------------------------------------------------
LEMMA LiveTyped ==
    ASSUME LoaderInv
    PROVE  /\ \A i \in DOMAIN memory_map : memory_map[i] \in MemoryMapEntry
           /\ Live \subseteq MemoryMapEntry
           /\ offered \subseteq MemoryMapEntry
           /\ accepted \subseteq MemoryMapEntry
<1>1. \A i \in DOMAIN memory_map : memory_map[i] \in MemoryMapEntry
  BY DEF LoaderInv, LoaderTyped
<1>2. Live \subseteq MemoryMapEntry
  BY <1>1 DEF LoaderInv, LoaderTyped, Live
<1>3. \A d \in reported : Convert(d) \in MemoryMapEntry
  BY ConvertProperties DEF LoaderInv, ReportsConverted
<1> QED
  BY <1>1, <1>2, <1>3 DEF LoaderInv, ReportsConverted

\* What shares no page with what the loader has passed shares none with the
\* entries it was merged into.
LEMMA FreshApart ==
    ASSUME LoaderInv, NEW d \in MemoryMapEntry, \A a \in accepted : Disjoint(d, a), NEW e \in Live
    PROVE  Disjoint(d, e)
<1>1. e \in MemoryMapEntry /\ accepted \subseteq MemoryMapEntry
  BY LiveTyped
<1>2. ASSUME NEW p \in PagesOf(d), p \in PagesOf(e) PROVE FALSE
  <2>1. PICK a \in accepted : p \in PagesOf(a)
    BY <1>2 DEF LoaderInv, OnlyAccepted
  <2> QED
    BY <1>1, <1>2, <2>1, SharedPage
<1> QED
  BY <1>1, <1>2, SharedPage

\* The loader's BootInfo is empty before the first descriptor.
LEMMA InitLoaderInv == Init => LoaderInv
<1> SUFFICES ASSUME Init PROVE LoaderInv
  OBVIOUS
<1>1. /\ memory_map = << >> /\ entry = NoEntry /\ offered = {} /\ accepted = {} /\ reported = {}
  BY DEF Init, Loader!Init
<1>2. memory_map \in Seq(MemoryMapEntry) /\ Len(memory_map) = 0 /\ DOMAIN memory_map = {}
  BY <1>1, EmptySeq
<1>3. LoaderTyped
  BY <1>1, <1>2, MaxAssumption DEF LoaderTyped
<1>4. Live = {}
  BY <1>1, <1>2 DEF Live
<1>5. FullyMerged
  BY <1>2 DEF FullyMerged, Loader!FullyMerged
<1>6. ReportsConverted
  BY <1>1 DEF ReportsConverted
<1> QED
  BY <1>1, <1>2, <1>3, <1>4, <1>5, <1>6 DEF LoaderInv, LiveApart, Covered, OnlyAccepted

\* add_memory_map_entry takes a descriptor, or finds the map full.
LEMMA AddDescriptorInv ==
    ASSUME LoaderInv, NEW d \in EfiDescriptors, AddDescriptor(d)
    PROVE  LoaderInv'
<1> DEFINE c == Convert(d)
<1>1. d \in EfiDescriptor /\ Parses(d) /\ reported' = reported \cup {d}
  BY EfiDescriptorsAssumption DEF AddDescriptor
<1>2. c \in MemoryMapEntry /\ c # NoEntry
  BY <1>1, ConvertProperties, NoEntryAssumption
<1>3. /\ entry = NoEntry
      /\ memory_map' = memory_map
      /\ \A a \in offered : Disjoint(c, a)
      /\ offered' = offered \cup {c}
      /\ \/ Len(memory_map) < MaxMemoryMapEntries /\ entry' = c /\ accepted' = accepted \cup {c}
         \/ entry' = NoEntry /\ accepted' = accepted
  BY SameOperators
     DEF AddDescriptor, Loader!AddMemoryMapEntry, Loader!RefuseMemoryMapEntry, Loader!FirmwareMay
<1>4. /\ \A i \in DOMAIN memory_map : memory_map[i] \in MemoryMapEntry
      /\ Live \subseteq MemoryMapEntry
      /\ offered \subseteq MemoryMapEntry
      /\ accepted \subseteq offered
  BY LiveTyped DEF LoaderInv, ReportsConverted
<1>5. LoaderTyped'
  BY <1>2, <1>3 DEF LoaderInv, LoaderTyped
<1>6. ReportsConverted'
  <2>1. offered' = {Convert(x) : x \in reported'}
    BY <1>1, <1>3 DEF LoaderInv, ReportsConverted
  <2>2. \A a, b \in offered' : a # b => Disjoint(a, b)
    <3>1. \A a \in offered : Disjoint(a, c)
      BY <1>3 DEF Disjoint
    <3> HIDE DEF c
    <3> QED
      BY <1>3, <3>1 DEF LoaderInv, ReportsConverted
  <2>3. reported' \subseteq {x \in EfiDescriptor : Parses(x)}
    BY <1>1 DEF LoaderInv, ReportsConverted
  <2>4. accepted' \subseteq offered'
    BY <1>3, <1>4
  <2> QED
    BY <2>1, <2>2, <2>3, <2>4 DEF ReportsConverted
<1> HIDE DEF c
<1>7. \A i \in DOMAIN memory_map : memory_map[i] \in Live
  BY DEF Live
<1>8. \A i \in DOMAIN memory_map : Disjoint(c, memory_map[i])
  BY <1>2, <1>3, <1>4, <1>7, FreshApart
<1>9. LiveApart'
  BY <1>3, <1>8 DEF LoaderInv, LiveApart
<1>10. FullyMerged'
  BY <1>3 DEF LoaderInv, FullyMerged, Loader!FullyMerged
<1>11. CASE entry' = c /\ accepted' = accepted \cup {c}
  <2>1. Live' = Live \cup {c}
    BY <1>2, <1>3, <1>11 DEF Live
  <2>2. Inside(c, c)
    BY <1>2, EntryProperties DEF Inside, EndOf
  <2>3. Covered'
    BY <1>11, <2>1, <2>2 DEF LoaderInv, Covered
  <2>4. OnlyAccepted'
    BY <1>11, <2>1 DEF LoaderInv, OnlyAccepted
  <2> QED
    BY <1>5, <1>6, <1>9, <1>10, <2>3, <2>4 DEF LoaderInv
<1>12. CASE entry' = NoEntry /\ accepted' = accepted
  <2>1. Live' = Live
    BY <1>3, <1>12 DEF Live
  <2> QED
    BY <1>5, <1>6, <1>9, <1>10, <1>12, <2>1 DEF LoaderInv, Covered, OnlyAccepted
<1> QED
  BY <1>3, <1>11, <1>12

\* An iteration of the merge loop.
LEMMA MergeEntryInv ==
    ASSUME LoaderInv, Loader!MergeEntry, UNCHANGED reported
    PROVE  LoaderInv'
<1>1. PICK i \in DOMAIN memory_map :
        /\ memory_map[i].typ = entry.typ
        /\ Overlaps(memory_map[i], entry)
        /\ entry' = Merged(memory_map[i], entry)
        /\ memory_map' = RemoveAt(memory_map, i)
  BY SameOperators DEF Loader!MergeEntry, Loader!Mergeable, Merged
<1>2. entry # NoEntry /\ offered' = offered /\ accepted' = accepted
  BY DEF Loader!MergeEntry
<1> DEFINE d == memory_map[i]
           m == Merged(d, entry)
<1>3. /\ d \in MemoryMapEntry /\ entry \in MemoryMapEntry
      /\ memory_map \in Seq(MemoryMapEntry)
      /\ \A j \in DOMAIN memory_map : memory_map[j] \in MemoryMapEntry
      /\ Live \subseteq MemoryMapEntry /\ accepted \subseteq MemoryMapEntry
      /\ Len(memory_map) \in Nat /\ Len(memory_map) < MaxMemoryMapEntries
  BY <1>2, LiveTyped, LenProperties DEF LoaderInv, LoaderTyped
<1>4. Disjoint(entry, d)
  BY <1>2 DEF LoaderInv, LiveApart
<1>5. /\ m \in MemoryMapEntry
      /\ m.typ = entry.typ
      /\ Inside(d, m)
      /\ Inside(entry, m)
      /\ \A p \in PagesOf(m) : p \in PagesOf(d) \/ p \in PagesOf(entry)
      /\ \A x \in MemoryMapEntry : Disjoint(x, d) /\ Disjoint(entry, x) => Disjoint(m, x)
  BY <1>1, <1>3, <1>4, MergeIsUnion
<1>6. m # NoEntry
  BY <1>5, NoEntryAssumption
<1>7. /\ memory_map' \in Seq(MemoryMapEntry)
      /\ Len(memory_map') = Len(memory_map) - 1
      /\ DOMAIN memory_map' = 1 .. Len(memory_map) - 1
      /\ \A j \in DOMAIN memory_map' :
           Before(i, j) \in DOMAIN memory_map \ {i} /\ memory_map'[j] = memory_map[Before(i, j)]
  BY <1>1, <1>3, RemoveAtProperties
<1>8. /\ \A k \in DOMAIN memory_map \ {i} : \E j \in DOMAIN memory_map' : memory_map'[j] = memory_map[k]
      /\ \A j, k \in DOMAIN memory_map' : j # k => Before(i, j) # Before(i, k)
  BY <1>1, <1>3, RemoveAtKeeps
<1>9. entry' = m
  BY <1>1
<1> HIDE DEF m
<1>10. LoaderTyped'
  BY <1>3, <1>5, <1>7, <1>9, MaxAssumption DEF LoaderTyped
<1>11. LiveApart'
  <2>1. ASSUME NEW j \in DOMAIN memory_map', NEW k \in DOMAIN memory_map', j # k
        PROVE  Disjoint(memory_map'[j], memory_map'[k])
    BY <1>7, <1>8, <2>1 DEF LoaderInv, LiveApart
  <2>2. ASSUME NEW j \in DOMAIN memory_map' PROVE Disjoint(m, memory_map'[j])
    <3>1. PICK k \in DOMAIN memory_map \ {i} : memory_map'[j] = memory_map[k]
      BY <1>7
    <3>2. Disjoint(memory_map[k], d) /\ Disjoint(entry, memory_map[k])
      BY <1>2 DEF LoaderInv, LiveApart
    <3> QED
      BY <1>3, <1>5, <3>1, <3>2
  <2> QED
    BY <1>9, <2>1, <2>2 DEF LiveApart
<1>12. FullyMerged'
  <2>1. \A j, k \in DOMAIN memory_map :
          (j # k /\ memory_map[j].typ = memory_map[k].typ)
              => ~Loader!Overlaps(memory_map[j], memory_map[k])
    BY DEF LoaderInv, FullyMerged, Loader!FullyMerged
  <2>2. ASSUME NEW j \in DOMAIN memory_map', NEW k \in DOMAIN memory_map', j # k,
               memory_map'[j].typ = memory_map'[k].typ
        PROVE  ~Loader!Overlaps(memory_map'[j], memory_map'[k])
    <3>1. PICK x \in DOMAIN memory_map, y \in DOMAIN memory_map :
              /\ x = Before(i, j) /\ memory_map'[j] = memory_map[x]
              /\ y = Before(i, k) /\ memory_map'[k] = memory_map[y]
      BY <1>7
    <3>2. x # y
      BY <1>8, <2>2, <3>1
    <3> QED
      BY <2>1, <2>2, <3>1, <3>2
  <2> QED
    BY <2>2 DEF FullyMerged, Loader!FullyMerged
<1>13. \A e \in Live : e \in Live' \/ e = d \/ e = entry
  <2> TAKE e \in Live
  <2>1. CASE \E k \in DOMAIN memory_map \ {i} : e = memory_map[k]
    BY <1>8, <2>1 DEF Live
  <2> QED
    BY <2>1 DEF Live
<1>14. \A e \in Live' : e \in Live \/ e = m
  BY <1>7, <1>9 DEF Live
<1>15. m \in Live' /\ d \in Live /\ entry \in Live
  BY <1>2, <1>6, <1>9 DEF Live
<1> HIDE DEF d
<1>16. d.typ = entry.typ
  BY <1>1 DEF d
<1>17. Covered'
  <2> SUFFICES ASSUME NEW a \in accepted
               PROVE  \E e \in Live' : e.typ = a.typ /\ Inside(a, e)
    BY <1>2 DEF Covered
  <2>1. PICK e \in Live : e.typ = a.typ /\ Inside(a, e)
    BY DEF LoaderInv, Covered
  <2>2. CASE e \in Live'
    BY <2>1, <2>2
  <2>3. CASE e = d \/ e = entry
    <3>1. m.typ = a.typ /\ Inside(e, m)
      BY <1>5, <1>16, <2>1, <2>3
    <3>2. Inside(a, m)
      BY <1>3, <1>5, <2>1, <3>1, InsideTransitive
    <3> QED
      BY <1>15, <3>1, <3>2
  <2> QED
    BY <1>13, <2>2, <2>3
<1>18. OnlyAccepted'
  <2> SUFFICES ASSUME NEW e \in Live', NEW p \in PagesOf(e)
               PROVE  \E a \in accepted : a.typ = e.typ /\ p \in PagesOf(a)
    BY <1>2 DEF OnlyAccepted
  <2>1. CASE e \in Live
    BY <2>1 DEF LoaderInv, OnlyAccepted
  <2>2. CASE e = m
    <3>1. p \in PagesOf(d) \/ p \in PagesOf(entry)
      BY <1>5, <2>2
    <3> QED
      BY <1>5, <1>15, <1>16, <2>2, <3>1 DEF LoaderInv, OnlyAccepted
  <2> QED
    BY <1>14, <2>1, <2>2
<1>19. ReportsConverted'
  BY <1>2 DEF LoaderInv, ReportsConverted
<1> QED
  BY <1>10, <1>11, <1>12, <1>17, <1>18, <1>19 DEF LoaderInv

\* The loop ends, and the entry is stored.
LEMMA StoreEntryInv ==
    ASSUME LoaderInv, Loader!StoreEntry, UNCHANGED reported
    PROVE  LoaderInv'
<1>1. /\ entry # NoEntry /\ entry' = NoEntry
      /\ memory_map' = Append(memory_map, entry)
      /\ \A i \in DOMAIN memory_map :
           memory_map[i].typ = entry.typ => ~Overlaps(memory_map[i], entry)
      /\ offered' = offered /\ accepted' = accepted
  BY SameOperators DEF Loader!StoreEntry, Loader!Mergeable
<1>2. /\ entry \in MemoryMapEntry /\ memory_map \in Seq(MemoryMapEntry)
      /\ \A j \in DOMAIN memory_map : memory_map[j] \in MemoryMapEntry
      /\ Len(memory_map) \in Nat /\ Len(memory_map) < MaxMemoryMapEntries
      /\ DOMAIN memory_map = 1 .. Len(memory_map)
  BY <1>1, LiveTyped, LenProperties DEF LoaderInv, LoaderTyped
<1> DEFINE n == Len(memory_map) + 1
<1>3. /\ memory_map' \in Seq(MemoryMapEntry)
      /\ Len(memory_map') = n
      /\ DOMAIN memory_map' = 1 .. n
      /\ \A j \in 1 .. Len(memory_map) : memory_map'[j] = memory_map[j]
      /\ memory_map'[n] = entry
  BY <1>1, <1>2, AppendProperties, LenProperties
<1>4. \A j \in DOMAIN memory_map' :
        \/ j \in DOMAIN memory_map /\ memory_map'[j] = memory_map[j]
        \/ j = n
  BY <1>2, <1>3
<1>5. n \in DOMAIN memory_map' /\ DOMAIN memory_map \subseteq DOMAIN memory_map'
  BY <1>2, <1>3
<1>6. LoaderTyped'
  BY <1>1, <1>2, <1>3, MaxAssumption DEF LoaderTyped
<1> HIDE DEF n
<1>7. LiveApart'
  <2>1. \A i, j \in DOMAIN memory_map : i # j => Disjoint(memory_map[i], memory_map[j])
    BY DEF LoaderInv, LiveApart
  <2>2. \A i \in DOMAIN memory_map : Disjoint(entry, memory_map[i]) /\ Disjoint(memory_map[i], entry)
    BY <1>1 DEF LoaderInv, LiveApart, Disjoint
  <2> QED
    BY <1>1, <1>3, <1>4, <2>1, <2>2 DEF LiveApart
<1>8. FullyMerged'
  <2>1. \A i, j \in DOMAIN memory_map :
          (i # j /\ memory_map[i].typ = memory_map[j].typ)
              => ~Overlaps(memory_map[i], memory_map[j])
    BY SameOperators DEF LoaderInv, FullyMerged, Loader!FullyMerged
  <2>2. \A i \in DOMAIN memory_map :
          memory_map[i].typ = entry.typ =>
              ~Overlaps(memory_map[i], entry) /\ ~Overlaps(entry, memory_map[i])
    BY <1>1 DEF Overlaps
  <2>3. ASSUME NEW i \in DOMAIN memory_map', NEW j \in DOMAIN memory_map', i # j,
               memory_map'[i].typ = memory_map'[j].typ
        PROVE  ~Overlaps(memory_map'[i], memory_map'[j])
    BY <1>3, <1>4, <2>1, <2>2, <2>3
  <2> QED
    BY <2>3, SameOperators DEF FullyMerged, Loader!FullyMerged
<1>9. Live' = Live
  <2>1. ASSUME NEW e \in Live PROVE e \in Live'
    <3>1. CASE \E i \in DOMAIN memory_map : e = memory_map[i]
      BY <1>2, <1>3, <1>5, <3>1 DEF Live
    <3>2. CASE e = entry
      BY <1>3, <1>5, <3>2 DEF Live
    <3> QED
      BY <3>1, <3>2 DEF Live
  <2>2. ASSUME NEW e \in Live' PROVE e \in Live
    BY <1>1, <1>3, <1>4 DEF Live
  <2> QED
    BY <2>1, <2>2
<1> QED
  BY <1>1, <1>6, <1>7, <1>8, <1>9 DEF LoaderInv, Covered, OnlyAccepted, ReportsConverted
-----------------------------------------------------------------------------
\* A page of an Available entry is a page of a descriptor of free memory.
LEMMA AvailablePage ==
    ASSUME LoaderInv, NEW k \in DOMAIN memory_map, memory_map[k].typ = "Available",
           NEW f \in PagesOf(memory_map[k])
    PROVE  \E d \in reported : f \in PagesOf(d) /\ d.typ \in AvailableTypes
<1>1. memory_map[k] \in Live
  BY DEF Live
<1>2. PICK a \in accepted : a.typ = "Available" /\ f \in PagesOf(a)
  BY <1>1 DEF LoaderInv, OnlyAccepted
<1>3. PICK d \in reported : a = Convert(d)
  BY DEF LoaderInv, ReportsConverted
<1>4. d \in EfiDescriptor /\ Parses(d)
  BY DEF LoaderInv, ReportsConverted
<1> QED
  BY <1>2, <1>3, <1>4, ConvertProperties

\* The boot information StartKernel passes on is well formed: the kernel's
\* pages come from one LoaderCode descriptor, which is inside one Available
\* entry or, if the map was full, in none of them.
LEMMA StartWellFormed ==
    ASSUME LoaderInv, entry = NoEntry,
           NEW start \in Nat, NEW length \in Nat \ {0}, InLoaderMemory(start, length)
    PROVE  WellFormed([memory_map |-> memory_map, kernel_start |-> start, kernel_length |-> length])
<1> DEFINE b == [memory_map |-> memory_map, kernel_start |-> start, kernel_length |-> length]
           K == KernelOf(b)
<1>1. /\ b.memory_map = memory_map
      /\ K.addr = start /\ K.length = length
  BY DEF KernelOf
<1>2. b \in BootInfoType
  BY DEF LoaderInv, LoaderTyped, BootInfoType
<1>3. AvailableDisjoint(b.memory_map)
  BY DEF LoaderInv, LiveApart, AvailableDisjoint
<1> HIDE DEF b
<1>4. PICK d \in reported :
        d.typ = "LoaderCode" /\ d.addr <= start /\ start + length <= EndOf(d)
  BY DEF InLoaderMemory
<1>5. d \in EfiDescriptor /\ Parses(d) /\ d.typ \in AvailableTypes
  BY <1>4 DEF LoaderInv, ReportsConverted, AvailableTypes
<1>6. PICK c \in offered :
        /\ c \in MemoryMapEntry /\ c.typ = "Available"
        /\ c.addr <= start /\ start + length <= c.addr + c.length
  BY <1>4, <1>5, ConvertProperties DEF LoaderInv, ReportsConverted, EndOf
<1>7. c.addr \in Nat /\ c.length \in Nat
  BY <1>6, EntryProperties
<1>8. Live = {memory_map[i] : i \in DOMAIN memory_map} /\ Live \subseteq MemoryMapEntry
  BY LiveTyped DEF Live
<1> HIDE DEF K
<1>9. CASE c \in accepted
  <2>1. PICK e \in Live : e.typ = "Available" /\ Inside(c, e)
    BY <1>6, <1>9 DEF LoaderInv, Covered
  <2>2. PICK i \in DOMAIN memory_map : e = memory_map[i]
    BY <1>8
  <2>3. e.addr \in Nat /\ e.length \in Nat
    BY <1>8, EntryProperties
  <2>4. Inside(K, memory_map[i])
    BY <1>1, <1>6, <1>7, <2>1, <2>2, <2>3 DEF Inside, EndOf
  <2> QED
    BY <1>1, <1>2, <1>3, <2>1, <2>2, <2>4 DEF WellFormed, KernelPlaced, K, b
<1>10. CASE c \notin accepted
  <2>1. \A a \in accepted : Disjoint(c, a)
    BY <1>10 DEF LoaderInv, ReportsConverted
  <2>2. ASSUME NEW i \in DOMAIN memory_map PROVE Disjoint(K, memory_map[i])
    <3>1. memory_map[i] \in Live /\ memory_map[i] \in MemoryMapEntry
      BY <1>8
    <3>2. Disjoint(c, memory_map[i])
      BY <1>6, <2>1, <3>1, FreshApart
    <3>3. memory_map[i].addr \in Nat /\ memory_map[i].length \in Nat
      BY <3>1, EntryProperties
    <3> QED
      BY <1>1, <1>6, <1>7, <3>2, <3>3 DEF Disjoint, EndOf
  <2> QED
    BY <1>1, <1>2, <1>3, <2>2 DEF WellFormed, KernelPlaced, K, b
<1> QED
  BY <1>9, <1>10

\* kernel_start and kernel_end are the bounds of the kernel's frames.
LEMMA KernelBounds ==
    ASSUME NEW start \in Nat, NEW length \in Nat \ {0}
    PROVE  /\ Min(start .. start + length - 1) = start
           /\ Cardinality(start .. start + length - 1) = length
<1> DEFINE S == start .. start + length - 1
<1>1. start \in S /\ \A y \in S : start =< y
  OBVIOUS
<1>2. \A x \in S : (\A y \in S : x =< y) => x = start
  <2> TAKE x \in S
  <2> HAVE \A y \in S : x =< y
  <2>1. x =< start /\ start =< x
    BY <1>1
  <2> QED
    BY <2>1
<1>3. Cardinality(S) = length
  <2>1. Cardinality(S) = IF start > start + length - 1 THEN 0 ELSE (start + length - 1) - start + 1
    BY FS_Interval
  <2> QED
    BY <2>1
<1> HIDE DEF S
<1>4. Min(S) = start
  BY <1>1, <1>2 DEF Min
<1> QED
  BY <1>3, <1>4 DEF S

\* lock_region changes neither where a region starts nor how long it is.
LEMMA LockKeepsRegions ==
    ASSUME NEW rs, NEW addr \in Nat, NEW n \in Nat, \A k \in DOMAIN rs : rs[k] \in Frames!Region
    PROVE  /\ DOMAIN Frames!LockRegion(rs, addr, n) = DOMAIN rs
           /\ \A k \in DOMAIN rs :
                /\ Frames!LockRegion(rs, addr, n)[k] \in Frames!Region
                /\ Frames!LockRegion(rs, addr, n)[k].start = rs[k].start
                /\ Frames!LockRegion(rs, addr, n)[k].num_frames = rs[k].num_frames
<1>1. DOMAIN Frames!LockRegion(rs, addr, n) = DOMAIN rs
  BY DEF Frames!LockRegion
<1>2. ASSUME NEW k \in DOMAIN rs
      PROVE  /\ Frames!LockRegion(rs, addr, n)[k] \in Frames!Region
             /\ Frames!LockRegion(rs, addr, n)[k].start = rs[k].start
             /\ Frames!LockRegion(rs, addr, n)[k].num_frames = rs[k].num_frames
  <2>1. \/ Frames!LockRegion(rs, addr, n)[k] = rs[k]
        \/ /\ Frames!Fits(rs[k], addr, n)
           /\ Frames!LockRegion(rs, addr, n)[k] = Frames!LockFrames(rs[k], addr, n)
    BY DEF Frames!LockRegion
  <2>2. CASE Frames!LockRegion(rs, addr, n)[k] = rs[k]
    BY <2>2
  <2>3. CASE /\ Frames!Fits(rs[k], addr, n)
             /\ Frames!LockRegion(rs, addr, n)[k] = Frames!LockFrames(rs[k], addr, n)
    <3>1. (addr - rs[k].start .. addr - rs[k].start + n - 1) \subseteq Nat
      BY <2>3 DEF Frames!Fits, Frames!Region
    <3> QED
      BY <2>3, <3>1 DEF Frames!LockFrames, Frames!Region
  <2> QED
    BY <2>1, <2>2, <2>3
<1> QED
  BY <1>1, <1>2

\* The loader's state is what its invariant is about.
LEMMA LoaderUnchanged == LoaderInv /\ UNCHANGED loaderVars => LoaderInv'
BY DEF loaderVars, bootInfoVars, LoaderInv, LoaderTyped, ReportsConverted, LiveApart, Covered,
       OnlyAccepted, Live, FullyMerged, Loader!FullyMerged

\* The kernel starts.
LEMMA StartKernelInv ==
    ASSUME IInv, NEW start \in Nat, NEW length \in Nat \ {0}, NEW data, StartKernel(start, length, data)
    PROVE  IInv'
<1> DEFINE b == [memory_map |-> memory_map, kernel_start |-> start, kernel_length |-> length]
           rs0 == Frames!InitRegions(memory_map)
           rs1 == Frames!LockRegion(rs0, 0, Frames!LowPages)
<1>1. /\ entry = NoEntry /\ InLoaderMemory(start, length)
      /\ UNCHANGED loaderVars
      /\ Frames!CreateFrameAllocator(b)
  BY DEF StartKernel
<1>2. LoaderInv /\ LoaderInv'
  BY <1>1, LoaderUnchanged DEF IInv
<1>3. memory_map' = memory_map /\ entry' = NoEntry /\ reported' = reported
  BY <1>1 DEF loaderVars, bootInfoVars
<1>4. created' = TRUE /\ owned' = {}
  BY <1>1 DEF Frames!CreateFrameAllocator, IInv, RegionsOfMap
<1>5. regions' = Frames!LockRegion(rs1, start, length)
  BY <1>1 DEF Frames!CreateFrameAllocator
<1>6. \A k \in DOMAIN memory_map : memory_map[k] \in MemoryMapEntry
  BY <1>2, LiveTyped
<1>7. \A k \in DOMAIN rs0 :
        /\ k \in DOMAIN memory_map
        /\ memory_map[k].typ = "Available"
        /\ rs0[k] = [start |-> memory_map[k].addr, num_frames |-> memory_map[k].length, bitmap |-> {}]
  BY DEF Frames!InitRegions
<1>8. \A k \in DOMAIN rs0 :
        /\ rs0[k] \in Frames!Region
        /\ rs0[k].start = memory_map[k].addr
        /\ rs0[k].num_frames = memory_map[k].length
  <2> HIDE DEF rs0
  <2> TAKE k \in DOMAIN rs0
  <2>1. memory_map[k].addr \in Nat /\ memory_map[k].length \in Nat \ {0}
    BY <1>6, <1>7, EntryProperties
  <2> QED
    BY <1>7, <2>1 DEF Frames!Region
<1> HIDE DEF rs0
<1>9. /\ DOMAIN rs1 = DOMAIN rs0
      /\ \A k \in DOMAIN rs0 : /\ rs1[k] \in Frames!Region
                               /\ rs1[k].start = rs0[k].start
                               /\ rs1[k].num_frames = rs0[k].num_frames
  <2>1. 0 \in Nat /\ Frames!LowPages \in Nat
    BY DEF Frames!LowPages
  <2> QED
    BY <1>8, <2>1, LockKeepsRegions
<1> HIDE DEF rs1
<1>10. /\ DOMAIN regions' = DOMAIN rs0
       /\ \A k \in DOMAIN rs0 : /\ regions'[k] \in Frames!Region
                                /\ regions'[k].start = rs0[k].start
                                /\ regions'[k].num_frames = rs0[k].num_frames
  BY <1>5, <1>9, LockKeepsRegions
<1>11. RegionsOfMap'
  BY <1>3, <1>4, <1>7, <1>8, <1>10 DEF RegionsOfMap
<1>12. kernel' = start .. start + length - 1
  BY <1>1 DEF Frames!CreateFrameAllocator, Frames!PagesOf, Frames!EndOf, Frames!KernelOf
<1>13. HandsOverWellFormed'
  BY <1>1, <1>2, <1>3, <1>12, KernelBounds, StartWellFormed DEF HandsOverWellFormed
<1>14. OnlyAvailableHandedOut'
  BY <1>4 DEF OnlyAvailableHandedOut
<1> QED
  BY <1>2, <1>11, <1>13, <1>14 DEF IInv

\* The kernel takes and gives back frames.
LEMMA KernelStepInv ==
    ASSUME IInv, KernelStep
    PROVE  IInv'
<1>1. UNCHANGED loaderVars /\ UNCHANGED <<created, kernel>> /\ created
  BY DEF KernelStep, Frames!AllocFrame, Frames!AllocNone, Frames!FreeFrame
<1>2. LoaderInv /\ LoaderInv'
  BY <1>1, LoaderUnchanged DEF IInv
<1>3. memory_map' = memory_map /\ entry' = entry /\ reported' = reported
  BY <1>1 DEF loaderVars, bootInfoVars
<1>4. HandsOverWellFormed'
  BY <1>1, <1>3 DEF IInv, HandsOverWellFormed
<1>5. \A k \in DOMAIN regions :
        /\ regions[k] \in Frames!Region
        /\ k \in DOMAIN memory_map
        /\ memory_map[k].typ = "Available"
        /\ regions[k].start = memory_map[k].addr
        /\ regions[k].num_frames = memory_map[k].length
  BY <1>1 DEF IInv, RegionsOfMap
<1>6. ASSUME DOMAIN regions' = DOMAIN regions,
             \A k \in DOMAIN regions : /\ regions'[k] \in Frames!Region
                                       /\ regions'[k].start = regions[k].start
                                       /\ regions'[k].num_frames = regions[k].num_frames
      PROVE  RegionsOfMap'
  BY <1>1, <1>3, <1>5, <1>6 DEF RegionsOfMap, IInv
<1>7. CASE Frames!AllocFrame
  <2>0. PICK k \in DOMAIN regions : \E i \in Frames!Bits(regions[k]) :
          /\ regions' = [regions EXCEPT ![k].bitmap = @ \cup {i}]
          /\ owned' = owned \cup {regions[k].start + i}
    BY <1>7 DEF Frames!AllocFrame
  <2>1. PICK i \in Frames!Bits(regions[k]) :
          /\ regions' = [regions EXCEPT ![k].bitmap = @ \cup {i}]
          /\ owned' = owned \cup {regions[k].start + i}
    BY <2>0
  <2>2. i \in Nat /\ i < regions[k].num_frames
    BY <1>5 DEF Frames!Bits, Frames!Region
  <2>3. RegionsOfMap'
    BY <1>5, <1>6, <2>1, <2>2 DEF Frames!Region
  <2>4. regions[k].start + i \in PagesOf(memory_map[k])
    BY <1>5, <2>2 DEF PagesOf, EndOf, Frames!Region
  <2>5. \E d \in reported : regions[k].start + i \in PagesOf(d) /\ d.typ \in AvailableTypes
    BY <1>2, <1>5, <2>4, AvailablePage
  <2>6. OnlyAvailableHandedOut'
    BY <1>3, <2>1, <2>5 DEF IInv, OnlyAvailableHandedOut, AvailableTypes
  <2> QED
    BY <1>2, <1>4, <2>3, <2>6 DEF IInv
<1>8. CASE Frames!AllocNone
  <2>1. regions' = regions /\ owned' = owned
    BY <1>8 DEF Frames!AllocNone
  <2>2. OnlyAvailableHandedOut'
    BY <1>3, <2>1 DEF IInv, OnlyAvailableHandedOut
  <2> QED
    BY <1>2, <1>4, <1>5, <1>6, <2>1, <2>2 DEF IInv
<1>9. ASSUME NEW f \in owned, Frames!FreeFrame(f) PROVE IInv'
  <2>1. /\ DOMAIN regions' = DOMAIN regions
        /\ owned' = owned \ {f}
        /\ \A k \in DOMAIN regions :
             \/ regions'[k] = regions[k]
             \/ regions'[k] = [regions[k] EXCEPT !.bitmap = @ \ {f - regions[k].start}]
    BY <1>9 DEF Frames!FreeFrame
  <2>2. RegionsOfMap'
    BY <1>5, <1>6, <2>1 DEF Frames!Region
  <2>3. OnlyAvailableHandedOut'
    BY <1>3, <2>1 DEF IInv, OnlyAvailableHandedOut
  <2> QED
    BY <1>2, <1>4, <2>2, <2>3 DEF IInv
<1> QED
  BY <1>7, <1>8, <1>9 DEF KernelStep

\* The loader's steps happen before the kernel starts.
LEMMA BeforeKernel ==
    ASSUME IInv, ~created, UNCHANGED kernelVars, LoaderInv'
    PROVE  IInv'
BY DEF kernelVars, IInv, RegionsOfMap, OnlyAvailableHandedOut, HandsOverWellFormed

\* The kernel's pages are page numbers, and there is at least one.
LEMMA StartTyped ==
    ASSUME LoaderInv, NEW d \in reported, NEW start \in PagesOf(d), NEW length \in 1 .. d.length
    PROVE  start \in Nat /\ length \in Nat \ {0}
<1>1. d.addr \in Nat /\ d.length \in Nat
  BY DEF LoaderInv, ReportsConverted, EfiDescriptor
<1> QED
  BY <1>1 DEF PagesOf, EndOf

\* Init establishes the invariant.
LEMMA InitIInv == Init => IInv
<1> SUFFICES ASSUME Init PROVE IInv
  OBVIOUS
<1>1. LoaderInv
  BY InitLoaderInv
<1>2. ~created /\ owned = {}
  BY DEF Init, Frames!Init
<1> QED
  BY <1>1, <1>2 DEF IInv, RegionsOfMap, OnlyAvailableHandedOut, HandsOverWellFormed

\* Every step preserves the invariant.
LEMMA NextIInv == IInv /\ [Next]_vars => IInv'
<1> SUFFICES ASSUME IInv, [Next]_vars PROVE IInv'
  OBVIOUS
<1>0. LoaderInv
  BY DEF IInv
<1>1. ASSUME NEW d \in EfiDescriptors, AddDescriptor(d) PROVE IInv'
  <2>1. LoaderInv'
    BY <1>0, <1>1, AddDescriptorInv
  <2> QED
    BY <1>1, <2>1, BeforeKernel DEF AddDescriptor
<1>2. ASSUME NEW d \in EfiDescriptors, PanicOnDescriptor(d) PROVE IInv'
  <2>1. LoaderInv'
    BY <1>0, <1>2
       DEF PanicOnDescriptor, bootInfoVars, LoaderInv, LoaderTyped, ReportsConverted, LiveApart,
           Covered, OnlyAccepted, Live, FullyMerged, Loader!FullyMerged
  <2> QED
    BY <1>2, <2>1, BeforeKernel DEF PanicOnDescriptor
<1>3. CASE LoaderMerges
  <2>1. reported' = reported /\ UNCHANGED kernelVars
    BY <1>3 DEF LoaderMerges
  <2>2. ~created
    BY <1>3 DEF LoaderMerges, Loader!MergeEntry, Loader!StoreEntry, IInv, RegionsOfMap
  <2>3. LoaderInv'
    BY <1>0, <1>3, <2>1, MergeEntryInv, StoreEntryInv DEF LoaderMerges
  <2> QED
    BY <2>1, <2>2, <2>3, BeforeKernel
<1>4. ASSUME NEW d \in reported, NEW start \in PagesOf(d), NEW length \in 1 .. d.length, NEW data,
             StartKernel(start, length, data)
      PROVE  IInv'
  BY <1>0, <1>4, StartTyped, StartKernelInv
<1>5. CASE KernelStep
  BY <1>5, KernelStepInv
<1>6. CASE UNCHANGED vars
  <2>1. UNCHANGED loaderVars /\ UNCHANGED kernelVars
    BY <1>6 DEF vars
  <2>2. LoaderInv'
    BY <1>0, <2>1, LoaderUnchanged
  <2> QED
    BY <2>1, <2>2
       DEF loaderVars, bootInfoVars, kernelVars, IInv, RegionsOfMap, OnlyAvailableHandedOut,
           HandsOverWellFormed
<1> QED
  BY <1>1, <1>2, <1>3, <1>4, <1>5, <1>6 DEF Next

\* The invariant holds from the first descriptor to the last frame.
THEOREM Invariance == Spec => []IInv
BY InitIInv, NextIInv, PTL DEF Spec
-----------------------------------------------------------------------------
\* The map is merged completely whatever the firmware reports, in any order
\* and for any capacity of the map (add_memory_map_entry).
THEOREM MergedCompletely == Spec => []FullyMerged
<1>1. IInv => FullyMerged
  BY DEF IInv, LoaderInv
<1> QED
  BY <1>1, Invariance, PTL

\* Merging keeps exactly the pages that were accepted, type by type, at every
\* point of the loop.
THEOREM NoPageLost == Spec => []PagesPreserved
<1>1. IInv => PagesPreserved
  <2> SUFFICES ASSUME IInv, NEW t \in BootMemoryMapType
               PROVE  Loader!PagesOfType(Loader!LiveEntries, t) = Loader!PagesOfType(accepted, t)
    BY SameOperators DEF PagesPreserved, Loader!PagesPreserved
  <2>1. LoaderInv
    BY DEF IInv
  <2>2. Loader!LiveEntries = Live
    BY DEF Loader!LiveEntries, Live, Loader!Range
  <2>3. \A es, p : p \in Loader!PagesOfType(es, t) <=> \E e \in es : e.typ = t /\ p \in PagesOf(e)
    BY SameOperators DEF Loader!PagesOfType
  <2>4. ASSUME NEW p, NEW e \in Live, e.typ = t, p \in PagesOf(e)
        PROVE  \E a \in accepted : a.typ = t /\ p \in PagesOf(a)
    BY <2>1, <2>4 DEF LoaderInv, OnlyAccepted
  <2>5. ASSUME NEW p, NEW a \in accepted, a.typ = t, p \in PagesOf(a)
        PROVE  \E e \in Live : e.typ = t /\ p \in PagesOf(e)
    <3>1. PICK e \in Live : e.typ = a.typ /\ Inside(a, e)
      BY <2>1 DEF LoaderInv, Covered
    <3>2. a \in MemoryMapEntry /\ e \in MemoryMapEntry
      BY <2>1, LiveTyped
    <3> QED
      BY <2>5, <3>1, <3>2, InsidePages
  <2>6. \A p : p \in Loader!PagesOfType(Live, t) <=> p \in Loader!PagesOfType(accepted, t)
    BY <2>3, <2>4, <2>5
  <2> QED
    BY <2>2, <2>6
<1> QED
  BY <1>1, Invariance, PTL

\* Only memory that is free once boot services have ended is handed out.
THEOREM OnlyFreeMemory == Spec => []OnlyAvailableHandedOut
<1>1. IInv => OnlyAvailableHandedOut
  BY DEF IInv
<1> QED
  BY <1>1, Invariance, PTL

\* The loader always hands over a map the frame allocator can rely on.
THEOREM WellFormedHandedOver == Spec => []HandsOverWellFormed
<1>1. IInv => HandsOverWellFormed
  BY DEF IInv
<1> QED
  BY <1>1, Invariance, PTL

\* The kernel's side of the boot path implements FrameAllocator with well
\* formed boot information: FrameAllocator's BootInfoAssumption is
\* discharged, and the theorems of FrameAllocatorProofs hold of the system.
THEOREM ImplementsFrameAllocator == Spec => Frames!Spec
<1>1. Init => Frames!Init
  BY DEF Init
<1>2. IInv /\ [Next]_vars => [Frames!Next]_(Frames!vars)
  <2> SUFFICES ASSUME IInv, [Next]_vars PROVE [Frames!Next]_(Frames!vars)
    OBVIOUS
  <2>0. LoaderInv
    BY DEF IInv
  <2>1. ASSUME UNCHANGED kernelVars PROVE UNCHANGED Frames!vars
    BY <2>1 DEF kernelVars, Frames!vars
  <2>2. ASSUME NEW d \in EfiDescriptors, AddDescriptor(d) \/ PanicOnDescriptor(d)
        PROVE  UNCHANGED kernelVars
    BY <2>2 DEF AddDescriptor, PanicOnDescriptor
  <2>3. CASE LoaderMerges
    BY <2>1, <2>3 DEF LoaderMerges
  <2>4. ASSUME NEW d \in reported, NEW start \in PagesOf(d), NEW length \in 1 .. d.length, NEW data,
               StartKernel(start, length, data)
        PROVE  Frames!Next
    <3> DEFINE b == [memory_map |-> memory_map, kernel_start |-> start, kernel_length |-> length]
    <3>1. start \in Nat /\ length \in Nat \ {0}
      BY <2>0, StartTyped
    <3>2. WellFormed(b)
      BY <2>0, <2>4, <3>1, StartWellFormed DEF StartKernel
    <3>3. Frames!CreateFrameAllocator(b)
      BY <2>4 DEF StartKernel
    <3>4. b \in {x \in BootInfoType : WellFormed(x)}
      BY <3>2 DEF WellFormed
    <3> HIDE DEF b
    <3> QED
      BY <3>3, <3>4 DEF Frames!Next
  <2>5. CASE KernelStep
    BY <2>5 DEF KernelStep, Frames!Next
  <2>6. CASE UNCHANGED vars
    BY <2>1, <2>6 DEF vars
  <2> QED
    BY <2>1, <2>2, <2>3, <2>4, <2>5, <2>6 DEF Next
<1> QED
  BY <1>1, <1>2, Invariance, PTL DEF Spec, Frames!Spec
-----------------------------------------------------------------------------
\* The theorems about FrameAllocator, for the boot information of this module.
FrameProofs == INSTANCE FrameAllocatorProofs WITH BootInfos <- {b \in BootInfoType : WellFormed(b)}

\* Their assumptions hold.
LEMMA FrameAssumptions ==
    /\ \A b \in {b \in BootInfoType : WellFormed(b)} : FrameProofs!WellFormed(b)
    /\ NoFrame \notin Nat
BY NoFrameAssumption
   DEF FrameProofs!WellFormed, WellFormed, FrameProofs!AvailableDisjoint, AvailableDisjoint,
       FrameProofs!Disjoint, Disjoint, FrameProofs!EndOf, EndOf, FrameProofs!KernelPlaced,
       KernelPlaced, FrameProofs!Inside, Inside, FrameProofs!KernelOf, KernelOf,
       FrameProofs!BootInfoType, BootInfoType, FrameProofs!MemoryMapEntry, MemoryMapEntry,
       FrameProofs!BootMemoryMapType, BootMemoryMapType

\* The two instances of FrameAllocator are the same specification.
LEMMA SameFrameAllocator == Frames!Spec => FrameProofs!Spec
<1>1. Frames!Init => FrameProofs!Init
  BY DEF FrameProofs!Init, Frames!Init
<1>2. Frames!Next => FrameProofs!Next
  <2>1. ASSUME NEW b PROVE Frames!CreateFrameAllocator(b) <=> FrameProofs!CreateFrameAllocator(b)
    BY DEF FrameProofs!CreateFrameAllocator, Frames!CreateFrameAllocator, FrameProofs!LockRegion,
           Frames!LockRegion, FrameProofs!InitRegions, Frames!InitRegions, FrameProofs!LowPages,
           Frames!LowPages, FrameProofs!PagesOf, Frames!PagesOf, FrameProofs!KernelOf,
           Frames!KernelOf, FrameProofs!EndOf, Frames!EndOf, FrameProofs!Fits, Frames!Fits,
           FrameProofs!LockFrames, Frames!LockFrames
  <2>2. Frames!AllocFrame => FrameProofs!AllocFrame
    BY DEF FrameProofs!AllocFrame, Frames!AllocFrame, FrameProofs!HasFree, Frames!HasFree,
           FrameProofs!Bits, Frames!Bits, FrameProofs!FirstClear, Frames!FirstClear
  <2>3. Frames!AllocNone => FrameProofs!AllocNone
    BY DEF FrameProofs!AllocNone, Frames!AllocNone, FrameProofs!HasFree, Frames!HasFree,
           FrameProofs!Bits, Frames!Bits
  <2>4. \A f : Frames!FreeFrame(f) => FrameProofs!FreeFrame(f)
    BY DEF FrameProofs!FreeFrame, Frames!FreeFrame, FrameProofs!Contains, Frames!Contains
  <2> QED
    BY <2>1, <2>2, <2>3, <2>4 DEF Frames!Next, FrameProofs!Next
<1>3. UNCHANGED Frames!vars => UNCHANGED FrameProofs!vars
  BY DEF Frames!vars, FrameProofs!vars
<1> QED
  BY <1>1, <1>2, <1>3, PTL DEF FrameProofs!Spec, Frames!Spec

\* The whole boot path: whatever the firmware reports, and whatever frames are
\* taken and given back afterwards, no frame of the kernel image, its heap or
\* its boot stack is handed out or free.
THEOREM KernelSafeFromFirmware == Spec => []Frames!KernelNeverHandedOut
<1>1. FrameProofs!Spec => []FrameProofs!KernelNeverHandedOut
  BY FrameProofs!KernelSafe, FrameAssumptions, PTL
<1>2. FrameProofs!KernelNeverHandedOut => Frames!KernelNeverHandedOut
  BY DEF FrameProofs!KernelNeverHandedOut, Frames!KernelNeverHandedOut, FrameProofs!FreeFrames,
         Frames!FreeFrames, FrameProofs!FreeOf, Frames!FreeOf, FrameProofs!ClearFrames,
         Frames!ClearFrames, FrameProofs!Bits, Frames!Bits
<1> QED
  BY <1>1, <1>2, ImplementsFrameAllocator, SameFrameAllocator, PTL
=============================================================================
