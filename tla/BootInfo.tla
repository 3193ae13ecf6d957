------------------------------ MODULE BootInfo ------------------------------
(***************************************************************************)
(* The memory map of BootInfo, shared/boot/src/lib.rs, as the loader fills *)
(* it from the firmware's descriptors (uefi-loader/src/main.rs).  The      *)
(* merge loop of add_memory_map_entry deletes a stored entry in every      *)
(* iteration; an iteration is one step here, and `entry' holds the entry   *)
(* being merged until it is stored.                                        *)
(***************************************************************************)
EXTENDS MemoryMap, SequencesExt

CONSTANTS Descriptors,             \* what the loader may add, a set of MemoryMapEntry
          MaxMemoryMapEntries,     \* MAX_MEMORY_MAP_ENTRIES
          NoEntry                  \* no call of add_memory_map_entry is running

VARIABLES memory_map,      \* memory_map[..num_memory_map_entries]
          entry,           \* the local `entry' of add_memory_map_entry
          offered,         \* the descriptors the loader has passed so far
          accepted         \* those that did not find the map full

vars == <<memory_map, entry, offered, accepted>>

Init ==
    /\ memory_map = << >>
    /\ entry = NoEntry
    /\ offered = {}
    /\ accepted = {}

\* The firmware never reports a page twice.
FirmwareMay(d) == \A e \in offered : Disjoint(d, e)

\* add_memory_map_entry, up to the merge loop.
AddMemoryMapEntry(d) ==
    /\ entry = NoEntry
    /\ FirmwareMay(d)
    /\ Len(memory_map) < MaxMemoryMapEntries
    /\ entry' = d
    /\ offered' = offered \cup {d}
    /\ accepted' = accepted \cup {d}
    /\ UNCHANGED memory_map

\* add_memory_map_entry on a full map answers None; the loader ignores it.
RefuseMemoryMapEntry(d) ==
    /\ entry = NoEntry
    /\ FirmwareMay(d)
    /\ Len(memory_map) >= MaxMemoryMapEntries
    /\ offered' = offered \cup {d}
    /\ UNCHANGED <<memory_map, entry, accepted>>

\* Mutant of Mergeable: entries of different types are merged.
MergeableAnyType(i) == Overlaps(memory_map[i], entry)

\* The stored entry at index i is one the loop merges with.
Mergeable(i) ==
    memory_map[i].typ = entry.typ /\ Overlaps(memory_map[i], entry)

\* Mutant of MergeEntry: takes one off for ends that are not inclusive.
MergeEntryInclusive ==
    /\ entry # NoEntry
    /\ \E i \in DOMAIN memory_map :
         /\ Mergeable(i)
         /\ \A j \in DOMAIN memory_map : j < i => ~Mergeable(j)
         /\ entry' =
              [addr |-> IF entry.addr <= memory_map[i].addr
                        THEN entry.addr ELSE memory_map[i].addr,
               length |-> entry.length + memory_map[i].length - 1,
               typ |-> entry.typ]
         /\ memory_map' = RemoveAt(memory_map, i)
    /\ UNCHANGED <<offered, accepted>>

\* One iteration of the merge loop that finds an entry: the first one.
MergeEntry ==
    /\ entry # NoEntry
    /\ \E i \in DOMAIN memory_map :
         /\ Mergeable(i)
         /\ \A j \in DOMAIN memory_map : j < i => ~Mergeable(j)
         /\ entry' =
              [addr |-> IF entry.addr <= memory_map[i].addr
                        THEN entry.addr ELSE memory_map[i].addr,
               length |-> entry.length + memory_map[i].length,
               typ |-> entry.typ]
         /\ memory_map' = RemoveAt(memory_map, i)    \* delete_memory_map_entry
    /\ UNCHANGED <<offered, accepted>>

\* Mutant of StoreEntry: the loop may end while an entry is mergeable.
StoreEntryEarly ==
    /\ entry # NoEntry
    /\ memory_map' = Append(memory_map, entry)
    /\ entry' = NoEntry
    /\ UNCHANGED <<offered, accepted>>

\* The loop finds no entry, and the merged entry is stored.
StoreEntry ==
    /\ entry # NoEntry
    /\ \A i \in DOMAIN memory_map : ~Mergeable(i)
    /\ memory_map' = Append(memory_map, entry)
    /\ entry' = NoEntry
    /\ UNCHANGED <<offered, accepted>>

Next ==
    \/ \E d \in Descriptors : AddMemoryMapEntry(d) \/ RefuseMemoryMapEntry(d)
    \/ MergeEntry
    \/ StoreEntry

Spec == Init /\ [][Next]_vars
-----------------------------------------------------------------------------
TypeOK ==
    /\ memory_map \in Seq(MemoryMapEntry)
    /\ Len(memory_map) <= MaxMemoryMapEntries
    /\ entry \in MemoryMapEntry \cup {NoEntry}
    /\ (entry # NoEntry => Len(memory_map) < MaxMemoryMapEntries)
    /\ offered \subseteq MemoryMapEntry
    /\ accepted \subseteq offered

\* Entries of one type are merged completely, transitively and whatever the
\* order the firmware reports them in: no two stored entries of a type even
\* touch.  Locking the low pages depends on it: the firmware may report them
\* in several descriptors, and lock_region only locks a range that one entry
\* covers.
FullyMerged ==
    \A i, j \in DOMAIN memory_map :
        (i # j /\ memory_map[i].typ = memory_map[j].typ)
            => ~Overlaps(memory_map[i], memory_map[j])

\* The entries add_memory_map_entry works on: the stored ones and `entry'.
LiveEntries == Range(memory_map) \cup ({entry} \ {NoEntry})

PagesOfType(es, t) == UNION {PagesOf(e) : e \in {x \in es : x.typ = t}}

\* Merging neither loses nor invents a page, at any point of the loop: the
\* merged length is the sum of the lengths although overlaps counts
\* inclusive ends.
PagesPreserved ==
    \A t \in BootMemoryMapType :
        PagesOfType(LiveEntries, t) = PagesOfType(accepted, t)
=============================================================================
