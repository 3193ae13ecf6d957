----------------------------- MODULE PageTable -----------------------------
(***************************************************************************)
(* One page table under the operations of kernel/src/arch/x86_64/          *)
(* page_table.rs, beside what the callers believe is mapped.               *)
(***************************************************************************)
EXTENDS PagePool

CONSTANTS Pages4K,         \* the pages mapped with 4K entries
          Areas2M,         \* first pages of the areas mapped with 2M entries
          DeviceFrame      \* physical memory outside the pool

ASSUME AreasAssumption ==
    /\ Pages4K \subseteq AllPages
    /\ Areas2M \subseteq {v \in AllPages : v % Entries = 0}
    /\ DeviceFrame \in Nat
    /\ \A i \in 0 .. Entries - 1 : DeviceFrame + i \notin Frames

VARIABLES root,            \* PageTable.table
          mapped,          \* callers: the frame each page should translate to
          leftover         \* the PRESENT entries of the frame create took

tableVars == <<mem, free, root, mapped, panicked, leftover, wild>>

\* PageTable::create takes a frame and does not clear it: whatever it held
\* are now entries of the top level.
TableInit ==
    /\ leftover \in SUBSET (0 .. Entries - 1)
    /\ root = Min(Frames)
    /\ mem = [f \in Frames |-> IF f = root THEN PartlyStale(f, leftover) ELSE StaleTable(f)]
    /\ free = Frames \ {root}
    /\ mapped = [v \in AllPages |-> NoFrame]
    /\ panicked = FALSE
    /\ wild = FALSE

\* The walk to v starts at an entry that was not PRESENT in that frame.
Clear(v) == Index(v)[1] \notin leftover

\* map_raw of a page under a leftover entry follows it and writes to
\* wherever it leads.  Nothing is known from there on.
Stray(v) ==
    /\ ~panicked /\ ~wild
    /\ ~Clear(v)
    /\ wild' = TRUE
    /\ UNCHANGED <<mem, free, root, mapped, panicked, leftover>>

\* A fresh frame is mapped at v, as map_region and map_in_userspace do; an
\* existing 4K mapping is silently replaced.  A None of alloc_frame or of
\* map_raw panics.
Map4K(v) ==
    /\ ~panicked /\ ~wild
    /\ Clear(v)
    /\ IF free = {}
       THEN panicked' = TRUE /\ UNCHANGED <<mem, free, mapped>>
       ELSE LET frame == Min(free)
                r == MapRaw(mem, Taken(free, frame), root, v, frame, Page4K)
            IN  /\ mem' = r.mem
                /\ free' = r.free
                /\ panicked' = ~r.ok
                /\ mapped' = IF r.ok THEN [mapped EXCEPT ![v] = frame] ELSE mapped
    /\ UNCHANGED <<root, leftover, wild>>

\* A 2M page of physical memory, as initialize maps it.  None also when a
\* 4K page has been mapped in the area.
Map2M(v) ==
    /\ ~panicked /\ ~wild
    /\ Clear(v)
    /\ LET r == MapRaw(mem, free, root, v, DeviceFrame, Page2M)
       IN  /\ mem' = r.mem
           /\ free' = r.free
           /\ panicked' = ~r.ok
           /\ mapped' = IF r.ok
                        THEN [w \in AllPages |->
                                IF v <= w /\ w < v + Entries THEN DeviceFrame + (w - v)
                                                             ELSE mapped[w]]
                        ELSE mapped
    /\ UNCHANGED <<root, leftover, wild>>

\* The callers keep 4K pages and 2M areas apart.
NotIn2M(v) ==
    LET tables == TablesOn(mem, root, v)
        k == DepthOf(tables)
    IN  "SIZE" \notin mem[tables[k]][Index(v)[k]].flags

\* PageTable::unmap_raw of a mapped page; its callers' Option is ignored.
Unmap(v) ==
    /\ ~panicked /\ ~wild
    /\ mapped[v] # NoFrame
    /\ LET r == UnmapRaw(mem, free, root, v)
       IN  mem' = r.mem /\ free' = r.free
    /\ mapped' = [mapped EXCEPT ![v] = NoFrame]
    /\ UNCHANGED <<root, panicked, leftover, wild>>

TableNext ==
    \/ \E v \in Pages4K : NotIn2M(v) /\ Map4K(v)
    \/ \E v \in Areas2M : Map2M(v)
    \/ \E v \in Pages4K \cup Areas2M : Stray(v)

TableSpec == TableInit /\ [][TableNext]_tableVars

\* unmap_raw has no caller: the one in initialize is commented out.
UnmapSpec == TableInit /\ [][TableNext \/ \E v \in Pages4K : Unmap(v)]_tableVars
-----------------------------------------------------------------------------
TableTypeOK ==
    /\ mem \in [Frames -> [0 .. Entries - 1 ->
                    [flags : SUBSET EntryFlags, frame : Nat \cup {NoFrame}]]]
    /\ free \subseteq Frames
    /\ root \in Frames \ free
    /\ mapped \in [AllPages -> Nat \cup {NoFrame}]
    /\ panicked \in BOOLEAN
    /\ leftover \subseteq 0 .. Entries - 1
    /\ wild \in BOOLEAN

ClearPages == {v \in AllPages : Clear(v)}

\* Whatever create found in the root's frame, as long as nothing has been
\* mapped through it: after any sequence of map operations every page that
\* none of it covers translates to what it was last mapped to and no other
\* page is affected, although tables are shared and created on the way from
\* frames that are as dirty.
TranslatesAsMapped ==
    ~wild => \A v \in ClearPages : Translate(mem, root, v) = mapped[v]

\* The frames of tables, the frames callers have mapped and the free frames
\* are kept apart: no table is overwritten as a data page or handed out, even
\* when frames run out in the middle of map_raw.
TablesProtected ==
    ~wild =>
        LET walks == {TablesOn(mem, root, v)[k] : v \in ClearPages, k \in 1 .. Levels}
            tables == ({root} \cup walks) \ {NoFrame}
        IN  /\ tables \cap free = {}
            /\ tables \cap {mapped[v] : v \in AllPages} = {}
            /\ free \cap {mapped[v] : v \in AllPages} = {}

\* unmap_raw is meant to remove the mapping: "Unmap the mappings from 0-1GiB
\* those mappings are from the boot and we need to unmap those".
UnmapRemoves == TranslatesAsMapped
=============================================================================
