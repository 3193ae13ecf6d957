------------------------------ MODULE PageWalk ------------------------------
(***************************************************************************)
(* Page tables in physical memory, kernel/src/arch/x86_64/page_table.rs.   *)
(* A physical memory is a function from frames to tables, a table one from *)
(* indices to entries.  A virtual page is its number.  The code has four   *)
(* levels of 512 entries; level 1 here is the code's p4 and level Levels   *)
(* its p1.  A 4K page is an entry of the last level, a 2M page one of the  *)
(* level before it.                                                        *)
(***************************************************************************)
EXTENDS Integers, FiniteSets, FiniteSetsExt

CONSTANTS Levels, Entries, NoFrame

ASSUME LevelsAssumption == Levels \in Nat /\ Levels >= 2
ASSUME EntriesAssumption == Entries \in Nat /\ Entries >= 2

Page4K == Levels
Page2M == Levels - 1

\* Entry: of the flags, PRESENT and SIZE decide where a walk leads.
EntryFlags == {"PRESENT", "SIZE"}
Empty == [flags |-> {}, frame |-> NoFrame]
ZeroTable == [i \in 0 .. Entries - 1 |-> Empty]

Present(e) == "PRESENT" \in e.flags
IsTable(e) == Present(e) /\ "SIZE" \notin e.flags

\* Entry::set_flags sets bits and clears none.
SetFlags(e, flags) == [e EXCEPT !.flags = @ \cup flags]

\* The pages under n levels of tables.
Span[n \in 0 .. Levels] == IF n = 0 THEN 1 ELSE Entries * Span[n - 1]
AllPages == 0 .. Span[Levels] - 1

\* PageTable::index: the digits of the page number.
Index(v) == [k \in 1 .. Levels |-> (v \div Span[Levels - k]) % Entries]

\* PageTable::translate_mapping: the tables a walk from root to v visits,
\* by level; NoFrame from the level on that it does not reach.
TablesOn(mem, root, v) ==
    LET tables[k \in 1 .. Levels] ==
            IF k = 1 THEN root
            ELSE IF tables[k - 1] = NoFrame THEN NoFrame
            ELSE LET e == mem[tables[k - 1]][Index(v)[k - 1]]
                 IN  IF IsTable(e) THEN e.frame ELSE NoFrame
    IN  tables

\* The level of the last entry a walk reads.
DepthOf(tables) == Max({k \in 1 .. Levels : tables[k] # NoFrame})

\* What the processor makes of a walk: the frame of v, or NoFrame.
Translate(mem, root, v) ==
    LET tables == TablesOn(mem, root, v)
        k == DepthOf(tables)
        e == mem[tables[k]][Index(v)[k]]
    IN  IF Present(e) /\ (k = Levels \/ "SIZE" \in e.flags)
        THEN e.frame + (v % Span[Levels - k])
        ELSE NoFrame

\* A frame as its last user left it: something that looks like tables.
StaleTable(f) == [i \in 0 .. Entries - 1 |-> [flags |-> {"PRESENT"}, frame |-> f]]

\* A frame that only the entries in L make look like a table.  Of an entry
\* that is not PRESENT the code uses nothing else.
PartlyStale(f, L) == [i \in 0 .. Entries - 1 |-> IF i \in L THEN StaleTable(f)[i] ELSE Empty]

\* Mutant of NewTable: the new table is not cleared.
NewTableDirty(old) == old

\* write_bytes in map_raw_option.
NewTable(old) == ZeroTable

\* Mutant of Taken: the bit of the frame is not set.
TakenLater(free, f) == free

\* alloc_frame: frame f leaves the pool.
Taken(free, f) == free \ {f}

\* PageTable::map_raw and map_raw_user with map_raw_option: the missing
\* tables are taken from the frame allocator (the lowest free frame), zeroed
\* and linked one after the other.  `ok' is FALSE for None: a table already
\* stands where a large page should go, or no frame is left, in which case
\* the tables linked so far stay.
MapRaw(mem, free, root, v, frame, depth) ==
    LET tables == TablesOn(mem, root, v)
        idx == Index(v)
        linked[k \in 1 .. depth] ==
            IF k = 1 THEN [mem |-> mem, free |-> free, table |-> root, ok |-> TRUE]
            ELSE LET s == linked[k - 1] IN
                 IF ~s.ok THEN s
                 ELSE IF tables[k] # NoFrame THEN [s EXCEPT !.table = tables[k]]
                 ELSE IF s.free = {} THEN [s EXCEPT !.ok = FALSE]
                 ELSE LET new == Min(s.free) IN
                      [mem |-> [s.mem EXCEPT
                           ![new] = NewTable(@),
                           ![s.table][idx[k - 1]] = [flags |-> {"PRESENT"}, frame |-> new]],
                       free |-> Taken(s.free, new), table |-> new, ok |-> TRUE]
        done == linked[depth]
        leaf == [flags |-> IF depth = Page4K THEN {"PRESENT"} ELSE {"PRESENT", "SIZE"},
                 frame |-> frame]
    IN  IF depth < Levels /\ tables[depth + 1] # NoFrame
        THEN [mem |-> mem, free |-> free, ok |-> FALSE]
        ELSE [mem |-> IF done.ok THEN [done.mem EXCEPT ![done.table][idx[depth]] = leaf]
                                 ELSE done.mem,
              free |-> done.free, ok |-> done.ok]

\* The flags that unmap_raw writes back: PRESENT is removed from a copy of
\* the flags, and the copy is or-ed into the entry.
ClearPresent(e) == SetFlags(e, e.flags \ {"PRESENT"})

\* PageTable::unmap_raw: clear the last entry of the walk, then from the
\* last level up free each table without a present entry (check_free_table)
\* and clear the entry that leads to it.
UnmapRaw(mem, free, root, v) ==
    LET tables == TablesOn(mem, root, v)
        idx == Index(v)
        last == DepthOf(tables)
        cleared(m, k) == [m EXCEPT ![tables[k]][idx[k]] = ClearPresent(@)]
        \* up[k]: the tables of levels last .. k + 1 have been looked at
        up[k \in 1 .. last] ==
            IF k = last THEN [mem |-> cleared(mem, last), free |-> free]
            ELSE LET s == up[k + 1] IN
                 IF \E i \in 0 .. Entries - 1 : Present(s.mem[tables[k + 1]][i])
                 THEN s
                 ELSE [mem |-> cleared(s.mem, k), free |-> s.free \cup {tables[k + 1]}]
    IN  up[1]

\* The frames that are tables of root: those that some walk visits.
TableFrames(mem, root) ==
    {TablesOn(mem, root, v)[k] : v \in AllPages, k \in 1 .. Levels} \ {NoFrame}
=============================================================================
