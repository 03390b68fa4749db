------------------------------- MODULE Tables -------------------------------
(* The kernel's page tables below level 4 (kernel/src/memory/paging.rs):      *)
(* mapping a frame, unmapping with the reclaiming of emptied tables, changing *)
(* flags, and splitting huge pages.  Every lock section of PAGING is a step.  *)
(* A page is <<i, j, k>>, its indices in the P3, P2 and P1; one P3 is shared  *)
(* by every address space and never freed.  What the processors may hold is   *)
(* the tables in their paging-structure caches; the invalidation of single    *)
(* translations is the subject of module Stacks.                              *)
EXTENDS Naturals, FiniteSets, Sequences

CONSTANTS
    TableCpu,    \* processors
    TableFrame,  \* frames the allocator has for tables
    SmallPage,   \* pages mapped one by one
    WindowPage,  \* pages of the window the bootloader mapped with huge pages
    DevicePage   \* the page of the window that holds the APIC's registers

TableIndex == {0, 1}
TablePage == SmallPage \cup WindowPage
Root == 0
ASSUME TablesAssumption ==
    /\ Root \notin TableFrame
    /\ SmallPage \subseteq {<<0, j, k>> : j \in TableIndex, k \in TableIndex}
    /\ WindowPage = {<<1, j, k>> : j \in TableIndex, k \in TableIndex}
    /\ DevicePage \in WindowPage

VARIABLES
    tables,     \* the entries of every table
    unused,     \* table frames with the allocator
    promised,   \* what the callers were told each page maps to
    op,         \* what each processor is in the middle of
    walked      \* tables each processor may have cached a pointer to

tableVars == <<tables, unused, promised, op, walked>>

NoEntry == [kind |-> "none"]
Leaf(at, flags, size) ==
    [kind |-> "leaf", at |-> at, flags |-> flags, size |-> size]
Below(frame, flags) == [kind |-> "table", frame |-> frame, flags |-> flags]
EmptyTable == [i \in TableIndex |-> NoEntry]

\* The frame page <<i, j, k>> stands for, in the window and in a device alike.
TableAt(p) == 4 * p[1] + 2 * p[2] + p[3]

Settled == [step |-> "none"]

\* The window is one entry of 1 GiB, writable and not executable.
TablesInit ==
    /\ tables = [f \in TableFrame \cup {Root} |->
                    IF f = Root
                    THEN [i \in TableIndex |-> IF i = 1 THEN Leaf(4, {"W", "NX"}, 4)
                                                   ELSE NoEntry]
                    ELSE EmptyTable]
    /\ unused = TableFrame
    /\ promised = [p \in TablePage |->
                      IF p \in WindowPage THEN Leaf(TableAt(p), {"W", "NX"}, 1)
                                          ELSE NoEntry]
    /\ op = [c \in TableCpu |-> Settled]
    /\ walked = [c \in TableCpu |-> {}]

-----------------------------------------------------------------------------
(* Walking the tables.                                                       *)

Entry(t, p, level) ==
    LET e3 == t[Root][p[1]]
        e2 == IF e3.kind = "table" THEN t[e3.frame][p[2]] ELSE NoEntry
        e1 == IF e2.kind = "table" THEN t[e2.frame][p[3]] ELSE NoEntry
    IN  CASE level = 3 -> e3 [] level = 2 -> e2 [] level = 1 -> e1

Path(t, p) == <<Entry(t, p, 3), Entry(t, p, 2), Entry(t, p, 1)>>

\* The tables below the root that lead to p.
Leading(t, p) ==
    {e.frame : e \in {f \in {Entry(t, p, 3), Entry(t, p, 2)} : f.kind = "table"}}

\* What the hardware makes of a page: every level must allow a write, any
\* level can forbid execution; other flags are the leaf's.
Translation(t, p) ==
    LET leaves == {n \in 1 .. 3 : Path(t, p)[n].kind = "leaf"}
    IN  IF leaves = {} THEN NoEntry
        ELSE LET n == CHOOSE m \in leaves : TRUE
                 leaf == Path(t, p)[n]
                 above == {Path(t, p)[m].flags : m \in 1 .. n - 1}
                 denied == IF \A a \in above : "W" \in a THEN {} ELSE {"W"}
                 added == IF \E a \in above : "NX" \in a THEN {"NX"} ELSE {}
             IN  Leaf(leaf.at + (TableAt(p) % leaf.size),
                      (leaf.flags \ denied) \cup added, 1)

\* A processor's own walk leaves the tables it used in its cache.
Walks(c, p) ==
    /\ walked' = [walked EXCEPT ![c] = @ \cup Leading(tables, p)]
    /\ UNCHANGED <<tables, unused, promised, op>>

-----------------------------------------------------------------------------
(* Lock sections.                                                            *)

FrameFrom(free) == CHOOSE f \in free : \A g \in free : f <= g

\* create_next_table of the x86_64 crate: entry i of a table, if it leads
\* nowhere, gets a fresh table, if the allocator has one.
Grown(m, frame, i) ==
    IF m.tables[frame][i].kind # "none" \/ m.unused = {} THEN m
    ELSE LET f == FrameFrom(m.unused)
         IN  [tables |-> [m.tables EXCEPT ![frame][i] = Below(f, {"W"}),
                                          ![f] = EmptyTable],
              unused |-> m.unused \ {f}]

\* The P2 and then the P1 of p.  When the allocator runs dry after the P2, the
\* empty P2 stays linked.
GrownFor(p) ==
    LET first == Grown([tables |-> tables, unused |-> unused], Root, p[1])
        e3 == Entry(first.tables, p, 3)
    IN  IF e3.kind = "table" THEN Grown(first, e3.frame, p[2]) ELSE first

\* map_to_frame_in, of a page that is not mapped.
MapToFrame(c, p) ==
    /\ op[c] = Settled
    /\ p \in SmallPage
    /\ promised[p] = NoEntry
    /\ LET m == GrownFor(p)
           e2 == Entry(m.tables, p, 2)
       IN  /\ unused' = m.unused
           /\ IF e2.kind = "table"
              THEN /\ tables' = [m.tables EXCEPT ![e2.frame][p[3]] =
                                                     Leaf(TableAt(p), {"W"}, 1)]
                   /\ promised' = [promised EXCEPT ![p] = Leaf(TableAt(p), {"W"}, 1)]
              ELSE /\ tables' = m.tables
                   /\ UNCHANGED promised
    /\ UNCHANGED <<op, walked>>

\* The first lock section of unmap_in: one level 1 entry is cleared.
Unmap(c, p) ==
    /\ op[c] = Settled
    /\ p \in SmallPage
    /\ promised[p] # NoEntry
    /\ tables' = [tables EXCEPT ![Entry(tables, p, 2).frame][p[3]] = NoEntry]
    /\ promised' = [promised EXCEPT ![p] = NoEntry]
    /\ op' = [op EXCEPT ![c] = [step |-> "reclaim", page |-> p]]
    /\ UNCHANGED <<unused, walked>>

IsEmpty(t, frame) == t[frame] = EmptyTable

\* reclaim_empty_tables, bottom up: the P1 if it is empty, then the P2 if that
\* left it empty.  Whether they are is looked at again under the lock.
Reclaimed(p) ==
    LET e3 == Entry(tables, p, 3)
        e2 == Entry(tables, p, 2)
        noP1 == [tables EXCEPT ![e3.frame][p[2]] = NoEntry]
        noP2 == [noP1 EXCEPT ![Root][p[1]] = NoEntry]
    IN  CASE e3.kind # "table" \/ e2.kind # "table" \/ ~IsEmpty(tables, e2.frame) ->
                 [tables |-> tables, detached |-> {}]
          [] IsEmpty(noP1, e3.frame) ->
                 [tables |-> noP2, detached |-> {e2.frame, e3.frame}]
          [] OTHER -> [tables |-> noP1, detached |-> {e2.frame}]

\* The second lock section, reclaim_tables_for: with a table detached, this
\* processor drops its cached structures, and the others are asked to.
ReclaimTables(c) ==
    /\ op[c].step = "reclaim"
    /\ LET r == Reclaimed(op[c].page)
       IN  /\ tables' = r.tables
           /\ IF r.detached = {}
              THEN op' = [op EXCEPT ![c] = Settled] /\ UNCHANGED walked
              ELSE /\ op' = [op EXCEPT ![c] = [step |-> "shoot",
                                               free |-> r.detached,
                                               asked |-> TableCpu \ {c},
                                               next |-> Settled]]
                   /\ walked' = [walked EXCEPT ![c] = {}]
    /\ UNCHANGED <<unused, promised>>

\* Another processor handles the shootdown: everything cached goes.
HandleShootdown(c, d) ==
    /\ op[c].step = "shoot"
    /\ d \in op[c].asked
    /\ op' = [op EXCEPT ![c].asked = @ \ {d}]
    /\ walked' = [walked EXCEPT ![d] = {}]
    /\ UNCHANGED <<tables, unused, promised>>

\* A bug to be caught: the tables are freed while the others are still being asked.
FreeDetachedAtOnce(c) ==
    /\ op[c].step = "shoot"
    /\ unused' = unused \cup op[c].free
    /\ op' = [op EXCEPT ![c].free = {}]
    /\ UNCHANGED <<tables, promised, walked>>

\* shoot_down_and_free returns from the shootdown and frees what was detached.
FreeDetached(c) ==
    /\ op[c].step = "shoot"
    /\ op[c].asked = {}
    /\ unused' = unused \cup op[c].free
    /\ op' = [op EXCEPT ![c] = op[c].next]
    /\ UNCHANGED <<tables, promised, walked>>

-----------------------------------------------------------------------------
(* narrow_physical_window_alias: split until the page is 4 KiB, then change  *)
(* its memory type.                                                          *)

\* A permissive parent: the leaves carry what the huge entry said.
ParentFlags(flags) == {"W"}

\* populate_split: a table of entries half the size covering the same memory.
SplitTable(e) ==
    [i \in TableIndex |-> Leaf(e.at + i * (e.size \div 2), e.flags, e.size \div 2)]

Split(c, p) ==
    /\ \/ op[c] = Settled
       \/ op[c].step = "split" /\ op[c].page = p
    /\ p = DevicePage
    /\ LET e3 == Entry(tables, p, 3)
           e2 == Entry(tables, p, 2)
           huge == IF e3.kind = "leaf" THEN e3 ELSE e2
           f == FrameFrom(unused)
       IN  /\ huge.kind = "leaf"
           /\ IF unused = {}
              THEN /\ op' = [op EXCEPT ![c] = Settled]
                   /\ UNCHANGED <<tables, unused, walked>>
              ELSE /\ tables' =
                        [tables EXCEPT
                            ![f] = SplitTable(huge),
                            ![IF e3.kind = "leaf" THEN Root ELSE e3.frame]
                             [IF e3.kind = "leaf" THEN p[1] ELSE p[2]] =
                                Below(f, ParentFlags(huge.flags))]
                   /\ unused' = unused \ {f}
                   /\ op' = [op EXCEPT ![c] = [step |-> "shoot", free |-> {},
                                 asked |-> TableCpu \ {c},
                                 next |-> [step |-> "split", page |-> p]]]
                   /\ walked' = [walked EXCEPT ![c] = {}]
    /\ UNCHANGED promised

\* The loop finds the page described by a 4 KiB entry, and set_flags adds
\* NO_CACHE to that entry alone.
Narrow(c, p) ==
    /\ op[c] = Settled \/ (op[c].step = "split" /\ op[c].page = p)
    /\ p = DevicePage
    /\ Entry(tables, p, 1).kind = "leaf"
    /\ tables' = [tables EXCEPT ![Entry(tables, p, 2).frame][p[3]].flags =
                                    @ \cup {"NC"}]
    /\ promised' = [promised EXCEPT ![p].flags = @ \cup {"NC"}]
    /\ op' = [op EXCEPT ![c] = Settled]
    /\ UNCHANGED <<unused, walked>>

TablesNext ==
    \E c \in TableCpu :
        \/ ReclaimTables(c)
        \/ FreeDetached(c)
        \/ \E d \in TableCpu : HandleShootdown(c, d)
        \/ \E p \in TablePage : \/ Walks(c, p)
                           \/ MapToFrame(c, p)
                           \/ Unmap(c, p)
                           \/ Split(c, p)
                           \/ Narrow(c, p)

TablesSpec == TablesInit /\ [][TablesNext]_tableVars

-----------------------------------------------------------------------------

Linked == UNION {Leading(tables, p) : p \in TablePage}
HeldTables == UNION {op[c].free : c \in {d \in TableCpu : op[d].step = "shoot"}}

\* Through every interleaving of lock sections a walk of the tables gives each
\* page what its last map, unmap or change of flags asked for, splitting a huge
\* page changes no page's meaning, no table is at once linked and free or about
\* to be freed, and no free table is one some processor may still walk through.
TablesSound ==
    /\ \A p \in TablePage : Translation(tables, p) = promised[p]
    /\ Linked \cap (unused \cup HeldTables) = {}
    /\ \A c \in TableCpu : walked[c] \cap unused = {}

=============================================================================
