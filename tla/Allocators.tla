----------------------------- MODULE Allocators -----------------------------
(***************************************************************************)
(* The kernel's two allocators.  One lock covers each call of either, so a *)
(* call is a step.                                                         *)
(***************************************************************************)
EXTENDS Integers, Sequences, FiniteSets, FiniteSetsExt, SequencesExt

(***************************************************************************)
(* The kernel heap: a free list sorted by address, whose nodes live in the *)
(* free memory (kernel/src/allocator/linked_list.rs, mod.rs).              *)
(*                                                                         *)
(* A unit is the alignment of a node, 8 bytes; a node takes two.  A free   *)
(* list is a sequence of [start, size]; a live allocation is kept with the *)
(* adjusted layout it was made with, which dealloc is given again.         *)
(***************************************************************************)
CONSTANTS HeapSize,   \* in units
          NodeSize,   \* size_of::<ListNode>() in units
          Layouts,    \* the [size, align] asked for, in units
          MaxLive     \* bound on live allocations

ASSUME HeapAssumption ==
  /\ NodeSize \in Nat \ {0} /\ HeapSize \in Nat /\ HeapSize >= NodeSize
  /\ \A l \in Layouts : l.size \in Nat \ {0} /\ l.align \in Nat \ {0}

VARIABLES free,       \* the list, without its sentinel
          live,       \* [start, size] of every allocation
          allocated   \* LinkedListAllocator::allocated

heapVars == <<free, live, allocated>>

\* align_up, and adjust_layout: padded to its alignment, and room for a node.
AlignUp(addr, align) == ((addr + align - 1) \div align) * align

Adjusted(l) == Max({AlignUp(l.size, l.align), NodeSize})

End(region) == region.start + region.size

\* add_free_region: the returned block absorbs the one behind it, and is absorbed by
\* the one before it unless that is the sentinel.
AddFreeRegion(list, addr, size) ==
  LET below == SelectSeq(list, LAMBDA r : r.start < addr)
      above == SelectSeq(list, LAMBDA r : r.start >= addr)
      forward == above # << >> /\ addr + size = above[1].start
      grown == IF forward THEN size + above[1].size ELSE size
      following == IF forward THEN Tail(above) ELSE above
  IN  IF below # << >> /\ End(Last(below)) = addr
      THEN Front(below) \o <<[Last(below) EXCEPT !.size = @ + grown]>> \o following
      ELSE below \o <<[start |-> addr, size |-> grown]>> \o following

\* A bug to be caught: any region that is long enough.
CarvesAny(region, size, align) ==
  AlignUp(region.start, align) + size <= End(region)

\* try_carve: it fits, and what is left behind it is nothing or a node.
Carves(region, size, align) ==
  LET excess == End(region) - (AlignUp(region.start, align) + size)
  IN  excess = 0 \/ excess >= NodeSize

\* find_region: the first that fits, or one past the end when none does.
FindRegion(size, align) ==
  Min({i \in DOMAIN free : Carves(free[i], size, align)} \cup {Len(free) + 1})

\* alloc.  Padding in front that is too small for a node is nobody's afterwards.
HeapAlloc(l) ==
  /\ Cardinality(live) < MaxLive
  /\ LET size == Adjusted(l)
         i == FindRegion(size, l.align)
     IN  /\ i \in DOMAIN free
         /\ LET region == free[i]
                start == AlignUp(region.start, l.align)
                padding == start - region.start
                excess == End(region) - (start + size)
                rest == RemoveAt(free, i)
                padded == IF padding >= NodeSize
                          THEN AddFreeRegion(rest, region.start, padding) ELSE rest
            IN  /\ free' = IF excess > 0 THEN AddFreeRegion(padded, start + size, excess)
                                         ELSE padded
                /\ live' = live \cup {[start |-> start, size |-> size]}
                /\ allocated' = allocated + size

\* dealloc.
HeapDealloc(block) ==
  /\ block \in live
  /\ free' = AddFreeRegion(free, block.start, block.size)
  /\ live' = live \ {block}
  /\ allocated' = allocated - block.size

\* init.
HeapInit ==
  /\ free = AddFreeRegion(<< >>, 0, HeapSize)
  /\ live = {} /\ allocated = 0

HeapNext == (\E l \in Layouts : HeapAlloc(l)) \/ (\E b \in live : HeapDealloc(b))

HeapSpec == HeapInit /\ [][HeapNext]_heapVars

Units(region) == region.start .. End(region) - 1

\* No unit is in two allocations, in two free regions or in both; the list is sorted
\* with no two regions touching, so that every pair that could merge has; every
\* region can hold its node; and allocated is the sum of what is live.
HeapSound ==
  /\ \A b, c \in live : b # c => Units(b) \cap Units(c) = {}
  /\ \A i \in DOMAIN free : /\ free[i].size >= NodeSize /\ End(free[i]) <= HeapSize
                            /\ \A b \in live : Units(free[i]) \cap Units(b) = {}
  /\ \A i \in 1 .. Len(free) - 1 : End(free[i]) < free[i + 1].start
  /\ allocated = Cardinality(UNION {Units(b) : b \in live})

(***************************************************************************)
(* The physical frame allocator (kernel/src/memory/frame.rs) and the runs  *)
(* of frames devices are given (memory/dma.rs).                            *)
(*                                                                         *)
(* The memory map gives the usable regions in units of which a page holds  *)
(* PageUnits, for they need not begin or end on a page.                    *)
(***************************************************************************)
CONSTANTS MemoryMaps,   \* the maps a bootloader may hand over: sets of [start, end]
          PageUnits,    \* PAGE_SIZE
          FramesPerUnit,\* frames whose bits fit in one unit of the bitmap
          LowFrames,    \* LOW_MEMORY_FRAMES
          Runs          \* the lengths allocate_contiguous is asked for

ASSUME FramesAssumption ==
  /\ PageUnits \in Nat \ {0} /\ FramesPerUnit \in Nat \ {0} /\ LowFrames \in Nat
  /\ Runs \subseteq Nat
  /\ \A map \in MemoryMaps : \A r \in map : r.start \in Nat /\ r.end \in Nat /\ r.start < r.end

VARIABLES map,           \* the memory map, which nothing changes
          total, used,   \* total_frames, and the frames whose bit is set
          usedFrames,    \* the count beside it
          hint,          \* next_hint
          handedOut,     \* the runs handed out and not returned: [first, count]
          mapping        \* the run a DmaRegion::new is mapping, and how far it is

frameVars == <<map, total, used, usedFrames, hint, handedOut, mapping>>

Ceil(n, d) == (n + d - 1) \div d

Highest(m) == Max({r.end : r \in m})
TotalOf(m) == Highest(m) \div PageUnits
BitmapUnits(m) == Ceil(TotalOf(m), FramesPerUnit)

\* The largest region that can hold the bitmap; max_by_key keeps the last of equals,
\* and any of them will do here.
Hosts(m) ==
  LET long == {r \in m : r.end - r.start >= BitmapUnits(m)}
  IN  {r \in long : \A s \in long : s.end - s.start <= r.end - r.start}

\* The frames that lie inside a region.
Whole(r) == Ceil(r.start, PageUnits) .. r.end \div PageUnits - 1

BitmapFrames(m, host) ==
  host.start \div PageUnits .. Ceil(host.start + BitmapUnits(m), PageUnits) - 1

\* init: everything is taken, the usable regions are released, then the bitmap and
\* low memory are taken again.
UsedAtStart(m, host) ==
  LET all == 0 .. TotalOf(m) - 1
  IN  ((all \ UNION {Whole(r) : r \in m})
        \cup BitmapFrames(m, host) \cup 0 .. LowFrames - 1) \cap all

FramesInit ==
  \E m \in MemoryMaps, host \in UNION MemoryMaps :
    /\ host \in Hosts(m)
    /\ map = m /\ total = TotalOf(m)
    /\ used = UsedAtStart(m, host) /\ usedFrames = Cardinality(UsedAtStart(m, host))
    /\ hint = 0 /\ handedOut = {} /\ mapping = {}

\* find_free.
FreeIn(from, to) == {f \in from .. Min({to, total}) - 1 : f \notin used}

\* What allocate can choose from: from the hint on, or else before it.
Found == IF FreeIn(hint, total) # {} THEN FreeIn(hint, total) ELSE FreeIn(0, hint)

\* mark_used on each, and the hand-out.
Take(first, count) ==
  /\ used' = used \cup first .. first + count - 1
  /\ usedFrames' = usedFrames + Cardinality(first .. first + count - 1 \ used)

\* allocate.
Allocate ==
  /\ Found # {}
  /\ LET f == Min(Found) IN
     Take(f, 1) /\ hint' = f + 1 /\ handedOut' = handedOut \cup {[first |-> f, count |-> 1]}
  /\ UNCHANGED <<map, total, mapping>>

\* The windows allocate_contiguous can settle on; it takes the lowest.
Windows(count) == {s \in 0 .. total - count : s .. s + count - 1 \cap used = {}}

\* DmaRegion::new: the run, of which no page is mapped yet.
DmaNew(count) ==
  /\ count > 0 /\ mapping = {} /\ Windows(count) # {}
  /\ Take(Min(Windows(count)), count)
  /\ mapping' = {[first |-> Min(Windows(count)), count |-> count, done |-> 0]}
  /\ UNCHANGED <<map, total, hint, handedOut>>

\* mark_free and the bias of the hint, for each frame of a run.
GiveBack(first, count) ==
  /\ used' = used \ (first .. first + count - 1)
  /\ usedFrames' = usedFrames - Cardinality(first .. first + count - 1 \cap used)
  /\ hint' = Min({hint, first})

\* One page of it is mapped, which may take a frame for a page table ...
DmaMap(r, table) ==
  /\ r \in mapping /\ r.done < r.count
  /\ table => Found # {}
  /\ IF table THEN LET f == Min(Found) IN
                   Take(f, 1) /\ hint' = f + 1 /\ handedOut' = handedOut \cup {[first |-> f, count |-> 1]}
              ELSE UNCHANGED <<used, usedFrames, hint, handedOut>>
  /\ mapping' = {[r EXCEPT !.done = @ + 1]}
  /\ UNCHANGED <<map, total>>

\* ... or fails for want of one: the pages are unmapped and the whole run returned.
DmaFail(r) ==
  /\ r \in mapping /\ r.done < r.count /\ Found = {}
  /\ GiveBack(r.first, r.count) /\ mapping' = {}
  /\ UNCHANGED <<map, total, handedOut>>

DmaDone(r) ==
  /\ r \in mapping /\ r.done = r.count
  /\ handedOut' = handedOut \cup {[first |-> r.first, count |-> r.count]} /\ mapping' = {}
  /\ UNCHANGED <<map, total, used, usedFrames, hint>>

\* deallocate, of a frame or of the run of a DmaRegion that is dropped.
Deallocate(r) ==
  /\ r \in handedOut
  /\ GiveBack(r.first, r.count) /\ handedOut' = handedOut \ {r}
  /\ UNCHANGED <<map, total, mapping>>

FramesNext ==
  \/ Allocate
  \/ \E n \in Runs : DmaNew(n)
  \/ \E r \in mapping : DmaFail(r) \/ DmaDone(r) \/ \E table \in BOOLEAN : DmaMap(r, table)
  \/ \E r \in handedOut : Deallocate(r)

FramesSpec == FramesInit /\ [][FramesNext]_frameVars

\* "frames holding the kernel, the bootloader's own structures, or MMIO are never
\* produced": what is free is RAM the map calls usable, whole, above low memory, and
\* not the bitmap and in nobody's hands; no two holders share a frame; the count
\* agrees with the bits;
\* and a frame is found whenever one is free.
FramesSound ==
  LET runs == handedOut \cup {[first |-> r.first, count |-> r.count] : r \in mapping}
      held(r) == r.first .. r.first + r.count - 1
      unused == 0 .. total - 1 \ used
  IN  /\ \A f \in unused :
           /\ f >= LowFrames
           /\ \E r \in map : r.start <= f * PageUnits /\ (f + 1) * PageUnits <= r.end
           /\ \A r \in runs : f \notin held(r)
      /\ \A r, s \in runs : r # s => held(r) \cap held(s) = {}
      /\ \E host \in Hosts(map) : unused \cap BitmapFrames(map, host) = {}
      /\ usedFrames = Cardinality(used)
      /\ unused # {} => Found # {}
=============================================================================
