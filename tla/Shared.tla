------------------------------- MODULE Shared -------------------------------
(***************************************************************************)
(* Memory that processes share: graphics buffers (kernel/src/gbm.rs) and   *)
(* the pages of rings (ring.rs), from their creation to the exit of the    *)
(* last process that holds them (lib.rs, userspace.rs, paging.rs).         *)
(*                                                                         *)
(* A registry's lock covers one step; pages are mapped and unmapped, and   *)
(* frames returned, outside it.  A buffer and a ring have one frame here.  *)
(* Whether a thread may map a side of a ring is a capability, and those    *)
(* are module Ipc's: here any thread may map a side that is free.          *)
(***************************************************************************)
EXTENDS Integers, FiniteSets, FiniteSetsExt

CONSTANTS Process,      \* threads with an address space of their own
          DisplayServer,\* the ones allowed the scanout buffer
          BufferId, RingId,
          PoolFrame,    \* frames of the allocator
          Screen,       \* the frame of the display controller
          BufferQuota   \* quota::of(..).buffers

ASSUME SharedAssumption ==
  Screen \notin PoolFrame /\ DisplayServer \subseteq Process /\ BufferQuota \in Nat

Side == {"Sender", "Receiver"}
NoProcess == "none"

VARIABLES
  pool,      \* the free frames
  buffers,   \* Registry::buffers: id -> [owner, shared, maps, orphaned, frame]
  scanout,   \* Registry::scanout, as a set of at most one id
  rings,     \* RINGS: id -> [owner, gone, sides, frame]
  pages,     \* the frames of shared memory in each process's tables
  at, job,   \* where a process is, and the object it is there for
  inHand,    \* frames it has taken out of pool or of a registry
  toUnmap,   \* frames release_thread has yet to unmap
  lateShare  \* a buffer was shared with a process that was gone (history)

sharedVars == <<pool, buffers, scanout, rings, pages, at, job, inHand, toUnmap, lateShare>>

SharedInit ==
  /\ pool = PoolFrame /\ buffers = << >> /\ scanout = {} /\ rings = << >>
  /\ pages = [p \in Process |-> {}]
  /\ at = [p \in Process |-> "user"] /\ job = [p \in Process |-> 0]
  /\ inHand = [p \in Process |-> {}] /\ toUnmap = [p \in Process |-> {}]
  /\ lateShare = FALSE

To(p, place) == at' = [at EXCEPT ![p] = place]
With(map, id, value) == [i \in DOMAIN map \cup {id} |-> IF i = id THEN value ELSE map[i]]
Without(map, ids) == [i \in DOMAIN map \ ids |-> map[i]]

-----------------------------------------------------------------------------
(* Creation.                                                               *)

\* create: the quota, then the frame.
BufferTake(p) ==
  /\ at[p] = "user" /\ pool # {}
  /\ Cardinality({b \in DOMAIN buffers : buffers[b].owner = p}) < BufferQuota
  /\ inHand' = [inHand EXCEPT ![p] = {Min(pool)}] /\ pool' = pool \ {Min(pool)}
  /\ To(p, "insert")
  /\ UNCHANGED <<buffers, scanout, rings, pages, job, toUnmap, lateShare>>

NewBuffer(p, frame) ==
  [owner |-> p, shared |-> {}, maps |-> {}, orphaned |-> FALSE, frame |-> frame]

\* ... and the entry, under the next id.
BufferInsert(p) ==
  /\ at[p] = "insert" /\ BufferId \ DOMAIN buffers # {}
  /\ \E f \in inHand[p] : buffers' = With(buffers, Min(BufferId \ DOMAIN buffers), NewBuffer(p, f))
  /\ inHand' = [inHand EXCEPT ![p] = {}] /\ To(p, "user")
  /\ UNCHANGED <<pool, scanout, rings, pages, job, toUnmap, lateShare>>

\* scanout: one buffer of the screen, shared with whoever asks after the first.
Scanout(p) ==
  /\ at[p] = "user" /\ p \in DisplayServer
  /\ IF scanout # {}
     THEN /\ \E b \in scanout :
               buffers' = IF buffers[b].owner = p THEN buffers
                          ELSE [buffers EXCEPT ![b].shared = @ \cup {p}]
          /\ UNCHANGED scanout
     ELSE LET b == Min(BufferId \ DOMAIN buffers) IN
          /\ BufferId \ DOMAIN buffers # {}
          /\ buffers' = With(buffers, b, NewBuffer(p, Screen)) /\ scanout' = {b}
  /\ UNCHANGED <<pool, rings, pages, at, job, inHand, toUnmap, lateShare>>

\* ring::create; its endpoint is module Ipc's.
RingCreate(p) ==
  /\ at[p] = "user" /\ pool # {} /\ RingId \ DOMAIN rings # {}
  /\ rings' = With(rings, Min(RingId \ DOMAIN rings),
                   [owner |-> p, gone |-> FALSE, frame |-> Min(pool),
                    sides |-> [s \in Side |-> NoProcess]])
  /\ pool' = pool \ {Min(pool)}
  /\ UNCHANGED <<buffers, scanout, pages, at, job, inHand, toUnmap, lateShare>>

\* share, which asks nothing of the target.
Share(p, q, b) ==
  /\ at[p] = "user" /\ b \in DOMAIN buffers /\ buffers[b].owner = p
  /\ buffers' = [buffers EXCEPT ![b].shared = @ \cup {q}]
  /\ lateShare' = (lateShare \/ at[q] # "user")
  /\ UNCHANGED <<pool, scanout, rings, pages, at, job, inHand, toUnmap>>

-----------------------------------------------------------------------------
(* Mapping.                                                                *)

\* map under the lock: the mapping is recorded ...
BufferMap(p, b) ==
  /\ at[p] = "user" /\ b \in DOMAIN buffers
  /\ p = buffers[b].owner \/ p \in buffers[b].shared
  /\ p \notin buffers[b].maps
  /\ buffers' = [buffers EXCEPT ![b].maps = @ \cup {p}]
  /\ inHand' = [inHand EXCEPT ![p] = {buffers[b].frame}] /\ To(p, "map")
  /\ UNCHANGED <<pool, scanout, rings, pages, job, toUnmap, lateShare>>

RingMap(p, r, s) ==
  /\ at[p] = "user" /\ r \in DOMAIN rings /\ rings[r].sides[s] = NoProcess
  /\ rings' = [rings EXCEPT ![r].sides[s] = p]
  /\ inHand' = [inHand EXCEPT ![p] = {rings[r].frame}] /\ To(p, "map")
  /\ UNCHANGED <<pool, buffers, scanout, pages, job, toUnmap, lateShare>>

\* ... and made, or not for want of a frame for a page table; the record stays.
MapPages(p, ok) ==
  /\ at[p] = "map"
  /\ pages' = [pages EXCEPT ![p] = IF ok THEN @ \cup inHand[p] ELSE @]
  /\ inHand' = [inHand EXCEPT ![p] = {}] /\ To(p, "user")
  /\ UNCHANGED <<pool, buffers, scanout, rings, job, toUnmap, lateShare>>

\* gbm::unmap: the look, and the pages ...
BufferUnmap(p, b) ==
  /\ at[p] = "user" /\ b \in DOMAIN buffers /\ p \in buffers[b].maps
  /\ job' = [job EXCEPT ![p] = b]
  /\ pages' = [pages EXCEPT ![p] = @ \ {buffers[b].frame}]
  /\ To(p, "forget")
  /\ UNCHANGED <<pool, buffers, scanout, rings, inHand, toUnmap, lateShare>>

\* Nobody is left to hold it.
Unreferenced(b) == b.orphaned /\ b.maps = {} /\ b.shared = {}

\* ... and the record of them, the buffer with the last.
BufferForget(p) ==
  /\ at[p] = "forget"
  /\ LET b == job[p]
         left == [buffers[b] EXCEPT !.maps = @ \ {p}, !.shared = @ \ {p}]
     IN  IF Unreferenced(left) /\ b \notin scanout
         THEN buffers' = Without(buffers, {b}) /\ inHand' = [inHand EXCEPT ![p] = {left.frame}]
         ELSE buffers' = [buffers EXCEPT ![b] = left] /\ UNCHANGED inHand
  /\ job' = [job EXCEPT ![p] = 0] /\ To(p, "free")
  /\ UNCHANGED <<pool, scanout, rings, pages, toUnmap, lateShare>>

\* What was taken out of the registry goes back to the allocator.
FreeInHand(p, from, to) ==
  /\ at[p] = from
  /\ pool' = pool \cup inHand[p] /\ inHand' = [inHand EXCEPT ![p] = {}] /\ To(p, to)
  /\ UNCHANGED <<buffers, scanout, rings, pages, job, toUnmap, lateShare>>

-----------------------------------------------------------------------------
(* Exit: release_thread_resources.                                         *)

\* A bug to be caught: a buffer goes with its owner.
OrphansAll(p, left) == {b \in DOMAIN left : left[b].owner = p /\ b \notin scanout}

\* The buffers nobody is left to hold.
Orphans(p, left) == {b \in DOMAIN left : Unreferenced(left[b]) /\ b \notin scanout}

\* gbm::release_thread under the lock.
ExitBuffers(p) ==
  /\ at[p] = "user"
  /\ LET left == [b \in DOMAIN buffers |->
                    [buffers[b] EXCEPT !.maps = @ \ {p}, !.shared = @ \ {p},
                       !.orphaned = @ \/ (buffers[b].owner = p /\ b \notin scanout)]]
     IN  /\ buffers' = Without(left, Orphans(p, left))
         /\ inHand' = [inHand EXCEPT ![p] = {left[b].frame : b \in Orphans(p, left)}]
         /\ toUnmap' = [toUnmap EXCEPT ![p] =
                          {buffers[b].frame : b \in {c \in DOMAIN buffers : p \in buffers[c].maps}}]
  /\ To(p, "exitUnmap")
  /\ UNCHANGED <<pool, scanout, rings, pages, job, lateShare>>

\* The pages come out of its own tables.
ExitUnmap(p, from, to) ==
  /\ at[p] = from
  /\ pages' = [pages EXCEPT ![p] = @ \ toUnmap[p]] /\ toUnmap' = [toUnmap EXCEPT ![p] = {}]
  /\ To(p, to)
  /\ UNCHANGED <<pool, buffers, scanout, rings, job, inHand, lateShare>>

\* ring::release_thread under the lock.
ExitRings(p) ==
  /\ at[p] = "exitRings"
  /\ LET left == [r \in DOMAIN rings |->
                    [rings[r] EXCEPT !.gone = @ \/ rings[r].owner = p,
                       !.sides = [s \in Side |-> IF @[s] = p THEN NoProcess ELSE @[s]]]]
         dead == {r \in DOMAIN left : left[r].gone /\ \A s \in Side : left[r].sides[s] = NoProcess}
     IN  /\ rings' = Without(left, dead)
         /\ inHand' = [inHand EXCEPT ![p] = {left[r].frame : r \in dead}]
         /\ toUnmap' = [toUnmap EXCEPT ![p] =
              {rings[r].frame : r \in {q \in DOMAIN rings : \E s \in Side : rings[q].sides[s] = p}}]
  /\ To(p, "ringUnmap")
  /\ UNCHANGED <<pool, buffers, scanout, pages, job, lateShare>>

\* release_slot: AddressSpace::release frees every frame still mapped.
ReleaseSlot(p) ==
  /\ at[p] = "space"
  /\ pool' = pool \cup (pages[p] \cap PoolFrame) /\ pages' = [pages EXCEPT ![p] = {}]
  /\ To(p, "gone")
  /\ UNCHANGED <<buffers, scanout, rings, job, inHand, toUnmap, lateShare>>

SharedNext ==
  \E p \in Process :
    \/ BufferTake(p) \/ BufferInsert(p) \/ Scanout(p) \/ RingCreate(p) \/ BufferForget(p)
    \/ \E ok \in BOOLEAN : MapPages(p, ok)
    \/ \E b \in BufferId : \/ BufferMap(p, b) \/ BufferUnmap(p, b)
                           \/ \E q \in Process \ {p} : Share(p, q, b)
    \/ \E r \in RingId, s \in Side : RingMap(p, r, s)
    \/ ExitBuffers(p) \/ ExitRings(p) \/ ReleaseSlot(p)
    \/ FreeInHand(p, "free", "user")
    \/ ExitUnmap(p, "exitUnmap", "exitFree") \/ FreeInHand(p, "exitFree", "exitRings")
    \/ ExitUnmap(p, "ringUnmap", "ringFree") \/ FreeInHand(p, "ringFree", "space")

SharedSpec == SharedInit /\ [][SharedNext]_sharedVars

-----------------------------------------------------------------------------

FramesOf(map) == {map[i].frame : i \in DOMAIN map}

\* gbm and ring both: frames a process can still reach are never handed back, an
\* exiting one aside, which runs no code of its own any more; a space that is torn
\* down has no page of somebody's buffer or ring in it, "or its frames would go back
\* to the allocator while still in use"; and no frame is freed by two.
SharedNotFreed ==
  /\ \A p \in Process : at[p] \in {"user", "insert", "map", "forget", "free"} =>
       pages[p] \cap pool = {}
  /\ \A p \in Process : at[p] = "space" =>
       pages[p] \cap (FramesOf(buffers) \cup FramesOf(rings) \cup {Screen} \cup pool) = {}
  /\ (FramesOf(buffers) \cup FramesOf(rings)) \cap pool = {}
  /\ \A p \in Process : at[p] # "map" =>
       inHand[p] \cap (pool \cup FramesOf(buffers) \cup FramesOf(rings)) = {}

\* "last one out frees it": when every process is gone, so is every buffer and ring,
\* and the allocator has all its frames, if nothing was shared with a process that
\* was leaving.
LastOutFrees ==
  (\A p \in Process : at[p] = "gone") /\ ~ lateShare => pool = PoolFrame
=============================================================================
