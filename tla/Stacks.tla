------------------------------- MODULE Stacks -------------------------------
(***************************************************************************)
(* Kernel stacks come and go in mappings that every processor shares       *)
(* (kernel/src/memory/kstack.rs, paging.rs), and a TLB is coherent with    *)
(* nothing: an unmap is followed by a shootdown (arch/x86_64/apic.rs).     *)
(*                                                                         *)
(* The stacks modelled lie under one page table, a P1; p1 is the entry of  *)
(* the P2 that points at it.  A processor caches translations, and the P2's *)
(* entry as well.  A critical section of PAGING is a step, and the calls of *)
(* the frame allocator inside it are part of it; a request to one          *)
(* processor, the taking of a request and the flush are steps each.        *)
(*                                                                         *)
(* A processor that drops a stack does so from the scheduler, with         *)
(* interrupts masked; it services requests only where it waits.            *)
(***************************************************************************)
EXTENDS Integers, FiniteSets, FiniteSetsExt

CONSTANTS Cpu,         \* online processors
          Worker,      \* those that allocate and drop stacks
          MaxStacks,   \* MAX_STACKS
          StackPages,  \* KSTACK_PAGES
          MaxFrame     \* frames 1 .. MaxFrame are the allocator's

ASSUME StacksAssumption ==
  Worker \subseteq Cpu /\ MaxStacks \in Nat /\ StackPages \in Nat /\ MaxFrame \in Nat

Stack == 1 .. MaxStacks
Page == Stack \X (1 .. StackPages)
Frame == 1 .. MaxFrame
NoFrame == 0
Nothing == <<0, 0>>        \* NOTHING and EVERYTHING of SHOOTDOWN_REQUEST
Everything == <<0, 1>>

VARIABLES
  freeFrames,    \* of the frame allocator
  p1, pte,       \* the table, and its entries: a frame for each page, or NoFrame
  slots,         \* SLOTS: the stacks that are claimed
  up,            \* the stacks allocate has returned
  request,       \* SHOOTDOWN_REQUEST
  flushing,      \* a request taken and not yet carried out
  tlb, walk,     \* a processor's cached translations, and its cached P2 entry
  step,          \* what a processor is doing
  stack, index,  \* the stack and the page it is at
  released, detached,  \* the frame and the table an unmap took out
  todo, targeted       \* the processors to ask, and those asked

allocator == <<freeFrames, p1, pte, slots, up>>
caches == <<tlb, walk>>
locals == <<stack, index, released, detached, todo, targeted>>
stackVars == <<allocator, request, flushing, caches, step, locals>>

StacksInit ==
  /\ freeFrames = Frame /\ p1 = NoFrame /\ pte = [p \in Page |-> NoFrame]
  /\ slots = {} /\ up = {}
  /\ request = [c \in Cpu |-> Nothing] /\ flushing = [c \in Cpu |-> Nothing]
  /\ tlb = [c \in Cpu |-> {}] /\ walk = [c \in Cpu |-> NoFrame]
  /\ step = [c \in Cpu |-> "run"]
  /\ stack = [c \in Cpu |-> 1] /\ index = [c \in Cpu |-> 1]
  /\ released = [c \in Cpu |-> NoFrame] /\ detached = [c \in Cpu |-> NoFrame]
  /\ todo = [c \in Cpu |-> {}] /\ targeted = [c \in Cpu |-> {}]

Doing(c, place) == step[c] = place /\ flushing[c] = Nothing
Then(c, place) == step' = [step EXCEPT ![c] = place]
Forget(c) == stack' = [stack EXCEPT ![c] = 1] /\ index' = [index EXCEPT ![c] = 1]
ThisPage(c) == <<stack[c], index[c]>>

\* The hardware walks the tables for a stack that is up, through the P2 entry it has
\* cached if it has one.
Walk(c, p) ==
  /\ Doing(c, "run") /\ p[1] \in up /\ p1 # NoFrame
  /\ walk[c] \in {NoFrame, p1}
  /\ walk' = [walk EXCEPT ![c] = p1]
  /\ tlb' = [tlb EXCEPT ![c] = @ \cup {<<p, pte[p]>>}]
  /\ UNCHANGED <<allocator, request, flushing, step, locals>>

\* An invlpg of one page, and a reload of CR3; both drop the cached P2 entry.
FlushPage(c, p) ==
  /\ tlb' = [tlb EXCEPT ![c] = {e \in @ : e[1] # p}]
  /\ walk' = [walk EXCEPT ![c] = NoFrame]
FlushAll(c) ==
  /\ tlb' = [tlb EXCEPT ![c] = {}]
  /\ walk' = [walk EXCEPT ![c] = NoFrame]

-----------------------------------------------------------------------------
(* kstack::allocate.                                                       *)

\* The lowest free slot is claimed.
Claim(c) ==
  /\ Doing(c, "run") /\ Stack \ slots # {}
  /\ slots' = slots \cup {Min(Stack \ slots)}
  /\ stack' = [stack EXCEPT ![c] = Min(Stack \ slots)] /\ index' = [index EXCEPT ![c] = 1]
  /\ Then(c, "map")
  /\ UNCHANGED <<freeFrames, p1, pte, up, request, flushing, caches, released, detached, todo, targeted>>

\* map_in: a frame, and one for the table if there is none; both or neither.  The
\* crate's map_to takes table frames as it needs them and does not return them; with
\* one level of tables here, it is out of frames before it has taken one.
MapIn(c) ==
  /\ Doing(c, "map") /\ index[c] <= StackPages
  /\ LET wanted == IF p1 = NoFrame THEN 2 ELSE 1 IN
     IF Cardinality(freeFrames) >= wanted
     THEN LET f == Min(freeFrames)
              table == IF p1 = NoFrame THEN Min(freeFrames \ {f}) ELSE p1
          IN  /\ freeFrames' = freeFrames \ {f, table}
              /\ p1' = table /\ pte' = [pte EXCEPT ![ThisPage(c)] = f]
              /\ FlushPage(c, ThisPage(c))
              /\ index' = [index EXCEPT ![c] = @ + 1]
              /\ UNCHANGED step
     ELSE /\ IF index[c] = 1 THEN Then(c, "unclaim") ELSE Then(c, "unmap")
          /\ index' = [index EXCEPT ![c] = 1]
          /\ UNCHANGED <<freeFrames, p1, pte, caches>>
  /\ UNCHANGED <<slots, up, request, flushing, stack, released, detached, todo, targeted>>

MapDone(c) ==
  /\ Doing(c, "map") /\ index[c] > StackPages
  /\ up' = up \cup {stack[c]} /\ Then(c, "run") /\ Forget(c)
  /\ UNCHANGED <<freeFrames, p1, pte, slots, request, flushing, caches, released, detached, todo, targeted>>

-----------------------------------------------------------------------------
(* unmap_and_free_in, by a drop or by an allocate that unwinds.            *)

\* The drop of a stack no thread runs on.
Drop(c, s) ==
  /\ Doing(c, "run") /\ s \in up
  /\ up' = up \ {s} /\ stack' = [stack EXCEPT ![c] = s] /\ index' = [index EXCEPT ![c] = 1]
  /\ Then(c, "unmap")
  /\ UNCHANGED <<freeFrames, p1, pte, slots, request, flushing, caches, released, detached, todo, targeted>>

\* mapper.unmap, and the flush of this processor; a page that is not mapped is an
\* error, which both callers ignore.
UnmapIn(c) ==
  /\ Doing(c, "unmap") /\ index[c] <= StackPages
  /\ IF pte[ThisPage(c)] = NoFrame
     THEN index' = [index EXCEPT ![c] = @ + 1] /\ UNCHANGED <<pte, released, caches, step>>
     ELSE /\ pte' = [pte EXCEPT ![ThisPage(c)] = NoFrame]
          /\ released' = [released EXCEPT ![c] = pte[ThisPage(c)]]
          /\ FlushPage(c, ThisPage(c))
          /\ Then(c, "reclaim") /\ UNCHANGED index
  /\ UNCHANGED <<freeFrames, p1, slots, up, request, flushing, stack, detached, todo, targeted>>

Emptied == p1 # NoFrame /\ \A p \in Page : pte[p] = NoFrame

\* reclaim_tables_for: the table is unlinked if nothing is left in it.
Reclaim(c) ==
  /\ Doing(c, "reclaim")
  /\ IF Emptied
     THEN /\ p1' = NoFrame /\ detached' = [detached EXCEPT ![c] = p1]
          /\ FlushAll(c)
     ELSE UNCHANGED <<p1, detached, caches>>
  /\ todo' = [todo EXCEPT ![c] = Cpu \ {c}] /\ targeted' = [targeted EXCEPT ![c] = {}]
  /\ Then(c, "ask")
  /\ UNCHANGED <<freeFrames, pte, slots, up, request, flushing, stack, index, released>>

\* A bug to be caught: the last request wins.
MergedLast(pending, what) == what

\* How a request is merged with one that is still there.
Merged(pending, what) == IF pending \in {Nothing, what} THEN what ELSE Everything

\* broadcast_shootdown, one processor at a time.
Ask(c, d) ==
  /\ Doing(c, "ask") /\ d \in todo[c]
  /\ LET what == IF detached[c] # NoFrame THEN Everything ELSE ThisPage(c)
     IN  request' = [request EXCEPT ![d] = Merged(@, what)]
  /\ todo' = [todo EXCEPT ![c] = @ \ {d}] /\ targeted' = [targeted EXCEPT ![c] = @ \cup {d}]
  /\ UNCHANGED <<allocator, flushing, caches, step, stack, index, released, detached>>

Asked(c) ==
  /\ Doing(c, "ask") /\ todo[c] = {}
  /\ Then(c, "wait")
  /\ UNCHANGED <<allocator, request, flushing, caches, locals>>

\* The wait is over when every slot it asked is seen empty.
Answered(c) ==
  /\ Doing(c, "wait") /\ request[c] = Nothing
  /\ \A d \in targeted[c] : request[d] = Nothing
  /\ targeted' = [targeted EXCEPT ![c] = {}] /\ Then(c, "freeTable")
  /\ UNCHANGED <<allocator, request, flushing, caches, stack, index, released, detached, todo>>

\* service_shootdown_request: from the interrupt where it is not masked, and in the
\* wait.  The request is taken first ...
Service(c) ==
  /\ step[c] \in {"run", "map", "wait"} /\ flushing[c] = Nothing /\ request[c] # Nothing
  /\ flushing' = [flushing EXCEPT ![c] = request[c]]
  /\ request' = [request EXCEPT ![c] = Nothing]
  /\ UNCHANGED <<allocator, caches, step, locals>>

\* ... and carried out then.
Flush(c) ==
  /\ flushing[c] # Nothing
  /\ flushing' = [flushing EXCEPT ![c] = Nothing]
  /\ IF flushing[c] = Everything THEN FlushAll(c) ELSE FlushPage(c, flushing[c])
  /\ UNCHANGED <<allocator, request, step, locals>>

\* Detached::free.
FreeTable(c) ==
  /\ Doing(c, "freeTable")
  /\ freeFrames' = freeFrames \cup ({detached[c]} \ {NoFrame})
  /\ detached' = [detached EXCEPT ![c] = NoFrame] /\ Then(c, "freeFrame")
  /\ UNCHANGED <<p1, pte, slots, up, request, flushing, caches, stack, index, released, todo, targeted>>

\* The frame itself, and the next page.
FreeFrame(c) ==
  /\ Doing(c, "freeFrame")
  /\ freeFrames' = freeFrames \cup {released[c]}
  /\ released' = [released EXCEPT ![c] = NoFrame]
  /\ index' = [index EXCEPT ![c] = @ + 1] /\ Then(c, "unmap")
  /\ UNCHANGED <<p1, pte, slots, up, request, flushing, caches, stack, detached, todo, targeted>>

\* The slot is the last to go.
Unclaim(c) ==
  /\ Doing(c, "unclaim") \/ (Doing(c, "unmap") /\ index[c] > StackPages)
  /\ slots' = slots \ {stack[c]} /\ Then(c, "run") /\ Forget(c)
  /\ UNCHANGED <<freeFrames, p1, pte, up, request, flushing, caches, released, detached, todo, targeted>>

StacksNext ==
  \/ \E c \in Cpu : Service(c) \/ Flush(c) \/ \E p \in Page : Walk(c, p)
  \/ \E c \in Worker :
       \/ Claim(c) \/ MapIn(c) \/ MapDone(c) \/ UnmapIn(c) \/ Reclaim(c) \/ Asked(c)
       \/ Answered(c) \/ FreeTable(c) \/ FreeFrame(c) \/ Unclaim(c)
       \/ \E s \in Stack : Drop(c, s)
       \/ \E d \in Cpu : Ask(c, d)

StacksSpec == StacksInit /\ [][StacksNext]_stackVars

-----------------------------------------------------------------------------

\* shoot_down_page and reclaim_empty_tables: "until the shootdown lands another CPU
\* can still walk through its cached pointer to this table".  What a processor has
\* cached is what the tables say, or an unmap still keeps the frame from being
\* reused, or the processor is about to flush and does nothing before.
CachesHonest ==
  \A c \in Cpu : flushing[c] = Nothing =>
    /\ \A e \in tlb[c] : pte[e[1]] = e[2] \/ \E d \in Worker : released[d] = e[2]
    /\ walk[c] \in {NoFrame, p1} \cup {detached[d] : d \in Worker}

\* No frame is free and in the tables, or freed by two.
FramesOnce ==
  /\ \A p \in Page : pte[p] \notin freeFrames
  /\ p1 \notin freeFrames
  /\ \A c \in Worker : {released[c], detached[c]} \cap freeFrames = {}

\* No processor reaches through what it has cached a frame or a table that the
\* allocator may hand out again, and no frame is both free and in use: the order of
\* unmapping, shootdown and release.
StacksFlushed == CachesHonest /\ FramesOnce

=============================================================================
