------------------------------- MODULE Spaces -------------------------------
(* User slots and address spaces (kernel/src/userspace.rs, AddressSpace of    *)
(* memory/paging.rs) against the scheduler that loads them: a thread claims a *)
(* slot, clones a level 4 table, attaches and activates it, and on exit gives *)
(* all of it back while it can be preempted between any two steps.  A space   *)
(* is named by its level 4 frame; 0 is the kernel's.                          *)
EXTENDS Naturals, FiniteSets

CONSTANTS
    SpaceCpu,      \* processors
    SpaceThread,   \* threads that run user programs
    MaxSlots,      \* MAX_SLOTS
    SpaceFrame     \* frames there are for level 4 tables

Kernel == 0
Nobody == "nobody"
ASSUME SpacesAssumption ==
    /\ MaxSlots \in Nat
    /\ Kernel \notin SpaceFrame
    /\ Nobody \notin SpaceThread

VARIABLES
    slotTable,    \* SLOTS
    attached,     \* each thread's address_space, Kernel for none
    running,      \* the thread each processor runs
    active,       \* the level 4 frame in each processor's CR3
    leaving,      \* the space each exiting thread has taken from itself
    tableFrames,  \* frames with the allocator
    life          \* how far each thread has come

spaceVars == <<slotTable, attached, running, active, leaving, tableFrames, life>>

SpacesInit ==
    /\ slotTable = [n \in 1 .. MaxSlots |-> Nobody]
    /\ attached = [t \in SpaceThread |-> Kernel]
    /\ running = [c \in SpaceCpu |-> Nobody]
    /\ active = [c \in SpaceCpu |-> Kernel]
    /\ leaving = [t \in SpaceThread |-> Kernel]
    /\ tableFrames = SpaceFrame
    /\ life = [t \in SpaceThread |-> "spawned"]

SlotOf(t) == {n \in 1 .. MaxSlots : slotTable[n] = t}

-----------------------------------------------------------------------------
(* schedule: the incoming thread's own tables, or the kernel's.             *)

SwitchTo(c, t) ==
    /\ running[c] # t
    /\ t # Nobody => /\ life[t] # "gone"
                     /\ \A d \in SpaceCpu : running[d] # t
    /\ running' = [running EXCEPT ![c] = t]
    /\ active' = [active EXCEPT ![c] = IF t = Nobody THEN Kernel ELSE attached[t]]
    /\ UNCHANGED <<slotTable, attached, tableFrames, life, leaving>>

\* A step of a thread from one point of its life to the next, on processor c.
Lives(c, t, from, to) ==
    /\ running[c] = t
    /\ life[t] = from
    /\ life' = [life EXCEPT ![t] = to]

-----------------------------------------------------------------------------
(* load_elf.  A thread loads one program: it enters Ring 3 and does not come *)
(* back.                                                                     *)

\* claim_slot: the thread's own slot, or the first empty one.
ClaimSlot(c, t) ==
    /\ LET empty == {n \in 1 .. MaxSlots : slotTable[n] = Nobody}
       IN  \/ /\ empty = {}
              /\ Lives(c, t, "spawned", "exiting") /\ UNCHANGED slotTable
           \/ \E n \in empty :
                  /\ \A k \in empty : n <= k
                  /\ Lives(c, t, "spawned", "claimed")
                  /\ slotTable' = [slotTable EXCEPT ![n] = t]
    /\ UNCHANGED <<attached, running, active, tableFrames, leaving>>

\* new_user and set_address_space.
Attach(c, t) ==
    /\ \/ /\ tableFrames = {}
          /\ Lives(c, t, "claimed", "exiting")
          /\ UNCHANGED <<attached, tableFrames>>
       \/ \E f \in tableFrames :
              /\ Lives(c, t, "claimed", "attached")
              /\ attached' = [attached EXCEPT ![t] = f]
              /\ tableFrames' = tableFrames \ {f}
    /\ UNCHANGED <<slotTable, running, active, leaving>>

\* activate, and the loading that follows.
Activate(c, t) ==
    /\ Lives(c, t, "attached", "loaded")
    /\ active' = [active EXCEPT ![c] = attached[t]]
    /\ UNCHANGED <<slotTable, attached, running, tableFrames, leaving>>

ExitThread(c, t) ==
    /\ Lives(c, t, "loaded", "exiting")
    /\ UNCHANGED <<slotTable, attached, running, active, tableFrames, leaving>>

-----------------------------------------------------------------------------
(* release_slot, reached from exit_current.                                  *)

\* A bug to be caught: the tables stay attached until they have been freed.
DetachLate(c, t) ==
    /\ Lives(c, t, "exiting", IF SlotOf(t) = {} THEN "gone" ELSE "detached")
    /\ leaving' = [leaving EXCEPT ![t] = attached[t]]
    /\ UNCHANGED <<slotTable, attached, running, active, tableFrames>>

\* take_address_space: from here a switch to the thread loads the kernel's.
\* A thread without a slot has nothing to give back.
Detach(c, t) ==
    /\ Lives(c, t, "exiting", IF SlotOf(t) = {} THEN "gone" ELSE "detached")
    /\ leaving' = [leaving EXCEPT ![t] = attached[t]]
    /\ attached' = [attached EXCEPT ![t] = Kernel]
    /\ UNCHANGED <<slotTable, running, active, tableFrames>>

\* Still on these very tables: the kernel's are loaded first.
Leave(c, t) ==
    /\ Lives(c, t, "detached", "left")
    /\ active' = [active EXCEPT ![c] = IF @ = leaving[t] THEN Kernel ELSE @]
    /\ UNCHANGED <<slotTable, attached, leaving, running, tableFrames>>

\* release: the frame taken from the thread, if it had one, goes back.
ReleaseSpace(c, t) ==
    /\ Lives(c, t, "left", "released")
    /\ tableFrames' = tableFrames \cup ({leaving[t]} \ {Kernel})
    /\ leaving' = [leaving EXCEPT ![t] = Kernel]
    /\ UNCHANGED <<slotTable, attached, running, active>>

\* The slot is empty again, and the thread never runs again.
FreeSlot(c, t) ==
    /\ Lives(c, t, "released", "gone")
    /\ slotTable' = [n \in 1 .. MaxSlots |-> IF slotTable[n] = t THEN Nobody ELSE slotTable[n]]
    /\ UNCHANGED <<attached, running, active, tableFrames, leaving>>

SpacesNext ==
    \E c \in SpaceCpu :
        \/ \E t \in SpaceThread \cup {Nobody} : SwitchTo(c, t)
        \/ \E t \in SpaceThread :
               \/ ClaimSlot(c, t)
               \/ Attach(c, t)
               \/ Activate(c, t)
               \/ ExitThread(c, t)
               \/ Detach(c, t)
               \/ Leave(c, t)
               \/ ReleaseSpace(c, t)
               \/ FreeSlot(c, t)

SpacesSpec == SpacesInit /\ [][SpacesNext]_spaceVars

-----------------------------------------------------------------------------

\* However threads are preempted and moved while they load and exit, no
\* processor translates through a level 4 table that has been freed or that
\* belongs to a thread it does not run, no table belongs to two threads, and a
\* thread that is gone has left neither a slot nor a table behind.
SpacesSafe ==
    /\ \A c \in SpaceCpu : active[c] # Kernel =>
           /\ active[c] \notin tableFrames
           /\ \E t \in SpaceThread :
                  running[c] = t /\ active[c] \in {attached[t], leaving[t]}
    /\ \A t, u \in SpaceThread : t # u =>
           {attached[t], leaving[t]} \cap {attached[u], leaving[u]} \subseteq {Kernel}
    /\ \A t \in SpaceThread : life[t] = "gone" =>
           /\ SlotOf(t) = {}
           /\ attached[t] = Kernel
=============================================================================
