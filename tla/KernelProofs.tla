---------------------------- MODULE KernelProofs ----------------------------
(***************************************************************************)
(* Proofs for any number of processors, threads, stacks and frames: that   *)
(* no ready queue waits longer than the starvation guard allows            *)
(* (Starvation), that no processor is left with the tables of an address   *)
(* space that is gone (Spaces), and that no frame of a kernel stack goes   *)
(* back to the allocator while a processor can still reach it (Stacks).    *)
(***************************************************************************)
EXTENDS Starvation, QueueLemmas, Spaces, Stacks, FiniteSetTheorems

\* The time each leaf is given.
USE SMTT(30), ZenonT(30)

-----------------------------------------------------------------------------
(* BoundedWait for any number of tasks and any period of the guard.          *)

StarvationInv == StarvationTypeOK /\ WaitBudget

\* The level that is tried first is served, or has nobody waiting.
LEMMA FirstTriedServed ==
  ASSUME NEW q \in [Level -> Seq(Task)], NEW order \in PickOrders
  PROVE  LET new == PopRest(q, order, Task)
         IN  new[order[1]] = << >> \/ new[order[1]] # q[order[1]]
<1> DEFINE l == order[1]
           places == HitPlaces(q, order, Task)
           last == IF places = {} THEN 3 ELSE Min(places)
<1>1. l \in Level /\ q[l] \in Seq(Task)
  BY OrderNamesLevels
<1>2. last \in 1..3
  BY FirstPlace
<1>3. PopRest(q, order, Task)[l] = AfterHit(q[l], Task)
  BY <1>1, <1>2 DEF PopRest
<1>4. CASE Hits(q[l], Task) = {}
  BY <1>3, <1>4, Zenon DEF AfterHit
<1>5. CASE Hits(q[l], Task) # {}
  <2>1. Min(Hits(q[l], Task)) \in 1..Len(q[l])
    BY <1>1, <1>5, FirstHit, Zenon
  <2>2. AfterHit(q[l], Task) = SubSeq(q[l], Min(Hits(q[l], Task)) + 1, Len(q[l]))
    BY <1>5, Zenon DEF AfterHit
  <2>3. Len(AfterHit(q[l], Task)) < Len(q[l])
    BY <1>1, <2>1, <2>2
  <2> QED
    BY <1>3, <2>3
<1> QED
  BY <1>4, <1>5, Zenon

\* Whatever the streak, the order is one of the three.
LEMMA PickOrderType ==
  ASSUME NEW s, NEW b PROVE PickOrder(s, b) \in PickOrders
BY Zenon DEF PickOrder, PickOrders

\* A pick of the processor's own keeps every level within its budget.
LEMMA PickKeeps ==
  ASSUME StarvationInv, Pick PROVE StarvationInv'
<1> DEFINE order == PickOrder(streak, boost)
           new == PopRest(ready, order, Task)
<1>1. order \in PickOrders
  BY PickOrderType, Zenon
<1>2. new \in [Level -> Seq(Task)]
  BY <1>1, PopRestType, Zenon DEF StarvationInv, StarvationTypeOK
<1>3. /\ ready' = new
      /\ missed' = MissedAfter(ready, new)
      /\ streak' = NextStreak(streak)
      /\ boost' = NextBoost(streak, boost)
  BY Zenon DEF Pick
<1>4. new[order[1]] = << >> \/ new[order[1]] # ready[order[1]]
  BY <1>1, FirstTriedServed, Zenon DEF StarvationInv, StarvationTypeOK
<1>5. order[1] \in Level
  BY <1>1, OrderNamesLevels
<1>6. missed'[order[1]] = 0
  BY <1>3, <1>4, <1>5, Zenon DEF MissedAfter
<1>7. missed' \in [Level -> Nat] /\ \A l \in Level : missed'[l] <= missed[l] + 1
  BY <1>3 DEF MissedAfter, StarvationInv, StarvationTypeOK
<1>8. StarvationTypeOK'
  BY <1>2, <1>3, <1>7, GuardAssumption DEF NextStreak, NextBoost, StarvationInv, StarvationTypeOK
<1>9. WaitBudget'
  <2> USE GuardAssumption
  <2>0. 0 \in Level /\ 1 \in Level /\ 2 \in Level
    BY DEF Level
  <2>1. /\ missed'[0] <= missed[0] + 1 /\ missed'[0] \in Nat /\ missed[0] \in Nat
        /\ missed'[1] <= missed[1] + 1 /\ missed'[1] \in Nat /\ missed[1] \in Nat
        /\ missed'[2] <= missed[2] + 1 /\ missed'[2] \in Nat /\ missed[2] \in Nat
    BY <1>7, <2>0, Zenon DEF StarvationInv, StarvationTypeOK
  <2>2. CASE streak < Guard
    <3>1. order[1] = 2
      BY <2>2, Zenon DEF PickOrder, HighestFirst
    <3>2. missed'[2] = 0
      BY <3>1, <1>6, Zenon
    <3>3. streak' = streak + 1 /\ boost' = boost
      BY <1>3, <2>2 DEF NextStreak, NextBoost, StarvationInv, StarvationTypeOK
    <3>4. streak \in Nat /\ streak' \in Nat /\ streak' # 0
      BY <3>3 DEF StarvationInv, StarvationTypeOK
    <3>5. missed'[0] <= streak' + (IF boost = 0 THEN Guard + 1 ELSE 0)
      BY <2>1, <3>3, <3>4 DEF StarvationInv, WaitBudget
    <3>6. missed'[1] <= streak' + (IF boost = 1 THEN Guard + 1 ELSE 0)
      BY <2>1, <3>3, <3>4 DEF StarvationInv, WaitBudget
    <3> QED
      BY <3>2, <3>3, <3>4, <3>5, <3>6 DEF WaitBudget
  <2>3. CASE streak = Guard /\ boost = 0
    <3>1. order[1] = 0
      BY <2>3 DEF PickOrder
    <3>2. missed'[0] = 0
      BY <3>1, <1>6, Zenon
    <3>3. streak' = 0 /\ boost' = 1
      BY <1>3, <2>3 DEF NextStreak, NextBoost, StarvationInv, StarvationTypeOK
    <3>4. missed'[1] <= Guard + 1
      BY <2>1, <2>3 DEF StarvationInv, WaitBudget
    <3>5. missed'[2] <= 1
      BY <2>1, <2>3 DEF StarvationInv, WaitBudget
    <3> QED
      BY <3>2, <3>3, <3>4, <3>5 DEF WaitBudget
  <2>4. CASE streak = Guard /\ boost = 1
    <3>1. order[1] = 1
      BY <2>4 DEF PickOrder
    <3>2. missed'[1] = 0
      BY <3>1, <1>6, Zenon
    <3>3. streak' = 0 /\ boost' = 0
      BY <1>3, <2>4 DEF NextStreak, NextBoost, StarvationInv, StarvationTypeOK
    <3>4. missed'[0] <= Guard + 1
      BY <2>1, <2>4 DEF StarvationInv, WaitBudget
    <3>5. missed'[2] <= 1
      BY <2>1, <2>4 DEF StarvationInv, WaitBudget
    <3> QED
      BY <3>2, <3>3, <3>4, <3>5 DEF WaitBudget
  <2> QED
    BY <2>2, <2>3, <2>4 DEF StarvationInv, StarvationTypeOK
<1> QED
  BY <1>8, <1>9, Zenon DEF StarvationInv

\* A steal by another processor does not count against anybody.
LEMMA StolenFromKeeps ==
  ASSUME StarvationInv, StolenFrom PROVE StarvationInv'
<1>1. ready' \in [Level -> Seq(Task)]
  BY PopRestType, Zenon DEF StolenFrom, StarvationInv, StarvationTypeOK
<1>2. missed' \in [Level -> Nat] /\ \A l \in Level : missed'[l] <= missed[l]
  BY DEF StolenFrom, StarvationInv, StarvationTypeOK
<1>3. streak' = streak /\ boost' = boost
  BY Zenon DEF StolenFrom
<1>4. StarvationTypeOK'
  BY <1>1, <1>2, <1>3, Zenon DEF StarvationInv, StarvationTypeOK
<1>5. WaitBudget'
  BY <1>2, <1>3, GuardAssumption DEF StarvationInv, StarvationTypeOK, WaitBudget, Level
<1> QED
  BY <1>4, <1>5, Zenon DEF StarvationInv

\* WaitBudget is inductive: the guard of pop_runnable bounds every level's wait.
THEOREM InductiveWait == StarvationSpec => []StarvationInv
<1>1. StarvationInit => StarvationInv
  <2> SUFFICES ASSUME StarvationInit PROVE StarvationInv
    BY Zenon
  <2> QED
    BY GuardAssumption DEF StarvationInit, StarvationInv, StarvationTypeOK, WaitBudget, EmptyQueues, Level
<1>2. StarvationInv /\ [StarvationNext]_starvationVars => StarvationInv'
  <2> SUFFICES ASSUME StarvationInv, [StarvationNext]_starvationVars PROVE StarvationInv'
    BY Zenon
  <2>1. ASSUME NEW l \in Level, NEW t \in Task, Arrive(l, t) PROVE StarvationInv'
    BY <2>1, EnqueueType, Zenon DEF Arrive, StarvationInv, StarvationTypeOK, WaitBudget
  <2>2. CASE Pick
    BY <2>2, PickKeeps, Zenon
  <2>3. CASE StolenFrom
    BY <2>3, StolenFromKeeps, Zenon
  <2>4. CASE UNCHANGED starvationVars
    BY <2>4, Zenon DEF starvationVars, StarvationInv, StarvationTypeOK, WaitBudget
  <2> QED
    BY <2>1, <2>2, <2>3, <2>4, Zenon DEF StarvationNext
<1> QED
  BY <1>1, <1>2, PTL DEF StarvationSpec

\* The README's claim: the alternating guard "bounds any level's wait at two
\* guard intervals".
THEOREM WaitIsBounded == StarvationSpec => []BoundedWait
<1>1. StarvationInv => BoundedWait
  BY GuardAssumption DEF StarvationInv, StarvationTypeOK, WaitBudget, BoundedWait, Level
<1> QED
  BY <1>1, InductiveWait, PTL

-----------------------------------------------------------------------------
(* SpacesSafe for any number of processors, threads, slots and frames.       *)

Lifetimes == {"spawned", "claimed", "attached", "loaded", "exiting", "detached",
              "left", "released", "gone"}

SpacesTypeOK ==
    /\ slotTable \in [1 .. MaxSlots -> SpaceThread \cup {Nobody}]
    /\ attached \in [SpaceThread -> SpaceFrame \cup {Kernel}]
    /\ running \in [SpaceCpu -> SpaceThread \cup {Nobody}]
    /\ active \in [SpaceCpu -> SpaceFrame \cup {Kernel}]
    /\ leaving \in [SpaceThread -> SpaceFrame \cup {Kernel}]
    /\ tableFrames \subseteq SpaceFrame
    /\ life \in [SpaceThread -> Lifetimes]

\* A thread runs on one processor, and CR3 holds its tables or the kernel's; the
\* kernel's alone where nobody runs and once the thread has left its own.
LoadedInv ==
    \A c \in SpaceCpu :
        /\ \A d \in SpaceCpu : c # d /\ running[c] # Nobody => running[c] # running[d]
        /\ running[c] = Nobody => active[c] = Kernel
        /\ \A t \in SpaceThread : running[c] = t =>
               /\ active[c] \in {Kernel, attached[t], leaving[t]}
               /\ life[t] \in {"left", "released", "gone"} => active[c] = Kernel

\* A frame is with the allocator or with one thread, which has one only from
\* attaching it to giving it back.
OwnedInv ==
    \A t \in SpaceThread :
        /\ attached[t] \notin tableFrames /\ leaving[t] \notin tableFrames
        /\ attached[t] # Kernel => life[t] \in {"attached", "loaded", "exiting"}
        /\ leaving[t] # Kernel => life[t] \in {"detached", "left"}
        /\ \A u \in SpaceThread : t # u =>
               {attached[t], leaving[t]} \cap {attached[u], leaving[u]} \subseteq {Kernel}

\* A thread with tables has the slot they are for, and one that is gone has none.
SlotInv ==
    \A t \in SpaceThread :
        /\ life[t] \in {"claimed", "attached", "loaded"} \/ attached[t] # Kernel =>
               \E n \in 1 .. MaxSlots : slotTable[n] = t
        /\ life[t] = "gone" => \A n \in 1 .. MaxSlots : slotTable[n] # t

SpacesInv == SpacesTypeOK /\ LoadedInv /\ OwnedInv /\ SlotInv

\* A switch loads what the incoming thread has attached, so CR3 follows the thread.
LEMMA SwitchKeeps ==
    ASSUME SpacesInv, NEW c \in SpaceCpu, NEW t \in SpaceThread \cup {Nobody}, SwitchTo(c, t)
    PROVE  SpacesInv'
<1> USE SpacesAssumption DEF SpacesInv, SwitchTo
<1>1. SpacesTypeOK'
  BY Zenon DEF SpacesTypeOK
<1>2. LoadedInv'
  BY DEF SpacesTypeOK, LoadedInv, OwnedInv, Lifetimes
<1>3. OwnedInv'
  BY Zenon DEF SpacesTypeOK, OwnedInv
<1>4. SlotInv'
  BY Zenon DEF SpacesTypeOK, SlotInv
<1> QED
  BY <1>1, <1>2, <1>3, <1>4, Zenon

\* A slot is claimed only where it is empty.
LEMMA ClaimSlotKeeps ==
    ASSUME SpacesInv, NEW c \in SpaceCpu, NEW t \in SpaceThread, ClaimSlot(c, t)
    PROVE  SpacesInv'
<1> USE SpacesAssumption DEF SpacesInv, ClaimSlot, Lives
<1>1. SpacesTypeOK'
  BY DEF SpacesTypeOK, Lifetimes
<1>2. LoadedInv'
  BY DEF SpacesTypeOK, LoadedInv, OwnedInv, Lifetimes
<1>3. OwnedInv'
  BY Zenon DEF SpacesTypeOK, OwnedInv, Lifetimes
<1>4. SlotInv'
  <2>1. CASE UNCHANGED slotTable /\ Lives(c, t, "spawned", "exiting")
    BY <2>1, Zenon DEF SpacesTypeOK, SlotInv
  <2>2. ASSUME NEW n \in 1 .. MaxSlots, slotTable[n] = Nobody,
               Lives(c, t, "spawned", "claimed"), slotTable' = [slotTable EXCEPT ![n] = t]
        PROVE  SlotInv'
    <3>1. \A k \in 1 .. MaxSlots : slotTable'[k] = (IF k = n THEN t ELSE slotTable[k])
      BY <2>2, Zenon DEF SpacesTypeOK
    <3>2. \A u \in SpaceThread : life'[u] = (IF u = t THEN "claimed" ELSE life[u])
      BY <2>2, Zenon DEF SpacesTypeOK
    <3>3. \A u \in SpaceThread, k \in 1 .. MaxSlots : slotTable[k] = u => slotTable'[k] = u
      BY <2>2, <3>1, Zenon
    <3>4. attached' = attached
      BY Zenon
    <3> QED
      BY <3>1, <3>2, <3>3, <3>4 DEF SlotInv
  <2> QED
    BY <2>1, <2>2, Zenon
<1> QED
  BY <1>1, <1>2, <1>3, <1>4, Zenon

\* A frame leaves the allocator for the one thread that attaches it.
LEMMA AttachKeeps ==
    ASSUME SpacesInv, NEW c \in SpaceCpu, NEW t \in SpaceThread, Attach(c, t)
    PROVE  SpacesInv'
<1> USE SpacesAssumption DEF SpacesInv, Attach, Lives
<1>1. SpacesTypeOK'
  BY DEF SpacesTypeOK, Lifetimes
<1>2. LoadedInv'
  BY DEF SpacesTypeOK, LoadedInv, OwnedInv, Lifetimes
<1>3. OwnedInv'
  BY DEF SpacesTypeOK, OwnedInv, Lifetimes
<1>4. SlotInv'
  BY DEF SpacesTypeOK, SlotInv, OwnedInv, SlotOf
<1> QED
  BY <1>1, <1>2, <1>3, <1>4, Zenon

\* A thread loads its own tables.
LEMMA ActivateKeeps ==
    ASSUME SpacesInv, NEW c \in SpaceCpu, NEW t \in SpaceThread, Activate(c, t)
    PROVE  SpacesInv'
<1> USE SpacesAssumption DEF SpacesInv, Activate, Lives
<1>1. SpacesTypeOK'
  BY Zenon DEF SpacesTypeOK, Lifetimes
<1>2. LoadedInv'
  BY DEF SpacesTypeOK, LoadedInv, OwnedInv, Lifetimes
<1>3. OwnedInv'
  BY DEF SpacesTypeOK, OwnedInv, Lifetimes
<1>4. SlotInv'
  BY Zenon DEF SpacesTypeOK, SlotInv, OwnedInv, SlotOf
<1> QED
  BY <1>1, <1>2, <1>3, <1>4, Zenon

\* An exit begins with everything still in place.
LEMMA ExitThreadKeeps ==
    ASSUME SpacesInv, NEW c \in SpaceCpu, NEW t \in SpaceThread, ExitThread(c, t)
    PROVE  SpacesInv'
<1> USE SpacesAssumption DEF SpacesInv, ExitThread, Lives
<1>1. SpacesTypeOK'
  BY Zenon DEF SpacesTypeOK, Lifetimes
<1>2. LoadedInv'
  BY DEF SpacesTypeOK, LoadedInv, OwnedInv, Lifetimes
<1>3. OwnedInv'
  BY DEF SpacesTypeOK, OwnedInv, Lifetimes
<1>4. SlotInv'
  BY Zenon DEF SpacesTypeOK, SlotInv, OwnedInv, SlotOf
<1> QED
  BY <1>1, <1>2, <1>3, <1>4, Zenon

\* The tables change from attached to leaving, and stay the thread's.
LEMMA DetachKeeps ==
    ASSUME SpacesInv, NEW c \in SpaceCpu, NEW t \in SpaceThread, Detach(c, t)
    PROVE  SpacesInv'
<1> USE SpacesAssumption DEF SpacesInv, Detach, Lives
<1>1. SpacesTypeOK'
  BY Zenon DEF SpacesTypeOK, Lifetimes
<1>2. LoadedInv'
  BY DEF SpacesTypeOK, LoadedInv, OwnedInv, SlotInv, SlotOf
<1>3. OwnedInv'
  BY DEF SpacesTypeOK, OwnedInv, SlotInv, SlotOf
<1>4. SlotInv'
  BY DEF SpacesTypeOK, SlotInv, OwnedInv, SlotOf
<1> QED
  BY <1>1, <1>2, <1>3, <1>4, Zenon

\* The kernel's tables replace the ones that are going.
LEMMA LeaveKeeps ==
    ASSUME SpacesInv, NEW c \in SpaceCpu, NEW t \in SpaceThread, Leave(c, t)
    PROVE  SpacesInv'
<1> USE SpacesAssumption DEF SpacesInv, Leave, Lives
<1>1. SpacesTypeOK'
  BY Zenon DEF SpacesTypeOK, Lifetimes
<1>2. LoadedInv'
  BY DEF SpacesTypeOK, LoadedInv, OwnedInv, Lifetimes
<1>3. OwnedInv'
  BY DEF SpacesTypeOK, OwnedInv, Lifetimes
<1>4. SlotInv'
  BY Zenon DEF SpacesTypeOK, SlotInv, OwnedInv, SlotOf
<1> QED
  BY <1>1, <1>2, <1>3, <1>4, Zenon

\* What goes back is in no CR3: the thread runs on the kernel's tables.
LEMMA ReleaseSpaceKeeps ==
    ASSUME SpacesInv, NEW c \in SpaceCpu, NEW t \in SpaceThread, ReleaseSpace(c, t)
    PROVE  SpacesInv'
<1> USE SpacesAssumption DEF SpacesInv, ReleaseSpace, Lives
<1>1. SpacesTypeOK'
  BY Zenon DEF SpacesTypeOK, Lifetimes
<1>2. LoadedInv'
  BY DEF SpacesTypeOK, LoadedInv, OwnedInv, Lifetimes
<1>3. OwnedInv'
  <2>1. \A u \in SpaceThread : leaving'[u] = (IF u = t THEN Kernel ELSE leaving[u])
    BY Zenon DEF SpacesTypeOK
  <2>2. \A u \in SpaceThread : life'[u] = (IF u = t THEN "released" ELSE life[u])
    BY Zenon DEF SpacesTypeOK
  <2>3. leaving[t] # Kernel => attached[t] # leaving[t]
    BY Zenon DEF OwnedInv
  <2>4. \A u \in SpaceThread : u # t /\ leaving[t] # Kernel =>
           attached[u] # leaving[t] /\ leaving[u] # leaving[t]
    <3>1. ASSUME NEW u \in SpaceThread, u # t, leaving[t] # Kernel
          PROVE  leaving[t] \notin {attached[u], leaving[u]}
      <4>1. {attached[t], leaving[t]} \cap {attached[u], leaving[u]} \subseteq {Kernel}
        BY <3>1, Zenon DEF OwnedInv
      <4>2. leaving[t] \in {attached[t], leaving[t]}
        BY Zenon
      <4> QED
        BY <3>1, <4>1, <4>2, Zenon
    <3> QED
      BY <3>1, Zenon
  <2>5. \A u \in SpaceThread : attached'[u] \notin tableFrames' /\ leaving'[u] \notin tableFrames'
    BY <2>1, <2>3, <2>4, Zenon DEF SpacesTypeOK, OwnedInv
  <2>6. \A u \in SpaceThread :
           /\ attached'[u] # Kernel => life'[u] \in {"attached", "loaded", "exiting"}
           /\ leaving'[u] # Kernel => life'[u] \in {"detached", "left"}
    BY <2>1, <2>2 DEF OwnedInv
  <2>7. \A u, v \in SpaceThread : u # v =>
           {attached'[u], leaving'[u]} \cap {attached'[v], leaving'[v]} \subseteq {Kernel}
    <3>1. \A u \in SpaceThread :
             {attached'[u], leaving'[u]} \subseteq {attached[u], leaving[u], Kernel}
      BY <2>1, Zenon
    <3>2. \A u, v \in SpaceThread : u # v =>
             {attached[u], leaving[u]} \cap {attached[v], leaving[v]} \subseteq {Kernel}
      BY Zenon DEF OwnedInv
    <3> HIDE DEF SpacesInv, ReleaseSpace, Lives
    <3> QED
      BY <3>1, <3>2
  <2> HIDE DEF SpacesInv, ReleaseSpace, Lives
  <2> QED
    BY <2>5, <2>6, <2>7, Zenon DEF OwnedInv
<1>4. SlotInv'
  BY Zenon DEF SpacesTypeOK, SlotInv, OwnedInv, SlotOf
<1> QED
  BY <1>1, <1>2, <1>3, <1>4, Zenon

\* The slot is given up last, with no tables left.
LEMMA FreeSlotKeeps ==
    ASSUME SpacesInv, NEW c \in SpaceCpu, NEW t \in SpaceThread, FreeSlot(c, t)
    PROVE  SpacesInv'
<1> USE SpacesAssumption DEF SpacesInv, FreeSlot, Lives
<1>1. SpacesTypeOK'
  BY Zenon DEF SpacesTypeOK, Lifetimes
<1>2. LoadedInv'
  BY DEF SpacesTypeOK, LoadedInv, OwnedInv, Lifetimes
<1>3. OwnedInv'
  BY DEF SpacesTypeOK, OwnedInv, Lifetimes
<1>4. SlotInv'
  BY DEF SpacesTypeOK, SlotInv, OwnedInv, SlotOf
<1> QED
  BY <1>1, <1>2, <1>3, <1>4, Zenon

\* release_slot and the scheduler keep address spaces apart on any number of
\* processors: no CR3 names a table that went back or another thread's, whenever the
\* exiting thread is preempted (take_address_space before release).
THEOREM SpacesStaySafe == SpacesSpec => []SpacesSafe
<1>1. SpacesInit => SpacesInv
  BY SpacesAssumption DEF SpacesInit, SpacesInv, SpacesTypeOK, LoadedInv, OwnedInv, SlotInv, Lifetimes
<1>2. SpacesInv /\ [SpacesNext]_spaceVars => SpacesInv'
  <2> SUFFICES ASSUME SpacesInv, [SpacesNext]_spaceVars PROVE SpacesInv'
    BY Zenon
  <2>1. CASE SpacesNext
    BY <2>1, SwitchKeeps, ClaimSlotKeeps, AttachKeeps, ActivateKeeps, ExitThreadKeeps, DetachKeeps,
       LeaveKeeps, ReleaseSpaceKeeps, FreeSlotKeeps, Zenon DEF SpacesNext
  <2>2. CASE UNCHANGED spaceVars
    BY <2>2, Zenon DEF spaceVars, SpacesInv, SpacesTypeOK, LoadedInv, OwnedInv, SlotInv
  <2> QED
    BY <2>1, <2>2, Zenon
<1>3. SpacesInv => SpacesSafe
  <2> SUFFICES ASSUME SpacesInv PROVE SpacesSafe
    BY Zenon
  <2> USE SpacesAssumption DEF SpacesInv, SpacesTypeOK, OwnedInv
  <2>1. ASSUME NEW c \in SpaceCpu, active[c] # Kernel
        PROVE  /\ active[c] \notin tableFrames
               /\ \E t \in SpaceThread :
                      running[c] = t /\ active[c] \in {attached[t], leaving[t]}
    BY <2>1 DEF LoadedInv
  <2>2. ASSUME NEW t \in SpaceThread, life[t] = "gone"
        PROVE  SlotOf(t) = {} /\ attached[t] = Kernel
    BY <2>2 DEF SlotInv, SlotOf
  <2> QED
    BY <2>1, <2>2, Zenon DEF SpacesSafe
<1> QED
  BY <1>1, <1>2, <1>3, PTL DEF SpacesSpec

-----------------------------------------------------------------------------
(* StacksFlushed for any number of processors, stacks, pages and frames.     *)

\* Where a processor holds a frame it has unmapped.
Unmapping == {"reclaim", "ask", "wait", "freeTable", "freeFrame"}
Requests == Page \cup {Nothing, Everything}

StacksTypeOK ==
  /\ freeFrames \subseteq Frame /\ p1 \in Frame \cup {NoFrame}
  /\ pte \in [Page -> Frame \cup {NoFrame}]
  /\ slots \subseteq Stack /\ up \subseteq slots
  /\ request \in [Cpu -> Requests] /\ flushing \in [Cpu -> Requests]
  /\ tlb \in [Cpu -> SUBSET (Page \X Frame)] /\ walk \in [Cpu -> Frame \cup {NoFrame}]
  /\ step \in [Cpu -> {"run", "map", "unmap", "unclaim"} \cup Unmapping]
  /\ stack \in [Cpu -> Nat] /\ index \in [Cpu -> Nat \ {0}]
  /\ released \in [Cpu -> Frame \cup {NoFrame}] /\ detached \in [Cpu -> Frame \cup {NoFrame}]
  /\ todo \in [Cpu -> SUBSET Cpu] /\ targeted \in [Cpu -> SUBSET Cpu]

\* A stack that is being mapped or unmapped is claimed, is not up, and is one
\* processor's, which holds a frame from taking it out to freeing it.
WorkInv ==
  \A c \in Cpu :
    /\ step[c] # "run" => /\ c \in Worker /\ stack[c] \in slots /\ stack[c] \notin up
                          /\ \A d \in Cpu : step[d] # "run" /\ stack[d] = stack[c] => c = d
    /\ step[c] \in Unmapping <=> released[c] # NoFrame
    /\ step[c] \in Unmapping => index[c] <= StackPages /\ pte[ThisPage(c)] = NoFrame
    /\ detached[c] # NoFrame => step[c] \in {"ask", "wait", "freeTable"}

\* The pages of a stack that are mapped: all of one that is up, none of one that is
\* not claimed, and in between as far as map_in or unmap_in has come.
MappedSoFar(p, place, i) ==
  /\ place = "map" => (pte[p] = NoFrame <=> p[2] >= i)
  /\ place = "unclaim" => pte[p] = NoFrame
  /\ place \in {"unmap"} \cup Unmapping /\ p[2] < i => pte[p] = NoFrame

PagesInv ==
  \A p \in Page :
    /\ p[1] \notin slots => pte[p] = NoFrame
    /\ p[1] \in up => pte[p] # NoFrame
    /\ \A c \in Cpu : p[1] = stack[c] => MappedSoFar(p, step[c], index[c])

\* Every frame is in one place.
FramesInv ==
  /\ FramesOnce
  /\ \A p, q \in Page : pte[p] = pte[q] => p = q \/ pte[p] = NoFrame
  /\ \A p \in Page : pte[p] = p1 => p1 = NoFrame
  /\ \A c \in Cpu, p \in Page : pte[p] \in {released[c], detached[c]} => pte[p] = NoFrame
  /\ \A c \in Cpu : p1 \in {released[c], detached[c]} => p1 = NoFrame
  /\ \A c, d \in Cpu : released[c] = detached[d] => released[c] = NoFrame
  /\ \A c, d \in Cpu : released[c] = released[d] => c = d \/ released[c] = NoFrame
  /\ \A c, d \in Cpu : detached[c] = detached[d] => c = d \/ detached[c] = NoFrame

Covers(what, p) == what \in {Everything, p}

\* d has still to hear from c: it has not asked yet, or c has not taken the request.
Unasked(d, c) == step[d] = "reclaim" \/ (step[d] = "ask" /\ c \in todo[d])
Awaits(d, c) == step[d] \in {"ask", "wait"} /\ c \in targeted[d]

\* A translation that is no longer true is about to be flushed, or is of the page
\* whose frame an unmap holds until it has heard from the processor.
TlbInv ==
  \A c \in Cpu : \A e \in tlb[c] :
    \/ pte[e[1]] = e[2]
    \/ Covers(flushing[c], e[1])
    \/ \E d \in Cpu : /\ d # c /\ released[d] = e[2] /\ ThisPage(d) = e[1]
                      /\ Unasked(d, c) \/ (Awaits(d, c) /\ Covers(request[c], e[1]))

\* And so for the cached entry of the P2.
WalkInv ==
  \A c \in Cpu :
    \/ walk[c] \in {NoFrame, p1} \/ flushing[c] # Nothing
    \/ \E d \in Cpu : /\ d # c /\ detached[d] = walk[c]
                      /\ Unasked(d, c) \/ (Awaits(d, c) /\ request[c] # Nothing)

StacksInv == StacksTypeOK /\ WorkInv /\ PagesInv /\ FramesInv /\ TlbInv /\ WalkInv

\* The request for a page is none of the two that are not pages.
LEMMA PageRequests ==
  Nothing # Everything /\ \A p \in Page : p # Nothing /\ p # Everything
BY StacksAssumption DEF Page, Stack, Nothing, Everything

\* The page a processor is at, while it is within its stack.
LEMMA ThisPageIsPage ==
  ASSUME StacksInv, NEW c \in Cpu, step[c] # "run", index[c] <= StackPages
  PROVE  ThisPage(c) \in Page /\ ThisPage(c)[1] = stack[c] /\ ThisPage(c)[2] = index[c]
<1>1. stack[c] \in Stack /\ index[c] \in 1 .. StackPages
  BY StacksAssumption DEF StacksInv, StacksTypeOK, WorkInv
<1> QED
  BY <1>1, Zenon DEF ThisPage, Page

\* No frame has the number that stands for none.
LEMMA FramesAreNot ==
  \A f \in Frame : f # NoFrame /\ f \in Nat
BY DEF Frame, NoFrame

\* What a page is made of.
LEMMA PageParts ==
  \A p \in Page : p = <<p[1], p[2]>> /\ p[2] \in Nat \ {0} /\ p[2] <= StackPages
BY StacksAssumption DEF Page

\* A cached translation is of a page, to a frame.
LEMMA CachedParts ==
  ASSUME StacksInv, NEW b \in Cpu, NEW e \in tlb[b]
  PROVE  e[1] \in Page /\ e[2] \in Frame /\ e[2] # NoFrame
<1>1. tlb \in [Cpu -> SUBSET (Page \X Frame)]
  BY Zenon DEF StacksInv, StacksTypeOK
<1>2. e \in Page \X Frame
  BY <1>1, Zenon
<1>3. e[1] \in Page /\ e[2] \in Frame
  BY <1>2, Zenon
<1> QED
  BY <1>3, FramesAreNot, Zenon

\* A step that moves no frame.
LEMMA FramesKeep ==
  ASSUME StacksInv, UNCHANGED <<freeFrames, p1, pte, released, detached>>
  PROVE  FramesInv'
BY Zenon DEF StacksInv, FramesInv, FramesOnce

\* The pairs of places that hold no frame in common, as FramesInv has them.
LEMMA FramesApart ==
  ASSUME StacksInv
  PROVE  /\ NoFrame \notin freeFrames
         /\ \A p \in Page : pte[p] \notin freeFrames
         /\ p1 \notin freeFrames
         /\ \A d \in Cpu : released[d] \notin freeFrames /\ detached[d] \notin freeFrames
<1>1. NoFrame \notin freeFrames
  BY FramesAreNot, Zenon DEF StacksInv, StacksTypeOK
<1>2. \A d \in Cpu : d \notin Worker => released[d] = NoFrame /\ detached[d] = NoFrame
  BY Zenon DEF StacksInv, WorkInv, Unmapping
<1>3. \A d \in Worker : released[d] \notin freeFrames /\ detached[d] \notin freeFrames
  BY Zenon DEF StacksInv, FramesInv, FramesOnce
<1>4. (\A p \in Page : pte[p] \notin freeFrames) /\ p1 \notin freeFrames
  BY Zenon DEF StacksInv, FramesInv, FramesOnce
<1> QED
  BY <1>1, <1>2, <1>3, <1>4, Zenon

\* A frame is freed by the one that held it.
LEMMA FreedKeeps ==
  ASSUME StacksInv, NEW x, UNCHANGED <<p1, pte>>, freeFrames' = freeFrames \cup ({x} \ {NoFrame}),
         \A d \in Cpu : released'[d] \in {released[d], NoFrame} /\ detached'[d] \in {detached[d], NoFrame},
         \A d \in Cpu : x \in {released'[d], detached'[d]} => x = NoFrame,
         \A p \in Page : pte[p] = x => x = NoFrame, p1 = x => x = NoFrame
  PROVE  FramesInv'
<1>1. \A y \in freeFrames' : y \in freeFrames \/ (y = x /\ x # NoFrame)
  BY Zenon
<1>2. FramesOnce'
  <2>1. (\A p \in Page : pte[p] \notin freeFrames') /\ p1 \notin freeFrames'
    BY <1>1, FramesApart, Zenon
  <2>2. \A d \in Cpu : released'[d] \notin freeFrames' /\ detached'[d] \notin freeFrames'
    <3> SUFFICES ASSUME NEW d \in Cpu
                 PROVE  released'[d] \notin freeFrames' /\ detached'[d] \notin freeFrames'
      BY Zenon
    <3>1. /\ released'[d] \notin freeFrames /\ detached'[d] \notin freeFrames
          /\ x \in {released'[d], detached'[d]} => x = NoFrame
      BY FramesApart, Zenon
    <3> QED
      BY <1>1, <3>1, Zenon
  <2> QED
    BY <2>1, <2>2, StacksAssumption, Zenon DEF FramesOnce
<1>3. ASSUME NEW d \in Cpu, NEW p \in Page, pte[p] \in {released'[d], detached'[d]}
      PROVE  pte[p] = NoFrame
  <2>1. pte[p] \in {released[d], detached[d]} => pte[p] = NoFrame
    BY Zenon DEF StacksInv, FramesInv
  <2> QED
    BY <1>3, <2>1, Zenon
<1>4. \A d \in Cpu : p1 \in {released'[d], detached'[d]} => p1 = NoFrame
  BY Zenon DEF StacksInv, FramesInv
<1>5. \A d, e \in Cpu : released'[d] = detached'[e] => released'[d] = NoFrame
  BY Zenon DEF StacksInv, FramesInv
<1>6. \A d, e \in Cpu : released'[d] = released'[e] => d = e \/ released'[d] = NoFrame
  BY Zenon DEF StacksInv, FramesInv
<1>7. \A d, e \in Cpu : detached'[d] = detached'[e] => d = e \/ detached'[d] = NoFrame
  BY Zenon DEF StacksInv, FramesInv
<1> QED
  BY <1>2, <1>3, <1>4, <1>5, <1>6, <1>7, Zenon DEF StacksInv, FramesInv

\* A step of nobody who maps or unmaps.
LEMMA CacheStepKeeps ==
  ASSUME StacksInv, UNCHANGED <<allocator, step, stack, index, released, detached>>
  PROVE  WorkInv' /\ PagesInv' /\ FramesInv'
<1>1. UNCHANGED <<freeFrames, p1, pte, slots, up>>
  BY Zenon DEF allocator
<1>2. WorkInv'
  BY <1>1, Zenon DEF StacksInv, WorkInv, ThisPage
<1>3. PagesInv'
  BY <1>1, Zenon DEF StacksInv, PagesInv, MappedSoFar
<1> QED
  BY <1>1, <1>2, <1>3, FramesKeep, Zenon

\* A step between taking a frame out of the tables and freeing it.
LEMMA HoldingKeeps ==
  ASSUME StacksInv, NEW c \in Cpu, step[c] \in Unmapping, step'[c] \in Unmapping,
         \A d \in Cpu : d # c => step'[d] = step[d],
         UNCHANGED <<pte, slots, up, stack, index, released>>,
         \A d \in Cpu : detached'[d] # NoFrame => step'[d] \in {"ask", "wait", "freeTable"}
  PROVE  WorkInv' /\ PagesInv'
<1>1. "run" \notin Unmapping /\ "map" \notin Unmapping /\ "unmap" \notin Unmapping /\ "unclaim" \notin Unmapping
  BY Zenon DEF Unmapping
<1>2. \A d \in Cpu : /\ step'[d] \in Unmapping <=> step[d] \in Unmapping
                     /\ step'[d] = "run" <=> step[d] = "run"
                     /\ step'[d] = "map" <=> step[d] = "map"
                     /\ step'[d] = "unclaim" <=> step[d] = "unclaim"
                     /\ step'[d] \in {"unmap"} \cup Unmapping <=> step[d] \in {"unmap"} \cup Unmapping
  BY <1>1, Zenon
<1>3. WorkInv'
  <2> SUFFICES ASSUME NEW d \in Cpu
               PROVE  /\ step'[d] # "run" =>
                          /\ d \in Worker /\ stack[d] \in slots /\ stack[d] \notin up
                          /\ \A e \in Cpu : step'[e] # "run" /\ stack[e] = stack[d] => d = e
                      /\ step'[d] \in Unmapping <=> released[d] # NoFrame
                      /\ step'[d] \in Unmapping => index[d] <= StackPages /\ pte[ThisPage(d)] = NoFrame
    BY Zenon DEF WorkInv, ThisPage
  <2> QED
    BY <1>2, Zenon DEF StacksInv, WorkInv
<1>4. PagesInv'
  <2>1. \A p \in Page, d \in Cpu : MappedSoFar(p, step[d], index[d]) => MappedSoFar(p, step[d], index[d])'
    BY <1>2, Zenon DEF MappedSoFar
  <2> QED
    BY <2>1, Zenon DEF StacksInv, PagesInv
<1> QED
  BY <1>3, <1>4, Zenon

\* What is owed stays owed: a step after which every processor that had to be heard
\* from still has to be.
LEMMA OwedKeeps ==
  ASSUME StacksInv, UNCHANGED <<p1, pte, request, flushing>>,
         \A b \in Cpu : \A e \in tlb'[b] : e \in tlb[b],
         \A b \in Cpu : walk'[b] \in {NoFrame, walk[b]},
         \A b, d \in Cpu : (Unasked(d, b) => Unasked(d, b)') /\ (Awaits(d, b) => Awaits(d, b)'),
         \A b, d \in Cpu : Unasked(d, b) \/ Awaits(d, b) =>
            released'[d] = released[d] /\ detached'[d] = detached[d] /\ ThisPage(d)' = ThisPage(d)
  PROVE  TlbInv' /\ WalkInv'
<1>1. TlbInv'
  <2> SUFFICES ASSUME NEW b \in Cpu, NEW e \in tlb'[b], pte[e[1]] # e[2], ~Covers(flushing[b], e[1])
               PROVE  \E d \in Cpu : /\ d # b /\ released'[d] = e[2] /\ ThisPage(d)' = e[1]
                                     /\ Unasked(d, b)' \/ (Awaits(d, b)' /\ Covers(request[b], e[1]))
    BY Zenon DEF TlbInv, Covers
  <2>1. PICK d \in Cpu : /\ d # b /\ released[d] = e[2] /\ ThisPage(d) = e[1]
                         /\ Unasked(d, b) \/ (Awaits(d, b) /\ Covers(request[b], e[1]))
    BY Zenon DEF StacksInv, TlbInv
  <2> QED
    BY <2>1, Zenon
<1>2. WalkInv'
  <2> SUFFICES ASSUME NEW b \in Cpu, walk'[b] \notin {NoFrame, p1}, flushing[b] = Nothing
               PROVE  \E d \in Cpu : /\ d # b /\ detached'[d] = walk'[b]
                                     /\ Unasked(d, b)' \/ (Awaits(d, b)' /\ request[b] # Nothing)
    BY Zenon DEF WalkInv
  <2>1. PICK d \in Cpu : /\ d # b /\ detached[d] = walk[b]
                         /\ Unasked(d, b) \/ (Awaits(d, b) /\ request[b] # Nothing)
    BY Zenon DEF StacksInv, WalkInv
  <2> QED
    BY <2>1, Zenon
<1> QED
  BY <1>1, <1>2, Zenon

\* A step of a processor that holds no unmapped frame, before it and after it, and
\* that touches neither the tables nor a cache: it goes on at page i of stack s.
LEMMA MoveKeeps ==
  ASSUME StacksInv, NEW c \in Worker, NEW s \in Nat, NEW i \in Nat \ {0},
         NEW place \in {"run", "map", "unmap", "unclaim"}, step[c] \notin Unmapping,
         step' = [step EXCEPT ![c] = place], stack' = [stack EXCEPT ![c] = s],
         index' = [index EXCEPT ![c] = i], slots' \subseteq Stack, up' \subseteq slots',
         UNCHANGED <<freeFrames, p1, pte, request, flushing, caches, released, detached, todo, targeted>>,
         place # "run" => /\ s \in slots' /\ s \notin up'
                          /\ \A d \in Cpu : step[d] # "run" /\ stack[d] = s => c = d,
         \A d \in Cpu : d # c /\ step[d] # "run" => stack[d] \in slots' /\ stack[d] \notin up',
         \A p \in Page : (p[1] \notin slots' => pte[p] = NoFrame) /\ (p[1] \in up' => pte[p] # NoFrame),
         \A p \in Page : p[1] = s => MappedSoFar(p, place, i)
  PROVE  StacksInv'
<1>1. c \in Cpu /\ place \notin Unmapping
  BY StacksAssumption, Zenon DEF Unmapping
<1>2. /\ step' [c] = place /\ stack'[c] = s /\ index'[c] = i
      /\ \A d \in Cpu : d # c => step'[d] = step[d] /\ stack'[d] = stack[d] /\ index'[d] = index[d]
  BY <1>1, Zenon DEF StacksInv, StacksTypeOK
<1>3. \A d \in Cpu : d # c => ThisPage(d)' = ThisPage(d)
  BY <1>2, Zenon DEF ThisPage
<1>4. StacksTypeOK'
  BY <1>1, Zenon DEF StacksInv, StacksTypeOK, caches
<1>5. WorkInv'
  <2> SUFFICES ASSUME NEW d \in Cpu
               PROVE  /\ step'[d] # "run" =>
                          /\ d \in Worker /\ stack'[d] \in slots' /\ stack'[d] \notin up'
                          /\ \A e \in Cpu : step'[e] # "run" /\ stack'[e] = stack'[d] => d = e
                      /\ step'[d] \in Unmapping <=> released[d] # NoFrame
                      /\ step'[d] \in Unmapping => index'[d] <= StackPages /\ pte[ThisPage(d)'] = NoFrame
                      /\ detached[d] # NoFrame => step'[d] \in {"ask", "wait", "freeTable"}
    BY Zenon DEF WorkInv
  <2>1. CASE d = c
    <3>1. released[c] = NoFrame /\ detached[c] = NoFrame
      BY <1>1, Zenon DEF StacksInv, WorkInv, Unmapping
    <3>2. step'[d] = place /\ stack'[d] = s
      BY <1>2, <2>1, Zenon
    <3>3. step'[d] \notin Unmapping /\ released[d] = NoFrame /\ detached[d] = NoFrame
      BY <1>1, <2>1, <3>1, <3>2, Zenon
    <3>4. ASSUME place # "run", NEW e \in Cpu, step'[e] # "run", stack'[e] = s
          PROVE  d = e
      <4>1. CASE e # c
        <5>1. step[e] # "run" /\ stack[e] = s
          BY <1>2, <3>4, <4>1, Zenon
        <5> QED
          BY <2>1, <3>4, <5>1, Zenon
      <4> QED
        BY <2>1, <4>1, Zenon
    <3> QED
      BY <2>1, <3>2, <3>3, <3>4, Zenon
  <2>2. CASE d # c
    <3>1. /\ step[d] # "run" =>
               d \in Worker /\ \A e \in Cpu : step[e] # "run" /\ stack[e] = stack[d] => d = e
          /\ step[d] \in Unmapping <=> released[d] # NoFrame
          /\ step[d] \in Unmapping => index[d] <= StackPages /\ pte[ThisPage(d)] = NoFrame
          /\ detached[d] # NoFrame => step[d] \in {"ask", "wait", "freeTable"}
      BY Zenon DEF StacksInv, WorkInv
    <3>2. step[d] # "run" => \A e \in Cpu : step'[e] # "run" /\ stack'[e] = stack[d] => d = e
      <4> SUFFICES ASSUME NEW e \in Cpu, step[d] # "run", step'[e] # "run", stack'[e] = stack[d]
                   PROVE  d = e
        BY Zenon
      <4>1. CASE e = c
        <5>1. step'[e] = place /\ stack'[e] = s
          BY <1>2, <4>1, Zenon
        <5> QED
          BY <2>2, <5>1, Zenon
      <4>2. CASE e # c
        BY <1>2, <3>1, <4>2, Zenon
      <4> QED
        BY <4>1, <4>2, Zenon
    <3> QED
      BY <1>2, <1>3, <2>2, <3>1, <3>2, Zenon
  <2> QED
    BY <2>1, <2>2, Zenon
<1>6. PagesInv'
  <2>1. \A p \in Page, d \in Cpu : p[1] = stack'[d] => MappedSoFar(p, step'[d], index'[d])
    <3> SUFFICES ASSUME NEW p \in Page, NEW d \in Cpu, p[1] = stack'[d]
                 PROVE  MappedSoFar(p, step'[d], index'[d])
      BY Zenon
    <3>1. CASE d = c
      <4>1. step'[d] = place /\ index'[d] = i /\ stack'[d] = s
        BY <1>2, <3>1, Zenon
      <4>2. MappedSoFar(p, place, i)
        BY <4>1, Zenon
      <4> QED
        BY <4>1, <4>2, Zenon
    <3>2. CASE d # c
      BY <1>2, <3>2, Zenon DEF StacksInv, PagesInv
    <3> QED
      BY <3>1, <3>2, Zenon
  <2> QED
    BY <2>1, Zenon DEF PagesInv, MappedSoFar
<1>7. \A b, d \in Cpu : Unasked(d, b) \/ Awaits(d, b) => d # c
  BY Zenon DEF Unasked, Awaits, Unmapping
<1>8. \A b, d \in Cpu : (Unasked(d, b) => Unasked(d, b)') /\ (Awaits(d, b) => Awaits(d, b)')
  BY <1>2, <1>7, Zenon DEF Unasked, Awaits
<1>9. TlbInv' /\ WalkInv'
  BY <1>3, <1>7, <1>8, OwedKeeps, Zenon DEF caches
<1> QED
  BY <1>4, <1>5, <1>6, <1>9, FramesKeep, Zenon DEF StacksInv

\* Who is at a stack, and which stacks are up.
LEMMA AtStack ==
  ASSUME StacksInv
  PROVE  /\ up \subseteq slots /\ slots \subseteq Stack /\ Stack \subseteq Nat
         /\ \A d \in Cpu : step[d] # "run" => stack[d] \in slots /\ stack[d] \notin up
         /\ \A d, e \in Cpu : step[d] # "run" /\ step[e] # "run" /\ stack[e] = stack[d] => d = e
<1>1. Stack \subseteq Nat
  BY StacksAssumption DEF Stack
<1> QED
  BY <1>1, Zenon DEF StacksInv, StacksTypeOK, WorkInv

\* kstack::allocate takes the slot: nobody else is at the stack, and none of its
\* pages is mapped.
LEMMA ClaimKeeps ==
  ASSUME StacksInv, NEW c \in Worker, Claim(c)
  PROVE  StacksInv'
<1> DEFINE s == Min(Stack \ slots)
<1>1. s \in Stack /\ s \notin slots
  BY MinIsLeast, StacksAssumption DEF Claim, Stack
<1>2. /\ step[c] = "run" /\ slots' = slots \cup {s}
      /\ step' = [step EXCEPT ![c] = "map"] /\ stack' = [stack EXCEPT ![c] = s]
      /\ index' = [index EXCEPT ![c] = 1]
      /\ UNCHANGED <<freeFrames, p1, pte, up, request, flushing, caches, released, detached, todo, targeted>>
  BY Zenon DEF Claim, Doing, Then
<1> HIDE DEF s
<1>3. s \in Nat /\ 1 \in Nat \ {0} /\ step[c] \notin Unmapping
  BY <1>1, <1>2, AtStack DEF Unmapping
<1>4. \A p \in Page : p[1] = s => MappedSoFar(p, "map", 1)
  <2>1. \A p \in Page : p[1] = s => pte[p] = NoFrame
    BY <1>1, Zenon DEF StacksInv, PagesInv
  <2> QED
    BY <2>1, PageParts DEF MappedSoFar, Unmapping
<1>5. \A p \in Page : (p[1] \notin slots' => pte[p] = NoFrame) /\ (p[1] \in up' => pte[p] # NoFrame)
  BY <1>2, Zenon DEF StacksInv, PagesInv
<1>6. /\ slots' \subseteq Stack /\ up' \subseteq slots' /\ s \in slots' /\ s \notin up'
      /\ \A d \in Cpu : step[d] # "run" => stack[d] \in slots' /\ stack[d] \notin up'
      /\ \A d \in Cpu : step[d] # "run" /\ stack[d] = s => c = d
  BY <1>1, <1>2, AtStack, Zenon
<1> QED
  BY <1>2, <1>3, <1>4, <1>5, <1>6, MoveKeeps, Zenon

\* It comes up with all of its pages mapped.
LEMMA MapDoneKeeps ==
  ASSUME StacksInv, NEW c \in Worker, MapDone(c)
  PROVE  StacksInv'
<1>1. /\ c \in Cpu /\ step[c] = "map" /\ index[c] > StackPages /\ up' = up \cup {stack[c]}
      /\ step' = [step EXCEPT ![c] = "run"] /\ stack' = [stack EXCEPT ![c] = 1]
      /\ index' = [index EXCEPT ![c] = 1]
      /\ UNCHANGED <<freeFrames, p1, pte, slots, request, flushing, caches, released, detached, todo, targeted>>
  BY StacksAssumption, Zenon DEF MapDone, Doing, Then, Forget
<1>2. 1 \in Nat \ {0} /\ step[c] \notin Unmapping
  BY <1>1 DEF Unmapping
<1>3. \A p \in Page : p[1] = stack[c] => pte[p] # NoFrame
  <2>1. index[c] \in Nat /\ \A p \in Page : p[1] = stack[c] => MappedSoFar(p, step[c], index[c])
    BY <1>1, Zenon DEF StacksInv, PagesInv, StacksTypeOK
  <2> QED
    BY <1>1, <2>1, PageParts, StacksAssumption DEF MappedSoFar
<1>4. \A p \in Page : (p[1] \notin slots' => pte[p] = NoFrame) /\ (p[1] \in up' => pte[p] # NoFrame)
  BY <1>1, <1>3, Zenon DEF StacksInv, PagesInv
<1>5. \A p \in Page : MappedSoFar(p, "run", 1)
  BY Zenon DEF MappedSoFar, Unmapping
<1>6. /\ slots' \subseteq Stack /\ up' \subseteq slots'
      /\ \A d \in Cpu : d # c /\ step[d] # "run" => stack[d] \in slots' /\ stack[d] \notin up'
  BY <1>1, AtStack, Zenon
<1> QED
  BY <1>1, <1>2, <1>4, <1>5, <1>6, MoveKeeps, Zenon

\* A drop takes a stack that is up, at which nobody is.
LEMMA DropKeeps ==
  ASSUME StacksInv, NEW c \in Worker, NEW s \in Stack, Drop(c, s)
  PROVE  StacksInv'
<1>1. /\ step[c] = "run" /\ s \in up /\ up' = up \ {s}
      /\ step' = [step EXCEPT ![c] = "unmap"] /\ stack' = [stack EXCEPT ![c] = s]
      /\ index' = [index EXCEPT ![c] = 1]
      /\ UNCHANGED <<freeFrames, p1, pte, slots, request, flushing, caches, released, detached, todo, targeted>>
  BY Zenon DEF Drop, Doing, Then
<1>2. s \in Nat /\ 1 \in Nat \ {0} /\ step[c] \notin Unmapping
  BY <1>1, AtStack DEF Unmapping
<1>3. \A p \in Page : MappedSoFar(p, "unmap", 1)
  BY PageParts DEF MappedSoFar
<1>4. \A p \in Page : (p[1] \notin slots' => pte[p] = NoFrame) /\ (p[1] \in up' => pte[p] # NoFrame)
  BY <1>1, Zenon DEF StacksInv, PagesInv
<1>5. /\ slots' \subseteq Stack /\ up' \subseteq slots' /\ s \in slots' /\ s \notin up'
      /\ \A d \in Cpu : step[d] # "run" => stack[d] \in slots' /\ stack[d] \notin up'
      /\ \A d \in Cpu : step[d] # "run" /\ stack[d] = s => c = d
  BY <1>1, AtStack, Zenon
<1> QED
  BY <1>1, <1>2, <1>3, <1>4, <1>5, MoveKeeps, Zenon

\* The slot goes back with none of its pages mapped.
LEMMA UnclaimKeeps ==
  ASSUME StacksInv, NEW c \in Worker, Unclaim(c)
  PROVE  StacksInv'
<1>1. /\ c \in Cpu
      /\ step[c] = "unclaim" \/ (step[c] = "unmap" /\ index[c] > StackPages)
      /\ slots' = slots \ {stack[c]}
      /\ step' = [step EXCEPT ![c] = "run"] /\ stack' = [stack EXCEPT ![c] = 1]
      /\ index' = [index EXCEPT ![c] = 1]
      /\ UNCHANGED <<freeFrames, p1, pte, up, request, flushing, caches, released, detached, todo, targeted>>
  BY StacksAssumption, Zenon DEF Unclaim, Doing, Then, Forget
<1>2. 1 \in Nat \ {0} /\ step[c] \notin Unmapping /\ step[c] # "run"
  BY <1>1 DEF Unmapping
<1>3. \A p \in Page : p[1] = stack[c] => pte[p] = NoFrame
  <2>1. index[c] \in Nat /\ \A p \in Page : p[1] = stack[c] => MappedSoFar(p, step[c], index[c])
    BY <1>1, Zenon DEF StacksInv, PagesInv, StacksTypeOK
  <2> QED
    BY <1>1, <2>1, PageParts, StacksAssumption DEF MappedSoFar
<1>4. \A p \in Page : (p[1] \notin slots' => pte[p] = NoFrame) /\ (p[1] \in up' => pte[p] # NoFrame)
  BY <1>1, <1>3, Zenon DEF StacksInv, PagesInv
<1>5. \A p \in Page : MappedSoFar(p, "run", 1)
  BY Zenon DEF MappedSoFar, Unmapping
<1>6. /\ slots' \subseteq Stack /\ up' \subseteq slots'
      /\ \A d \in Cpu : d # c /\ step[d] # "run" => stack[d] \in slots' /\ stack[d] \notin up'
  BY <1>1, <1>2, AtStack, Zenon
<1> QED
  BY <1>1, <1>2, <1>4, <1>5, <1>6, MoveKeeps, Zenon

\* What a walk caches is what the tables say, and of a stack that is up the tables say
\* something.
LEMMA WalkKeeps ==
  ASSUME StacksInv, NEW c \in Cpu, NEW p \in Page, Walk(c, p)
  PROVE  StacksInv'
<1>1. /\ p[1] \in up /\ p1 # NoFrame
      /\ walk' = [walk EXCEPT ![c] = p1]
      /\ tlb' = [tlb EXCEPT ![c] = @ \cup {<<p, pte[p]>>}]
      /\ UNCHANGED <<allocator, request, flushing, step, locals>>
  BY Zenon DEF Walk
<1>2. pte[p] \in Frame
  BY <1>1, Zenon DEF StacksInv, PagesInv, StacksTypeOK
<1>3. StacksTypeOK'
  <2>1. <<p, pte[p]>> \in Page \X Frame
    BY <1>2, Zenon
  <2> QED
    BY <1>1, <2>1, Zenon DEF StacksInv, StacksTypeOK, allocator, locals
<1>4. WorkInv' /\ PagesInv' /\ FramesInv'
  BY <1>1, CacheStepKeeps, Zenon DEF locals
<1>5. /\ \A b \in Cpu : \A e \in tlb'[b] : e \in tlb[b] \/ e = <<p, pte[p]>>
      /\ \A b \in Cpu : walk'[b] = walk[b] \/ walk'[b] = p1
  BY <1>1, Zenon DEF StacksInv, StacksTypeOK
<1>a. /\ UNCHANGED <<p1, pte, released, detached>>
      /\ \A d \in Cpu : ThisPage(d)' = ThisPage(d)
      /\ \A b, d \in Cpu : (Unasked(d, b)' <=> Unasked(d, b)) /\ (Awaits(d, b)' <=> Awaits(d, b))
  BY <1>1, Zenon DEF Unasked, Awaits, ThisPage, allocator, locals
<1>6. TlbInv'
  <2> SUFFICES ASSUME NEW b \in Cpu, NEW e \in tlb'[b], pte[e[1]] # e[2], ~Covers(flushing[b], e[1])
               PROVE  \E d \in Cpu : /\ d # b /\ released'[d] = e[2] /\ ThisPage(d)' = e[1]
                                     /\ Unasked(d, b)' \/ (Awaits(d, b)' /\ Covers(request[b], e[1]))
    BY <1>1, <1>a, Zenon DEF TlbInv, Covers
  <2>1. e \in tlb[b]
    <3>1. <<p, pte[p]>>[1] = p /\ <<p, pte[p]>>[2] = pte[p]
      BY Zenon
    <3> QED
      BY <1>5, <3>1, Zenon
  <2>2. PICK d \in Cpu : /\ d # b /\ released[d] = e[2] /\ ThisPage(d) = e[1]
                         /\ Unasked(d, b) \/ (Awaits(d, b) /\ Covers(request[b], e[1]))
    BY <2>1, Zenon DEF StacksInv, TlbInv
  <2> QED
    BY <1>a, <2>2, Zenon
<1>7. WalkInv'
  BY <1>1, <1>5, <1>a, Zenon DEF StacksInv, WalkInv
<1> QED
  BY <1>3, <1>4, <1>6, <1>7, Zenon DEF StacksInv

\* A request that is taken is still to be carried out.
LEMMA ServiceKeeps ==
  ASSUME StacksInv, NEW c \in Cpu, Service(c)
  PROVE  StacksInv'
<1>1. /\ flushing[c] = Nothing /\ request[c] # Nothing
      /\ flushing' = [flushing EXCEPT ![c] = request[c]]
      /\ request' = [request EXCEPT ![c] = Nothing]
      /\ UNCHANGED <<allocator, caches, step, locals>>
  BY Zenon DEF Service
<1>2. StacksTypeOK'
  BY <1>1, Zenon DEF StacksInv, StacksTypeOK, allocator, caches, locals, Requests
<1>3. WorkInv' /\ PagesInv' /\ FramesInv'
  BY <1>1, CacheStepKeeps, Zenon DEF locals
<1>4. \A b \in Cpu : /\ flushing'[b] = (IF b = c THEN request[c] ELSE flushing[b])
                     /\ request'[b] = (IF b = c THEN Nothing ELSE request[b])
  BY <1>1, Zenon DEF StacksInv, StacksTypeOK
<1>5. /\ UNCHANGED <<pte, p1, tlb, walk, released, detached>>
      /\ \A d \in Cpu : ThisPage(d)' = ThisPage(d)
      /\ \A b, d \in Cpu : (Unasked(d, b)' <=> Unasked(d, b)) /\ (Awaits(d, b)' <=> Awaits(d, b))
  BY <1>1, Zenon DEF Unasked, Awaits, ThisPage, allocator, caches, locals
<1>a. \A b \in Cpu : \A e \in tlb[b] : e[1] \in Page
  BY CachedParts, Zenon
<1>6. TlbInv'
  <2> SUFFICES ASSUME NEW b \in Cpu, NEW e \in tlb[b], pte[e[1]] # e[2], ~Covers(flushing'[b], e[1])
               PROVE  \E d \in Cpu : /\ d # b /\ released'[d] = e[2] /\ ThisPage(d)' = e[1]
                                     /\ Unasked(d, b)' \/ (Awaits(d, b)' /\ Covers(request'[b], e[1]))
    BY <1>5, Zenon DEF TlbInv, Covers
  <2>1. ~Covers(flushing[b], e[1]) /\ (Covers(request[b], e[1]) => Covers(request'[b], e[1]))
    <3>1. ~Covers(Nothing, e[1])
      BY <1>a, PageRequests, Zenon DEF Covers
    <3> QED
      BY <1>1, <1>4, <3>1, Zenon
  <2>2. PICK d \in Cpu : /\ d # b /\ released[d] = e[2] /\ ThisPage(d) = e[1]
                         /\ Unasked(d, b) \/ (Awaits(d, b) /\ Covers(request[b], e[1]))
    BY <2>1, Zenon DEF StacksInv, TlbInv
  <2> QED
    BY <1>5, <2>1, <2>2, Zenon
<1>7. WalkInv'
  <2> SUFFICES ASSUME NEW b \in Cpu, walk[b] \notin {NoFrame, p1}, flushing'[b] = Nothing
               PROVE  \E d \in Cpu : /\ d # b /\ detached'[d] = walk[b]
                                     /\ Unasked(d, b)' \/ (Awaits(d, b)' /\ request'[b] # Nothing)
    BY <1>5, Zenon DEF WalkInv
  <2>1. b # c /\ flushing[b] = Nothing /\ request'[b] = request[b]
    BY <1>1, <1>4, Zenon
  <2>2. PICK d \in Cpu : /\ d # b /\ detached[d] = walk[b]
                         /\ Unasked(d, b) \/ (Awaits(d, b) /\ request[b] # Nothing)
    BY <2>1, Zenon DEF StacksInv, WalkInv
  <2> QED
    BY <1>5, <2>1, <2>2, Zenon
<1> QED
  BY <1>2, <1>3, <1>6, <1>7, Zenon DEF StacksInv

\* The flush drops whatever the request was for.
LEMMA FlushKeeps ==
  ASSUME StacksInv, NEW c \in Cpu, Flush(c)
  PROVE  StacksInv'
<1>1. /\ flushing[c] # Nothing /\ flushing' = [flushing EXCEPT ![c] = Nothing]
      /\ tlb' = [tlb EXCEPT ![c] = IF flushing[c] = Everything THEN {}
                                   ELSE {e \in tlb[c] : e[1] # flushing[c]}]
      /\ walk' = [walk EXCEPT ![c] = NoFrame]
      /\ UNCHANGED <<allocator, request, step, locals>>
  BY Zenon DEF Flush, FlushAll, FlushPage
<1>2. StacksTypeOK'
  BY <1>1, Zenon DEF StacksInv, StacksTypeOK, allocator, locals, Requests
<1>3. WorkInv' /\ PagesInv' /\ FramesInv'
  BY <1>1, CacheStepKeeps, Zenon DEF locals
<1>4. /\ \A b \in Cpu : flushing'[b] = (IF b = c THEN Nothing ELSE flushing[b])
      /\ \A b \in Cpu : walk'[b] = (IF b = c THEN NoFrame ELSE walk[b])
      /\ \A b \in Cpu : \A e \in tlb'[b] : e \in tlb[b] /\ (b = c => ~Covers(flushing[c], e[1]))
  BY <1>1, Zenon DEF StacksInv, StacksTypeOK, Covers
<1>5. /\ UNCHANGED <<pte, p1, request, released, detached>>
      /\ \A d \in Cpu : ThisPage(d)' = ThisPage(d)
      /\ \A b, d \in Cpu : (Unasked(d, b)' <=> Unasked(d, b)) /\ (Awaits(d, b)' <=> Awaits(d, b))
  BY <1>1, Zenon DEF Unasked, Awaits, ThisPage, allocator, locals
<1>6. TlbInv'
  <2> SUFFICES ASSUME NEW b \in Cpu, NEW e \in tlb'[b], pte[e[1]] # e[2], ~Covers(flushing'[b], e[1])
               PROVE  \E d \in Cpu : /\ d # b /\ released'[d] = e[2] /\ ThisPage(d)' = e[1]
                                     /\ Unasked(d, b)' \/ (Awaits(d, b)' /\ Covers(request[b], e[1]))
    BY <1>5, Zenon DEF TlbInv, Covers
  <2>1. e \in tlb[b] /\ ~Covers(flushing[b], e[1])
    BY <1>4, Zenon
  <2>2. PICK d \in Cpu : /\ d # b /\ released[d] = e[2] /\ ThisPage(d) = e[1]
                         /\ Unasked(d, b) \/ (Awaits(d, b) /\ Covers(request[b], e[1]))
    BY <2>1, Zenon DEF StacksInv, TlbInv
  <2> QED
    BY <1>5, <2>2, Zenon
<1>7. WalkInv'
  BY <1>4, <1>5, Zenon DEF StacksInv, WalkInv
<1> QED
  BY <1>2, <1>3, <1>6, <1>7, Zenon DEF StacksInv

\* Asking a processor adds to what is asked of it already.
LEMMA AskKeeps ==
  ASSUME StacksInv, NEW c \in Worker, NEW b \in Cpu, Ask(c, b)
  PROVE  StacksInv'
<1> DEFINE what == IF detached[c] # NoFrame THEN Everything ELSE ThisPage(c)
<1>1. /\ c \in Cpu /\ step[c] = "ask" /\ b \in todo[c]
      /\ request' = [request EXCEPT ![b] = Merged(request[b], what)]
      /\ todo' = [todo EXCEPT ![c] = todo[c] \ {b}]
      /\ targeted' = [targeted EXCEPT ![c] = targeted[c] \cup {b}]
      /\ UNCHANGED <<allocator, flushing, caches, step, stack, index, released, detached>>
  BY StacksAssumption, Zenon DEF Ask, Doing
<1>2. ThisPage(c) \in Page
  BY <1>1, ThisPageIsPage, Zenon DEF StacksInv, WorkInv, Unmapping
<1>3. what \in {Everything, ThisPage(c)}
  BY Zenon
<1> HIDE DEF what
<1>4. /\ Merged(request[b], what) \in Requests /\ Merged(request[b], what) # Nothing
      /\ Covers(Merged(request[b], what), ThisPage(c))
      /\ \A p \in Page : Covers(request[b], p) => Covers(Merged(request[b], what), p)
  BY <1>2, <1>3, PageRequests DEF StacksInv, StacksTypeOK, Merged, Covers, Requests, Nothing, Everything
<1>5. StacksTypeOK'
  BY <1>1, <1>4, Zenon DEF StacksInv, StacksTypeOK, allocator, caches
<1>6. WorkInv' /\ PagesInv' /\ FramesInv'
  BY <1>1, CacheStepKeeps, Zenon
<1>7. /\ UNCHANGED <<pte, p1, flushing, tlb, walk, released, detached>>
      /\ \A d \in Cpu : ThisPage(d)' = ThisPage(d)
  BY <1>1, Zenon DEF ThisPage, allocator, caches
<1>8. \A a, d \in Cpu : /\ Unasked(d, a) => Unasked(d, a)' \/ (d = c /\ a = b)
                        /\ Awaits(d, a) => Awaits(d, a)'
                        /\ Awaits(c, b)'
  BY <1>1, Zenon DEF Unasked, Awaits, StacksInv, StacksTypeOK
<1>9. \A a \in Cpu : request'[a] = (IF a = b THEN Merged(request[b], what) ELSE request[a])
  BY <1>1, Zenon DEF StacksInv, StacksTypeOK
<1>10. TlbInv'
  <2> SUFFICES ASSUME NEW a \in Cpu, NEW e \in tlb[a], pte[e[1]] # e[2], ~Covers(flushing[a], e[1])
               PROVE  \E d \in Cpu : /\ d # a /\ released'[d] = e[2] /\ ThisPage(d)' = e[1]
                                     /\ Unasked(d, a)' \/ (Awaits(d, a)' /\ Covers(request'[a], e[1]))
    BY <1>7, Zenon DEF TlbInv, Covers
  <2>1. e[1] \in Page
    BY CachedParts, Zenon
  <2>2. Covers(request[a], e[1]) => Covers(request'[a], e[1])
    BY <1>4, <1>9, <2>1, Zenon
  <2>3. PICK d \in Cpu : /\ d # a /\ released[d] = e[2] /\ ThisPage(d) = e[1]
                         /\ Unasked(d, a) \/ (Awaits(d, a) /\ Covers(request[a], e[1]))
    BY Zenon DEF StacksInv, TlbInv
  <2> QED
    BY <1>4, <1>7, <1>8, <1>9, <2>2, <2>3, Zenon
<1>11. WalkInv'
  <2> SUFFICES ASSUME NEW a \in Cpu, walk[a] \notin {NoFrame, p1}, flushing[a] = Nothing
               PROVE  \E d \in Cpu : /\ d # a /\ detached[d] = walk[a]
                                     /\ Unasked(d, a)' \/ (Awaits(d, a)' /\ request'[a] # Nothing)
    BY <1>7, Zenon DEF WalkInv
  <2>1. PICK d \in Cpu : /\ d # a /\ detached[d] = walk[a]
                         /\ Unasked(d, a) \/ (Awaits(d, a) /\ request[a] # Nothing)
    BY Zenon DEF StacksInv, WalkInv
  <2> QED
    BY <1>4, <1>8, <1>9, <2>1, Zenon
<1> QED
  BY <1>5, <1>6, <1>10, <1>11, Zenon DEF StacksInv

\* Everybody has been asked.
LEMMA AskedKeeps ==
  ASSUME StacksInv, NEW c \in Worker, Asked(c)
  PROVE  StacksInv'
<1>1. /\ c \in Cpu /\ step[c] = "ask" /\ todo[c] = {} /\ step' = [step EXCEPT ![c] = "wait"]
      /\ UNCHANGED <<allocator, request, flushing, caches, locals>>
  BY StacksAssumption, Zenon DEF Asked, Doing, Then
<1>2. StacksTypeOK'
  BY <1>1, Zenon DEF StacksInv, StacksTypeOK, allocator, caches, locals, Unmapping
<1>3. \A d \in Cpu : step'[d] = (IF d = c THEN "wait" ELSE step[d])
  BY <1>1, Zenon DEF StacksInv, StacksTypeOK
<1>4. WorkInv' /\ PagesInv' /\ FramesInv'
  <2>1. \A d \in Cpu : detached'[d] # NoFrame => step'[d] \in {"ask", "wait", "freeTable"}
    <3>1. detached' = detached
      BY <1>1, Zenon DEF locals
    <3> QED
      BY <1>3, <3>1, Zenon DEF StacksInv, WorkInv
  <2>2. step[c] \in Unmapping /\ step'[c] \in Unmapping
    BY <1>1, <1>3, Zenon DEF Unmapping
  <2>3. UNCHANGED <<freeFrames, p1, pte, slots, up, stack, index, released, detached>>
    BY <1>1, Zenon DEF allocator, locals
  <2>4. \A d \in Cpu : d # c => step'[d] = step[d]
    BY <1>3, Zenon
  <2>5. WorkInv' /\ PagesInv'
    BY <1>1, <2>1, <2>2, <2>3, <2>4, HoldingKeeps, Zenon
  <2> QED
    BY <2>3, <2>5, FramesKeep, Zenon
<1>5. /\ UNCHANGED <<pte, p1, request, flushing, tlb, walk, released, detached>>
      /\ \A d \in Cpu : ThisPage(d)' = ThisPage(d)
      /\ \A b, d \in Cpu : (Unasked(d, b) => Unasked(d, b)') /\ (Awaits(d, b) => Awaits(d, b)')
  BY <1>1, <1>3, Zenon DEF Unasked, Awaits, ThisPage, allocator, caches, locals
<1>6. TlbInv' /\ WalkInv'
  BY <1>5, OwedKeeps, Zenon
<1> QED
  BY <1>2, <1>4, <1>6, Zenon DEF StacksInv

\* Every request has been taken: what is left to be flushed is being flushed.
LEMMA AnsweredKeeps ==
  ASSUME StacksInv, NEW c \in Worker, Answered(c)
  PROVE  StacksInv'
<1>1. /\ c \in Cpu /\ step[c] = "wait" /\ \A d \in targeted[c] : request[d] = Nothing
      /\ targeted' = [targeted EXCEPT ![c] = {}] /\ step' = [step EXCEPT ![c] = "freeTable"]
      /\ UNCHANGED <<allocator, request, flushing, caches, stack, index, released, detached, todo>>
  BY StacksAssumption, Zenon DEF Answered, Doing, Then
<1>2. StacksTypeOK'
  BY <1>1, Zenon DEF StacksInv, StacksTypeOK, allocator, caches, Unmapping
<1>3. \A d \in Cpu : /\ step'[d] = (IF d = c THEN "freeTable" ELSE step[d])
                     /\ d # c => targeted'[d] = targeted[d]
  BY <1>1, Zenon DEF StacksInv, StacksTypeOK
<1>4. WorkInv' /\ PagesInv' /\ FramesInv'
  <2>1. \A d \in Cpu : detached'[d] # NoFrame => step'[d] \in {"ask", "wait", "freeTable"}
    BY <1>1, <1>3, Zenon DEF StacksInv, WorkInv
  <2>2. step[c] \in Unmapping /\ step'[c] \in Unmapping
    BY <1>1, <1>3, Zenon DEF Unmapping
  <2>3. UNCHANGED <<freeFrames, p1, pte, slots, up, stack, index, released, detached>>
    BY <1>1, Zenon DEF allocator
  <2>4. \A d \in Cpu : d # c => step'[d] = step[d]
    BY <1>3, Zenon
  <2>5. WorkInv' /\ PagesInv'
    BY <1>1, <2>1, <2>2, <2>3, <2>4, HoldingKeeps, Zenon
  <2> QED
    BY <2>3, <2>5, FramesKeep, Zenon
<1>5. /\ UNCHANGED <<pte, p1, request, flushing, tlb, walk, released, detached>>
      /\ \A d \in Cpu : ThisPage(d)' = ThisPage(d)
      /\ \A b, d \in Cpu : /\ Unasked(d, b) => Unasked(d, b)'
                           /\ Awaits(d, b) /\ request[b] # Nothing => Awaits(d, b)'
  BY <1>1, <1>3, Zenon DEF Unasked, Awaits, ThisPage, allocator, caches
<1>6. TlbInv'
  <2>1. \A b \in Cpu : \A e \in tlb[b] : Covers(request[b], e[1]) => request[b] # Nothing
    <3> SUFFICES ASSUME NEW b \in Cpu, NEW e \in tlb[b]
                 PROVE  ~Covers(Nothing, e[1])
      BY Zenon
    <3>1. e[1] \in Page
      BY CachedParts, Zenon
    <3> QED
      BY <3>1, PageRequests, Zenon DEF Covers
  <2> SUFFICES ASSUME NEW b \in Cpu, NEW e \in tlb[b], pte[e[1]] # e[2], ~Covers(flushing[b], e[1])
               PROVE  \E d \in Cpu : /\ d # b /\ released'[d] = e[2] /\ ThisPage(d)' = e[1]
                                     /\ Unasked(d, b)' \/ (Awaits(d, b)' /\ Covers(request[b], e[1]))
    BY <1>5, Zenon DEF TlbInv, Covers
  <2>2. PICK d \in Cpu : /\ d # b /\ released[d] = e[2] /\ ThisPage(d) = e[1]
                         /\ Unasked(d, b) \/ (Awaits(d, b) /\ Covers(request[b], e[1]))
    BY Zenon DEF StacksInv, TlbInv
  <2> QED
    BY <1>5, <2>1, <2>2, Zenon
<1>7. WalkInv'
  BY <1>5, Zenon DEF StacksInv, WalkInv
<1> QED
  BY <1>2, <1>4, <1>6, <1>7, Zenon DEF StacksInv

\* The table goes back when no processor can still walk through it.
LEMMA FreeTableKeeps ==
  ASSUME StacksInv, NEW c \in Worker, FreeTable(c)
  PROVE  StacksInv'
<1>1. /\ c \in Cpu /\ step[c] = "freeTable"
      /\ freeFrames' = freeFrames \cup ({detached[c]} \ {NoFrame})
      /\ detached' = [detached EXCEPT ![c] = NoFrame] /\ step' = [step EXCEPT ![c] = "freeFrame"]
      /\ UNCHANGED <<p1, pte, slots, up, request, flushing, caches, stack, index, released, todo, targeted>>
  BY StacksAssumption, Zenon DEF FreeTable, Doing, Then
<1>2. StacksTypeOK'
  BY <1>1, Zenon DEF StacksInv, StacksTypeOK, caches, Unmapping
<1>3. \A d \in Cpu : /\ step'[d] = (IF d = c THEN "freeFrame" ELSE step[d])
                     /\ detached'[d] = (IF d = c THEN NoFrame ELSE detached[d])
  BY <1>1, Zenon DEF StacksInv, StacksTypeOK
<1>4. WorkInv' /\ PagesInv'
  <2>1. \A d \in Cpu : detached'[d] # NoFrame => step'[d] \in {"ask", "wait", "freeTable"}
    BY <1>3, Zenon DEF StacksInv, WorkInv
  <2>2. step[c] \in Unmapping /\ step'[c] \in Unmapping
    BY <1>1, <1>3, Zenon DEF Unmapping
  <2>3. \A d \in Cpu : d # c => step'[d] = step[d]
    BY <1>3, Zenon
  <2> QED
    BY <1>1, <2>1, <2>2, <2>3, HoldingKeeps, Zenon
<1>5. FramesInv'
  <2>1. \A d \in Cpu : /\ released'[d] = released[d] /\ detached'[d] \in {detached[d], NoFrame}
                       /\ detached[c] = detached'[d] => detached[c] = NoFrame
                       /\ detached[c] = released[d] => detached[c] = NoFrame
    <3> SUFFICES ASSUME NEW d \in Cpu
                 PROVE  /\ released'[d] = released[d] /\ detached'[d] \in {detached[d], NoFrame}
                        /\ detached[c] = detached'[d] => detached[c] = NoFrame
                        /\ detached[c] = released[d] => detached[c] = NoFrame
      BY Zenon
    <3>1. /\ detached[c] = detached[d] => c = d \/ detached[c] = NoFrame
          /\ released[d] = detached[c] => released[d] = NoFrame
      BY <1>1, Zenon DEF StacksInv, FramesInv
    <3> QED
      BY <1>1, <1>3, <3>1, Zenon
  <2>2. /\ \A p \in Page : pte[p] = detached[c] => detached[c] = NoFrame
        /\ p1 = detached[c] => detached[c] = NoFrame
    BY <1>1, Zenon DEF StacksInv, FramesInv
  <2> QED
    BY <1>1, <2>1, <2>2, FreedKeeps, Zenon
<1>6. /\ UNCHANGED <<pte, p1, request, flushing, tlb, walk, released>>
      /\ \A d \in Cpu : ThisPage(d)' = ThisPage(d)
      /\ \A b, d \in Cpu : /\ Unasked(d, b) => Unasked(d, b)' /\ d # c
                           /\ Awaits(d, b) => Awaits(d, b)' /\ d # c
  BY <1>1, <1>3, Zenon DEF Unasked, Awaits, ThisPage, caches
<1>7. TlbInv' /\ WalkInv'
  BY <1>3, <1>6, OwedKeeps, Zenon
<1> QED
  BY <1>2, <1>4, <1>5, <1>7, Zenon DEF StacksInv

\* And so the frame.
LEMMA FreeFrameKeeps ==
  ASSUME StacksInv, NEW c \in Worker, FreeFrame(c)
  PROVE  StacksInv'
<1>1. /\ c \in Cpu /\ step[c] = "freeFrame"
      /\ freeFrames' = freeFrames \cup {released[c]}
      /\ released' = [released EXCEPT ![c] = NoFrame]
      /\ index' = [index EXCEPT ![c] = @ + 1] /\ step' = [step EXCEPT ![c] = "unmap"]
      /\ UNCHANGED <<p1, pte, slots, up, request, flushing, caches, stack, detached, todo, targeted>>
  BY StacksAssumption, Zenon DEF FreeFrame, Doing, Then
<1>2. released[c] \in Frame /\ index[c] \in Nat
  BY <1>1, Zenon DEF StacksInv, StacksTypeOK, WorkInv, Unmapping
<1>3. StacksTypeOK'
  BY <1>1, <1>2 DEF StacksInv, StacksTypeOK, caches
<1>4. \A d \in Cpu : /\ step'[d] = (IF d = c THEN "unmap" ELSE step[d])
                     /\ released'[d] = (IF d = c THEN NoFrame ELSE released[d])
                     /\ index'[d] = (IF d = c THEN index[c] + 1 ELSE index[d])
  BY <1>1, Zenon DEF StacksInv, StacksTypeOK
<1>a. \A d \in Cpu : d # c => ThisPage(d)' = ThisPage(d)
  BY <1>1, <1>4, Zenon DEF ThisPage
<1>5. WorkInv'
  BY <1>1, <1>4, <1>a DEF StacksInv, WorkInv, Unmapping
<1>6. PagesInv'
  <2>1. \A p \in Page : p[1] = stack[c] /\ p[2] < index[c] + 1 => pte[p] = NoFrame
    <3>1. pte[ThisPage(c)] = NoFrame /\ ThisPage(c) = <<stack[c], index[c]>>
      BY <1>1, Zenon DEF StacksInv, WorkInv, Unmapping, ThisPage
    <3>2. \A p \in Page : p[1] = stack[c] /\ p[2] < index[c] => pte[p] = NoFrame
      BY <1>1, Zenon DEF StacksInv, PagesInv, MappedSoFar, Unmapping
    <3> QED
      BY <1>2, <3>1, <3>2, PageParts
  <2>2. \A p \in Page, d \in Cpu : p[1] = stack[d] => MappedSoFar(p, step[d], index[d])'
    <3> SUFFICES ASSUME NEW p \in Page, NEW d \in Cpu, p[1] = stack[d]
                 PROVE  MappedSoFar(p, step[d], index[d])'
      BY Zenon
    <3>1. CASE d = c
      <4>1. step'[d] = "unmap" /\ index'[d] = index[c] + 1 /\ pte' = pte /\ p[1] = stack[c]
        BY <1>1, <1>4, <3>1, Zenon
      <4>2. p[2] < index'[d] => pte'[p] = NoFrame
        BY <2>1, <4>1, Zenon
      <4> QED
        BY <4>1, <4>2, Zenon DEF MappedSoFar
    <3>2. CASE d # c
      <4>1. step'[d] = step[d] /\ index'[d] = index[d] /\ pte' = pte
        BY <1>1, <1>4, <3>2, Zenon
      <4>2. MappedSoFar(p, step[d], index[d])
        BY Zenon DEF StacksInv, PagesInv
      <4> QED
        BY <4>1, <4>2, Zenon DEF MappedSoFar
    <3> QED
      BY <3>1, <3>2, Zenon
  <2> QED
    BY <1>1, <2>2, Zenon DEF StacksInv, PagesInv
<1>7. FramesInv'
  <2>1. \A d \in Cpu : /\ released'[d] \in {released[d], NoFrame} /\ detached'[d] = detached[d]
                       /\ released[c] = released'[d] => released[c] = NoFrame
                       /\ released[c] = detached[d] => released[c] = NoFrame
    <3> SUFFICES ASSUME NEW d \in Cpu
                 PROVE  /\ released'[d] \in {released[d], NoFrame} /\ detached'[d] = detached[d]
                        /\ released[c] = released'[d] => released[c] = NoFrame
                        /\ released[c] = detached[d] => released[c] = NoFrame
      BY Zenon
    <3>1. /\ released[c] = released[d] => c = d \/ released[c] = NoFrame
          /\ released[c] = detached[d] => released[c] = NoFrame
      BY <1>1, Zenon DEF StacksInv, FramesInv
    <3> QED
      BY <1>1, <1>4, <3>1, Zenon
  <2>2. /\ \A p \in Page : pte[p] = released[c] => released[c] = NoFrame
        /\ p1 = released[c] => released[c] = NoFrame
    BY <1>1, Zenon DEF StacksInv, FramesInv
  <2>3. freeFrames' = freeFrames \cup ({released[c]} \ {NoFrame})
    BY <1>1, <1>2, FramesAreNot, Zenon
  <2> QED
    BY <1>1, <2>1, <2>2, <2>3, FreedKeeps, Zenon
<1>8. /\ UNCHANGED <<pte, p1, request, flushing, tlb, walk, detached>>
      /\ \A b, d \in Cpu : /\ Unasked(d, b) => Unasked(d, b)' /\ d # c
                           /\ Awaits(d, b) => Awaits(d, b)' /\ d # c
  BY <1>1, <1>4, Zenon DEF Unasked, Awaits, caches
<1>9. TlbInv' /\ WalkInv'
  BY <1>4, <1>8, <1>a, OwedKeeps, Zenon
<1> QED
  BY <1>3, <1>5, <1>6, <1>7, <1>9, Zenon DEF StacksInv

\* An unmapped frame is held for the processors that may still have it cached.
LEMMA UnmapInKeeps ==
  ASSUME StacksInv, NEW c \in Worker, UnmapIn(c)
  PROVE  StacksInv'
<1> DEFINE P == ThisPage(c)
<1>1. /\ c \in Cpu /\ step[c] = "unmap" /\ index[c] <= StackPages /\ flushing[c] = Nothing
      /\ UNCHANGED <<freeFrames, p1, slots, up, request, flushing, stack, detached, todo, targeted>>
  BY StacksAssumption, Zenon DEF UnmapIn, Doing
<1>2. P \in Page /\ P[1] = stack[c] /\ P[2] = index[c] /\ index[c] \in Nat \ {0}
  BY <1>1, ThisPageIsPage, Zenon DEF StacksInv, StacksTypeOK
<1>3. \A p \in Page : p = P \/ p[1] # stack[c] \/ p[2] # index[c]
  BY <1>2 DEF Page
<1>4. released[c] = NoFrame /\ detached[c] = NoFrame
  BY <1>1, Zenon DEF StacksInv, WorkInv, Unmapping
<1> HIDE DEF P
<1>5. CASE pte[P] = NoFrame
  <2>1. index' = [index EXCEPT ![c] = index[c] + 1] /\ UNCHANGED <<pte, released, caches, step>>
    BY <1>5, Zenon DEF UnmapIn, P
  <2>2. step' = [step EXCEPT ![c] = "unmap"] /\ stack' = [stack EXCEPT ![c] = stack[c]]
    BY <1>1, <2>1, Zenon DEF StacksInv, StacksTypeOK
  <2>3. \A p \in Page : p[1] = stack[c] => MappedSoFar(p, "unmap", index[c] + 1)
    <3>1. \A p \in Page : p[1] = stack[c] /\ p[2] < index[c] => pte[p] = NoFrame
      BY <1>1, Zenon DEF StacksInv, PagesInv, MappedSoFar
    <3> QED
      BY <1>2, <1>3, <1>5, <3>1, PageParts DEF MappedSoFar
  <2>4. /\ stack[c] \in Nat /\ stack[c] \in slots' /\ stack[c] \notin up'
        /\ slots' \subseteq Stack /\ up' \subseteq slots'
        /\ \A d \in Cpu : d # c /\ step[d] # "run" => stack[d] \in slots' /\ stack[d] \notin up'
        /\ \A d \in Cpu : step[d] # "run" /\ stack[d] = stack[c] => c = d
    BY <1>1, AtStack, Zenon
  <2>5. \A p \in Page : (p[1] \notin slots' => pte[p] = NoFrame) /\ (p[1] \in up' => pte[p] # NoFrame)
    BY <1>1, Zenon DEF StacksInv, PagesInv
  <2>6. index[c] + 1 \in Nat \ {0} /\ step[c] \notin Unmapping
    BY <1>1, <1>2 DEF Unmapping
  <2> QED
    BY <1>1, <2>1, <2>2, <2>3, <2>4, <2>5, <2>6, MoveKeeps, Zenon
<1>6. CASE pte[P] # NoFrame
  <2>1. /\ pte' = [pte EXCEPT ![P] = NoFrame] /\ released' = [released EXCEPT ![c] = pte[P]]
        /\ tlb' = [tlb EXCEPT ![c] = {e \in tlb[c] : e[1] # P}]
        /\ walk' = [walk EXCEPT ![c] = NoFrame] /\ step' = [step EXCEPT ![c] = "reclaim"]
        /\ index' = index
    BY <1>6, Zenon DEF UnmapIn, P, FlushPage, Then
  <2>2. /\ \A d \in Cpu : step'[d] = (IF d = c THEN "reclaim" ELSE step[d])
        /\ \A d \in Cpu : released'[d] = (IF d = c THEN pte[P] ELSE released[d])
        /\ \A d \in Cpu : walk'[d] = (IF d = c THEN NoFrame ELSE walk[d])
        /\ \A p \in Page : pte'[p] = (IF p = P THEN NoFrame ELSE pte[p])
    BY <2>1, Zenon DEF StacksInv, StacksTypeOK
  <2>3. \A b \in Cpu : \A e \in tlb'[b] : e \in tlb[b] /\ (b = c => e[1] # P)
    BY <2>1, Zenon DEF StacksInv, StacksTypeOK
  <2>4. \A d \in Cpu : ThisPage(d)' = ThisPage(d)
    BY <1>1, <2>1, Zenon DEF ThisPage
  <2>5. \A d, b \in Cpu : /\ Unasked(c, b)'
                          /\ d # c => Unasked(d, b)' = Unasked(d, b) /\ Awaits(d, b)' = Awaits(d, b)
    BY <1>1, <2>2, Zenon DEF Unasked, Awaits
  <2>6. pte[P] \in Frame
    BY <1>2, <1>6, Zenon DEF StacksInv, StacksTypeOK
  <2>7. StacksTypeOK'
    BY <1>1, <2>1, <2>6, Zenon DEF StacksInv, StacksTypeOK, Unmapping
  <2>8. WorkInv'
    <3> SUFFICES ASSUME NEW d \in Cpu
                 PROVE  /\ step'[d] # "run" =>
                            /\ d \in Worker /\ stack[d] \in slots /\ stack[d] \notin up
                            /\ \A e \in Cpu : step'[e] # "run" /\ stack[e] = stack[d] => d = e
                        /\ step'[d] \in Unmapping <=> released'[d] # NoFrame
                        /\ step'[d] \in Unmapping => index[d] <= StackPages /\ pte'[ThisPage(d)'] = NoFrame
                        /\ detached[d] # NoFrame => step'[d] \in {"ask", "wait", "freeTable"}
      <4>1. UNCHANGED <<slots, up, stack, index, detached>>
        BY <1>1, <2>1, Zenon
      <4> QED
        BY <4>1, Zenon DEF WorkInv
    <3>0. ThisPage(d)' = ThisPage(d)
      BY <2>4, Zenon
    <3>1. CASE d = c
      BY <1>1, <1>2, <1>4, <1>6, <2>2, <3>0, <3>1 DEF StacksInv, WorkInv, Unmapping, P
    <3>2. CASE d # c
      <4>1. step[d] \in Unmapping => ThisPage(d) \in Page
        BY ThisPageIsPage, Zenon DEF Unmapping, StacksInv, WorkInv
      <4>2. /\ step[d] # "run" =>
                 /\ d \in Worker /\ stack[d] \in slots /\ stack[d] \notin up
                 /\ \A e \in Cpu : step[e] # "run" /\ stack[e] = stack[d] => d = e
            /\ step[d] \in Unmapping <=> released[d] # NoFrame
            /\ step[d] \in Unmapping => index[d] <= StackPages /\ pte[ThisPage(d)] = NoFrame
            /\ detached[d] # NoFrame => step[d] \in {"ask", "wait", "freeTable"}
        BY Zenon DEF StacksInv, WorkInv
      <4>3. step'[d] = step[d] /\ released'[d] = released[d]
        BY <2>2, <3>2, Zenon
      <4>4. step[d] \in Unmapping => pte'[ThisPage(d)] = NoFrame
        BY <2>2, <4>1, <4>2, Zenon
      <4>5. \A e \in Cpu : step'[e] # "run" => step[e] # "run"
        BY <1>1, <2>2, Zenon
      <4> QED
        BY <3>0, <4>2, <4>3, <4>4, <4>5, Zenon
    <3> QED
      BY <3>1, <3>2, Zenon
  <2>9. PagesInv'
    <3> SUFFICES ASSUME NEW p \in Page
                 PROVE  /\ p[1] \notin slots => pte'[p] = NoFrame
                        /\ p[1] \in up => pte'[p] # NoFrame
                        /\ \A d \in Cpu : p[1] = stack[d] => MappedSoFar(p, step[d], index[d])'
      BY <1>1, <2>1, Zenon DEF PagesInv
    <3>1. CASE p = P
      <4>1. p[1] \notin up /\ pte'[p] = NoFrame
        BY <1>1, <1>2, <2>2, <3>1, AtStack, Zenon
      <4>2. \A d \in Cpu : p[1] = stack[d] => d = c \/ step'[d] = "run"
        <5>1. \A d \in Cpu : stack[d] = stack[c] => d = c \/ step[d] = "run"
          BY <1>1, AtStack, Zenon
        <5> QED
          BY <1>2, <2>2, <3>1, <5>1, Zenon
      <4> QED
        BY <2>2, <4>1, <4>2, Zenon DEF MappedSoFar, Unmapping
    <3>2. CASE p # P
      <4>1. pte'[p] = pte[p]
        BY <2>2, <3>2, Zenon
      <4>2. /\ p[1] \notin slots => pte[p] = NoFrame
            /\ p[1] \in up => pte[p] # NoFrame
            /\ \A d \in Cpu : p[1] = stack[d] => MappedSoFar(p, step[d], index[d])
        BY Zenon DEF StacksInv, PagesInv
      <4>3. \A d \in Cpu : MappedSoFar(p, step[d], index[d]) => MappedSoFar(p, step[d], index[d])'
        <5> SUFFICES ASSUME NEW d \in Cpu, MappedSoFar(p, step[d], index[d])
                     PROVE  MappedSoFar(p, step[d], index[d])'
          BY Zenon
        <5>1. CASE d = c
          <6>1. step[d] = "unmap" /\ step'[d] = "reclaim" /\ index'[d] = index[d]
            BY <1>1, <2>1, <2>2, <5>1, Zenon
          <6> QED
            BY <4>1, <6>1, Zenon DEF MappedSoFar
        <5>2. CASE d # c
          <6>1. step'[d] = step[d] /\ index'[d] = index[d]
            BY <2>1, <2>2, <5>2, Zenon
          <6> QED
            BY <4>1, <6>1, Zenon DEF MappedSoFar
        <5> QED
          BY <5>1, <5>2, Zenon
      <4> QED
        BY <4>1, <4>2, <4>3, Zenon
    <3> QED
      BY <3>1, <3>2, Zenon
  <2>10. FramesInv'
    <3>1. FramesOnce'
      <4>1. \A d \in Worker : d \in Cpu /\ released'[d] \notin freeFrames /\ detached[d] \notin freeFrames
        BY <1>2, <2>2, FramesApart, StacksAssumption, Zenon
      <4>2. (\A p \in Page : pte'[p] \notin freeFrames) /\ p1 \notin freeFrames
        BY <2>2, FramesApart, Zenon
      <4> QED
        BY <1>1, <4>1, <4>2, Zenon DEF FramesOnce
    <3>a. \A p \in Page : pte'[p] = NoFrame \/ (p # P /\ pte'[p] = pte[p])
      BY <2>2, Zenon
    <3>b. \A d \in Cpu : released'[d] = released[d] \/ (d = c /\ released'[d] = pte[P])
      BY <1>2, <2>2, Zenon
    <3>2. \A p, q \in Page : pte'[p] = pte'[q] => p = q \/ pte'[p] = NoFrame
      BY <3>a, Zenon DEF StacksInv, FramesInv
    <3>3. \A p \in Page : pte'[p] = p1 => p1 = NoFrame
      BY <2>2, Zenon DEF StacksInv, FramesInv
    <3>4. \A d \in Cpu, p \in Page : pte'[p] \in {released'[d], detached[d]} => pte'[p] = NoFrame
      <4> SUFFICES ASSUME NEW d \in Cpu, NEW p \in Page, pte'[p] \in {released'[d], detached[d]},
                          pte'[p] # NoFrame
                   PROVE  FALSE
        BY Zenon
      <4>1. p # P /\ pte'[p] = pte[p] /\ pte[p] # NoFrame
        BY <3>a, Zenon
      <4>2. /\ pte[p] # pte[P]
            /\ pte[p] # released[d] /\ pte[p] # detached[d]
        BY <1>2, <4>1, Zenon DEF StacksInv, FramesInv
      <4> QED
        BY <3>b, <4>1, <4>2, Zenon
    <3>5. \A d \in Cpu : p1 \in {released'[d], detached[d]} => p1 = NoFrame
      BY <1>2, <2>2, Zenon DEF StacksInv, FramesInv
    <3>6. \A d, e \in Cpu : released'[d] = detached[e] => released'[d] = NoFrame
      <4> SUFFICES ASSUME NEW d \in Cpu, NEW e \in Cpu, released'[d] = detached[e]
                   PROVE  released'[d] = NoFrame
        BY Zenon
      <4>1. /\ released[d] = detached[e] => released[d] = NoFrame
            /\ pte[P] = detached[e] => pte[P] = NoFrame
        BY <1>2, Zenon DEF StacksInv, FramesInv
      <4> QED
        BY <3>b, <4>1, Zenon
    <3>7. \A d, e \in Cpu : released'[d] = released'[e] => d = e \/ released'[d] = NoFrame
      <4> SUFFICES ASSUME NEW d \in Cpu, NEW e \in Cpu, released'[d] = released'[e], d # e
                   PROVE  released'[d] = NoFrame
        BY Zenon
      <4>1. /\ released[d] = released[e] => released[d] = NoFrame
            /\ pte[P] = released[e] => pte[P] = NoFrame
            /\ pte[P] = released[d] => pte[P] = NoFrame
        BY <1>2, Zenon DEF StacksInv, FramesInv
      <4> QED
        BY <3>b, <4>1, Zenon
    <3> QED
      BY <1>1, <3>1, <3>2, <3>3, <3>4, <3>5, <3>6, <3>7, Zenon DEF StacksInv, FramesInv
  <2>11. TlbInv'
    <3> SUFFICES ASSUME NEW b \in Cpu, NEW e \in tlb'[b], pte'[e[1]] # e[2], ~Covers(flushing[b], e[1])
                 PROVE  \E d \in Cpu : /\ d # b /\ released'[d] = e[2] /\ ThisPage(d)' = e[1]
                                       /\ Unasked(d, b)' \/ (Awaits(d, b)' /\ Covers(request[b], e[1]))
      BY <1>1, Zenon DEF TlbInv, Covers
    <3>1. e \in tlb[b] /\ e[1] \in Page /\ e[2] # NoFrame /\ (b = c => e[1] # P)
      BY <2>3, CachedParts, Zenon
    <3>2. CASE pte[e[1]] = e[2]
      <4>1. e[1] = P /\ c # b
        BY <2>2, <3>1, <3>2, Zenon
      <4>2. released'[c] = e[2] /\ ThisPage(c)' = e[1]
        BY <1>1, <2>2, <2>4, <3>2, <4>1, Zenon DEF P
      <4>3. Unasked(c, b)'
        BY <1>1, <2>5, Zenon
      <4> QED
        BY <1>1, <4>1, <4>2, <4>3, Zenon
    <3>3. CASE pte[e[1]] # e[2]
      <4>1. PICK d \in Cpu : /\ d # b /\ released[d] = e[2] /\ ThisPage(d) = e[1]
                             /\ Unasked(d, b) \/ (Awaits(d, b) /\ Covers(request[b], e[1]))
        BY <3>1, <3>3, Zenon DEF StacksInv, TlbInv
      <4>2. d # c
        BY <1>4, <3>1, <4>1, Zenon
      <4>3. released'[d] = released[d] /\ ThisPage(d)' = ThisPage(d)
        BY <2>2, <2>4, <4>2, Zenon
      <4>4. Unasked(d, b)' = Unasked(d, b) /\ Awaits(d, b)' = Awaits(d, b)
        BY <2>5, <4>2, Zenon
      <4> QED
        BY <4>1, <4>3, <4>4, Zenon
    <3> QED
      BY <3>2, <3>3, Zenon
  <2>12. WalkInv'
    <3> SUFFICES ASSUME NEW b \in Cpu, walk'[b] \notin {NoFrame, p1}, flushing[b] = Nothing
                 PROVE  \E d \in Cpu : /\ d # b /\ detached[d] = walk'[b]
                                       /\ Unasked(d, b)' \/ (Awaits(d, b)' /\ request[b] # Nothing)
      BY <1>1, Zenon DEF WalkInv
    <3>1. walk'[b] = walk[b]
      BY <2>2, Zenon
    <3>2. PICK d \in Cpu : /\ d # b /\ detached[d] = walk[b]
                           /\ Unasked(d, b) \/ (Awaits(d, b) /\ request[b] # Nothing)
      BY <3>1, Zenon DEF StacksInv, WalkInv
    <3>3. d # c
      BY <1>4, <3>1, <3>2, Zenon
    <3> QED
      BY <2>5, <3>1, <3>2, <3>3, Zenon
  <2> QED
    BY <2>7, <2>8, <2>9, <2>10, <2>11, <2>12, Zenon DEF StacksInv
<1> QED
  BY <1>5, <1>6, Zenon

\* A table that nothing is left in is held likewise.
LEMMA ReclaimKeeps ==
  ASSUME StacksInv, NEW c \in Worker, Reclaim(c)
  PROVE  StacksInv'
<1>1. /\ c \in Cpu /\ step[c] = "reclaim" /\ step' = [step EXCEPT ![c] = "ask"]
      /\ todo' = [todo EXCEPT ![c] = Cpu \ {c}] /\ targeted' = [targeted EXCEPT ![c] = {}]
      /\ UNCHANGED <<freeFrames, pte, slots, up, request, flushing, stack, index, released>>
  BY StacksAssumption, Zenon DEF Reclaim, Doing, Then
<1>2. \/ /\ p1 # NoFrame /\ p1' = NoFrame /\ detached' = [detached EXCEPT ![c] = p1]
         /\ \A p \in Page : pte[p] = NoFrame
         /\ tlb' = [tlb EXCEPT ![c] = {}] /\ walk' = [walk EXCEPT ![c] = NoFrame]
      \/ UNCHANGED <<p1, detached, tlb, walk>>
  BY Zenon DEF Reclaim, Emptied, FlushAll, caches
<1>3. detached[c] = NoFrame
  BY <1>1, Zenon DEF StacksInv, WorkInv
<1>4. /\ \A d \in Cpu : step'[d] = (IF d = c THEN "ask" ELSE step[d])
      /\ \A d \in Cpu : todo'[d] = (IF d = c THEN Cpu \ {c} ELSE todo[d])
      /\ \A d \in Cpu : d # c => targeted'[d] = targeted[d]
  BY <1>1, Zenon DEF StacksInv, StacksTypeOK
<1>5. \/ /\ p1 # NoFrame /\ p1' = NoFrame /\ detached'[c] = p1 /\ walk'[c] = NoFrame
         /\ \A d \in Cpu : d # c => detached'[d] = detached[d] /\ walk'[d] = walk[d]
      \/ p1' = p1 /\ \A d \in Cpu : detached'[d] = detached[d] /\ walk'[d] = walk[d]
  BY <1>1, <1>2, Zenon DEF StacksInv, StacksTypeOK
<1>6. \A b \in Cpu : \A e \in tlb'[b] : e \in tlb[b]
  BY <1>2, Zenon DEF StacksInv, StacksTypeOK
<1>7. /\ \A d \in Cpu : ThisPage(d)' = ThisPage(d)
      /\ \A b \in Cpu : b # c => Unasked(c, b)'
      /\ \A b, d \in Cpu : d # c => Unasked(d, b)' = Unasked(d, b) /\ Awaits(d, b)' = Awaits(d, b)
  BY <1>1, <1>4 DEF ThisPage, Unasked, Awaits
<1>8. StacksTypeOK'
  BY <1>1, <1>2 DEF StacksInv, StacksTypeOK, Unmapping, NoFrame
<1>9. WorkInv' /\ PagesInv'
  <2>1. \A d \in Cpu : d # c => detached'[d] = detached[d]
    BY <1>5, Zenon
  <2>2. \A d \in Cpu : detached'[d] # NoFrame => step'[d] \in {"ask", "wait", "freeTable"}
    <3> SUFFICES ASSUME NEW d \in Cpu, detached'[d] # NoFrame, d # c
                 PROVE  step'[d] \in {"ask", "wait", "freeTable"}
      BY <1>1, <1>4, Zenon
    <3> QED
      BY <1>4, <2>1, Zenon DEF StacksInv, WorkInv
  <2>3. step[c] \in Unmapping /\ step'[c] \in Unmapping
    BY <1>1, <1>4, Zenon DEF Unmapping
  <2>4. \A d \in Cpu : d # c => step'[d] = step[d]
    BY <1>4, Zenon
  <2> QED
    BY <1>1, <2>2, <2>3, <2>4, HoldingKeeps, Zenon
<1>11. FramesInv'
  <2>0. \A d \in Cpu : detached'[d] = detached[d] \/ (d = c /\ detached'[d] = p1 /\ p1 # NoFrame)
    BY <1>5, Zenon
  <2>1. p1' \in {p1, NoFrame} /\ (p1' # NoFrame => \A d \in Cpu : detached'[d] = detached[d])
    BY <1>5, Zenon
  <2>2. FramesOnce'
    <3>1. \A d \in Worker : d \in Cpu /\ released[d] \notin freeFrames /\ detached'[d] \notin freeFrames
      BY <2>0, FramesApart, StacksAssumption, Zenon
    <3>2. (\A p \in Page : pte[p] \notin freeFrames) /\ p1' \notin freeFrames
      BY <2>1, FramesApart, Zenon
    <3> QED
      BY <1>1, <3>1, <3>2, Zenon DEF FramesOnce
  <2>3. \A p \in Page : pte[p] = p1' => p1' = NoFrame
    BY <2>1, Zenon DEF StacksInv, FramesInv
  <2>4. \A d \in Cpu, p \in Page : pte[p] \in {released[d], detached'[d]} => pte[p] = NoFrame
    BY <2>0, Zenon DEF StacksInv, FramesInv
  <2>5. \A d \in Cpu : p1' \in {released[d], detached'[d]} => p1' = NoFrame
    BY <2>1, Zenon DEF StacksInv, FramesInv
  <2>6. \A d, e \in Cpu : released[d] = detached'[e] => released[d] = NoFrame
    BY <2>0, Zenon DEF StacksInv, FramesInv
  <2>7. \A d, e \in Cpu : detached'[d] = detached'[e] => d = e \/ detached'[d] = NoFrame
    BY <2>0, Zenon DEF StacksInv, FramesInv
  <2> QED
    BY <1>1, <2>2, <2>3, <2>4, <2>5, <2>6, <2>7, Zenon DEF StacksInv, FramesInv
<1>12. TlbInv'
  <2> SUFFICES ASSUME NEW b \in Cpu, NEW e \in tlb'[b], pte[e[1]] # e[2], ~Covers(flushing[b], e[1])
               PROVE  \E d \in Cpu : /\ d # b /\ released[d] = e[2] /\ ThisPage(d)' = e[1]
                                     /\ Unasked(d, b)' \/ (Awaits(d, b)' /\ Covers(request[b], e[1]))
    BY <1>1, Zenon DEF TlbInv, Covers
  <2>1. PICK d \in Cpu : /\ d # b /\ released[d] = e[2] /\ ThisPage(d) = e[1]
                         /\ Unasked(d, b) \/ (Awaits(d, b) /\ Covers(request[b], e[1]))
    BY <1>6, Zenon DEF StacksInv, TlbInv
  <2> QED
    BY <1>7, <2>1, Zenon
<1>13. WalkInv'
  <2> SUFFICES ASSUME NEW b \in Cpu, walk'[b] \notin {NoFrame, p1'}, flushing[b] = Nothing
               PROVE  \E d \in Cpu : /\ d # b /\ detached'[d] = walk'[b]
                                     /\ Unasked(d, b)' \/ (Awaits(d, b)' /\ request[b] # Nothing)
    BY <1>1, Zenon DEF WalkInv
  <2>1. walk'[b] = walk[b]
    BY <1>5, Zenon
  <2>2. CASE walk[b] = p1
    BY <1>1, <1>5, <1>7, <2>1, <2>2, Zenon
  <2>3. CASE walk[b] # p1
    <3>1. PICK d \in Cpu : /\ d # b /\ detached[d] = walk[b]
                           /\ Unasked(d, b) \/ (Awaits(d, b) /\ request[b] # Nothing)
      BY <2>1, <2>3, Zenon DEF StacksInv, WalkInv
    <3>2. d # c /\ detached'[d] = detached[d]
      BY <1>3, <1>5, <2>1, <3>1, Zenon
    <3> QED
      BY <1>7, <2>1, <3>1, <3>2, Zenon
  <2> QED
    BY <2>2, <2>3, Zenon
<1> QED
  BY <1>8, <1>9, <1>11, <1>12, <1>13, Zenon DEF StacksInv

\* What the allocator hands out when there is enough.
LEMMA TakenFrames ==
  ASSUME freeFrames \subseteq Frame, NEW t, t \in Frame \cup {NoFrame}, t \notin freeFrames,
         Cardinality(freeFrames) >= (IF t = NoFrame THEN 2 ELSE 1)
  PROVE  LET f == Min(freeFrames)
             table == IF t = NoFrame THEN Min(freeFrames \ {f}) ELSE t
         IN  f \in freeFrames /\ table \in Frame /\ f # table /\ (t # NoFrame => table = t)
             /\ (t = NoFrame => table \in freeFrames)
<1> DEFINE f == Min(freeFrames)
<1>1. freeFrames # {}
  BY FS_EmptySet
<1>2. freeFrames \subseteq Nat
  BY StacksAssumption DEF Frame
<1>3. f \in freeFrames
  BY <1>1, <1>2, MinIsLeast, Zenon
<1> HIDE DEF f
<1>4. CASE t = NoFrame
  <2>1. freeFrames \ {f} # {}
    <3>1. SUFFICES freeFrames # {f}
      BY <1>3, Zenon
    <3>2. Cardinality({f}) = 1
      BY FS_Singleton, Zenon
    <3> QED
      BY <1>4, <3>2
  <2>2. freeFrames \ {f} \subseteq Nat
    BY <1>2, Zenon
  <2>3. Min(freeFrames \ {f}) \in freeFrames \ {f}
    BY <2>1, <2>2, MinIsLeast, Zenon
  <2> QED
    BY <1>3, <1>4, <2>3, Zenon DEF f
<1>5. CASE t # NoFrame
  BY <1>3, <1>5, Zenon DEF f
<1> QED
  BY <1>4, <1>5, Zenon

\* A page is mapped only where nothing that is still cached was mapped.
LEMMA MapInKeeps ==
  ASSUME StacksInv, NEW c \in Worker, MapIn(c)
  PROVE  StacksInv'
<1> DEFINE P == ThisPage(c)
<1>1. /\ c \in Cpu /\ step[c] = "map" /\ index[c] <= StackPages /\ flushing[c] = Nothing
      /\ UNCHANGED <<slots, up, request, flushing, stack, released, detached, todo, targeted>>
  BY StacksAssumption, Zenon DEF MapIn, Doing
<1>2. P \in Page /\ P[1] = stack[c] /\ P[2] = index[c] /\ index[c] \in Nat \ {0}
  BY <1>1, ThisPageIsPage, Zenon DEF StacksInv, StacksTypeOK
<1>3. \A p \in Page : p = P \/ p[1] # stack[c] \/ p[2] # index[c]
  BY <1>2 DEF Page
<1>4. released[c] = NoFrame /\ detached[c] = NoFrame
  BY <1>1, Zenon DEF StacksInv, WorkInv, Unmapping
<1>5. pte[P] = NoFrame
  <2>1. pte[P] = NoFrame <=> P[2] >= index[c]
    BY <1>1, <1>2, Zenon DEF StacksInv, PagesInv, MappedSoFar
  <2> QED
    BY <1>2, <2>1
<1> HIDE DEF P
<1>6. CASE ~(Cardinality(freeFrames) >= (IF p1 = NoFrame THEN 2 ELSE 1))
  <2> DEFINE place == IF index[c] = 1 THEN "unclaim" ELSE "unmap"
  <2>1. /\ step' = [step EXCEPT ![c] = place]
        /\ index' = [index EXCEPT ![c] = 1]
        /\ UNCHANGED <<freeFrames, p1, pte, caches>>
    BY <1>6, Zenon DEF MapIn, Then
  <2>2. 1 \in Nat \ {0} /\ step[c] \notin Unmapping
    BY <1>1 DEF Unmapping
  <2>3. \A p \in Page : p[1] = stack[c] => MappedSoFar(p, place, 1)
    <3>1. \A p \in Page : p[1] = stack[c] => (pte[p] = NoFrame <=> p[2] >= index[c])
      BY <1>1, Zenon DEF StacksInv, PagesInv, MappedSoFar
    <3> QED
      BY <3>1, PageParts DEF MappedSoFar, Unmapping
  <2> HIDE DEF place
  <2>4. /\ stack[c] \in Nat /\ stack[c] \in slots' /\ stack[c] \notin up'
        /\ slots' \subseteq Stack /\ up' \subseteq slots'
        /\ \A d \in Cpu : d # c /\ step[d] # "run" => stack[d] \in slots' /\ stack[d] \notin up'
        /\ \A d \in Cpu : step[d] # "run" /\ stack[d] = stack[c] => c = d
    BY <1>1, AtStack, Zenon
  <2>5. \A p \in Page : (p[1] \notin slots' => pte[p] = NoFrame) /\ (p[1] \in up' => pte[p] # NoFrame)
    BY <1>1, Zenon DEF StacksInv, PagesInv
  <2>6. stack' = [stack EXCEPT ![c] = stack[c]]
    BY <1>1, Zenon DEF StacksInv, StacksTypeOK
  <2>7. UNCHANGED <<freeFrames, p1, pte, request, flushing, caches, released, detached, todo, targeted>>
    BY <1>1, <2>1, Zenon
  <2>8. CASE place = "unclaim"
    <3>1. /\ step' = [step EXCEPT ![c] = "unclaim"] /\ index' = [index EXCEPT ![c] = 1]
          /\ \A p \in Page : p[1] = stack[c] => MappedSoFar(p, "unclaim", 1)
          /\ "unclaim" \in {"run", "map", "unmap", "unclaim"}
      BY <2>1, <2>3, <2>8, Zenon
    <3> QED
      BY <2>2, <2>4, <2>5, <2>6, <2>7, <3>1, MoveKeeps, Zenon
  <2>9. CASE place = "unmap"
    <3>1. /\ step' = [step EXCEPT ![c] = "unmap"] /\ index' = [index EXCEPT ![c] = 1]
          /\ \A p \in Page : p[1] = stack[c] => MappedSoFar(p, "unmap", 1)
          /\ "unmap" \in {"run", "map", "unmap", "unclaim"}
      BY <2>1, <2>3, <2>9, Zenon
    <3> QED
      BY <2>2, <2>4, <2>5, <2>6, <2>7, <3>1, MoveKeeps, Zenon
  <2> QED
    BY <2>8, <2>9, Zenon DEF place
<1>7. CASE Cardinality(freeFrames) >= (IF p1 = NoFrame THEN 2 ELSE 1)
  <2>1. PICK f, table :
          /\ f = Min(freeFrames) /\ table = (IF p1 = NoFrame THEN Min(freeFrames \ {f}) ELSE p1)
          /\ freeFrames' = freeFrames \ {f, table}
          /\ p1' = table /\ pte' = [pte EXCEPT ![P] = f]
          /\ tlb' = [tlb EXCEPT ![c] = {e \in tlb[c] : e[1] # P}]
          /\ walk' = [walk EXCEPT ![c] = NoFrame]
          /\ index' = [index EXCEPT ![c] = @ + 1] /\ step' = step
    BY <1>7, Zenon DEF MapIn, FlushPage, P
  <2>2. /\ f \in freeFrames /\ table \in Frame /\ f # table /\ (p1 # NoFrame => table = p1)
        /\ (p1 = NoFrame => table \in freeFrames)
    <3>1. freeFrames \subseteq Frame /\ p1 \in Frame \cup {NoFrame} /\ p1 \notin freeFrames
      BY Zenon DEF StacksInv, StacksTypeOK, FramesInv, FramesOnce
    <3> QED
      BY <1>7, <2>1, <3>1, TakenFrames, Zenon
  <2>3. f \in Frame /\ f # NoFrame /\ table # NoFrame
    BY <2>2, FramesAreNot, Zenon DEF StacksInv, StacksTypeOK
  <2>4. /\ \A d \in Cpu : /\ index'[d] = (IF d = c THEN index[c] + 1 ELSE index[d])
                          /\ walk'[d] = (IF d = c THEN NoFrame ELSE walk[d])
        /\ \A p \in Page : pte'[p] = (IF p = P THEN f ELSE pte[p])
    BY <2>1, Zenon DEF StacksInv, StacksTypeOK
  <2>5. \A b \in Cpu : \A e \in tlb'[b] : e \in tlb[b]
    BY <2>1, Zenon DEF StacksInv, StacksTypeOK
  <2>6. /\ \A d \in Cpu : d # c => ThisPage(d)' = ThisPage(d)
        /\ \A b, d \in Cpu : Unasked(d, b)' = Unasked(d, b) /\ Awaits(d, b)' = Awaits(d, b)
    BY <1>1, <2>1, <2>4, Zenon DEF ThisPage, Unasked, Awaits
  <2>7. StacksTypeOK'
    <3>1. pte' \in [Page -> Frame \cup {NoFrame}] /\ index' \in [Cpu -> Nat \ {0}]
      BY <1>1, <1>2, <2>1, <2>3 DEF StacksInv, StacksTypeOK
    <3>2. tlb' \in [Cpu -> SUBSET (Page \X Frame)] /\ walk' \in [Cpu -> Frame \cup {NoFrame}]
      BY <2>1, Zenon DEF StacksInv, StacksTypeOK
    <3> QED
      BY <1>1, <2>1, <2>2, <3>1, <3>2, Zenon DEF StacksInv, StacksTypeOK
  <2>8. WorkInv'
    <3>1. \A d \in Cpu : step[d] \in Unmapping => d # c /\ ThisPage(d) \in Page /\ ThisPage(d) # P
      <4> SUFFICES ASSUME NEW d \in Cpu, step[d] \in Unmapping
                   PROVE  d # c /\ ThisPage(d) \in Page /\ ThisPage(d) # P
        BY Zenon
      <4>1. d # c /\ step[d] # "run" /\ index[d] <= StackPages
        BY <1>1, Zenon DEF StacksInv, WorkInv, Unmapping
      <4>2. ThisPage(d) \in Page /\ ThisPage(d)[1] = stack[d]
        BY <4>1, ThisPageIsPage, Zenon
      <4>3. stack[d] # stack[c]
        BY <1>1, <4>1, Zenon DEF StacksInv, WorkInv
      <4> QED
        BY <1>2, <4>1, <4>2, <4>3, Zenon
    <3> SUFFICES ASSUME NEW d \in Cpu
                 PROVE  /\ step[d] # "run" =>
                            /\ d \in Worker /\ stack[d] \in slots /\ stack[d] \notin up
                            /\ \A e \in Cpu : step[e] # "run" /\ stack[e] = stack[d] => d = e
                        /\ step[d] \in Unmapping <=> released[d] # NoFrame
                        /\ step[d] \in Unmapping => index'[d] <= StackPages /\ pte'[ThisPage(d)'] = NoFrame
                        /\ detached[d] # NoFrame => step[d] \in {"ask", "wait", "freeTable"}
      BY <1>1, <2>1, Zenon DEF WorkInv
    <3>2. step[d] \in Unmapping => index[d] <= StackPages /\ pte[ThisPage(d)] = NoFrame
      BY Zenon DEF StacksInv, WorkInv
    <3>3. step[d] \in Unmapping => index'[d] <= StackPages /\ pte'[ThisPage(d)'] = NoFrame
      BY <2>4, <2>6, <3>1, <3>2, Zenon
    <3> QED
      BY <3>3, Zenon DEF StacksInv, WorkInv
  <2>9. PagesInv'
    <3> SUFFICES ASSUME NEW p \in Page
                 PROVE  /\ p[1] \notin slots => pte'[p] = NoFrame
                        /\ p[1] \in up => pte'[p] # NoFrame
                        /\ \A d \in Cpu : p[1] = stack[d] => MappedSoFar(p, step[d], index[d])'
      BY <1>1, <2>1, Zenon DEF PagesInv
    <3>2. CASE p = P
      <4>1. p[1] \in slots /\ pte'[p] = f /\ p[2] = index[c]
        BY <1>1, <1>2, <2>4, <3>2, AtStack, Zenon
      <4>2. \A d \in Cpu : p[1] = stack[d] => d = c \/ step'[d] = "run"
        BY <1>1, <1>2, <2>1, <3>2, AtStack, Zenon
      <4>3. MappedSoFar(p, step[c], index[c])'
        BY <1>1, <1>2, <2>1, <2>3, <2>4, <4>1 DEF MappedSoFar, Unmapping
      <4>4. \A d \in Cpu : step'[d] = "run" => MappedSoFar(p, step[d], index[d])'
        BY Zenon DEF MappedSoFar, Unmapping
      <4> QED
        BY <2>3, <4>1, <4>2, <4>3, <4>4, Zenon
    <3>3. CASE p # P
      <4>1. /\ p[1] \notin slots => pte[p] = NoFrame
            /\ p[1] \in up => pte[p] # NoFrame
            /\ \A d \in Cpu : p[1] = stack[d] => MappedSoFar(p, step[d], index[d])
        BY Zenon DEF StacksInv, PagesInv
      <4>2. pte'[p] = pte[p]
        BY <2>4, <3>3, Zenon
      <4>3. \A d \in Cpu : d # c /\ MappedSoFar(p, step[d], index[d]) => MappedSoFar(p, step[d], index[d])'
        BY <2>1, <2>4, <4>2, Zenon DEF MappedSoFar
      <4>4. p[1] = stack[c] => (p[2] >= index[c] <=> p[2] >= index[c] + 1)
        BY <1>2, <1>3, <3>3, PageParts
      <4>5. p[1] = stack[c] => MappedSoFar(p, step[c], index[c])'
        BY <1>1, <2>1, <2>4, <4>1, <4>2, <4>4, Zenon DEF MappedSoFar, Unmapping
      <4> QED
        BY <4>1, <4>2, <4>3, <4>5, Zenon
    <3> QED
      BY <3>2, <3>3, Zenon
  <2>10. FramesInv'
    <3>1. /\ \A p \in Page : pte[p] # f /\ (p1 = NoFrame => pte[p] # table)
          /\ p1 # f
          /\ \A d \in Worker : /\ f \notin {released[d], detached[d]}
                               /\ p1 = NoFrame => table \notin {released[d], detached[d]}
      BY <2>2, Zenon DEF StacksInv, FramesInv, FramesOnce
    <3>2. \A d \in Cpu : /\ f \notin {released[d], detached[d]}
                         /\ p1 = NoFrame => table \notin {released[d], detached[d]}
      BY <2>2, FramesApart, Zenon
    <3>3. FramesOnce'
      <4>1. f \notin freeFrames' /\ table \notin freeFrames' /\ \A x : x \notin freeFrames => x \notin freeFrames'
        BY <2>1, Zenon
      <4>2. \A d \in Worker : d \in Cpu /\ released[d] \notin freeFrames' /\ detached[d] \notin freeFrames'
        BY <4>1, FramesApart, StacksAssumption, Zenon
      <4>3. \A p \in Page : pte'[p] \notin freeFrames'
        BY <2>4, <4>1, FramesApart, Zenon
      <4> QED
        BY <1>1, <2>1, <4>1, <4>2, <4>3, Zenon DEF FramesOnce
    <3>4. \A p \in Page : table = pte[p] => p1 = NoFrame
      BY <2>2, <2>3, Zenon DEF StacksInv, FramesInv
    <3>5. \A d \in Cpu : table \in {released[d], detached[d]} => p1 = NoFrame
      BY <2>2, <2>3, Zenon DEF StacksInv, FramesInv
    <3>6. \A p, q \in Page : pte'[p] = pte'[q] => p = q \/ pte'[p] = NoFrame
      <4>1. \A p, q \in Page : pte[p] = pte[q] => p = q \/ pte[p] = NoFrame
        BY Zenon DEF StacksInv, FramesInv
      <4> QED
        BY <2>4, <3>1, <4>1, Zenon
    <3>7. \A p \in Page : pte'[p] = table => table = NoFrame
      BY <2>2, <2>4, <3>1, <3>4, Zenon
    <3>8. \A d \in Cpu, p \in Page : pte'[p] \in {released[d], detached[d]} => pte'[p] = NoFrame
      <4>1. \A d \in Cpu, p \in Page : pte[p] \in {released[d], detached[d]} => pte[p] = NoFrame
        BY Zenon DEF StacksInv, FramesInv
      <4> QED
        BY <2>4, <3>2, <4>1, Zenon
    <3>9. \A d \in Cpu : table \in {released[d], detached[d]} => table = NoFrame
      BY <3>2, <3>5, Zenon
    <3> QED
      BY <1>1, <2>1, <3>3, <3>6, <3>7, <3>8, <3>9, Zenon DEF StacksInv, FramesInv
  <2>11. TlbInv'
    <3> SUFFICES ASSUME NEW b \in Cpu, NEW e \in tlb'[b], pte'[e[1]] # e[2], ~Covers(flushing[b], e[1])
                 PROVE  \E d \in Cpu : /\ d # b /\ released[d] = e[2] /\ ThisPage(d)' = e[1]
                                       /\ Unasked(d, b)' \/ (Awaits(d, b)' /\ Covers(request[b], e[1]))
      BY <1>1, Zenon DEF TlbInv, Covers
    <3>1. e \in tlb[b] /\ e[1] \in Page /\ e[2] # NoFrame
      BY <2>5, CachedParts, Zenon
    <3>2. pte[e[1]] # e[2]
      BY <1>5, <2>4, <3>1, Zenon
    <3>3. PICK d \in Cpu : /\ d # b /\ released[d] = e[2] /\ ThisPage(d) = e[1]
                           /\ Unasked(d, b) \/ (Awaits(d, b) /\ Covers(request[b], e[1]))
      BY <3>1, <3>2, Zenon DEF StacksInv, TlbInv
    <3>4. d # c
      BY <1>4, <3>1, <3>3, Zenon
    <3>5. ThisPage(d)' = ThisPage(d)
      BY <2>6, <3>4, Zenon
    <3>6. Unasked(d, b)' = Unasked(d, b) /\ Awaits(d, b)' = Awaits(d, b)
      BY <2>6, Zenon
    <3> QED
      BY <3>3, <3>5, <3>6, Zenon
  <2>12. WalkInv'
    <3> SUFFICES ASSUME NEW b \in Cpu, walk'[b] \notin {NoFrame, p1'}, flushing[b] = Nothing
                 PROVE  \E d \in Cpu : /\ d # b /\ detached[d] = walk'[b]
                                       /\ Unasked(d, b)' \/ (Awaits(d, b)' /\ request[b] # Nothing)
      BY <1>1, Zenon DEF WalkInv
    <3>1. walk'[b] = walk[b] /\ walk[b] \notin {NoFrame, p1}
      BY <2>1, <2>2, <2>4, Zenon
    <3>2. PICK d \in Cpu : /\ d # b /\ detached[d] = walk[b]
                           /\ Unasked(d, b) \/ (Awaits(d, b) /\ request[b] # Nothing)
      BY <3>1, Zenon DEF StacksInv, WalkInv
    <3>3. Unasked(d, b)' = Unasked(d, b) /\ Awaits(d, b)' = Awaits(d, b)
      BY <2>6, Zenon
    <3> QED
      BY <3>1, <3>2, <3>3, Zenon
  <2> QED
    BY <2>7, <2>8, <2>9, <2>10, <2>11, <2>12, Zenon DEF StacksInv
<1> QED
  BY <1>6, <1>7, Zenon

\* StacksInv is inductive.
LEMMA StacksInductive ==
  StacksSpec => []StacksInv
<1>1. StacksInit => StacksInv
  <2> SUFFICES ASSUME StacksInit
               PROVE  StacksInv
    BY Zenon
  <2>1. StacksTypeOK
    BY StacksAssumption DEF StacksInit, StacksTypeOK, Requests
  <2>2. WorkInv /\ PagesInv
    BY Zenon DEF StacksInit, WorkInv, PagesInv, MappedSoFar, Unmapping
  <2>3. FramesInv
    BY StacksAssumption DEF StacksInit, FramesInv, FramesOnce, Frame, NoFrame
  <2>4. TlbInv /\ WalkInv
    BY Zenon DEF StacksInit, TlbInv, WalkInv
  <2> QED
    BY <2>1, <2>2, <2>3, <2>4, Zenon DEF StacksInv
<1>2. ASSUME StacksInv, [StacksNext]_stackVars
      PROVE  StacksInv'
  <2>1. CASE \E c \in Cpu : Service(c) \/ Flush(c) \/ \E p \in Page : Walk(c, p)
    BY <1>2, <2>1, ServiceKeeps, FlushKeeps, WalkKeeps, Zenon
  <2>2. CASE \E c \in Worker : Claim(c) \/ MapIn(c) \/ MapDone(c) \/ UnmapIn(c) \/ Reclaim(c) \/ Asked(c)
    BY <1>2, <2>2, ClaimKeeps, MapInKeeps, MapDoneKeeps, UnmapInKeeps, ReclaimKeeps, AskedKeeps, Zenon
  <2>3. CASE \E c \in Worker : Answered(c) \/ FreeTable(c) \/ FreeFrame(c) \/ Unclaim(c)
    BY <1>2, <2>3, AnsweredKeeps, FreeTableKeeps, FreeFrameKeeps, UnclaimKeeps, Zenon
  <2>4. CASE \E c \in Worker : (\E s \in Stack : Drop(c, s)) \/ \E d \in Cpu : Ask(c, d)
    BY <1>2, <2>4, DropKeeps, AskKeeps, Zenon
  <2>5. CASE UNCHANGED stackVars
    <3>1. /\ UNCHANGED <<freeFrames, p1, pte, slots, up, request, flushing, tlb, walk>>
          /\ UNCHANGED <<step, stack, index, released, detached, todo, targeted>>
      BY <2>5, Zenon DEF stackVars, allocator, caches, locals
    <3>2. StacksTypeOK'
      BY <1>2, <3>1, Zenon DEF StacksInv, StacksTypeOK
    <3>3. WorkInv' /\ PagesInv' /\ FramesInv'
      BY <1>2, <3>1, CacheStepKeeps, Zenon DEF allocator
    <3>4. TlbInv' /\ WalkInv'
      <4>1. /\ \A d \in Cpu : ThisPage(d)' = ThisPage(d)
            /\ \A b, d \in Cpu : (Unasked(d, b) => Unasked(d, b)') /\ (Awaits(d, b) => Awaits(d, b)')
        BY <3>1, Zenon DEF ThisPage, Unasked, Awaits
      <4> QED
        BY <1>2, <3>1, <4>1, OwedKeeps, Zenon
    <3> QED
      BY <3>2, <3>3, <3>4, Zenon DEF StacksInv
  <2> QED
    BY <1>2, <2>1, <2>2, <2>3, <2>4, <2>5, Zenon DEF StacksNext
<1> QED
  BY <1>1, <1>2, PTL DEF StacksSpec

\* No frame returns to the allocator while a processor can still reach it through a
\* translation or a walk it has cached: map_in, unmap_in, the shootdown and the
\* release of an emptied table, for any number of processors that map, unmap and
\* walk in any order (StacksFlushed of Stacks).
THEOREM StacksStayFlushed ==
  StacksSpec => []StacksFlushed
<1>1. ASSUME StacksInv
      PROVE  CachesHonest
  <2> SUFFICES ASSUME NEW c \in Cpu, flushing[c] = Nothing
               PROVE  /\ \A e \in tlb[c] : pte[e[1]] = e[2] \/ \E d \in Worker : released[d] = e[2]
                      /\ walk[c] \in {NoFrame, p1} \cup {detached[d] : d \in Worker}
    BY Zenon DEF CachesHonest
  <2>1. \A d, e \in Cpu : Unasked(d, e) \/ Awaits(d, e) => d \in Worker
    BY <1>1, Zenon DEF StacksInv, WorkInv, Unasked, Awaits
  <2>2. ASSUME NEW e \in tlb[c], pte[e[1]] # e[2]
        PROVE  \E d \in Worker : released[d] = e[2]
    <3>1. ~Covers(flushing[c], e[1])
      <4>1. e[1] \in Page
        BY <1>1, <2>2, CachedParts, Zenon
      <4> QED
        BY <4>1, PageRequests, Zenon DEF Covers
    <3>2. \E d \in Cpu : released[d] = e[2] /\ (Unasked(d, c) \/ Awaits(d, c))
      BY <1>1, <2>2, <3>1, Zenon DEF StacksInv, TlbInv
    <3> QED
      BY <2>1, <3>2, Zenon
  <2>3. walk[c] \in {NoFrame, p1} \cup {detached[d] : d \in Worker}
    <3>1. walk[c] \in {NoFrame, p1} \/ \E d \in Cpu : detached[d] = walk[c] /\ (Unasked(d, c) \/ Awaits(d, c))
      BY <1>1, Zenon DEF StacksInv, WalkInv
    <3> QED
      BY <2>1, <3>1, Zenon
  <2> QED
    BY <2>2, <2>3, Zenon
<1>2. StacksInv => StacksFlushed
  BY <1>1, Zenon DEF StacksFlushed, StacksInv, FramesInv
<1> QED
  BY <1>2, StacksInductive, PTL

=============================================================================
