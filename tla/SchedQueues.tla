---------------------------- MODULE SchedQueues ----------------------------
(***************************************************************************)
(* The ready queues hold each runnable thread once, on the processor that  *)
(* owns it, no runnable thread is lost, and no stack is freed under a      *)
(* processor, for any number of processors and threads: every step keeps   *)
(* QueueInv of module SchedProofs.                                         *)
(***************************************************************************)
EXTENDS SchedProofs

\* The time each leaf is given.
USE SMTT(30), ZenonT(30)

\* Adding one thread to one queue.

\* The queue of c gets t at its tail, and t was on no queue.
Adds(c, t) ==
  /\ \A d \in Cpu : d # c => ready'[d] = ready[d]
  /\ Waiting(ready'[c]) = Waiting(ready[c]) \cup {t}
  /\ Once(ready'[c])

\* Enqueue does that.
LEMMA EnqueueAddsTo ==
  ASSUME Inv, QueueInv, NEW c \in Cpu, NEW t \in Worker, t \notin Waiting(ready[c]),
         ready' = [ready EXCEPT ![c] = Enqueue(ready[c], priority[t], t)]
  PROVE  Adds(c, t)
<1>1. /\ ready[c] \in [Level -> Seq(Worker)] /\ priority[t] \in Level
      /\ ready'[c] = Enqueue(ready[c], priority[t], t)
      /\ \A d \in Cpu : d # c => ready'[d] = ready[d]
  BY Basics DEF Inv, TypeOK, QueueTypes, ThreadTypes
<1>2. Once(ready[c])
  BY DEF QueueInv
<1>3. /\ Waiting(Enqueue(ready[c], priority[t], t)) = Waiting(ready[c]) \cup {t}
      /\ Once(Enqueue(ready[c], priority[t], t))
  BY <1>1, <1>2, EnqueueAdds
<1> QED
  BY <1>1, <1>3 DEF Adds

\* What pop_from finds on d's queue is d's own, and leaves the queue.
LEMMA PopQueues ==
  ASSUME Inv, QueueInv, NEW d \in Cpu, NEW order \in PickOrders
  PROVE  LET found == PopFrom(ready[d], order, Runnable(onCpu))
             rest  == PopRest(ready[d], order, Runnable(onCpu))
         IN  /\ Once(rest)
             /\ found = NoThread => Waiting(ready[d]) = {} /\ Waiting(rest) = {}
             /\ found # NoThread =>
                  /\ found \in Worker /\ Waiting(rest) = Waiting(ready[d]) \ {found}
                  /\ state[found] = "Ready" /\ ~onCpu[found] /\ owner[found] = d
                  /\ \A e \in Cpu : ~Spawning(e, found) /\ ~Holds(e, found)
                  /\ \A e \in Cpu : e # d => found \notin Waiting(ready[e])
<1> DEFINE found == PopFrom(ready[d], order, Runnable(onCpu))
           rest  == PopRest(ready[d], order, Runnable(onCpu))
<1>1. ready[d] \in [Level -> Seq(Worker)] /\ NoThread \notin Worker /\ Once(ready[d])
  BY Basics DEF Inv, TypeOK, QueueTypes, QueueInv
<1>2. \A t \in Waiting(ready[d]) : t \in Worker
  BY <1>1, WaitingType
<1>3. Waiting(ready[d]) \subseteq Runnable(onCpu)
  BY <1>2, Basics DEF QueueInv, Placed, Filed, Runnable
<1>4. /\ Once(rest)
      /\ found = NoThread => Waiting(ready[d]) = {} /\ Waiting(rest) = {}
      /\ found # NoThread => found \in Waiting(ready[d])
                             /\ Waiting(rest) = Waiting(ready[d]) \ {found}
  BY <1>1, <1>3, PopTakesOne, Zenon
<1> HIDE DEF found, rest
<1>5. ASSUME found # NoThread
      PROVE  /\ found \in Worker /\ state[found] = "Ready" /\ ~onCpu[found] /\ owner[found] = d
             /\ \A e \in Cpu : ~Spawning(e, found) /\ ~Holds(e, found)
             /\ \A e \in Cpu : e # d => found \notin Waiting(ready[e])
  <2>1. found \in Worker /\ found \in Waiting(ready[d]) /\ found \in Thread
    BY <1>2, <1>4, <1>5, Basics
  <2>2. state[found] = "Ready" /\ ~onCpu[found] /\ owner[found] = d
    BY <2>1 DEF QueueInv, Placed, Filed
  <2>3. \A e \in Cpu : ~Spawning(e, found) /\ (e # d => found \notin Waiting(ready[e]))
    BY <2>1, <2>2 DEF QueueInv, Placed, Filed
  <2>4. \A e \in Cpu : ~Holds(e, found)
    BY <2>1, <2>2 DEF Inv, SchedInv, StackInv, HeldInv
  <2> QED
    BY <2>1, <2>2, <2>3, <2>4
<1> QED
  BY <1>4, <1>5, Zenon DEF found, rest

\* prepare_switch takes the thread it switches to off the queue, and stays only when
\* the queue has nothing.
LEMMA PickQueues ==
  ASSUME Inv, QueueInv, NEW c \in Cpu, NEW order \in PickOrders, Pick(c, order)
  PROVE  QueueInv'
<1>f. PICK f : f = PopFrom(ready[c], order, Runnable(onCpu))
  OBVIOUS
<1>r. PICK r : r = PopRest(ready[c], order, Runnable(onCpu))
  OBVIOUS
<1>1. Stays(c) \/ \E next \in Thread : SwitchesTo(c, next)
  BY PickStaysOrSwitches DEF Inv, SchedInv
<1>k. PICK k \in Thread : k = current[c] /\ k # NoThread
  BY <1>1, Basics, Zenon DEF Stays, SwitchesTo, OnStack
<1>2. /\ pc[c] = "pick" /\ pending[c] = NoThread /\ Holds(c, k) /\ UNCHANGED at
  BY <1>1, <1>k, Zenon DEF Stays, SwitchesTo, OnStack
<1>3. FlushedOnCpu(c) = onCpu /\ FlushedReady(c) = ready[c] /\ FlushedReaped(c) = reaped[c]
  BY <1>2, Zenon DEF FlushedOnCpu, FlushedReady, FlushedReaped
<1>4. /\ ready' = [ready EXCEPT ![c] = r]
      /\ burying' = [burying EXCEPT ![c] = reaped[c]] /\ reaped' = [reaped EXCEPT ![c] = {}]
      /\ UNCHANGED <<owner, stacks, arg>>
  BY <1>3, <1>r, Zenon DEF Pick
<1>5. \/ current' = current /\ (f = NoThread \/ f = k)
      \/ current' = [current EXCEPT ![c] = IF f = NoThread THEN Idle[c] ELSE f]
  BY <1>3, <1>f, <1>k, Zenon DEF Pick
<1>6. /\ Once(r)
      /\ f = NoThread => Waiting(ready[c]) = {} /\ Waiting(r) = {}
      /\ f # NoThread =>
           /\ f \in Worker /\ Waiting(r) = Waiting(ready[c]) \ {f}
           /\ state[f] = "Ready" /\ ~onCpu[f] /\ owner[f] = c
           /\ \A e \in Cpu : ~Spawning(e, f) /\ ~Holds(e, f)
           /\ \A e \in Cpu : e # c => f \notin Waiting(ready[e])
  BY <1>f, <1>r, PopQueues, Zenon
<1>7. /\ ready'[c] = r /\ reaped'[c] = {} /\ burying'[c] = reaped[c]
      /\ \A e \in Cpu : e # c => /\ ready'[e] = ready[e] /\ reaped'[e] = reaped[e]
                                 /\ burying'[e] = burying[e]
  BY <1>4 DEF Inv, TypeOK, QueueTypes, ThreadTypes
<1>8. \A e \in Cpu : Once(ready'[e]) /\ reaped'[e] \cup burying'[e] \subseteq reaped[e] \cup burying[e]
  BY <1>6, <1>7 DEF QueueInv
<1>9. \E p \in {"out", "bury", "switch"} : pc' = [pc EXCEPT ![c] = p]
  BY <1>1, Zenon DEF Stays, SwitchesTo
<1>10. pc'[c] \in {"out", "bury", "switch"} /\ \A e \in Cpu : e # c => pc'[e] = pc[e]
  BY <1>9 DEF Inv, TypeOK, StackTypes
<1>11. \A e \in Cpu, t \in Thread : Spawning(e, t)' <=> Spawning(e, t)
  BY <1>2, <1>4, <1>10 DEF Spawning
<1>12. CASE Stays(c)
  <2>1. UNCHANGED <<onCpu, state, current, pending>> /\ state[k] = "Running"
    BY <1>k, <1>12, Zenon DEF Stays
  <2>2. f = NoThread
    BY <1>k, <1>2, <1>5, <1>6, <2>1, Basics DEF Inv, TypeOK, StackTypes
  <2>3. \A e \in Cpu : Waiting(ready'[e]) = Waiting(ready[e])
    BY <1>6, <1>7, <2>2
  <2>4. ASSUME NEW t \in Worker PROVE Placed(t)'
    <3>1. t \in Thread /\ Placed(t)
      BY Basics DEF QueueInv
    <3>2. \A e \in Cpu : Holds(e, t)' <=> Holds(e, t)
      BY <2>1, Zenon DEF Holds
    <3>3. Same(t)
      BY <1>4, <1>8, <1>11, <2>1, <2>3, <3>1, <3>2, Zenon DEF Same
    <3> QED
      BY <3>1, <3>3, SamePlaced
  <2>5. ASSUME NEW e \in Cpu PROVE Leaves(e)'
    <3>1. CASE e = c
      BY <1>k, <1>2, <1>10, <2>1, <3>1 DEF Leaves
    <3>2. CASE e # c
      <4>1. Leaves(e)
        BY DEF QueueInv
      <4> QED
        BY <1>2, <1>10, <2>1, <3>2, <4>1, LeavesSame
    <3> QED
      BY <3>1, <3>2
  <2> QED
    BY <1>8, <2>4, <2>5, Zenon DEF QueueInv
<1>13. ASSUME NEW n \in Thread, SwitchesTo(c, n)
       PROVE  QueueInv'
  <2>1. /\ n # k /\ (\A e \in Cpu : ~Holds(e, n))
        /\ onCpu' = [onCpu EXCEPT ![n] = TRUE]
        /\ pending' = [pending EXCEPT ![c] = k] /\ current' = [current EXCEPT ![c] = n]
        /\ state'[n] = "Running"
        /\ state'[k] = IF state[k] = "Running" THEN "Ready" ELSE state[k]
        /\ \A t \in Thread : t # k /\ t # n => state'[t] = state[t]
    BY <1>k, <1>13, Zenon DEF SwitchesTo
  <2>2. /\ onCpu'[n] /\ \A t \in Thread : t # n => onCpu'[t] = onCpu[t]
        /\ pending'[c] = k /\ current'[c] = n
        /\ \A e \in Cpu : e # c => pending'[e] = pending[e] /\ current'[e] = current[e]
    BY <2>1 DEF Inv, TypeOK, StackTypes
  <2>3. n = IF f = NoThread THEN Idle[c] ELSE f
    <3>1. current'[c] # current[c]
      BY <1>k, <2>1, <2>2
    <3>2. current' = [current EXCEPT ![c] = IF f = NoThread THEN Idle[c] ELSE f]
      BY <1>5, <3>1
    <3>3. current'[c] = IF f = NoThread THEN Idle[c] ELSE f
      BY <3>2 DEF Inv, TypeOK, StackTypes
    <3> QED
      BY <2>2, <3>3
  <2>4. \A e \in Cpu, t \in Worker : t # n => (t \in Waiting(ready'[e]) <=> t \in Waiting(ready[e]))
    BY <1>6, <1>7, <2>3
  <2>5. \A e \in Cpu, t \in Worker : t # n => (Holds(e, t)' <=> Holds(e, t))
    BY <1>k, <1>2, <2>2, Basics DEF Holds
  <2>6. ASSUME NEW t \in Worker, t # n, t # k PROVE Placed(t)'
    <3>1. t \in Thread /\ Placed(t)
      BY Basics DEF QueueInv
    <3>2. Same(t)
      BY <1>4, <1>8, <1>11, <2>1, <2>2, <2>4, <2>5, <2>6, <3>1, Zenon DEF Same
    <3> QED
      BY <3>1, <3>2, SamePlaced
  <2>7. ASSUME k \in Worker PROVE Placed(k)'
    <3>1. Placed(k) /\ onCpu[k] /\ state[k] # "Unborn" /\ owner[k] = c
      BY <1>k, <1>2, <2>7 DEF QueueInv, Placed, Housed, Inv, SchedInv, StackInv, HeldInv
    <3>2. \A e \in Cpu : /\ k \notin Waiting(ready[e]) /\ ~Spawning(e, k)
                         /\ k \notin reaped[e] \cup burying[e]
      BY <3>1 DEF Placed, Filed, Alive
    <3>3. Filed(k)'
      BY <1>11, <2>1, <2>4, <2>7, <3>2, Zenon DEF Filed
    <3>4. Housed(k)'
      BY <1>4, <2>1, <2>5, <2>7, <3>1, Zenon DEF Placed, Housed
    <3>5. Alive(k)'
      <4>1. k # BootThread => k \in stacks
        BY <3>1 DEF Placed, Alive
      <4> QED
        BY <1>4, <1>8, <3>2, <4>1 DEF Alive
    <3>6. Kept(k)'
      BY <1>2, <2>1, <2>5, <2>7, Zenon DEF Kept
    <3> QED
      BY <3>3, <3>4, <3>5, <3>6 DEF Placed
  <2>8. ASSUME n \in Worker PROVE Placed(n)'
    <3>0. n = f /\ f # NoThread /\ Placed(n)
      BY <2>3, <2>8, Basics DEF QueueInv
    <3>1. \A e \in Cpu : n \notin Waiting(ready'[e]) /\ ~Spawning(e, n)'
      BY <1>6, <1>7, <1>11, <3>0
    <3>2. /\ \A e \in Cpu : Holds(e, n)' => e = c
          /\ Holds(c, n)'
      <4>1. n # NoThread
        BY <2>8, Basics
      <4>2. Holds(c, n)'
        BY <2>2, <4>1 DEF Holds
      <4>3. ASSUME NEW e \in Cpu, e # c PROVE ~Holds(e, n)'
        BY <2>1, <2>2, <4>3, Zenon DEF Holds
      <4> QED
        BY <4>2, <4>3
    <3>3. Filed(n)'
      BY <3>1, Zenon DEF Filed
    <3>4. Housed(n)'
      BY <1>4, <1>6, <3>0, <3>2, Zenon DEF Housed
    <3>5. Alive(n)'
      <4>1. /\ n # BootThread => n \in stacks
            /\ \A e \in Cpu : n \notin reaped[e] \cup burying[e]
        BY <1>6, <3>0 DEF Placed, Alive
      <4> QED
        BY <1>4, <1>8, <4>1 DEF Alive
    <3>6. Kept(n)'
      BY <2>1 DEF Kept
    <3> QED
      BY <3>3, <3>4, <3>5, <3>6 DEF Placed
  <2>9. ASSUME NEW e \in Cpu PROVE Leaves(e)'
    <3>1. CASE e = c
      BY <1>10, <2>1, <2>2, <3>1 DEF Leaves
    <3>2. CASE e # c
      <4>1. current[e] # NoThread => current[e] \in Thread /\ current[e] # k /\ current[e] # n
        BY <1>k, <2>1, <3>2 DEF Holds, Inv, TypeOK, StackTypes, SchedInv, StackInv, HeldInv
      <4>2. Leaves(e) /\ current'[e] = current[e] /\ pc'[e] = pc[e]
        BY <1>10, <2>2, <3>2 DEF QueueInv
      <4>3. current[e] # NoThread => /\ state'[current[e]] = state[current[e]]
                                     /\ at'[current[e]] = at[current[e]]
        BY <1>2, <2>1, <4>1
      <4> QED
        BY <4>2, <4>3, LeavesSame
    <3> QED
      BY <3>1, <3>2
  <2> QED
    BY <1>8, <2>6, <2>7, <2>8, <2>9, Zenon DEF QueueInv
<1> QED
  BY <1>1, <1>12, <1>13

\* A stolen thread changes queue and owner in one step.
LEMMA StealQueues ==
  ASSUME Inv, QueueInv, NEW c \in Cpu, Steal(c)
  PROVE  QueueInv'
<1>d. PICK d \in Cpu : d = arg[c] /\ d # c
  BY DEF Steal, Inv, SchedInv, ArgInv
<1>f. PICK f : f = PopFrom(ready[d], HighestFirst, Runnable(onCpu))
  OBVIOUS
<1>r. PICK r : r = PopRest(ready[d], HighestFirst, Runnable(onCpu))
  OBVIOUS
<1>1. /\ UNCHANGED <<state, onCpu, current, pending, reaped, burying, stacks, at>>
      /\ pc[c] = "steal" /\ pc' = [pc EXCEPT ![c] = "pick"]
      /\ arg' = [arg EXCEPT ![c] = NoThread]
  BY Zenon DEF Steal, machine
<1>2. \/ UNCHANGED <<owner, ready>>
      \/ f = NoThread /\ ready' = [ready EXCEPT ![d] = r] /\ UNCHANGED owner
      \/ /\ f # NoThread /\ owner' = [owner EXCEPT ![f] = c]
         /\ ready' = [ready EXCEPT ![d] = r, ![c] = Enqueue(@, priority[f], f)]
  BY <1>d, <1>f, <1>r, Zenon DEF Steal
<1>3. /\ Once(r)
      /\ f = NoThread => Waiting(ready[d]) = {} /\ Waiting(r) = {}
      /\ f # NoThread =>
           /\ f \in Worker /\ Waiting(r) = Waiting(ready[d]) \ {f}
           /\ state[f] = "Ready" /\ ~onCpu[f] /\ owner[f] = d
           /\ \A e \in Cpu : ~Spawning(e, f) /\ ~Holds(e, f)
           /\ \A e \in Cpu : e # d => f \notin Waiting(ready[e])
  BY <1>f, <1>r, PopQueues, Zenon DEF PickOrders
<1>4. pc'[c] = "pick" /\ \A e \in Cpu : e # c => pc'[e] = pc[e] /\ arg'[e] = arg[e]
  BY <1>1 DEF Inv, TypeOK, StackTypes, SchedInv, ArgInv
<1>5. /\ \A e \in Cpu, t \in Thread : Holds(e, t)' <=> Holds(e, t)
      /\ \A e \in Cpu, t \in Thread : Spawning(e, t)' <=> Spawning(e, t)
  BY <1>1, <1>4 DEF Holds, Spawning
<1>6. ASSUME NEW e \in Cpu PROVE Leaves(e)'
  <2>1. Leaves(e)
    BY DEF QueueInv
  <2>2. CASE e = c
    BY <1>1, <1>4, <2>1, <2>2 DEF Leaves
  <2>3. CASE e # c
    BY <1>1, <1>4, <2>1, <2>3, LeavesSame
  <2> QED
    BY <2>2, <2>3
<1>7. ASSUME owner' = owner, \A e \in Cpu : Once(ready'[e]) /\ Waiting(ready'[e]) = Waiting(ready[e])
      PROVE  QueueInv'
  <2>1. ASSUME NEW t \in Worker PROVE Placed(t)'
    <3>1. t \in Thread /\ Placed(t)
      BY Basics DEF QueueInv
    <3>2. Same(t)
      BY <1>1, <1>5, <1>7, <3>1, Zenon DEF Same
    <3> QED
      BY <3>1, <3>2, SamePlaced
  <2> QED
    BY <1>6, <1>7, <2>1, Zenon DEF QueueInv
<1>8. CASE UNCHANGED <<owner, ready>>
  BY <1>7, <1>8 DEF QueueInv
<1>9. CASE f = NoThread /\ ready' = [ready EXCEPT ![d] = r] /\ UNCHANGED owner
  <2>1. ready'[d] = r /\ \A e \in Cpu : e # d => ready'[e] = ready[e]
    BY <1>9 DEF Inv, TypeOK, QueueTypes
  <2> QED
    BY <1>3, <1>7, <1>9, <2>1 DEF QueueInv
<1>10. CASE /\ f # NoThread /\ owner' = [owner EXCEPT ![f] = c]
            /\ ready' = [ready EXCEPT ![d] = r, ![c] = Enqueue(@, priority[f], f)]
  <2>0. f \in Worker /\ f \in Thread /\ Placed(f)
    BY <1>3, <1>10, Basics DEF QueueInv
  <2>1. /\ ready'[d] = r /\ ready'[c] = Enqueue(ready[c], priority[f], f)
        /\ \A e \in Cpu : e # d /\ e # c => ready'[e] = ready[e]
    BY <1>d, <1>10 DEF Inv, TypeOK, QueueTypes
  <2>2. owner'[f] = c /\ \A t \in Thread : t # f => owner'[t] = owner[t]
    BY <1>10, <2>0 DEF Inv, TypeOK, ThreadTypes
  <2>3. Once(ready'[c]) /\ Waiting(ready'[c]) = Waiting(ready[c]) \cup {f}
    <3>1. /\ ready[c] \in [Level -> Seq(Worker)] /\ priority[f] \in Level /\ Once(ready[c])
          /\ f \notin Waiting(ready[c])
      BY <1>d, <1>3, <1>10, <2>0 DEF Inv, TypeOK, QueueTypes, ThreadTypes, QueueInv
    <3>2. /\ Once(Enqueue(ready[c], priority[f], f))
          /\ Waiting(Enqueue(ready[c], priority[f], f)) = Waiting(ready[c]) \cup {f}
      BY <2>0, <3>1, EnqueueAdds
    <3> QED
      BY <2>1, <3>2
  <2>4. ASSUME NEW t \in Worker, t # f PROVE Placed(t)'
    <3>1. t \in Thread /\ Placed(t)
      BY Basics DEF QueueInv
    <3>2. ASSUME NEW e \in Cpu PROVE t \in Waiting(ready'[e]) <=> t \in Waiting(ready[e])
      <4>1. CASE e = c
        BY <2>3, <2>4, <4>1, Zenon
      <4>2. CASE e = d
        <5>1. Waiting(ready'[d]) = Waiting(ready[d]) \ {f}
          BY <1>3, <1>10, <2>1, Zenon
        <5> QED
          BY <2>4, <4>2, <5>1
      <4> QED
        BY <2>1, <4>1, <4>2, Zenon
    <3>3. Same(t)
      BY <1>1, <1>5, <2>2, <2>4, <3>1, <3>2, Zenon DEF Same
    <3> QED
      BY <3>1, <3>3, SamePlaced
  <2>5. Placed(f)'
    <3>1. \A e \in Cpu : f \in Waiting(ready'[e]) => e = c
      BY <1>3, <1>10, <2>1
    <3>2. \A e \in Cpu : ~Spawning(e, f)' /\ ~Holds(e, f)'
      BY <1>3, <1>5, <1>10, <2>0
    <3>3. Filed(f)'
      BY <1>1, <1>3, <1>10, <2>2, <3>1, <3>2, Zenon DEF Filed
    <3>4. Housed(f)'
      BY <1>1, <1>3, <1>10, <3>2, Zenon DEF Housed
    <3>5. Alive(f)'
      BY <1>1, <2>0, Zenon DEF Placed, Alive
    <3>6. Kept(f)'
      BY <2>3 DEF Kept
    <3> QED
      BY <3>3, <3>4, <3>5, <3>6 DEF Placed
  <2>6. \A e \in Cpu : Once(ready'[e])
    BY <1>3, <2>1, <2>3 DEF QueueInv
  <2> QED
    BY <1>6, <2>4, <2>5, <2>6, Zenon DEF QueueInv
<1> QED
  BY <1>2, <1>8, <1>9, <1>10

\* flush_pending lets the outgoing thread go: runnable, it is queued on the processor
\* it ran on, which owns it; finished, it is up for burial.
LEMMA ArriveQueues ==
  ASSUME Inv, QueueInv, NEW c \in Cpu, Arrive(c)
  PROVE  QueueInv'
<1>0. PICK u \in Thread : u = pending[c] /\ u # NoThread
  BY DEF Arrive, Inv, TypeOK, StackTypes, SchedInv, StackInv, StandingInv
<1>1. /\ UNCHANGED <<state, owner, current, burying, stacks, arg, at>>
      /\ pc[c] = "arrive" /\ pc' = [pc EXCEPT ![c] = "out"]
      /\ pending' = [pending EXCEPT ![c] = NoThread]
      /\ onCpu' = [onCpu EXCEPT ![u] = FALSE]
      /\ reaped' = [reaped EXCEPT ![c] = FlushedReaped(c)]
      /\ ready' = [ready EXCEPT ![c] = FlushedReady(c)]
  BY <1>0, Zenon DEF Arrive, FlushedOnCpu, machine
<1>2. FlushedReaped(c) = IF state[u] = "Finished" THEN reaped[c] \cup {u} ELSE reaped[c]
  BY <1>0 DEF FlushedReaped
<1>3. /\ pc'[c] = "out" /\ pending'[c] = NoThread /\ ~onCpu'[u]
      /\ \A d \in Cpu : d # c => /\ pc'[d] = pc[d] /\ pending'[d] = pending[d]
                                 /\ reaped'[d] = reaped[d]
      /\ \A t \in Thread : t # u => onCpu'[t] = onCpu[t]
      /\ reaped'[c] = IF state[u] = "Finished" THEN reaped[c] \cup {u} ELSE reaped[c]
  BY <1>1, <1>2 DEF Inv, TypeOK, StackTypes, ThreadTypes
<1>4. Holds(c, u) /\ onCpu[u] /\ current[c] # u
  BY <1>0 DEF Holds, Inv, SchedInv, StackInv, HeldInv
<1>5. u \in Worker => /\ Placed(u) /\ owner[u] = c
                      /\ \A d \in Cpu : /\ u \notin Waiting(ready[d]) /\ ~Spawning(d, u)
                                        /\ u \notin reaped[d] \cup burying[d]
                                        /\ Holds(d, u) => d = c
  BY <1>4 DEF QueueInv, Placed, Filed, Housed, Alive
<1>6. \/ u \in Worker /\ state[u] = "Ready" /\ Adds(c, u)
      \/ ~(u \in Worker /\ state[u] = "Ready") /\ ready' = ready
  <2>1. CASE u \in Worker /\ state[u] = "Ready"
    <3>1. FlushedReady(c) = Enqueue(ready[c], priority[u], u)
      BY <1>0, <2>1, Basics DEF FlushedReady
    <3> QED
      BY <1>1, <1>5, <2>1, <3>1, EnqueueAddsTo, Zenon
  <2>2. CASE ~(u \in Worker /\ state[u] = "Ready")
    <3>1. u \notin Worker => u = Idle[c]
      BY <1>4 DEF Thread, Inv, SchedInv, StackInv, IdleInv
    <3>2. FlushedReady(c) = ready[c]
      BY <1>0, <2>2, <3>1 DEF FlushedReady
    <3> QED
      BY <1>1, <2>2, <3>2 DEF Inv, TypeOK, QueueTypes
  <2> QED
    BY <2>1, <2>2
<1>7. \A d \in Cpu, t \in Thread : Spawning(d, t)' <=> Spawning(d, t)
  BY <1>1, <1>3 DEF Spawning
<1>8. ASSUME NEW t \in Worker, t # u PROVE Placed(t)'
  <2>1. t \in Thread /\ Placed(t) /\ t # NoThread
    BY Basics DEF QueueInv
  <2>2. \A d \in Cpu : t \in Waiting(ready'[d]) <=> t \in Waiting(ready[d])
    BY <1>6, <1>8 DEF Adds
  <2>3. \A d \in Cpu : Holds(d, t)' <=> Holds(d, t)
    BY <1>0, <1>1, <1>3, <1>8, <2>1 DEF Holds
  <2>4. \A d \in Cpu : t \in reaped'[d] \cup burying'[d] => t \in reaped[d] \cup burying[d]
    BY <1>1, <1>3, <1>8
  <2>5. Same(t)
    BY <1>1, <1>3, <1>7, <1>8, <2>1, <2>2, <2>3, <2>4, Zenon DEF Same
  <2> QED
    BY <2>1, <2>5, SamePlaced
<1>9. ASSUME u \in Worker PROVE Placed(u)'
  <2>1. \A d \in Cpu : ~Holds(d, u)'
    BY <1>0, <1>1, <1>3, <1>4, <1>5, <1>9 DEF Holds
  <2>2. \A d \in Cpu : u \in Waiting(ready'[d]) => d = c /\ state[u] = "Ready"
    BY <1>5, <1>6, <1>9 DEF Adds
  <2>3. Filed(u)'
    BY <1>1, <1>3, <1>5, <1>7, <1>9, <2>2, Zenon DEF Filed
  <2>4. Housed(u)'
    BY <1>3, <2>1, Zenon DEF Housed
  <2>5. \A d \in Cpu : u \in reaped'[d] \cup burying'[d] => state[u] = "Finished"
    BY <1>1, <1>3, <1>5, <1>9
  <2>6. Alive(u)'
    BY <1>1, <1>3, <1>4, <1>5, <1>9, <2>5 DEF Alive, Placed
  <2>7. Kept(u)'
    BY <1>1, <1>6, <1>9 DEF Kept, Adds
  <2> QED
    BY <2>3, <2>4, <2>6, <2>7 DEF Placed
<1>10. ASSUME NEW d \in Cpu PROVE Once(ready'[d]) /\ Leaves(d)'
  <2>1. Once(ready'[d]) /\ Leaves(d)
    BY <1>6 DEF QueueInv, Adds
  <2>2. CASE d = c
    BY <1>1, <1>3, <2>1, <2>2 DEF Leaves
  <2>3. CASE d # c
    BY <1>1, <1>3, <2>1, <2>3, LeavesSame
  <2> QED
    BY <2>2, <2>3
<1> QED
  BY <1>8, <1>9, <1>10, Zenon DEF QueueInv

\* unblock on a parked thread makes it runnable: on the waker's queue if nobody stands
\* on its stack, and otherwise left to the processor that does, which is not between
\* its push on SLEEPERS and its fetch_min.
LEMMA WakeQueues ==
  ASSUME Inv, QueueInv, NEW c \in Cpu, NEW u \in Worker, Wake(c, u),
         UNCHANGED <<pc, arg, at, stacks, burying>>
  PROVE  QueueInv'
<1>0. /\ UNCHANGED <<onCpu, current, pending, reaped>>
      /\ u \in Thread /\ Placed(u)
  BY Basics DEF Wake, QueueInv
<1>1. /\ \A d \in Cpu, t \in Thread : Holds(d, t)' <=> Holds(d, t)
      /\ \A d \in Cpu, t \in Thread : Spawning(d, t)' <=> Spawning(d, t)
  BY <1>0, Zenon DEF Holds, Spawning
<1>2. CASE UNCHANGED <<state, owner, ready>>
  <2>1. ASSUME NEW t \in Worker PROVE Placed(t)'
    <3>1. t \in Thread /\ Placed(t)
      BY Basics DEF QueueInv
    <3>2. Same(t)
      BY <1>0, <1>1, <1>2, <3>1, Zenon DEF Same
    <3> QED
      BY <3>1, <3>2, SamePlaced
  <2>2. ASSUME NEW d \in Cpu PROVE Once(ready'[d]) /\ Leaves(d)'
    BY <1>0, <1>2, Zenon DEF QueueInv, Leaves
  <2> QED
    BY <2>1, <2>2, Zenon DEF QueueInv
<1>3. CASE u \in threads /\ state[u] = "Blocked"
  <2>1. state' = [state EXCEPT ![u] = "Ready"] /\ Unlocked(owner[u])
    BY <1>3 DEF Wake
  <2>2. state'[u] = "Ready" /\ \A t \in Thread : t # u => state'[t] = state[t]
    BY <1>0, <2>1 DEF Inv, TypeOK, StackTypes
  <2>3. \A d \in Cpu : /\ u \notin Waiting(ready[d]) /\ ~Spawning(d, u)
                       /\ u \notin reaped[d] \cup burying[d]
    BY <1>0, <1>3 DEF Placed, Filed, Alive
  <2>4. u # BootThread => u \in stacks
    BY <1>0, <1>3 DEF Placed, Alive
  <2>5. Alive(u)'
    BY <1>0, <2>2, <2>3, <2>4, Zenon DEF Alive
  <2>6. CASE onCpu[u]
    <3>1. UNCHANGED <<owner, ready>>
      BY <2>6 DEF Wake, Movable
    <3>2. PICK h \in Cpu : Holds(h, u)
      BY <1>0, <2>6 DEF Placed, Housed
    <3>3. ASSUME NEW t \in Worker, t # u PROVE Placed(t)'
      <4>1. t \in Thread /\ Placed(t)
        BY Basics DEF QueueInv
      <4>2. Same(t)
        BY <1>0, <1>1, <2>2, <3>1, <3>3, <4>1, Zenon DEF Same
      <4> QED
        BY <4>1, <4>2, SamePlaced
    <3>4. Placed(u)'
      <4>1. Filed(u)'
        BY <1>0, <1>1, <2>3, <3>1, Zenon DEF Filed
      <4>2. Housed(u)'
        BY <1>0, <1>1, <3>1, Zenon DEF Placed, Housed
      <4>3. Kept(u)'
        BY <1>0, <1>1, <3>2, Zenon DEF Kept
      <4> QED
        BY <2>5, <4>1, <4>2, <4>3 DEF Placed
    <3>5. ASSUME NEW d \in Cpu PROVE Once(ready'[d]) /\ Leaves(d)'
      <4>1. Once(ready'[d]) /\ Leaves(d)
        BY <3>1 DEF QueueInv
      <4>2. CASE current[d] = u
        <5>1. pc[d] # "publish"
          <6>1. Holds(d, u)
            BY <4>2, Basics DEF Holds
          <6> QED
            BY <1>0, <2>1, <6>1 DEF Placed, Housed, Unlocked
        <5> QED
          BY <1>0, <1>3, <2>2, <4>1, <4>2, <5>1 DEF Leaves
      <4>3. CASE current[d] # u
        <5>1. current[d] # NoThread => /\ state'[current[d]] = state[current[d]]
                                       /\ at'[current[d]] = at[current[d]]
          BY <2>2, <4>3 DEF Inv, TypeOK, StackTypes
        <5> QED
          BY <1>0, <4>1, <5>1, LeavesSame
      <4> QED
        BY <4>2, <4>3
    <3> QED
      BY <3>3, <3>4, <3>5, Zenon DEF QueueInv
  <2>7. CASE ~onCpu[u]
    <3>1. /\ owner' = [owner EXCEPT ![u] = c]
          /\ ready' = [ready EXCEPT ![c] = Enqueue(ready[c], priority[u], u)]
      BY <1>3, <2>7 DEF Wake, Movable, Inv, TypeOK, QueueTypes
    <3>2. owner'[u] = c /\ \A t \in Thread : t # u => owner'[t] = owner[t]
      BY <1>0, <3>1 DEF Inv, TypeOK, ThreadTypes
    <3>3. Adds(c, u)
      BY <2>3, <3>1, EnqueueAddsTo, Zenon
    <3>4. \A d \in Cpu : ~Holds(d, u)
      BY <1>0, <2>7 DEF Inv, SchedInv, StackInv, HeldInv
    <3>5. ASSUME NEW t \in Worker, t # u PROVE Placed(t)'
      <4>1. t \in Thread /\ Placed(t)
        BY Basics DEF QueueInv
      <4>2. \A d \in Cpu : t \in Waiting(ready'[d]) <=> t \in Waiting(ready[d])
        BY <3>3, <3>5 DEF Adds
      <4>3. Same(t)
        BY <1>0, <1>1, <2>2, <3>2, <3>5, <4>1, <4>2, Zenon DEF Same
      <4> QED
        BY <4>1, <4>3, SamePlaced
    <3>6. Placed(u)'
      <4>1. \A d \in Cpu : u \in Waiting(ready'[d]) => d = c
        BY <2>3, <3>3 DEF Adds
      <4>2. Filed(u)'
        BY <1>0, <1>1, <2>2, <2>3, <2>7, <3>2, <4>1, Zenon DEF Filed
      <4>3. Housed(u)'
        BY <1>0, <1>1, <2>7, <3>4, Zenon DEF Housed
      <4>4. Kept(u)'
        BY <3>3 DEF Kept, Adds
      <4> QED
        BY <2>5, <4>2, <4>3, <4>4 DEF Placed
    <3>7. ASSUME NEW d \in Cpu PROVE Once(ready'[d]) /\ Leaves(d)'
      <4>1. Once(ready'[d]) /\ Leaves(d)
        BY <3>3 DEF QueueInv, Adds
      <4>2. current[d] # NoThread => /\ state'[current[d]] = state[current[d]]
                                     /\ at'[current[d]] = at[current[d]]
        BY <2>2, <3>4 DEF Inv, TypeOK, StackTypes, Holds
      <4> QED
        BY <1>0, <4>1, <4>2, LeavesSame
    <3> QED
      BY <3>5, <3>6, <3>7, Zenon DEF QueueInv
  <2> QED
    BY <2>6, <2>7
<1> QED
  BY <1>2, <1>3 DEF Wake, Movable

\* The spawner queues the thread it made.
LEMMA SpawnEnqueueQueues ==
  ASSUME Inv, QueueInv, NEW c \in Cpu, SpawnEnqueue(c)
  PROVE  QueueInv'
<1>0. PICK u \in Worker : u = arg[c]
  BY DEF SpawnEnqueue, Inv, SchedInv, ArgInv
<1>1. /\ UNCHANGED <<state, onCpu, owner, current, pending, reaped, burying, stacks, at>>
      /\ pc[c] = "spawn" /\ Spawning(c, u)
      /\ ready' = [ready EXCEPT ![c] = Enqueue(ready[c], priority[u], u)]
      /\ pc' = [pc EXCEPT ![c] = "out"] /\ arg' = [arg EXCEPT ![c] = NoThread]
  BY <1>0 DEF SpawnEnqueue, tcb, machine, Inv, TypeOK, QueueTypes, Spawning
<1>2. /\ pc'[c] = "out"
      /\ \A d \in Cpu : d # c => pc'[d] = pc[d] /\ arg'[d] = arg[d]
  BY <1>1 DEF Inv, TypeOK, StackTypes, SchedInv, ArgInv
<1>3. Placed(u) /\ u \notin Waiting(ready[c])
  BY <1>1, Zenon DEF QueueInv, Placed, Filed
<1>4. Adds(c, u)
  BY <1>1, <1>3, EnqueueAddsTo, Zenon
<1>5. \A d \in Cpu, t \in Thread : Holds(d, t)' <=> Holds(d, t)
  BY <1>1, Zenon DEF Holds
<1>6. ASSUME NEW t \in Worker, t # u
      PROVE  Placed(t)'
  <2>1. t \in Thread /\ Placed(t)
    BY Basics DEF QueueInv
  <2>2. \A d \in Cpu : Spawning(d, t)' <=> Spawning(d, t)
    BY <1>0, <1>1, <1>2, <1>6 DEF Spawning
  <2>3. \A d \in Cpu : t \in Waiting(ready'[d]) <=> t \in Waiting(ready[d])
    BY <1>4, <1>6 DEF Adds
  <2>4. Same(t)
    BY <1>1, <1>5, <2>1, <2>2, <2>3, Zenon DEF Same
  <2> QED
    BY <2>1, <2>4, SamePlaced
<1>7. Placed(u)'
  <2>1. u \in Thread /\ state[u] = "Ready" /\ ~onCpu[u] /\ owner[u] = c
    BY <1>1, <1>3, Basics DEF Placed, Filed
  <2>2. \A d \in Cpu : ~Spawning(d, u)'
    BY <1>1, <1>2, <1>3, <2>1 DEF Spawning, Placed, Filed
  <2>3. \A d \in Cpu : u \in Waiting(ready'[d]) => d = c
    BY <1>3, <1>4, <2>1 DEF Adds, Placed, Filed
  <2>4. Filed(u)'
    BY <1>1, <2>1, <2>2, <2>3, Zenon DEF Filed
  <2>5. Housed(u)'
    BY <1>1, <1>3, <1>5, <2>1, Zenon DEF Housed, Placed
  <2>6. Alive(u)'
    BY <1>1, <1>3, Zenon DEF Alive, Placed
  <2>7. Kept(u)'
    BY <1>4 DEF Kept, Adds
  <2> QED
    BY <2>4, <2>5, <2>6, <2>7 DEF Placed
<1>8. ASSUME NEW d \in Cpu
      PROVE  Once(ready'[d]) /\ Leaves(d)'
  <2>1. Once(ready'[d])
    BY <1>4 DEF QueueInv, Adds
  <2>2. CASE d = c
    BY <1>1, <1>2, <2>1, <2>2 DEF Leaves, QueueInv
  <2>3. CASE d # c
    <3>1. Leaves(d)
      BY DEF QueueInv
    <3> QED
      BY <1>1, <1>2, <2>1, <2>3, <3>1, LeavesSame
  <2> QED
    BY <2>2, <2>3
<1> QED
  BY <1>6, <1>7, <1>8, Zenon DEF QueueInv

\* A thread is born with a stack, off every queue, its spawner about to queue it.
LEMMA SpawnQueues ==
  ASSUME Inv, QueueInv, NEW c \in Cpu, NEW u \in Worker, NEW p \in Priorities, Spawn(c, u, p)
  PROVE  QueueInv'
<1>1. /\ UNCHANGED <<onCpu, ready, current, pending, reaped, burying, at>>
      /\ pc[c] = "out" /\ state[u] = "Unborn"
      /\ state' = [state EXCEPT ![u] = "Ready"] /\ owner' = [owner EXCEPT ![u] = c]
      /\ stacks' = stacks \cup {u}
      /\ pc' = [pc EXCEPT ![c] = "spawn"] /\ arg' = [arg EXCEPT ![c] = u]
  BY DEF Spawn, Calls, Open, cpus
<1>2. /\ pc'[c] = "spawn" /\ arg'[c] = u /\ state'[u] = "Ready" /\ owner'[u] = c
      /\ \A d \in Cpu : d # c => pc'[d] = pc[d] /\ arg'[d] = arg[d]
      /\ \A t \in Thread : t # u => state'[t] = state[t] /\ owner'[t] = owner[t]
  BY <1>1, Basics DEF Inv, TypeOK, StackTypes, ThreadTypes, SchedInv, ArgInv
<1>3. current[c] \in Thread /\ state[current[c]] = "Running"
  <2>1. PICK t \in Worker : Calls(c, t)
    BY DEF Spawn
  <2>2. t = current[c]
    BY <2>1 DEF Calls, Open, Inv, SchedInv, StackInv, StandingInv
  <2> QED
    BY <2>1, <2>2, CallerIsUp
<1>4. \A d \in Cpu, t \in Thread : Holds(d, t)' <=> Holds(d, t)
  BY <1>1, Zenon DEF Holds
<1>5. ASSUME NEW t \in Worker, t # u
      PROVE  Placed(t)'
  <2>1. t \in Thread /\ Placed(t)
    BY Basics DEF QueueInv
  <2>2. \A d \in Cpu : Spawning(d, t)' <=> Spawning(d, t)
    BY <1>1, <1>2, <1>5 DEF Spawning
  <2>3. Same(t)
    BY <1>1, <1>2, <1>4, <1>5, <2>1, <2>2, Zenon DEF Same
  <2> QED
    BY <2>1, <2>3, SamePlaced
<1>6. Placed(u)'
  <2>1. u \in Thread /\ Placed(u) /\ \A d \in Cpu : ~Holds(d, u)
    BY <1>1, Basics DEF QueueInv, Inv, SchedInv, StackInv, HeldInv
  <2>2. ~onCpu[u] /\ \A d \in Cpu : u \notin Waiting(ready[d]) /\ ~Spawning(d, u)
                                    /\ u \notin reaped[d] \cup burying[d]
    BY <1>1, <2>1 DEF Placed, Filed, Housed, Alive
  <2>3. \A d \in Cpu : Spawning(d, u)' => d = c
    BY <1>2, <2>2 DEF Spawning
  <2>4. Filed(u)'
    BY <1>1, <1>2, <2>2, <2>3, Zenon DEF Filed
  <2>5. Housed(u)'
    BY <1>1, <1>4, <2>1, <2>2, Zenon DEF Housed
  <2>6. Alive(u)'
    BY <1>1, <2>2 DEF Alive
  <2>7. Kept(u)'
    BY <1>2, Zenon DEF Kept, Spawning
  <2> QED
    BY <2>4, <2>5, <2>6, <2>7 DEF Placed
<1>7. ASSUME NEW d \in Cpu
      PROVE  Once(ready'[d]) /\ Leaves(d)'
  <2>1. Once(ready'[d])
    BY <1>1, Zenon DEF QueueInv
  <2>2. CASE d = c
    BY <1>1, <1>2, <1>3, <2>1, <2>2 DEF Leaves
  <2>3. CASE d # c
    <3>1. current[d] # NoThread => current[d] \in Thread /\ current[d] # u
      BY <1>1 DEF Inv, TypeOK, StackTypes, SchedInv, StackInv, HeldInv, Holds
    <3>2. Leaves(d) /\ current'[d] = current[d] /\ pc'[d] = pc[d]
      BY <1>1, <1>2, <2>3 DEF QueueInv
    <3>3. current[d] # NoThread => /\ state'[current[d]] = state[current[d]]
                                   /\ at'[current[d]] = at[current[d]]
      BY <1>1, <1>2, <3>1
    <3> QED
      BY <2>1, <3>2, <3>3, LeavesSame
  <2> QED
    BY <2>2, <2>3
<1> QED
  BY <1>5, <1>6, <1>7, Zenon DEF QueueInv

\* A processor that comes up runs its idle thread, which is no worker.
LEMMA AdoptQueues ==
  ASSUME Inv, QueueInv, NEW c \in Cpu, AdoptSecondaryCpu(c)
  PROVE  QueueInv'
<1>1. /\ UNCHANGED <<ready, pending, reaped, burying, stacks, pc, arg, at>>
      /\ current[c] = NoThread /\ pc[c] = "out"
      /\ current' = [current EXCEPT ![c] = Idle[c]]
      /\ state' = [state EXCEPT ![Idle[c]] = "Running"]
      /\ onCpu' = [onCpu EXCEPT ![Idle[c]] = TRUE]
      /\ owner' = [owner EXCEPT ![Idle[c]] = c]
  BY DEF AdoptSecondaryCpu, local, Inv, SchedInv, StackInv, StandingInv
<1>2. /\ current'[c] = Idle[c] /\ state'[Idle[c]] = "Running"
      /\ \A d \in Cpu : d # c => current'[d] = current[d]
      /\ \A t \in Thread : t # Idle[c] => /\ state'[t] = state[t] /\ onCpu'[t] = onCpu[t]
                                          /\ owner'[t] = owner[t]
  BY <1>1, Basics DEF Inv, TypeOK, StackTypes, ThreadTypes
<1>3. ASSUME NEW t \in Worker
      PROVE  Placed(t)'
  <2>1. t \in Thread /\ t # Idle[c] /\ t # NoThread /\ Placed(t)
    BY Basics DEF QueueInv
  <2>2. \A d \in Cpu : Holds(d, t)' <=> Holds(d, t)
    BY <1>1, <1>2, <2>1 DEF Holds
  <2>3. \A d \in Cpu : Spawning(d, t)' <=> Spawning(d, t)
    BY <1>1, Zenon DEF Spawning
  <2>4. Same(t)
    BY <1>1, <1>2, <2>1, <2>2, <2>3, Zenon DEF Same
  <2> QED
    BY <2>1, <2>4, SamePlaced
<1>4. ASSUME NEW d \in Cpu
      PROVE  Once(ready'[d]) /\ Leaves(d)'
  <2>1. Once(ready'[d])
    BY <1>1, Zenon DEF QueueInv
  <2>2. CASE d = c
    BY <1>1, <1>2, <2>1, <2>2 DEF Leaves
  <2>3. CASE d # c
    <3>1. current[d] # NoThread => current[d] \in Thread /\ current[d] # Idle[c]
      BY <2>3 DEF Inv, TypeOK, StackTypes, SchedInv, StackInv, IdleInv, Holds
    <3>2. Leaves(d) /\ current'[d] = current[d] /\ pc'[d] = pc[d]
      BY <1>1, <1>2, <2>3 DEF QueueInv
    <3>3. current[d] # NoThread => /\ state'[current[d]] = state[current[d]]
                                   /\ at'[current[d]] = at[current[d]]
      BY <1>1, <1>2, <3>1
    <3> QED
      BY <2>1, <3>2, <3>3, LeavesSame
  <2> QED
    BY <2>2, <2>3
<1> QED
  BY <1>3, <1>4 DEF QueueInv

\* The stacks bury frees are those of finished threads nobody stands on.
LEMMA BuryQueues ==
  ASSUME Inv, QueueInv, NEW c \in Cpu, Bury(c)
  PROVE  QueueInv'
<1>1. /\ UNCHANGED <<state, onCpu, owner, ready, current, pending, reaped, arg, at>>
      /\ pc[c] = "bury" /\ stacks' = stacks \ burying[c]
      /\ burying' = [burying EXCEPT ![c] = {}]
      /\ \E p \in {"out", "switch"} : pc' = [pc EXCEPT ![c] = p]
  BY Zenon DEF Bury, tcb, cpus, machine
<1>2. /\ pc'[c] \in {"out", "switch"} /\ burying'[c] = {}
      /\ \A d \in Cpu : d # c => pc'[d] = pc[d] /\ burying'[d] = burying[d]
  BY <1>1 DEF Inv, TypeOK, StackTypes, ThreadTypes
<1>3. ASSUME NEW t \in Worker PROVE Placed(t)'
  <2>0. Placed(t)
    BY DEF QueueInv
  <2>1. \A d \in Cpu : (Holds(d, t)' <=> Holds(d, t)) /\ (Spawning(d, t)' <=> Spawning(d, t))
    BY <1>1, <1>2 DEF Holds, Spawning
  <2>2. \A d \in Cpu : t \in reaped'[d] \cup burying'[d] => t \in reaped[d] \cup burying[d]
    BY <1>1, <1>2
  <2>3. CASE t \notin burying[c]
    <3>1. Same(t)
      BY <1>1, <2>1, <2>2, <2>3 DEF Same
    <3> QED
      BY <2>0, <3>1, SamePlaced
  <2>4. CASE t \in burying[c]
    <3>1. state[t] = "Finished" /\ ~onCpu[t]
      BY <2>0, <2>4 DEF Placed, Alive
    <3>2. Filed(t)'
      BY <1>1, <2>0, <2>1, Zenon DEF Placed, Filed
    <3>3. Housed(t)'
      BY <1>1, <2>0, <2>1, Zenon DEF Placed, Housed
    <3>4. Alive(t)' /\ Kept(t)'
      BY <1>1, <3>1, Zenon DEF Alive, Kept
    <3> QED
      BY <3>2, <3>3, <3>4 DEF Placed
  <2> QED
    BY <2>3, <2>4
<1>4. ASSUME NEW d \in Cpu PROVE Once(ready'[d]) /\ Leaves(d)'
  <2>1. Once(ready'[d]) /\ Leaves(d)
    BY <1>1 DEF QueueInv
  <2>2. CASE d = c
    BY <1>1, <1>2, <2>1, <2>2 DEF Leaves
  <2>3. CASE d # c
    BY <1>1, <1>2, <2>1, <2>3, LeavesSame
  <2> QED
    BY <2>2, <2>3
<1> QED
  BY <1>3, <1>4 DEF QueueInv

\* set_priority leaves a queued thread where it is.
LEMMA SetPriorityQueues ==
  ASSUME Inv, QueueInv, NEW c \in Cpu, NEW u \in Worker, NEW p \in Priorities,
         SetPriority(c, u, p)
  PROVE  QueueInv'
<1>1. /\ UNCHANGED <<onCpu, owner, ready, current, pending, reaped, burying, stacks>>
      /\ pc[c] = "out" /\ UNCHANGED <<pc, arg, state, at>>
  BY DEF SetPriority, Calls, Open, cpus, local, machine
<1>2. Shift(c)
  <2>1. pc' = [pc EXCEPT ![c] = "out"]
    BY <1>1 DEF Inv, TypeOK, StackTypes
  <2> QED
    BY <1>1, <2>1, Zenon DEF Shift, Places
<1>3. Leaves(c)'
  BY <1>1, Zenon DEF QueueInv, Leaves
<1> QED
  BY <1>2, <1>3, ShiftKeeps

\* block_current parks a thread that is on no queue.
LEMMA BlockCurrentQueues ==
  ASSUME Inv, QueueInv, NEW c \in Cpu, NEW t \in Worker, BlockCurrent(c, t)
  PROVE  QueueInv'
<1>0. t \in Thread /\ state[t] = "Running"
  BY CallerIsUp DEF BlockCurrent
<1>1. /\ UNCHANGED <<onCpu, owner, ready, current, pending, reaped, burying, stacks>>
      /\ pc[c] = "out" /\ UNCHANGED <<pc, arg>> /\ t = current[c]
  BY DEF BlockCurrent, Calls, Open, cpus, local, Inv, SchedInv, StackInv, StandingInv
<1>2. \/ UNCHANGED <<state, at>>
      \/ state' = [state EXCEPT ![t] = "Blocked"] /\ at' = [at EXCEPT ![t] = "parking"]
  BY DEF BlockCurrent
<1>3. /\ \A s \in Thread : s # t => state'[s] = state[s] /\ at'[s] = at[s]
      /\ \/ state'[t] = state[t] /\ at'[t] = at[t]
         \/ state'[t] = "Blocked" /\ at'[t] = "parking"
  BY <1>0, <1>2 DEF Inv, TypeOK, StackTypes
<1>4. Shift(c)
  <2>1. pc' = [pc EXCEPT ![c] = "out"]
    BY <1>1 DEF Inv, TypeOK, StackTypes
  <2> QED
    BY <1>0, <1>1, <1>3, <2>1, Zenon DEF Shift, Places
<1>5. Leaves(c)'
  BY <1>1, <1>3 DEF QueueInv, Leaves
<1> QED
  BY <1>4, <1>5, ShiftKeeps

\* sleep_ticks too, with the lock held until the deadline is published.
LEMMA SleepTicksQueues ==
  ASSUME Inv, QueueInv, NEW c \in Cpu, NEW t \in Worker, NEW n \in 1..MaxSleep,
         SleepTicks(c, t, n)
  PROVE  QueueInv'
<1>0. t \in Thread /\ state[t] = "Running"
  BY CallerIsUp DEF SleepTicks
<1>1. /\ UNCHANGED <<onCpu, owner, ready, current, pending, reaped, burying, stacks, at>>
      /\ pc[c] = "out" /\ t = current[c] /\ at[t] = "free"
      /\ pc' = [pc EXCEPT ![c] = "publish"] /\ arg' = [arg EXCEPT ![c] = now + n]
      /\ state' = [state EXCEPT ![t] = "Blocked"]
  BY DEF SleepTicks, Calls, Open, cpus, machine, Inv, SchedInv, StackInv, StandingInv
<1>2. /\ pc'[c] = "publish" /\ state'[t] = "Blocked"
      /\ \A s \in Thread : s # t => state'[s] = state[s]
      /\ \A d \in Cpu : d # c => arg'[d] = arg[d]
  BY <1>0, <1>1 DEF Inv, TypeOK, StackTypes, SchedInv, ArgInv
<1>3. Shift(c)
  BY <1>0, <1>1, <1>2, Zenon DEF Shift, Places
<1>4. Leaves(c)'
  BY <1>1, <1>2 DEF Leaves
<1> QED
  BY <1>3, <1>4, ShiftKeeps

\* With the deadline published, the sleeper goes on to schedule().
LEMMA PublishDeadlineQueues ==
  ASSUME Inv, QueueInv, NEW c \in Cpu, PublishDeadline(c)
  PROVE  QueueInv'
<1>1. /\ UNCHANGED <<onCpu, owner, ready, current, pending, reaped, burying, stacks, state>>
      /\ pc[c] = "publish" /\ standing[c] = current[c] /\ current[c] \in Thread
      /\ pc' = [pc EXCEPT ![c] = "out"] /\ arg' = [arg EXCEPT ![c] = NoThread]
      /\ at' = [at EXCEPT ![standing[c]] = "parking"]
  BY DEF PublishDeadline, tcb, cpus, Inv, TypeOK, StackTypes, SchedInv, StackInv, StandingInv
<1>2. /\ pc'[c] = "out" /\ at'[current[c]] = "parking"
      /\ \A s \in Thread : s # current[c] => at'[s] = at[s]
      /\ \A d \in Cpu : d # c => arg'[d] = arg[d]
  BY <1>1 DEF Inv, TypeOK, StackTypes, SchedInv, ArgInv
<1>3. Shift(c)
  BY <1>1, <1>2, Zenon DEF Shift, Places
<1>4. Leaves(c)'
  BY <1>1, <1>2 DEF Leaves, QueueInv
<1> QED
  BY <1>3, <1>4, ShiftKeeps

\* join parks its caller in the same way.
LEMMA JoinQueues ==
  ASSUME Inv, QueueInv, NEW c \in Cpu, NEW t \in Worker, NEW u \in Joinable, Join(c, t, u)
  PROVE  QueueInv'
<1>0. t \in Thread /\ state[t] = "Running"
  BY CallerIsUp DEF Join
<1>1. /\ UNCHANGED <<onCpu, owner, ready, current, pending, reaped, burying, stacks>>
      /\ pc[c] = "out" /\ t = current[c] /\ UNCHANGED <<pc, arg>>
      /\ state' = [state EXCEPT ![t] = "Blocked"] /\ at' = [at EXCEPT ![t] = "parking"]
  BY DEF Join, Calls, Open, cpus, local, Inv, SchedInv, StackInv, StandingInv
<1>2. /\ state'[t] = "Blocked" /\ at'[t] = "parking"
      /\ \A s \in Thread : s # t => state'[s] = state[s] /\ at'[s] = at[s]
      /\ pc' = [pc EXCEPT ![c] = "out"]
  BY <1>0, <1>1 DEF Inv, TypeOK, StackTypes
<1>3. Shift(c)
  BY <1>0, <1>1, <1>2, Zenon DEF Shift, Places
<1>4. Leaves(c)'
  BY <1>1, <1>2 DEF Leaves
<1> QED
  BY <1>3, <1>4, ShiftKeeps

\* exit_current goes on to schedule() with interrupts masked.
LEMMA ExitCurrentQueues ==
  ASSUME Inv, QueueInv, NEW c \in Cpu, NEW t \in Worker, ExitCurrent(c, t)
  PROVE  QueueInv'
<1>0. t \in Thread /\ state[t] = "Running"
  BY CallerIsUp DEF ExitCurrent
<1>1. /\ UNCHANGED <<onCpu, owner, ready, current, pending, reaped, burying, stacks, arg>>
      /\ pc[c] = "out" /\ t = current[c] /\ pc' = [pc EXCEPT ![c] = "wake"]
      /\ state' = [state EXCEPT ![t] = "Finished"] /\ at' = [at EXCEPT ![t] = "exited"]
  BY DEF ExitCurrent, Calls, Open, cpus, Inv, SchedInv, StackInv, StandingInv
<1>2. /\ state'[t] = "Finished" /\ pc'[c] = "wake"
      /\ \A s \in Thread : s # t => state'[s] = state[s] /\ at'[s] = at[s]
  BY <1>0, <1>1 DEF Inv, TypeOK, StackTypes
<1>3. Shift(c)
  BY <1>0, <1>1, <1>2, Zenon DEF Shift, Places
<1>4. Leaves(c)'
  BY <1>1, <1>2 DEF Leaves
<1> QED
  BY <1>3, <1>4, ShiftKeeps

\* A processor that only goes on to its next place.
MovesOn(c, p) ==
  /\ UNCHANGED <<onCpu, owner, ready, current, pending, reaped, burying, stacks, state, at>>
  /\ pc' = [pc EXCEPT ![c] = p] /\ pc[c] \notin {"spawn", "publish"}
  /\ \A d \in Cpu : d # c => arg'[d] = arg[d]
  /\ pc[c] \in {"wake", "enter", "steal", "pick"} => p \in {"enter", "steal", "pick"}

\* It keeps the invariant.
LEMMA MovesOnKeeps ==
  ASSUME Inv, QueueInv, NEW c \in Cpu, NEW p \in Places \ {"spawn", "publish"}, MovesOn(c, p)
  PROVE  QueueInv'
<1>1. pc'[c] = p
  BY DEF MovesOn, Inv, TypeOK, StackTypes
<1>2. Shift(c)
  BY Zenon DEF MovesOn, Shift
<1>3. Leaves(c)'
  BY <1>1 DEF MovesOn, Leaves, QueueInv
<1> QED
  BY <1>2, <1>3, ShiftKeeps

\* The timer, the sleepers' list, yield_now and the two ends of schedule().
LEMMA MovingStepsQueues ==
  ASSUME Inv, QueueInv, NEW c \in Cpu,
         \/ WakesDone(c) \/ TimerTick(c) \/ WakeDueSleepers(c)
         \/ (\E t \in Worker : YieldNow(c, t)) \/ EnterSchedule(c) \/ ContextSwitch(c)
  PROVE  QueueInv'
<1>0. \A x : arg' = [arg EXCEPT ![c] = x] => \A d \in Cpu : d # c => arg'[d] = arg[d]
  BY DEF Inv, SchedInv, ArgInv
<1>1. CASE WakesDone(c)
  <2>1. MovesOn(c, "enter")
    BY <1>1 DEF WakesDone, MovesOn, tcb, cpus, machine
  <2> QED
    BY <2>1, MovesOnKeeps DEF Places
<1>2. CASE TimerTick(c)
  <2>1. \E p \in {"collect", "enter"} : MovesOn(c, p)
    BY <1>0, <1>2 DEF TimerTick, Open, MovesOn, tcb, cpus, machine
  <2> QED
    BY <2>1, MovesOnKeeps DEF Places
<1>3. CASE WakeDueSleepers(c)
  <2>1. MovesOn(c, "wake")
    BY <1>0, <1>3 DEF WakeDueSleepers, MovesOn, tcb, cpus, machine
  <2> QED
    BY <2>1, MovesOnKeeps DEF Places
<1>4. ASSUME NEW t \in Worker, YieldNow(c, t)
      PROVE  QueueInv'
  <2>1. MovesOn(c, "enter")
    BY <1>4 DEF YieldNow, Calls, Open, MovesOn, tcb, cpus, machine
  <2> QED
    BY <2>1, MovesOnKeeps DEF Places
<1>5. CASE EnterSchedule(c)
  <2>1. \E p \in {"steal", "pick"} : MovesOn(c, p)
    BY <1>0, <1>5 DEF EnterSchedule, MovesOn, tcb, cpus, machine
  <2> QED
    BY <2>1, MovesOnKeeps DEF Places
<1>6. CASE ContextSwitch(c)
  <2>1. MovesOn(c, "arrive")
    BY <1>6 DEF ContextSwitch, MovesOn, tcb, cpus
  <2> QED
    BY <2>1, MovesOnKeeps DEF Places
<1> QED
  BY <1>1, <1>2, <1>3, <1>4, <1>5, <1>6

\* The schedule() that ends a park takes the place of "parking".
LEMMA ParkScheduleQueues ==
  ASSUME Inv, QueueInv, NEW c \in Cpu, ParkSchedule(c)
  PROVE  QueueInv'
<1>1. /\ UNCHANGED <<onCpu, owner, ready, current, pending, reaped, burying, stacks, state, arg>>
      /\ pc[c] = "out" /\ standing[c] = current[c] /\ current[c] \in Thread
      /\ pc' = [pc EXCEPT ![c] = "enter"] /\ at' = [at EXCEPT ![standing[c]] = "free"]
  BY DEF ParkSchedule, Open, tcb, cpus, Inv, TypeOK, StackTypes, SchedInv, StackInv, StandingInv
<1>2. pc'[c] = "enter" /\ \A s \in Thread : s # current[c] => at'[s] = at[s]
  BY <1>1 DEF Inv, TypeOK, StackTypes
<1>3. Shift(c)
  BY <1>1, <1>2, Zenon DEF Shift, Places
<1>4. Leaves(c)'
  BY <1>1, <1>2 DEF Leaves, QueueInv
<1> QED
  BY <1>3, <1>4, ShiftKeeps

\* At the start one thread runs, and nothing is queued.
LEMMA InitQueues ==
  ASSUME Init
  PROVE  QueueInv
<1>1. \A c \in Cpu : ready[c] = EmptyQueues /\ Waiting(ready[c]) = {}
  BY DEF Init, EmptyQueues, Waiting
<1>2. ASSUME NEW c \in Cpu PROVE Once(ready[c]) /\ Leaves(c)
  <2>1. Once(ready[c])
    BY <1>1 DEF EmptyQueues, Once
  <2>2. Leaves(c)
    BY Basics, Zenon DEF Init, Leaves
  <2> QED
    BY <2>1, <2>2
<1>3. ASSUME NEW t \in Worker PROVE Placed(t)
  <2>1. t \in Thread /\ t # NoThread /\ \A c \in Cpu : t # Idle[c]
    BY Basics
  <2>2. /\ state[t] = IF t = BootThread THEN "Running" ELSE "Unborn"
        /\ onCpu[t] = (t = BootThread) /\ owner[t] = Boot
    BY <2>1, Basics DEF Init
  <2>3. \A c \in Cpu : ~Spawning(c, t) /\ reaped[c] = {} /\ burying[c] = {}
    BY DEF Init, Spawning
  <2>4. \A c \in Cpu : Holds(c, t) <=> t = BootThread /\ c = Boot
    BY <2>1 DEF Init, Holds
  <2>5. Filed(t)
    BY <1>1, <2>3 DEF Filed
  <2>6. Housed(t)
    BY <2>2, <2>4, Basics DEF Housed
  <2>7. Alive(t)
    BY <2>2, <2>3 DEF Alive
  <2>8. Kept(t)
    BY <2>2 DEF Kept
  <2> QED
    BY <2>5, <2>6, <2>7, <2>8 DEF Placed
<1> QED
  BY <1>2, <1>3 DEF QueueInv

\* Every step of the scheduler keeps the invariant.
LEMMA NextQueues ==
  ASSUME Inv, QueueInv, [Next]_vars
  PROVE  QueueInv'
<1>1. CASE UNCHANGED vars
  <2>1. UNCHANGED <<state, onCpu, owner, ready, current, pending, reaped, burying, stacks,
                    pc, arg, at>>
    BY <1>1 DEF vars, tcb, cpus, local, machine
  <2>2. \A c \in Cpu : Once(ready'[c]) /\ Leaves(c)'
    BY <2>1, Zenon DEF QueueInv, Leaves
  <2>3. ASSUME NEW t \in Worker PROVE Placed(t)'
    <3>1. \A d \in Cpu : (Holds(d, t)' <=> Holds(d, t)) /\ (Spawning(d, t)' <=> Spawning(d, t))
      BY <2>1, Zenon DEF Holds, Spawning
    <3>2. Same(t) /\ Placed(t)
      BY <2>1, <3>1, Zenon DEF Same, QueueInv
    <3> QED
      BY <3>2, SamePlaced
  <2> QED
    BY <2>2, <2>3 DEF QueueInv
<1>2. ASSUME NEW c \in Cpu, Request(c)
      PROVE  QueueInv'
  <2>1. CASE AdoptSecondaryCpu(c)
    BY <2>1, AdoptQueues
  <2>2. ASSUME NEW u \in Worker, NEW p \in Priorities, Spawn(c, u, p)
        PROVE  QueueInv'
    BY <2>2, SpawnQueues
  <2>3. ASSUME NEW u \in Worker, NEW p \in Priorities, SetPriority(c, u, p)
        PROVE  QueueInv'
    BY <2>3, SetPriorityQueues
  <2>4. ASSUME NEW t \in Worker, BlockCurrent(c, t)
        PROVE  QueueInv'
    BY <2>4, BlockCurrentQueues
  <2>5. ASSUME NEW t \in Worker, NEW n \in 1..MaxSleep, SleepTicks(c, t, n)
        PROVE  QueueInv'
    BY <2>5, SleepTicksQueues
  <2>6. ASSUME NEW t \in Worker, NEW u \in Joinable, Join(c, t, u)
        PROVE  QueueInv'
    BY <2>6, JoinQueues
  <2>7. ASSUME NEW t \in Worker, ExitCurrent(c, t)
        PROVE  QueueInv'
    BY <2>7, ExitCurrentQueues
  <2>8. ASSUME NEW t \in Worker, YieldNow(c, t)
        PROVE  QueueInv'
    BY <2>8, MovingStepsQueues
  <2>9. ASSUME NEW u \in MayWake, Unblock(c, u)
        PROVE  QueueInv'
    <3>1. u \in Worker /\ Wake(c, u) /\ UNCHANGED <<pc, arg, at, stacks, burying>>
      BY <2>9, Basics DEF Unblock, local, machine
    <3> QED
      BY <3>1, WakeQueues
  <2> QED
    BY <1>2, <2>1, <2>2, <2>3, <2>4, <2>5, <2>6, <2>7, <2>8, <2>9 DEF Request
<1>3. ASSUME NEW c \in Cpu, TimerTick(c)
      PROVE  QueueInv'
  BY <1>3, MovingStepsQueues
<1>4. ASSUME NEW c \in Cpu, Proceed(c)
      PROVE  QueueInv'
  <2>1. CASE SpawnEnqueue(c)
    BY <2>1, SpawnEnqueueQueues
  <2>2. CASE PublishDeadline(c)
    BY <2>2, PublishDeadlineQueues
  <2>3. ASSUME NEW u \in Worker, HandOutWake(c, u)
        PROVE  QueueInv'
    <3>1. Wake(c, u) /\ UNCHANGED <<pc, arg, at, stacks, burying>>
      BY <2>3 DEF HandOutWake, machine
    <3> QED
      BY <3>1, WakeQueues
  <2>4. CASE WakesDone(c) \/ WakeDueSleepers(c) \/ EnterSchedule(c) \/ ContextSwitch(c)
    BY <2>4, MovingStepsQueues
  <2>5. CASE ParkSchedule(c)
    BY <2>5, ParkScheduleQueues
  <2>6. CASE Steal(c)
    BY <2>6, StealQueues
  <2>7. ASSUME NEW order \in PickOrders, Pick(c, order)
        PROVE  QueueInv'
    BY <2>7, PickQueues
  <2>8. CASE Bury(c)
    BY <2>8, BuryQueues
  <2>9. CASE Arrive(c)
    BY <2>9, ArriveQueues
  <2> QED
    BY <1>4, <2>1, <2>2, <2>3, <2>4, <2>5, <2>6, <2>7, <2>8, <2>9 DEF Proceed
<1> QED
  BY <1>1, <1>2, <1>3, <1>4 DEF Next

\* Where every thread is, whatever is spawned, woken, stolen, preempted or buried.
THEOREM QueuesInductive == Spec => []QueueInv
BY InitQueues, NextQueues, Inductive, PTL DEF Spec

\* pop_from's comment: a queued thread is Ready, off every processor, on the queue of
\* the processor that owns it, and on that queue once, however wakes, spawns, steals and
\* switches interleave.
THEOREM QueuedOnce == Spec => []QueuedOnceAndRunnable
BY QueueInvQueued, QueuesInductive, Inductive, PTL

\* A runnable thread is on a queue, or in the hands of a processor that will put it on
\* one: no interleaving of unblock with a park or a switch drops it.
THEOREM ReadyKept == Spec => []ReadyNotLost
BY QueueInvReady, QueuesInductive, Inductive, PTL

\* bury never frees a stack a processor stands on or is about to switch to, and a
\* finished thread never runs again.
THEOREM StacksOutliveThreads == Spec => []NoStackFreedInUse
BY QueueInvStacks, QueuesInductive, Inductive, PTL
=============================================================================
