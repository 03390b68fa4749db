----------------------------- MODULE SchedWaits -----------------------------
(***************************************************************************)
(* Sleeping and joining: no listed sleeper is passed over by the clock, no *)
(* wait ends early and no exit misses a thread that joined, for any number *)
(* of processors and threads.                                              *)
(***************************************************************************)
EXTENDS SchedQueues

\* The time each leaf is given.
USE SMTT(30), ZenonT(30)

\* What is known of waits: the wakes a processor has still to hand out are those of
\* the loop it is in, and it woke the sleepers of a tick that has come.
Handing(c) ==
  /\ pc[c] # "wake" => wakes[c] = {}
  /\ pc[c] = "collect" => arg[c] <= now

\* A thread that is not over is in THREADS, so that unblock finds it.
Listed(t) == state[t] \notin {"Unborn", "Finished"} => t \in threads

\* NEXT_WAKE is not later than s, or the sleeper has yet to publish it.
Covered(s) ==
  \/ nextWake <= s.deadline
  \/ \E c \in Cpu : pc[c] = "publish" /\ standing[c] = s.id /\ arg[c] = s.deadline

\* A sleeping thread is in SLEEPERS, or its wake is on its way.
Slept(t) ==
  why[t].on = "sleep" /\ state[t] = "Blocked" =>
    (\E s \in sleepers : s.id = t) \/ \E c \in Cpu : t \in wakes[c]

ClockInv ==
  /\ \A c \in Cpu : Handing(c)
  /\ \A s \in sleepers : Covered(s)
  /\ \A t \in Worker : Listed(t) /\ Slept(t)

\* What t waited for has come.
Over(t) ==
  /\ why[t].on = "sleep" => why[t].until <= now
  /\ why[t].on = "join" => state[why[t].target] = "Finished"

\* A thread that nothing else unblocks is in at most one of SLEEPERS, a list of joiners
\* and the wakes on their way, and only while it is parked for that.
InSleepers(t) == \E s \in sleepers : s.id = t
InJoiners(t) == \E u \in Worker : t \in joiners[u]

Patient(t) ==
  /\ \A s \in sleepers :
       s.id = t => state[t] = "Blocked" /\ why[t] = [on |-> "sleep", until |-> s.deadline]
  /\ \A u \in Worker :
       t \in joiners[u] => /\ state[t] = "Blocked" /\ state[u] # "Finished"
                           /\ why[t] = [on |-> "join", target |-> u]
  /\ \A c \in Cpu :
       t \in wakes[c] => /\ state[t] = "Blocked" /\ Over(t)
                         /\ ~InSleepers(t) /\ ~InJoiners(t)
                         /\ \A d \in Cpu : t \in wakes[d] => d = c
  /\ state[t] # "Blocked" => Over(t)
  /\ why[t].on = "join" /\ state[t] = "Blocked" =>
       t \in joiners[why[t].target] \/ \E c \in Cpu : t \in wakes[c]

\* What a thread last parked for.
Reasons ==
  {Woken} \cup [on : {"sleep"}, until : 0..MaxNow] \cup [on : {"join"}, target : Worker]

WaitInv ==
  /\ why \in [Thread -> Reasons]
  /\ \A t \in Worker \ MayWake : Patient(t)

\* The reasons to wait, told apart by their field on.
LEMMA ReasonFields ==
  /\ \A a : [on |-> "sleep", until |-> a].on = "sleep" /\ [on |-> "sleep", until |-> a].until = a
  /\ \A u : [on |-> "join", target |-> u].on = "join" /\ [on |-> "join", target |-> u].target = u
  /\ "sleep" # "join"
OBVIOUS

\* The fields the steps below write, as functions.
LEMMA WaitTypes ==
  ASSUME Inv
  PROVE  /\ state \in [Thread -> States] /\ pc \in [Cpu -> Places]
         /\ joiners \in [Thread -> SUBSET Worker] /\ wakes \in [Cpu -> SUBSET Worker]
         /\ arg = [c \in Cpu |-> arg[c]]
BY DEF Inv, TypeOK, StackTypes, ThreadTypes, SchedInv, ArgInv

\* The three properties follow.
LEMMA WaitInvProperties ==
  ASSUME Inv, ClockInv, WaitInv
  PROVE  NextWakeCoversSleepers /\ JoinWaits /\ SleepIsAFloor
<1>1. NextWakeCoversSleepers
  BY Zenon DEF ClockInv, Covered, Slept, NextWakeCoversSleepers
<1>2. ASSUME NEW t \in Worker \ MayWake, why[t].on = "join"
      PROVE  IF state[t] = "Blocked"
             THEN t \in joiners[why[t].target] \/ \E c \in Cpu : t \in wakes[c]
             ELSE state[why[t].target] = "Finished"
  BY <1>2, Zenon DEF WaitInv, Patient, Over
<1>3. ASSUME NEW t \in Worker \ MayWake, why[t].on = "sleep", state[t] # "Blocked"
      PROVE  now >= why[t].until
  <2>1. why[t].until <= now
    BY <1>3, Zenon DEF WaitInv, Patient, Over
  <2>2. why[t] \in Reasons
    BY Basics DEF WaitInv
  <2>3. why[t].until \in 0..MaxNow
    BY <1>3, <2>2 DEF Reasons, Woken
  <2> QED
    BY <2>1, <2>3, BoundAssumption DEF Inv, TypeOK, ClockTypes
<1> QED
  BY <1>1, <1>2, <1>3, Zenon DEF JoinWaits, SleepIsAFloor

\* A reason to wait that has come stays so: the clock does not go back, and a
\* finished thread stays finished.
LEMMA OverStays ==
  ASSUME why \in [Thread -> Reasons], NEW t \in Worker, Over(t), why'[t] = why[t],
         now \in Nat, now' \in Nat, now <= now',
         \A u \in Worker : state[u] = "Finished" => state'[u] = "Finished"
  PROVE  Over(t)'
<1>1. why[t] \in Reasons
  BY Basics
<1>2. why[t].on = "sleep" => why[t].until \in Nat
  BY <1>1, BoundAssumption DEF Reasons, Woken
<1>3. why[t].on = "join" => why[t].target \in Worker
  BY <1>1 DEF Reasons, Woken
<1>4. why[t].on = "sleep" => why'[t].until <= now'
  BY <1>2 DEF Over
<1>5. why[t].on = "join" => state'[why'[t].target] = "Finished"
  BY <1>3 DEF Over
<1> QED
  BY <1>4, <1>5 DEF Over

\* Steps that wait for nothing and wake nobody, though processor c may move on and the
\* clock with it.
Steady(c) ==
  /\ UNCHANGED <<sleepers, nextWake, joiners, wakes, why>>
  /\ now <= now'
  /\ \A t \in Worker : /\ state'[t] = "Blocked" <=> state[t] = "Blocked"
                       /\ state'[t] = "Finished" <=> state[t] = "Finished"
  /\ \A d \in Cpu \ {c} : pc'[d] = pc[d] /\ arg'[d] = arg[d] /\ standing'[d] = standing[d]
  /\ pc[c] # "publish"
  /\ pc'[c] # "wake" => pc[c] # "wake" \/ wakes[c] = {}
  /\ pc'[c] = "collect" => arg'[c] <= now'
  /\ \A t \in Worker : Listed(t)'

LEMMA SteadyKeeps ==
  ASSUME Inv, Inv', ClockInv, WaitInv, NEW c \in Cpu, Steady(c)
  PROVE  ClockInv' /\ WaitInv'
<1>0. now \in Nat /\ now' \in Nat /\ now <= now'
  BY BoundAssumption DEF Inv, TypeOK, ClockTypes, Steady
<1>1. ASSUME NEW d \in Cpu PROVE Handing(d)'
  <2>1. CASE d = c
    BY <2>1, Zenon DEF Steady, Handing, ClockInv
  <2>2. CASE d # c
    <3>1. /\ pc'[d] = pc[d] /\ arg'[d] = arg[d] /\ wakes'[d] = wakes[d]
          /\ pc[d] = "collect" => arg[d] \in Nat /\ arg[d] <= now
      BY <2>2, BoundAssumption DEF Steady, ClockInv, Handing, Inv, SchedInv, ArgInv
    <3> QED
      BY <1>0, <3>1 DEF Handing, ClockInv
  <2> QED
    BY <2>1, <2>2
<1>2. ASSUME NEW s \in sleepers' PROVE Covered(s)'
  <2>1. s \in sleepers /\ Covered(s) /\ nextWake' = nextWake
    BY <1>2, Zenon DEF Steady, ClockInv
  <2>2. ASSUME NEW d \in Cpu, pc[d] = "publish"
        PROVE  pc'[d] = pc[d] /\ arg'[d] = arg[d] /\ standing'[d] = standing[d]
    BY <2>2, Zenon DEF Steady
  <2> QED
    BY <2>1, <2>2, Zenon DEF Covered
<1>3. ASSUME NEW t \in Worker PROVE Listed(t)' /\ Slept(t)'
  <2>1. Slept(t) /\ Listed(t)'
    BY Zenon DEF ClockInv, Steady
  <2> QED
    BY <2>1, Zenon DEF Slept, Steady
<1>4. ASSUME NEW t \in Worker \ MayWake PROVE Patient(t)'
  <2>1. Patient(t) /\ t \in Worker
    BY Zenon DEF WaitInv
  <2>2. Over(t) => Over(t)'
    BY <1>0, <2>1, OverStays, Zenon DEF Steady, WaitInv
  <2>3. InSleepers(t)' => InSleepers(t)
    BY Zenon DEF InSleepers, Steady
  <2>4. InJoiners(t)' => InJoiners(t)
    BY Zenon DEF InJoiners, Steady
  <2> QED
    BY <2>1, <2>2, <2>3, <2>4, Zenon DEF Patient, Steady
<1>5. why' \in [Thread -> Reasons]
  BY Zenon DEF Steady, WaitInv
<1> QED
  BY <1>1, <1>2, <1>3, <1>4, <1>5 DEF ClockInv, WaitInv

\* Steps that leave every control block's state and THREADS alone, and move c on to a
\* place where it has no wakes to hand out.
LEMMA QuietIsSteady ==
  ASSUME Inv, ClockInv, NEW c \in Cpu, NEW p, pc' = [pc EXCEPT ![c] = p],
         UNCHANGED <<state, threads, sleepers, nextWake, now, joiners, wakes, why>>,
         \A d \in Cpu \ {c} : arg'[d] = arg[d] /\ standing'[d] = standing[d],
         pc[c] # "publish", p # "collect", pc[c] # "wake" \/ wakes[c] = {}
  PROVE  Steady(c)
<1>1. pc'[c] = p /\ \A d \in Cpu \ {c} : pc'[d] = pc[d]
  BY DEF Inv, TypeOK, StackTypes
<1>2. now <= now'
  BY BoundAssumption DEF Inv, TypeOK, ClockTypes
<1>3. \A t \in Worker : Listed(t)'
  BY Zenon DEF ClockInv, Listed
<1> QED
  BY <1>1, <1>2, <1>3, Zenon DEF Steady

LEMMA QuietSteps ==
  ASSUME Inv, ClockInv, NEW c \in Cpu,
         \/ SpawnEnqueue(c) \/ WakesDone(c) \/ ParkSchedule(c) \/ EnterSchedule(c)
         \/ Steal(c) \/ ContextSwitch(c) \/ Arrive(c)
         \/ \E t \in Worker : YieldNow(c, t)
  PROVE  Steady(c)
<1>0. UNCHANGED <<state, threads, sleepers, nextWake, now, joiners, wakes, why>>
  <2>1. CASE SpawnEnqueue(c) \/ WakesDone(c) \/ ParkSchedule(c) \/ EnterSchedule(c)
    BY <2>1, Zenon DEF SpawnEnqueue, WakesDone, ParkSchedule, EnterSchedule, tcb, clock
  <2>2. CASE Steal(c) \/ ContextSwitch(c) \/ Arrive(c)
    BY <2>2, Zenon DEF Steal, ContextSwitch, Arrive, tcb, clock
  <2>3. CASE \E t \in Worker : YieldNow(c, t)
    BY <2>3, Zenon DEF YieldNow, tcb, clock
  <2> QED
    BY <2>1, <2>2, <2>3
<1>1. PICK p : p # "collect" /\ pc' = [pc EXCEPT ![c] = p]
  <2>1. CASE SpawnEnqueue(c) \/ WakesDone(c) \/ ParkSchedule(c) \/ EnterSchedule(c)
    BY <2>1, Zenon DEF SpawnEnqueue, WakesDone, ParkSchedule, EnterSchedule
  <2>2. CASE Steal(c) \/ ContextSwitch(c) \/ Arrive(c)
    BY <2>2, Zenon DEF Steal, ContextSwitch, Arrive
  <2>3. CASE \E t \in Worker : YieldNow(c, t)
    BY <2>3, Zenon DEF YieldNow
  <2> QED
    BY <2>1, <2>2, <2>3
<1>2. pc[c] # "publish" /\ (pc[c] # "wake" \/ wakes[c] = {})
  <2>1. CASE SpawnEnqueue(c) \/ WakesDone(c) \/ ParkSchedule(c) \/ EnterSchedule(c)
    BY <2>1, Zenon DEF SpawnEnqueue, WakesDone, ParkSchedule, EnterSchedule, Open
  <2>2. CASE Steal(c) \/ ContextSwitch(c) \/ Arrive(c)
    BY <2>2, Zenon DEF Steal, ContextSwitch, Arrive
  <2>3. CASE \E t \in Worker : YieldNow(c, t)
    BY <2>3, Zenon DEF YieldNow, Calls, Open
  <2> QED
    BY <2>1, <2>2, <2>3
<1>3. \/ arg' = arg \/ \E x : arg' = [arg EXCEPT ![c] = x]
  <2>1. CASE SpawnEnqueue(c) \/ WakesDone(c) \/ ParkSchedule(c) \/ EnterSchedule(c)
    BY <2>1, Zenon DEF SpawnEnqueue, WakesDone, ParkSchedule, EnterSchedule
  <2>2. CASE Steal(c) \/ ContextSwitch(c) \/ Arrive(c)
    BY <2>2, Zenon DEF Steal, ContextSwitch, Arrive
  <2>3. CASE \E t \in Worker : YieldNow(c, t)
    BY <2>3, Zenon DEF YieldNow
  <2> QED
    BY <2>1, <2>2, <2>3
<1>4. \/ standing' = standing \/ \E x : standing' = [standing EXCEPT ![c] = x]
  <2>1. CASE SpawnEnqueue(c) \/ WakesDone(c) \/ ParkSchedule(c) \/ EnterSchedule(c)
    BY <2>1, Zenon DEF SpawnEnqueue, WakesDone, ParkSchedule, EnterSchedule, machine
  <2>2. CASE Steal(c) \/ ContextSwitch(c) \/ Arrive(c)
    BY <2>2, Zenon DEF Steal, ContextSwitch, Arrive, machine
  <2>3. CASE \E t \in Worker : YieldNow(c, t)
    BY <2>3, Zenon DEF YieldNow, machine
  <2> QED
    BY <2>1, <2>2, <2>3
<1>5. \A d \in Cpu \ {c} : arg'[d] = arg[d] /\ standing'[d] = standing[d]
  BY <1>3, <1>4 DEF Inv, SchedInv, ArgInv, TypeOK, StackTypes
<1> QED
  BY <1>0, <1>1, <1>2, <1>5, QuietIsSteady, Zenon

\* set_priority, which is nobody's place in the scheduler, and the timer interrupt.
LEMMA TickIsSteady ==
  ASSUME Inv, ClockInv, NEW c \in Cpu,
         TimerTick(c) \/ \E u \in Worker, p \in Priorities : SetPriority(c, u, p)
  PROVE  Steady(c)
<1>1. CASE \E u \in Worker, p \in Priorities : SetPriority(c, u, p)
  <2>1. /\ UNCHANGED <<state, threads, sleepers, nextWake, now, joiners, wakes, why, standing,
                       pc, arg>>
        /\ pc[c] = "out"
    BY <1>1 DEF SetPriority, Calls, Open, clock, local, machine
  <2>2. pc' = [pc EXCEPT ![c] = "out"]
    BY <2>1 DEF Inv, TypeOK, StackTypes
  <2> QED
    BY <2>1, <2>2, QuietIsSteady, Zenon
<1>2. CASE TimerTick(c)
  <2>1. /\ UNCHANGED <<state, threads, sleepers, nextWake, joiners, wakes, why, standing>>
        /\ pc[c] = "out"
    BY <1>2, Zenon DEF TimerTick, Open, tcb, machine
  <2>2. now \in Nat /\ now' \in Nat /\ now <= now'
    BY <1>2, BoundAssumption DEF TimerTick, Inv, TypeOK, ClockTypes
  <2>3. \/ pc' = [pc EXCEPT ![c] = "collect"] /\ arg' = [arg EXCEPT ![c] = now']
        \/ pc' = [pc EXCEPT ![c] = "enter"] /\ arg' = arg
    BY <1>2, Zenon DEF TimerTick
  <2>4. /\ \A d \in Cpu \ {c} : pc'[d] = pc[d] /\ arg'[d] = arg[d]
        /\ pc'[c] # "wake" /\ (pc'[c] = "collect" => arg'[c] <= now')
    BY <2>2, <2>3 DEF Inv, TypeOK, StackTypes, SchedInv, ArgInv
  <2>5. \A t \in Worker : Listed(t)'
    BY <2>1, Zenon DEF ClockInv, Listed
  <2> QED
    BY <2>1, <2>2, <2>4, <2>5, Zenon DEF Steady
<1> QED
  BY <1>1, <1>2

\* A processor that comes up and a thread that is spawned are new in THREADS.
LEMMA NewcomerIsSteady ==
  ASSUME Inv, ClockInv, NEW c \in Cpu,
         AdoptSecondaryCpu(c) \/ \E u \in Worker, p \in Priorities : Spawn(c, u, p)
  PROVE  Steady(c)
<1>0. now <= now /\ now \in Nat
  BY BoundAssumption DEF Inv, TypeOK, ClockTypes
<1>1. CASE AdoptSecondaryCpu(c)
  <2>1. /\ UNCHANGED <<sleepers, nextWake, now, joiners, wakes, why, pc, arg>>
        /\ state' = [state EXCEPT ![Idle[c]] = "Running"]
        /\ threads' = threads \cup {Idle[c]}
        /\ standing' = [standing EXCEPT ![c] = Idle[c]]
    BY <1>1 DEF AdoptSecondaryCpu, clock, local
  <2>2. pc[c] = "out"
    BY <1>1 DEF AdoptSecondaryCpu, Inv, SchedInv, StackInv, StandingInv
  <2>3. \A t \in Worker : state'[t] = state[t]
    BY <2>1, Basics DEF Inv, TypeOK, StackTypes
  <2>4. \A d \in Cpu \ {c} : standing'[d] = standing[d]
    BY <2>1 DEF Inv, TypeOK, StackTypes
  <2>5. \A t \in Worker : Listed(t)'
    BY <2>1, <2>3, Zenon DEF ClockInv, Listed
  <2> QED
    BY <1>0, <2>1, <2>2, <2>3, <2>4, <2>5, Zenon DEF Steady
<1>2. ASSUME NEW u \in Worker, NEW p \in Priorities, Spawn(c, u, p)
      PROVE  Steady(c)
  <2>1. /\ UNCHANGED <<sleepers, nextWake, now, joiners, wakes, why, standing>>
        /\ state' = [state EXCEPT ![u] = "Ready"] /\ state[u] = "Unborn"
        /\ threads' = threads \cup {u}
        /\ pc' = [pc EXCEPT ![c] = "spawn"] /\ arg' = [arg EXCEPT ![c] = u]
        /\ pc[c] = "out"
    BY <1>2, Zenon DEF Spawn, clock, Calls, Open
  <2>2. state'[u] = "Ready" /\ \A t \in Worker : t # u => state'[t] = state[t]
    BY <2>1, Basics DEF Inv, TypeOK, StackTypes
  <2>3. pc'[c] = "spawn" /\ \A d \in Cpu \ {c} : pc'[d] = pc[d] /\ arg'[d] = arg[d]
    BY <2>1 DEF Inv, TypeOK, StackTypes, SchedInv, ArgInv
  <2>4. \A t \in Worker : Listed(t)'
    BY <2>1, <2>2, Zenon DEF ClockInv, Listed
  <2>5. \A t \in Worker : /\ state'[t] = "Blocked" <=> state[t] = "Blocked"
                          /\ state'[t] = "Finished" <=> state[t] = "Finished"
    BY <2>1, <2>2
  <2> QED
    BY <1>0, <2>1, <2>3, <2>4, <2>5, Zenon DEF Steady
<1> QED
  BY <1>1, <1>2

\* prepare_switch moves threads between Ready and Running, and bury takes only
\* finished ones out of THREADS.
LEMMA SwitchIsSteady ==
  ASSUME Inv, QueueInv, ClockInv, NEW c \in Cpu,
         Bury(c) \/ \E order \in PickOrders : Pick(c, order)
  PROVE  Steady(c)
<1>0. now <= now /\ now \in Nat
  BY BoundAssumption DEF Inv, TypeOK, ClockTypes
<1>1. CASE Bury(c)
  <2>1. /\ UNCHANGED <<state, sleepers, nextWake, now, joiners, wakes, why, standing, arg>>
        /\ threads' = threads \ burying[c]
        /\ pc[c] = "bury"
    BY <1>1 DEF Bury, tcb, clock, machine
  <2>2. PICK p \in {"out", "switch"} : pc' = [pc EXCEPT ![c] = p]
    BY <1>1, Zenon DEF Bury
  <2>3. pc'[c] = p /\ \A d \in Cpu \ {c} : pc'[d] = pc[d]
    BY <2>2 DEF Inv, TypeOK, StackTypes
  <2>4. \A t \in Worker : t \in burying[c] => state[t] = "Finished"
    BY Zenon DEF QueueInv, Placed, Alive
  <2>5. \A t \in Worker : Listed(t)'
    BY <2>1, <2>4, Zenon DEF ClockInv, Listed
  <2> QED
    BY <1>0, <2>1, <2>3, <2>5, Zenon DEF Steady
<1>2. ASSUME NEW order \in PickOrders, Pick(c, order)
      PROVE  Steady(c)
  <2>1. UNCHANGED <<threads, sleepers, nextWake, now, joiners, wakes, why, standing, arg>>
    BY <1>2, Zenon DEF Pick, clock, machine
  <2>2. pc[c] = "pick" /\ \E p \in {"bury", "out", "switch"} : pc' = [pc EXCEPT ![c] = p]
    BY <1>2, Zenon DEF Pick
  <2>3. pc'[c] \in {"bury", "out", "switch"} /\ \A d \in Cpu \ {c} : pc'[d] = pc[d]
    BY <2>2 DEF Inv, TypeOK, StackTypes
  <2>4. Stays(c) \/ \E next \in Thread : SwitchesTo(c, next)
    BY <1>2, PickStaysOrSwitches DEF Inv, SchedInv
  <2>5. \A t \in Worker : /\ state'[t] = "Blocked" <=> state[t] = "Blocked"
                          /\ state'[t] = "Finished" <=> state[t] = "Finished"
                          /\ state'[t] = "Unborn" <=> state[t] = "Unborn"
    <3>1. CASE Stays(c)
      BY <3>1, Zenon DEF Stays
    <3>2. ASSUME NEW next \in Thread, SwitchesTo(c, next), NEW t \in Thread
          PROVE  /\ state'[t] = "Blocked" <=> state[t] = "Blocked"
                 /\ state'[t] = "Finished" <=> state[t] = "Finished"
                 /\ state'[t] = "Unborn" <=> state[t] = "Unborn"
      BY <3>2 DEF SwitchesTo, OnStack
    <3> QED
      BY <2>4, <3>1, <3>2, Basics
  <2>6. \A t \in Worker : Listed(t)'
    BY <2>1, <2>5, Zenon DEF ClockInv, Listed
  <2> QED
    BY <1>0, <2>1, <2>2, <2>3, <2>5, <2>6 DEF Steady
<1> QED
  BY <1>1, <1>2

\* The steps that park a thread or wake one leave every processor but c where it is.
Elsewhere(c) ==
  \A d \in Cpu \ {c} : pc'[d] = pc[d] /\ arg'[d] = arg[d] /\ wakes'[d] = wakes[d]

\* The other threads of a step that parks, wakes or ends one: their state and what they
\* wait for stay, and so do their entries.
Bystander(t) ==
  /\ state'[t] = state[t] /\ why'[t] = why[t]
  /\ \A s : s.id = t => (s \in sleepers' <=> s \in sleepers)
  /\ \A u \in Worker : t \in joiners'[u] <=> t \in joiners[u]
  /\ \A c \in Cpu : t \in wakes'[c] <=> t \in wakes[c]

\* Nothing about a bystander changes while the clock stands and no thread finishes.
LEMMA BystanderKeeps ==
  ASSUME Inv, WaitInv, NEW t \in Worker \ MayWake, Bystander(t), now' = now,
         \A u \in Worker : state'[u] = "Finished" <=> state[u] = "Finished"
  PROVE  Patient(t)'
<1>1. Patient(t) /\ t \in Worker
  BY Zenon DEF WaitInv
<1>2. now \in Nat /\ now' \in Nat /\ now <= now'
  BY BoundAssumption DEF Inv, TypeOK, ClockTypes
<1>3. Over(t) => Over(t)'
  BY <1>1, <1>2, OverStays, Zenon DEF Bystander, WaitInv
<1>4. InSleepers(t)' => InSleepers(t)
  BY Zenon DEF InSleepers, Bystander
<1>5. InJoiners(t)' => InJoiners(t)
  BY Zenon DEF InJoiners, Bystander
<1>6. why[t].on = "join" => why[t].target \in Worker
  <2>1. why[t] \in Reasons
    BY Basics DEF WaitInv
  <2> QED
    BY <2>1 DEF Reasons, Woken
<1>a. /\ \A s \in sleepers' : s.id = t => s \in sleepers
      /\ state'[t] = state[t] /\ why'[t] = why[t]
  BY Zenon DEF Bystander
<1>b. \A s \in sleepers' :
        s.id = t => state'[t] = "Blocked" /\ why'[t] = [on |-> "sleep", until |-> s.deadline]
  BY <1>1, <1>a, Zenon DEF Patient
<1>c. \A u \in Worker :
        t \in joiners'[u] => /\ state'[t] = "Blocked" /\ state'[u] # "Finished"
                             /\ why'[t] = [on |-> "join", target |-> u]
  BY <1>1, Zenon DEF Patient, Bystander
<1>d. \A c \in Cpu :
        t \in wakes'[c] => /\ state'[t] = "Blocked" /\ Over(t)'
                           /\ ~InSleepers(t)' /\ ~InJoiners(t)'
                           /\ \A d \in Cpu : t \in wakes'[d] => d = c
  BY <1>1, <1>3, <1>4, <1>5, Zenon DEF Patient, Bystander
<1>e. state'[t] # "Blocked" => Over(t)'
  BY <1>1, <1>3, <1>a, Zenon DEF Patient
<1>f. why'[t].on = "join" /\ state'[t] = "Blocked" =>
        t \in joiners'[why'[t].target] \/ \E c \in Cpu : t \in wakes'[c]
  BY <1>1, <1>6, <1>a, Zenon DEF Patient, Bystander
<1> QED
  BY <1>b, <1>c, <1>d, <1>e, <1>f, Zenon DEF Patient

\* A thread that runs is in no list it could be woken from.
LEMMA RunningUnlisted ==
  ASSUME WaitInv, NEW t \in Worker \ MayWake, state[t] # "Blocked"
  PROVE  /\ \A s \in sleepers : s.id # t
         /\ \A u \in Worker : t \notin joiners[u]
         /\ \A c \in Cpu : t \notin wakes[c]
         /\ Over(t)
BY Zenon DEF WaitInv, Patient

\* block_current: parked for a wake, a thread is in no list.
LEMMA BlockCurrentWaits ==
  ASSUME Inv, Inv', ClockInv, WaitInv, NEW c \in Cpu, NEW t \in Worker, BlockCurrent(c, t)
  PROVE  ClockInv' /\ WaitInv'
<1>1. t \in Thread /\ state[t] = "Running" /\ pc[c] = "out"
  BY CallerIsUp DEF BlockCurrent, Calls, Open
<1>2. CASE wakePending[t]
  <2>1. /\ UNCHANGED <<state, threads, sleepers, nextWake, now, joiners, wakes, why, standing,
                       pc, arg>>
    BY <1>2 DEF BlockCurrent, clock, local
  <2>2. pc' = [pc EXCEPT ![c] = "out"]
    BY <1>1, <2>1 DEF Inv, TypeOK, StackTypes
  <2>3. Steady(c)
    BY <1>1, <2>1, <2>2, QuietIsSteady, Zenon
  <2> QED
    BY <2>3, SteadyKeeps
<1>3. CASE ~wakePending[t]
  <2>1. /\ UNCHANGED <<threads, sleepers, nextWake, now, joiners, wakes, standing, pc, arg>>
        /\ state' = [state EXCEPT ![t] = "Blocked"] /\ why' = [why EXCEPT ![t] = Woken]
    BY <1>3 DEF BlockCurrent, clock, local
  <2>2. /\ state'[t] = "Blocked" /\ why'[t] = Woken /\ why' \in [Thread -> Reasons]
        /\ \A u \in Worker : u # t => state'[u] = state[u] /\ why'[u] = why[u]
    <3>1. /\ state \in [Thread -> States] /\ why \in [Thread -> Reasons] /\ Woken \in Reasons
          /\ Worker \subseteq Thread
      BY WaitTypes, Basics, Zenon DEF WaitInv, Reasons
    <3> QED
      BY <1>1, <2>1, <3>1
  <2>3. Woken.on = "wake"
    BY DEF Woken
  <2>4. ClockInv'
    <3>1. \A d \in Cpu : Handing(d)'
      BY <2>1, Zenon DEF ClockInv, Handing
    <3>2. \A s \in sleepers' : Covered(s)'
      BY <2>1, Zenon DEF ClockInv, Covered
    <3>3. \A u \in Worker : Listed(u)'
      BY <1>1, <2>1, <2>2 DEF ClockInv, Listed
    <3>4. \A u \in Worker : Slept(u)'
      BY <2>1, <2>2, <2>3, Zenon DEF ClockInv, Slept
    <3> QED
      BY <3>1, <3>2, <3>3, <3>4 DEF ClockInv
  <2>5. ASSUME NEW u \in Worker \ MayWake PROVE Patient(u)'
    <3>1. CASE u # t
      <4>1. Bystander(u)
        BY <2>1, <2>2, <3>1, Zenon DEF Bystander
      <4>2. \A x \in Worker : state'[x] = "Finished" <=> state[x] = "Finished"
        BY <1>1, <2>2
      <4> QED
        BY <2>1, <4>1, <4>2, BystanderKeeps
    <3>2. CASE u = t
      <4>1. /\ \A s \in sleepers' : s.id # t
            /\ \A x \in Worker : t \notin joiners'[x]
            /\ \A d \in Cpu : t \notin wakes'[d]
        BY <1>1, <2>1, <3>2, RunningUnlisted
      <4> QED
        BY <2>2, <2>3, <3>2, <4>1, Zenon DEF Patient
    <3> QED
      BY <3>1, <3>2
  <2> QED
    BY <2>2, <2>4, <2>5 DEF WaitInv
<1> QED
  BY <1>2, <1>3

\* sleep_ticks: the deadline is listed, and this processor has yet to publish it.
LEMMA SleepTicksWaits ==
  ASSUME Inv, Inv', ClockInv, WaitInv, NEW c \in Cpu, NEW t \in Worker,
         NEW n \in 1..MaxSleep, SleepTicks(c, t, n)
  PROVE  ClockInv' /\ WaitInv'
<1>1. t \in Thread /\ state[t] = "Running" /\ pc[c] = "out" /\ standing[c] = t
  BY CallerIsUp DEF SleepTicks, Calls, Open
<1>2. PICK until \in 0..MaxNow : until = now + n
  BY BoundAssumption DEF SleepTicks, Inv, TypeOK, ClockTypes
<1>3. /\ UNCHANGED <<threads, nextWake, now, joiners, wakes, standing>>
      /\ sleepers' = sleepers \cup {[id |-> t, deadline |-> until]}
      /\ state' = [state EXCEPT ![t] = "Blocked"]
      /\ why' = [why EXCEPT ![t] = [on |-> "sleep", until |-> until]]
      /\ arg' = [arg EXCEPT ![c] = until] /\ pc' = [pc EXCEPT ![c] = "publish"]
  BY <1>2 DEF SleepTicks, machine
<1>4. /\ state'[t] = "Blocked" /\ why'[t] = [on |-> "sleep", until |-> until]
      /\ \A u \in Worker : u # t => state'[u] = state[u] /\ why'[u] = why[u]
  BY <1>1, <1>3, Basics, WaitTypes DEF WaitInv
<1>5. why' \in [Thread -> Reasons]
  <2>1. [on |-> "sleep", until |-> until] \in Reasons
    BY <1>2 DEF Reasons
  <2> QED
    BY <1>3, <2>1, Zenon DEF WaitInv
<1>6. /\ pc'[c] = "publish" /\ arg'[c] = until
      /\ \A d \in Cpu : d # c => pc'[d] = pc[d] /\ arg'[d] = arg[d]
  BY <1>3, WaitTypes
<1>7. ClockInv'
  <2>1. \A d \in Cpu : Handing(d)'
    BY <1>1, <1>3, <1>6, Zenon DEF ClockInv, Handing
  <2>2. ASSUME NEW s \in sleepers' PROVE Covered(s)'
    <3>1. CASE s \in sleepers
      <4>1. Covered(s)
        BY <3>1, Zenon DEF ClockInv
      <4>2. \A d \in Cpu : pc[d] = "publish" => d # c
        BY <1>1
      <4> QED
        BY <1>3, <1>6, <4>1, <4>2, Zenon DEF Covered
    <3>2. CASE s = [id |-> t, deadline |-> until]
      <4>1. s.id = t /\ s.deadline = until
        BY <3>2
      <4> QED
        BY <1>1, <1>3, <1>6, <4>1, Zenon DEF Covered
    <3> QED
      BY <1>3, <3>1, <3>2
  <2>3. \A u \in Worker : Listed(u)'
    BY <1>1, <1>3, <1>4 DEF ClockInv, Listed
  <2>4. ASSUME NEW u \in Worker PROVE Slept(u)'
    <3>1. CASE u = t
      <4>1. [id |-> t, deadline |-> until] \in sleepers' /\ [id |-> t, deadline |-> until].id = t
        BY <1>3
      <4> QED
        BY <3>1, <4>1, Zenon DEF Slept
    <3>2. CASE u # t
      BY <1>3, <1>4, <3>2, Zenon DEF ClockInv, Slept
    <3> QED
      BY <3>1, <3>2
  <2> QED
    BY <2>1, <2>2, <2>3, <2>4 DEF ClockInv
<1>8. ASSUME NEW u \in Worker \ MayWake PROVE Patient(u)'
  <2>0. \A x \in Worker : state'[x] = "Finished" <=> state[x] = "Finished"
    BY <1>1, <1>4
  <2>1. CASE u # t
    <3>1. \A s : s.id = u => (s \in sleepers' <=> s \in sleepers)
      BY <1>3, <2>1
    <3>2. Bystander(u)
      BY <1>3, <1>4, <2>1, <3>1, Zenon DEF Bystander
    <3> QED
      BY <1>3, <2>0, <3>2, BystanderKeeps
  <2>2. CASE u = t
    <3>1. /\ \A s \in sleepers : s.id # t
          /\ \A x \in Worker : t \notin joiners'[x]
          /\ \A d \in Cpu : t \notin wakes'[d]
      BY <1>1, <1>3, <2>2, RunningUnlisted
    <3>2. \A s \in sleepers' : s.id = t => s.deadline = until
      BY <1>3, <3>1
    <3>3. why'[t].on = "sleep"
      BY <1>4
    <3> QED
      BY <1>4, <2>2, <3>1, <3>2, <3>3 DEF Patient
  <2> QED
    BY <2>1, <2>2
<1> QED
  BY <1>5, <1>7, <1>8 DEF WaitInv

\* fetch_min leaves NEXT_WAKE no later than it was, nor than the new deadline.
LEMMA PublishDeadlineWaits ==
  ASSUME Inv, Inv', ClockInv, WaitInv, NEW c \in Cpu, PublishDeadline(c)
  PROVE  ClockInv' /\ WaitInv'
<1>1. /\ UNCHANGED <<state, threads, sleepers, now, joiners, wakes, why, standing>>
      /\ pc[c] = "publish" /\ pc' = [pc EXCEPT ![c] = "out"]
      /\ arg' = [arg EXCEPT ![c] = NoThread]
      /\ nextWake' = Min({nextWake, arg[c]})
  BY DEF PublishDeadline, Published, tcb
<1>2. /\ pc'[c] = "out"
      /\ \A d \in Cpu : d # c => pc'[d] = pc[d] /\ arg'[d] = arg[d]
  BY <1>1, WaitTypes
<1>3. /\ nextWake \in Nat /\ arg[c] \in Nat /\ nextWake' \in Nat
      /\ nextWake' <= nextWake /\ nextWake' <= arg[c]
  <2>1. nextWake \in Nat /\ arg[c] \in Nat
    BY <1>1, BoundAssumption DEF Inv, TypeOK, ClockTypes, SchedInv, ArgInv, Never
  <2> QED
    BY <1>1, <2>1, MinIsLeast
<1>4. ClockInv'
  <2>1. \A d \in Cpu : Handing(d)'
    BY <1>1, <1>2, Zenon DEF ClockInv, Handing
  <2>2. ASSUME NEW s \in sleepers' PROVE Covered(s)'
    <3>1. Covered(s) /\ s.deadline \in Nat
      BY <1>1, BoundAssumption DEF ClockInv, Inv, TypeOK, ClockTypes
    <3>2. nextWake <= s.deadline => nextWake' <= s.deadline
      BY <1>3, <3>1
    <3>3. arg[c] = s.deadline => nextWake' <= s.deadline
      BY <1>3, <3>1
    <3> QED
      BY <1>1, <1>2, <3>1, <3>2, <3>3, Zenon DEF Covered
  <2>3. \A u \in Worker : Listed(u)' /\ Slept(u)'
    BY <1>1, Zenon DEF ClockInv, Listed, Slept
  <2> QED
    BY <2>1, <2>2, <2>3 DEF ClockInv
<1>5. ASSUME NEW u \in Worker \ MayWake PROVE Patient(u)'
  <2>1. Bystander(u)
    BY <1>1, Zenon DEF Bystander
  <2> QED
    BY <1>1, <2>1, BystanderKeeps
<1> QED
  BY <1>1, <1>4, <1>5 DEF WaitInv

\* join: on the target's list and parked under one lock, before the target can exit.
LEMMA JoinWaiting ==
  ASSUME Inv, Inv', ClockInv, WaitInv, NEW c \in Cpu, NEW t \in Worker, NEW u \in Joinable,
         Join(c, t, u)
  PROVE  ClockInv' /\ WaitInv'
<1>1. t \in Thread /\ state[t] = "Running" /\ u \in Worker /\ state[u] # "Finished" /\ u # t
  BY CallerIsUp, Basics, ChoiceAssumption DEF Join, MustWait
<1>2. /\ UNCHANGED <<threads, sleepers, nextWake, now, wakes, standing, pc, arg>>
      /\ state' = [state EXCEPT ![t] = "Blocked"]
      /\ why' = [why EXCEPT ![t] = [on |-> "join", target |-> u]]
      /\ joiners' = [joiners EXCEPT ![u] = @ \cup {t}]
  BY DEF Join, clock, local
<1>3. /\ state'[t] = "Blocked" /\ why'[t] = [on |-> "join", target |-> u]
      /\ \A x \in Worker : x # t => state'[x] = state[x] /\ why'[x] = why[x]
      /\ joiners'[u] = joiners[u] \cup {t}
      /\ \A x \in Worker : x # u => joiners'[x] = joiners[x]
  <2>1. Worker \subseteq Thread /\ why \in [Thread -> Reasons]
    BY Basics, Zenon DEF WaitInv
  <2>2. /\ state'[t] = "Blocked" /\ why'[t] = [on |-> "join", target |-> u]
        /\ \A x \in Worker : x # t => state'[x] = state[x] /\ why'[x] = why[x]
    BY <1>1, <1>2, <2>1, WaitTypes
  <2>3. /\ joiners'[u] = joiners[u] \cup {t}
        /\ \A x \in Worker : x # u => joiners'[x] = joiners[x]
    BY <1>1, <1>2, <2>1, WaitTypes
  <2> QED
    BY <2>2, <2>3, Zenon
<1>4. why' \in [Thread -> Reasons]
  <2>1. [on |-> "join", target |-> u] \in Reasons
    BY <1>1 DEF Reasons
  <2> QED
    BY <1>2, <2>1 DEF WaitInv
<1>5. why'[t].on = "join" /\ why'[t].target = u
  BY <1>3
<1>6. ClockInv'
  <2>1. \A d \in Cpu : Handing(d)'
    BY <1>2, Zenon DEF ClockInv, Handing
  <2>2. \A s \in sleepers' : Covered(s)'
    BY <1>2, Zenon DEF ClockInv, Covered
  <2>3. \A x \in Worker : Listed(x)'
    BY <1>1, <1>2, <1>3 DEF ClockInv, Listed
  <2>4. \A x \in Worker : Slept(x)'
    BY <1>2, <1>3, <1>5, Zenon DEF ClockInv, Slept
  <2> QED
    BY <2>1, <2>2, <2>3, <2>4 DEF ClockInv
<1>7. ASSUME NEW x \in Worker \ MayWake PROVE Patient(x)'
  <2>0. \A y \in Worker : state'[y] = "Finished" <=> state[y] = "Finished"
    BY <1>1, <1>3
  <2>1. CASE x # t
    <3>1. \A y \in Worker : x \in joiners'[y] <=> x \in joiners[y]
      BY <1>3, <2>1
    <3>2. Bystander(x)
      BY <1>2, <1>3, <2>1, <3>1, Zenon DEF Bystander
    <3> QED
      BY <1>2, <2>0, <3>2, BystanderKeeps
  <2>2. CASE x = t
    <3>1. /\ \A s \in sleepers' : s.id # t
          /\ \A y \in Worker : t \notin joiners[y]
          /\ \A d \in Cpu : t \notin wakes'[d]
      BY <1>1, <1>2, <2>2, RunningUnlisted
    <3>2. \A y \in Worker : t \in joiners'[y] => y = u
      BY <1>3, <3>1
    <3>3. t \in joiners'[u] /\ state'[u] # "Finished"
      BY <1>1, <1>3
    <3> QED
      BY <1>3, <1>5, <2>2, <3>1, <3>2, <3>3, Zenon DEF Patient
  <2> QED
    BY <2>1, <2>2
<1> QED
  BY <1>4, <1>6, <1>7 DEF WaitInv

\* exit_current: the joiners of t go from its list to the wakes, as t finishes.
LEMMA ExitCurrentWaits ==
  ASSUME Inv, Inv', ClockInv, WaitInv, NEW c \in Cpu, NEW t \in Worker, ExitCurrent(c, t)
  PROVE  ClockInv' /\ WaitInv'
<1>1. t \in Thread /\ state[t] = "Running" /\ pc[c] = "out" /\ wakes[c] = {}
  BY CallerIsUp DEF ExitCurrent, Calls, Open, ClockInv, Handing
<1>2. /\ UNCHANGED <<threads, sleepers, nextWake, now, why, standing, arg>>
      /\ state' = [state EXCEPT ![t] = "Finished"]
      /\ joiners' = [joiners EXCEPT ![t] = {}]
      /\ wakes' = [wakes EXCEPT ![c] = joiners[t]] /\ pc' = [pc EXCEPT ![c] = "wake"]
  BY DEF ExitCurrent, JoinersOf, clock
<1>3. /\ state'[t] = "Finished" /\ \A x \in Worker : x # t => state'[x] = state[x]
      /\ joiners'[t] = {} /\ \A x \in Worker : x # t => joiners'[x] = joiners[x]
      /\ wakes'[c] = joiners[t] /\ \A d \in Cpu : d # c => wakes'[d] = wakes[d]
      /\ pc'[c] = "wake" /\ \A d \in Cpu : d # c => pc'[d] = pc[d]
  <2>1. Worker \subseteq Thread
    BY Basics
  <2>2. state'[t] = "Finished" /\ \A x \in Worker : x # t => state'[x] = state[x]
    BY <1>1, <1>2, <2>1, WaitTypes
  <2>3. joiners'[t] = {} /\ \A x \in Worker : x # t => joiners'[x] = joiners[x]
    BY <1>1, <1>2, <2>1, WaitTypes
  <2>4. /\ wakes'[c] = joiners[t] /\ \A d \in Cpu : d # c => wakes'[d] = wakes[d]
        /\ pc'[c] = "wake" /\ \A d \in Cpu : d # c => pc'[d] = pc[d]
    BY <1>2, WaitTypes
  <2> QED
    BY <2>2, <2>3, <2>4, Zenon
<1>4. ClockInv'
  <2>1. \A d \in Cpu : Handing(d)'
    BY <1>2, <1>3, Zenon DEF ClockInv, Handing
  <2>2. ASSUME NEW s \in sleepers' PROVE Covered(s)'
    <3>1. Covered(s) /\ UNCHANGED <<nextWake, standing, arg>>
      BY <1>2, Zenon DEF ClockInv
    <3>2. \A d \in Cpu : pc[d] = "publish" => pc'[d] = "publish"
      BY <1>1, <1>3
    <3> QED
      BY <3>1, <3>2, Zenon DEF Covered
  <2>3. \A x \in Worker : Listed(x)'
    BY <1>2, <1>3, Zenon DEF ClockInv, Listed
  <2>4. ASSUME NEW x \in Worker PROVE Slept(x)'
    <3>1. Slept(x)
      BY Zenon DEF ClockInv
    <3>2. \A d \in Cpu : x \in wakes[d] => x \in wakes'[d]
      BY <1>1, <1>3, Zenon
    <3> QED
      BY <1>2, <1>3, <3>1, <3>2 DEF Slept
  <2> QED
    BY <2>1, <2>2, <2>3, <2>4 DEF ClockInv
<1>5. \A x \in Worker : state[x] = "Finished" => state'[x] = "Finished"
  BY <1>3
<1>6. ASSUME NEW x \in Worker \ MayWake PROVE Over(x) => Over(x)'
  <2>1. now \in Nat /\ now' \in Nat /\ now <= now'
    BY <1>2, BoundAssumption DEF Inv, TypeOK, ClockTypes
  <2> QED
    BY <1>2, <1>5, <2>1, OverStays, Zenon DEF WaitInv
<1>7. ASSUME NEW x \in Worker \ MayWake PROVE Patient(x)'
  <2>0. Patient(x) /\ x \in Worker
    BY Zenon DEF WaitInv
  <2>1. CASE x = t
    <3>1. /\ \A s \in sleepers : s.id # t
          /\ \A u \in Worker : t \notin joiners[u]
          /\ \A d \in Cpu : t \notin wakes[d]
          /\ Over(t)
      BY <1>1, <2>1, RunningUnlisted
    <3>2. \A u \in Worker : t \notin joiners'[u]
      BY <1>3, <3>1, Zenon
    <3>3. \A d \in Cpu : t \notin wakes'[d]
      BY <1>3, <3>1, Zenon
    <3>4. Over(t)' /\ state'[t] # "Blocked"
      BY <1>3, <1>6, <2>1, <3>1
    <3> QED
      BY <1>2, <2>1, <3>1, <3>2, <3>3, <3>4, Zenon DEF Patient
  <2>2. CASE x # t
    <3>0. state'[x] = state[x] /\ why'[x] = why[x]
      BY <1>2, <1>3, <2>2, Zenon
    <3>1. \A u \in Worker : x \in joiners'[u] => u # t /\ x \in joiners[u]
      BY <1>3
    <3>a. \A u \in Worker : x \in joiners'[u] =>
            /\ state'[x] = "Blocked" /\ state'[u] # "Finished"
            /\ why'[x] = [on |-> "join", target |-> u]
      BY <1>3, <2>0, <3>0, <3>1, Zenon DEF Patient
    <3>b. \A s \in sleepers' : s.id = x =>
            state'[x] = "Blocked" /\ why'[x] = [on |-> "sleep", until |-> s.deadline]
      BY <1>2, <2>0, <3>0, Zenon DEF Patient
    <3>c. ASSUME x \in joiners[t]
          PROVE  /\ state'[x] = "Blocked" /\ Over(x)'
                 /\ ~InSleepers(x)' /\ ~InJoiners(x)'
                 /\ \A d \in Cpu : x \notin wakes[d]
      <4>1. state[x] = "Blocked" /\ why[x] = [on |-> "join", target |-> t]
        BY <2>0, <3>c, Zenon DEF Patient
      <4>2. why'[x].on = "join" /\ why'[x].target = t
        BY <3>0, <4>1
      <4>3. Over(x)'
        BY <1>3, <4>2 DEF Over
      <4>4. ~InSleepers(x)'
        <5>1. ASSUME NEW s \in sleepers', s.id = x
              PROVE  FALSE
          <6>1. why'[x] = [on |-> "sleep", until |-> s.deadline]
            BY <3>b, <5>1, Zenon
          <6> QED
            BY <4>2, <6>1, ReasonFields, Zenon
        <5> QED
          BY <5>1, Zenon DEF InSleepers
      <4>5. ~InJoiners(x)'
        <5>1. ASSUME NEW u \in Worker, x \in joiners'[u]
              PROVE  FALSE
          <6>1. why'[x] = [on |-> "join", target |-> u] /\ u # t
            BY <3>1, <3>a, <5>1, Zenon
          <6> QED
            BY <4>2, <6>1
        <5> QED
          BY <5>1, Zenon DEF InJoiners
      <4>6. \A d \in Cpu : x \notin wakes[d]
        BY <2>0, <3>c, Zenon DEF Patient, InJoiners
      <4> QED
        BY <3>0, <4>1, <4>3, <4>4, <4>5, <4>6
    <3>d. ASSUME NEW d \in Cpu, x \in wakes[d]
          PROVE  /\ state'[x] = "Blocked" /\ Over(x)'
                 /\ ~InSleepers(x)' /\ ~InJoiners(x)'
                 /\ \A e \in Cpu : x \in wakes[e] => e = d
      <4>1. ~InSleepers(x)'
        BY <1>2, <2>0, <3>d, Zenon DEF Patient, InSleepers
      <4>2. ~InJoiners(x)'
        BY <2>0, <3>1, <3>d, Zenon DEF Patient, InJoiners
      <4> QED
        BY <1>6, <2>0, <3>0, <3>d, <4>1, <4>2, ZenonT(30) DEF Patient
    <3>e. ASSUME NEW d \in Cpu, x \in wakes'[d]
          PROVE  /\ state'[x] = "Blocked" /\ Over(x)'
                 /\ ~InSleepers(x)' /\ ~InJoiners(x)'
                 /\ \A e \in Cpu : x \in wakes'[e] => e = d
      <4>1. CASE d = c
        <5>1. x \in joiners[t]
          BY <1>3, <3>e, <4>1
        <5> QED
          BY <1>3, <3>c, <4>1, <5>1, Zenon
      <4>2. CASE d # c
        <5>1. x \in wakes[d] /\ x \notin joiners[t]
          BY <1>3, <3>c, <3>e, <4>2, Zenon
        <5> QED
          BY <1>3, <3>d, <4>2, <5>1, Zenon
      <4> QED
        BY <4>1, <4>2
    <3>f. state'[x] # "Blocked" => Over(x)'
      BY <1>6, <2>0, <3>0, Zenon DEF Patient
    <3>g. why'[x].on = "join" /\ state'[x] = "Blocked" =>
            x \in joiners'[why'[x].target] \/ \E d \in Cpu : x \in wakes'[d]
      <4>1. SUFFICES ASSUME why[x].on = "join", state[x] = "Blocked"
                     PROVE  x \in joiners'[why[x].target] \/ \E d \in Cpu : x \in wakes'[d]
        BY <3>0
      <4>2. x \in joiners[why[x].target] \/ \E d \in Cpu : x \in wakes[d]
        BY <2>0, <4>1, Zenon DEF Patient
      <4>3. why[x].target \in Worker
        <5>1. why[x] \in Reasons
          BY <2>0, Basics DEF WaitInv
        <5> QED
          BY <4>1, <5>1 DEF Reasons, Woken
      <4>4. \A d \in Cpu : x \in wakes[d] => x \in wakes'[d]
        BY <1>1, <1>3, Zenon
      <4> QED
        BY <1>3, <4>2, <4>3, <4>4, Zenon
    <3> QED
      BY <3>a, <3>b, <3>e, <3>f, <3>g, Zenon DEF Patient
  <2> QED
    BY <2>1, <2>2
<1> QED
  BY <1>2, <1>4, <1>7 DEF WaitInv

\* unblock from elsewhere, or one round of a loop that hands out wakes: the wake is not
\* in vain, for its thread is in THREADS.
LEMMA WakeWaits ==
  ASSUME Inv, Inv', ClockInv, WaitInv, NEW c \in Cpu, NEW u \in Worker,
         HandOutWake(c, u) \/ (u \in MayWake /\ Unblock(c, u))
  PROVE  ClockInv' /\ WaitInv'
<1>1. /\ UNCHANGED <<threads, sleepers, nextWake, now, joiners, why, standing, pc, arg>>
      /\ state' = IF u \in threads /\ state[u] = "Blocked"
                  THEN [state EXCEPT ![u] = "Ready"] ELSE state
  BY DEF HandOutWake, Unblock, Wake, clock, local, machine
<1>2. /\ \A x \in Worker : x # u => state'[x] = state[x]
      /\ state[u] = "Blocked" => state'[u] = "Ready"
      /\ state[u] # "Blocked" => state'[u] = state[u]
  BY <1>1, Basics DEF Inv, TypeOK, StackTypes, ClockInv, Listed
<1>3. \/ wakes' = wakes /\ u \in MayWake
      \/ /\ pc[c] = "wake" /\ u \in wakes[c]
         /\ wakes' = [wakes EXCEPT ![c] = wakes[c] \ {u}]
  BY Zenon DEF HandOutWake, Unblock, local
<1>4. /\ \A x \in Worker : x # u => \A d \in Cpu : x \in wakes'[d] <=> x \in wakes[d]
      /\ \A d \in Cpu : wakes'[d] \subseteq wakes[d]
      /\ u \notin MayWake => u \in wakes[c] /\ u \notin wakes'[c]
  BY <1>3, WaitTypes
<1>5. ClockInv'
  <2>1. \A d \in Cpu : Handing(d)'
    BY <1>1, <1>4 DEF ClockInv, Handing
  <2>2. \A s \in sleepers' : Covered(s)'
    BY <1>1, Zenon DEF ClockInv, Covered
  <2>3. \A x \in Worker : Listed(x)'
    BY <1>1, <1>2, Zenon DEF ClockInv, Listed
  <2>4. ASSUME NEW x \in Worker PROVE Slept(x)'
    <3>1. CASE x = u
      BY <1>2, <3>1 DEF Slept
    <3>2. CASE x # u
      BY <1>1, <1>2, <1>4, <3>2, Zenon DEF ClockInv, Slept
    <3> QED
      BY <3>1, <3>2
  <2> QED
    BY <2>1, <2>2, <2>3, <2>4 DEF ClockInv
<1>6. \A x \in Worker : state'[x] = "Finished" <=> state[x] = "Finished"
  BY <1>2
<1>7. ASSUME NEW x \in Worker \ MayWake PROVE Patient(x)'
  <2>1. CASE x # u
    <3>1. Bystander(x)
      BY <1>1, <1>2, <1>4, <2>1, Zenon DEF Bystander
    <3> QED
      BY <1>1, <1>6, <3>1, BystanderKeeps
  <2>2. CASE x = u
    <3>1. u \in wakes[c] /\ u \notin wakes'[c] /\ Patient(u)
      BY <1>4, <2>2, Zenon DEF WaitInv
    <3>2. /\ state[u] = "Blocked" /\ Over(u) /\ ~InSleepers(u) /\ ~InJoiners(u)
          /\ \A d \in Cpu : u \in wakes[d] => d = c
      BY <3>1, Zenon DEF Patient
    <3>3. /\ \A d \in Cpu : u \notin wakes'[d]
          /\ \A s \in sleepers' : s.id # u
          /\ \A y \in Worker : u \notin joiners'[y]
      BY <1>1, <1>4, <3>1, <3>2 DEF InSleepers, InJoiners
    <3>4. Over(u)'
      <4>1. now \in Nat /\ now' \in Nat /\ now <= now'
        BY <1>1, BoundAssumption DEF Inv, TypeOK, ClockTypes
      <4> QED
        BY <1>1, <1>6, <3>2, <4>1, OverStays, Zenon DEF WaitInv
    <3>5. state'[u] # "Blocked"
      BY <1>2, <3>2
    <3> QED
      BY <2>2, <3>3, <3>4, <3>5, Zenon DEF Patient
  <2> QED
    BY <2>1, <2>2
<1> QED
  BY <1>1, <1>5, <1>7 DEF WaitInv

\* wake_due_sleepers: who is due goes from SLEEPERS to the wakes, and NEXT_WAKE is the
\* earliest of the rest.
LEMMA WakeDueWaits ==
  ASSUME Inv, Inv', ClockInv, WaitInv, NEW c \in Cpu, WakeDueSleepers(c)
  PROVE  ClockInv' /\ WaitInv'
<1>1. /\ UNCHANGED <<state, threads, now, joiners, why, standing>>
      /\ pc[c] = "collect" /\ pc' = [pc EXCEPT ![c] = "wake"]
      /\ arg' = [arg EXCEPT ![c] = NoThread]
      /\ sleepers' = sleepers \ DueNow(c)
      /\ nextWake' = Min({Never} \cup {s.deadline : s \in sleepers'})
      /\ wakes' = [wakes EXCEPT ![c] = {s.id : s \in DueNow(c)}]
  BY DEF WakeDueSleepers, LeftAsleep, tcb, machine
<1>2. /\ wakes[c] = {} /\ arg[c] \in Nat /\ now \in Nat /\ arg[c] <= now
      /\ \A s \in sleepers : s.deadline \in Nat
  <2>1. wakes[c] = {} /\ arg[c] <= now
    BY <1>1 DEF ClockInv, Handing
  <2>2. arg[c] \in Nat
    BY <1>1, BoundAssumption DEF Inv, SchedInv, ArgInv
  <2>3. now \in Nat /\ \A s \in sleepers : s.deadline \in Nat
    BY BoundAssumption DEF Inv, TypeOK, ClockTypes
  <2> QED
    BY <2>1, <2>2, <2>3, Zenon
<1>3. /\ wakes'[c] = {s.id : s \in DueNow(c)} /\ pc'[c] = "wake"
      /\ \A d \in Cpu : d # c => wakes'[d] = wakes[d] /\ pc'[d] = pc[d] /\ arg'[d] = arg[d]
  BY <1>1, WaitTypes
<1>4. \A s : s \in DueNow(c) <=> s \in sleepers /\ s.deadline <= arg[c]
  BY DEF DueNow
<1>5. ClockInv'
  <2>1. \A d \in Cpu : Handing(d)'
    BY <1>1, <1>3, Zenon DEF ClockInv, Handing
  <2>2. \A s \in sleepers' : nextWake' <= s.deadline
    <3>1. {Never} \cup {s.deadline : s \in sleepers'} \subseteq Nat
      BY <1>1, <1>2, BoundAssumption DEF Never
    <3> QED
      BY <1>1, <3>1, MinIsLeast
  <2>3. \A s \in sleepers' : Covered(s)'
    BY <2>2, Zenon DEF Covered
  <2>4. \A x \in Worker : Listed(x)'
    BY <1>1, Zenon DEF ClockInv, Listed
  <2>5. ASSUME NEW x \in Worker PROVE Slept(x)'
    <3>1. Slept(x)
      BY Zenon DEF ClockInv
    <3>2. ASSUME NEW s \in sleepers, s.id = x
          PROVE  (\E r \in sleepers' : r.id = x) \/ x \in wakes'[c]
      BY <1>1, <1>3, <3>2
    <3>3. \A d \in Cpu : x \in wakes[d] => x \in wakes'[d]
      BY <1>2, <1>3, Zenon
    <3> QED
      BY <1>1, <3>1, <3>2, <3>3, Zenon DEF Slept
  <2> QED
    BY <2>1, <2>3, <2>4, <2>5 DEF ClockInv
<1>6. ASSUME NEW x \in Worker \ MayWake PROVE Patient(x)'
  <2>0. Patient(x) /\ x \in Worker
    BY Zenon DEF WaitInv
  <2>1. Over(x)' <=> Over(x)
    BY <1>1, Zenon DEF Over
  <2>2. sleepers' \subseteq sleepers
    BY <1>1
  <2>3. InJoiners(x)' <=> InJoiners(x)
    BY <1>1, Zenon DEF InJoiners
  <2>4. ASSUME NEW s \in DueNow(c), s.id = x
        PROVE  /\ state[x] = "Blocked" /\ Over(x) /\ ~InSleepers(x)' /\ ~InJoiners(x)
               /\ \A d \in Cpu : x \notin wakes[d]
    <3>1. /\ state[x] = "Blocked" /\ why[x] = [on |-> "sleep", until |-> s.deadline]
          /\ s \in sleepers /\ s.deadline <= arg[c]
      BY <1>4, <2>0, <2>4, Zenon DEF Patient
    <3>2. why[x].on = "sleep" /\ why[x].until = s.deadline
      BY <3>1
    <3>3. Over(x)
      BY <1>2, <3>1, <3>2 DEF Over
    <3>4. ASSUME NEW r \in sleepers', r.id = x
          PROVE  FALSE
      <4>1. why[x] = [on |-> "sleep", until |-> r.deadline]
        BY <2>0, <2>2, <3>4 DEF Patient
      <4>2. r.deadline = s.deadline
        BY <3>2, <4>1
      <4> QED
        BY <1>1, <1>4, <2>2, <3>1, <3>4, <4>2
    <3>5. ASSUME NEW u \in Worker, x \in joiners[u]
          PROVE  FALSE
      <4>1. why[x] = [on |-> "join", target |-> u]
        BY <2>0, <3>5, Zenon DEF Patient
      <4> QED
        BY <3>2, <4>1
    <3>6. \A d \in Cpu : x \notin wakes[d]
      BY <2>0, <2>4, <3>1, Zenon DEF Patient, InSleepers
    <3> QED
      BY <3>1, <3>3, <3>4, <3>5, <3>6, Zenon DEF InSleepers, InJoiners
  <2>5. ASSUME NEW d \in Cpu, x \in wakes'[d]
        PROVE  /\ state[x] = "Blocked" /\ Over(x) /\ ~InSleepers(x)' /\ ~InJoiners(x)
               /\ \A e \in Cpu : x \in wakes'[e] => e = d
    <3>1. CASE d = c
      <4>1. PICK s \in DueNow(c) : s.id = x
        BY <1>3, <2>5, <3>1
      <4> QED
        BY <1>3, <2>4, <3>1, <4>1, Zenon
    <3>2. CASE d # c
      <4>1. x \in wakes[d]
        BY <1>3, <2>5, <3>2
      <4>2. /\ state[x] = "Blocked" /\ Over(x) /\ ~InSleepers(x) /\ ~InJoiners(x)
            /\ \A e \in Cpu : x \in wakes[e] => e = d
        BY <2>0, <4>1, Zenon DEF Patient
      <4>3. ~InSleepers(x)'
        BY <2>2, <4>2, Zenon DEF InSleepers
      <4>4. x \notin wakes'[c]
        <5>1. ASSUME NEW s \in DueNow(c), s.id = x PROVE FALSE
          BY <2>4, <4>1, <5>1, Zenon
        <5> QED
          BY <1>3, <5>1
      <4> QED
        BY <1>3, <4>2, <4>3, <4>4, Zenon
    <3> QED
      BY <3>1, <3>2
  <2>6. why[x].on = "join" /\ state[x] = "Blocked" =>
          x \in joiners[why[x].target] \/ \E d \in Cpu : x \in wakes'[d]
    <3>1. \A d \in Cpu : x \in wakes[d] => x \in wakes'[d]
      BY <1>2, <1>3, Zenon
    <3> QED
      BY <2>0, <3>1, Zenon DEF Patient
  <2> QED
    BY <1>1, <2>0, <2>1, <2>2, <2>3, <2>5, <2>6, Zenon DEF Patient
<1> QED
  BY <1>1, <1>5, <1>6 DEF WaitInv

\* At the start nobody waits.
LEMMA InitWaits ==
  ASSUME Init
  PROVE  ClockInv /\ WaitInv
<1>1. Woken.on = "wake" /\ Woken \in Reasons
  BY DEF Woken, Reasons
<1>2. /\ sleepers = {} /\ \A c \in Cpu : wakes[c] = {} /\ pc[c] = "out"
      /\ \A t \in Worker : why[t] = Woken /\ joiners[t] = {}
      /\ why \in [Thread -> Reasons]
  BY <1>1, Basics DEF Init
<1>3. \A t \in Worker : Listed(t)
  BY Basics DEF Init, Listed
<1>4. \A t \in Worker : Slept(t) /\ Over(t)
  BY <1>1, <1>2 DEF Slept, Over
<1>5. ClockInv
  BY <1>2, <1>3, <1>4 DEF ClockInv, Handing
<1>6. ASSUME NEW t \in Worker \ MayWake PROVE Patient(t)
  BY <1>1, <1>2, <1>4 DEF Patient
<1> QED
  BY <1>2, <1>5, <1>6 DEF WaitInv

\* Every step of the scheduler keeps both.
LEMMA NextWaits ==
  ASSUME Inv, Inv', QueueInv, ClockInv, WaitInv, [Next]_vars
  PROVE  ClockInv' /\ WaitInv'
<1>0. ASSUME NEW c \in Cpu, Steady(c) PROVE ClockInv' /\ WaitInv'
  BY <1>0, SteadyKeeps
<1>1. CASE UNCHANGED vars
  <2>1. UNCHANGED <<state, threads, sleepers, nextWake, now, joiners, wakes, why, standing,
                    pc, arg>>
    BY <1>1 DEF vars, tcb, clock, local, machine
  <2>2. ClockInv'
    BY <2>1, Zenon DEF ClockInv, Handing, Covered, Listed, Slept
  <2>3. ASSUME NEW t \in Worker \ MayWake PROVE Patient(t)'
    <3>1. Bystander(t)
      BY <2>1, Zenon DEF Bystander
    <3> QED
      BY <2>1, <3>1, BystanderKeeps
  <2> QED
    BY <2>1, <2>2, <2>3 DEF WaitInv
<1>2. ASSUME NEW c \in Cpu, Request(c)
      PROVE  ClockInv' /\ WaitInv'
  <2>1. CASE AdoptSecondaryCpu(c) \/ \E u \in Worker, p \in Priorities : Spawn(c, u, p)
    BY <1>0, <2>1, NewcomerIsSteady
  <2>2. CASE \E u \in Worker, p \in Priorities : SetPriority(c, u, p)
    BY <1>0, <2>2, TickIsSteady
  <2>3. CASE \E t \in Worker : BlockCurrent(c, t)
    BY <2>3, BlockCurrentWaits
  <2>4. CASE \E t \in Worker, n \in 1..MaxSleep : SleepTicks(c, t, n)
    BY <2>4, SleepTicksWaits
  <2>5. CASE \E t \in Worker, u \in Joinable : Join(c, t, u)
    BY <2>5, JoinWaiting
  <2>6. CASE \E t \in Worker : ExitCurrent(c, t)
    BY <2>6, ExitCurrentWaits
  <2>7. CASE \E t \in Worker : YieldNow(c, t)
    BY <1>0, <2>7, QuietSteps
  <2>8. CASE \E u \in MayWake : Unblock(c, u)
    BY <2>8, WakeWaits, ChoiceAssumption
  <2> QED
    BY <1>2, <2>1, <2>2, <2>3, <2>4, <2>5, <2>6, <2>7, <2>8, Zenon DEF Request
<1>3. ASSUME NEW c \in Cpu, TimerTick(c)
      PROVE  ClockInv' /\ WaitInv'
  BY <1>0, <1>3, TickIsSteady
<1>4. ASSUME NEW c \in Cpu, Proceed(c)
      PROVE  ClockInv' /\ WaitInv'
  <2>1. CASE SpawnEnqueue(c) \/ WakesDone(c) \/ ParkSchedule(c) \/ EnterSchedule(c)
             \/ Steal(c) \/ ContextSwitch(c) \/ Arrive(c)
    BY <1>0, <2>1, QuietSteps
  <2>2. CASE PublishDeadline(c)
    BY <2>2, PublishDeadlineWaits
  <2>3. CASE \E u \in Worker : HandOutWake(c, u)
    BY <2>3, WakeWaits
  <2>4. CASE WakeDueSleepers(c)
    BY <2>4, WakeDueWaits
  <2>5. CASE Bury(c) \/ \E order \in PickOrders : Pick(c, order)
    BY <1>0, <2>5, SwitchIsSteady
  <2> QED
    BY <1>4, <2>1, <2>2, <2>3, <2>4, <2>5, Zenon DEF Proceed
<1> QED
  BY <1>1, <1>2, <1>3, <1>4 DEF Next

\* SLEEPERS, NEXT_WAKE, the lists of joiners and the wakes on their way fit what the
\* threads wait for.
THEOREM WaitsInductive == Spec => [](ClockInv /\ WaitInv)
BY InitWaits, NextWaits, QueuesInductive, Inductive, PTL DEF Spec

\* The check of NEXT_WAKE that on_timer_tick makes without a lock passes over no sleeper
\* that is due, whoever is between its push and its fetch_min, and every sleeping thread
\* is listed or about to be woken.
THEOREM SleepersCovered == Spec => []NextWakeCoversSleepers
BY WaitInvProperties, WaitsInductive, Inductive, PTL

\* join returns only once its target has finished, and the target's exit wakes every
\* thread that joined before it.
THEOREM JoinReturnsAfterExit == Spec => []JoinWaits
BY WaitInvProperties, WaitsInductive, Inductive, PTL

\* sleep_ticks does not return before its deadline.
THEOREM SleepLastsLongEnough == Spec => []SleepIsAFloor
BY WaitInvProperties, WaitsInductive, Inductive, PTL
=============================================================================
