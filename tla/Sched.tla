------------------------------- MODULE Sched -------------------------------
(***************************************************************************)
(* The preemptive scheduler across every processor                         *)
(* (kernel/src/sched/mod.rs and sched/thread.rs).                          *)
(*                                                                         *)
(* One action is one critical section under a processor's lock, or one     *)
(* step between two of them, so every point where another processor can    *)
(* come in between is a state.  The processor locks themselves are ticket  *)
(* locks (module TicketLock), always taken in index order by lock_pair.    *)
(*                                                                         *)
(* A processor c executes the thread standing[c]: the stack its stack      *)
(* pointer is in, which is a fact about the hardware and not a field of    *)
(* the code.  saved[t] says that stack_pointer of t holds the registers    *)
(* that t was last switched away with (or its fabricated first frame).     *)
(*                                                                         *)
(* The joiner lists, SLEEPERS and the wakes still to be handed out are     *)
(* sets: they are handed out in any order, and what a repeated entry would *)
(* add, a second wake of a thread that something else woke in between, is  *)
(* among the wakes MayWake allows.                                         *)
(***************************************************************************)
EXTENDS ReadyQueue

CONSTANTS Cpu,        \* the processors
          Boot,       \* processor 0, which keeps the clock
          Worker,     \* every thread that is not an idle thread
          BootThread, \* the context that called init()
          Idle,       \* Idle[c]: the idle thread of processor c
          Priorities, \* levels a thread may be given
          MayWake,    \* threads another subsystem may unblock at any moment
          Joinable,   \* threads that some thread may join
          MaxNow,     \* bound on the clock
          MaxSleep    \* longest sleep, in ticks

Thread == Worker \cup {Idle[c] : c \in Cpu}

ASSUME CpuAssumption == Boot \in Cpu
ASSUME WorkerAssumption == BootThread \in Worker /\ NoThread \notin Thread
ASSUME IdleAssumption ==
  /\ DOMAIN Idle = Cpu
  /\ \A c, d \in Cpu : Idle[c] = Idle[d] => c = d
  /\ \A c \in Cpu : Idle[c] \notin Worker
ASSUME ChoiceAssumption ==
  Priorities \subseteq Level /\ MayWake \subseteq Worker /\ Joinable \subseteq Worker
ASSUME BoundAssumption == MaxNow \in Nat /\ MaxSleep \in Nat

\* u64::MAX in NEXT_WAKE: no deadline.  No deadline of the model reaches it.
Never == MaxNow + 1

VARIABLES
  \* Thread: the control block of every thread.
  state, priority, joiners, wakePending, onCpu, owner,
  \* Cpu: what each processor's lock protects.
  ready, current, pending, reaped,
  \* THREADS, the mapped kernel stacks, SLEEPERS, NEXT_WAKE and the clock.
  threads, stacks, sleepers, nextWake, now,
  \* Where each processor is in the scheduler, its local value, the wakes it
  \* still has to hand out, and what it has to bury.
  pc, arg, wakes, burying,
  \* The hardware, and where a thread goes on when it next runs.
  standing, saved, at,
  \* History: what each thread last parked for.
  why

tcb == <<state, priority, joiners, wakePending, onCpu, owner>>
cpus == <<ready, current, pending, reaped>>
clock == <<sleepers, nextWake, now>>
local == <<pc, arg, wakes, burying>>
machine == <<standing, saved, at>>
vars == <<tcb, cpus, threads, stacks, clock, local, machine, why>>

Woken == [on |-> "wake"]

Init ==
  /\ state = [t \in Thread |-> IF t = BootThread THEN "Running"
                               ELSE IF t = Idle[Boot] THEN "Ready" ELSE "Unborn"]
  /\ priority = [t \in Thread |-> IF t = Idle[Boot] THEN 0 ELSE 1]
  /\ joiners = [t \in Thread |-> {}]
  /\ wakePending = [t \in Thread |-> FALSE]
  /\ onCpu = [t \in Thread |-> t = BootThread]
  /\ owner = [t \in Thread |-> Boot]
  /\ ready = [c \in Cpu |-> EmptyQueues]
  /\ current = [c \in Cpu |-> IF c = Boot THEN BootThread ELSE NoThread]
  /\ pending = [c \in Cpu |-> NoThread]
  /\ reaped = [c \in Cpu |-> {}]
  /\ threads = {BootThread, Idle[Boot]}
  /\ stacks = {Idle[Boot]}
  /\ sleepers = {}
  /\ nextWake = Never
  /\ now = 0
  /\ pc = [c \in Cpu |-> "out"]
  /\ arg = [c \in Cpu |-> NoThread]
  /\ wakes = [c \in Cpu |-> {}]
  /\ burying = [c \in Cpu |-> {}]
  /\ standing = [c \in Cpu |-> IF c = Boot THEN BootThread ELSE NoThread]
  /\ saved = [t \in Thread |-> t = Idle[Boot]]
  /\ at = [t \in Thread |-> "free"]
  /\ why = [t \in Thread |-> Woken]

-----------------------------------------------------------------------------
\* Who may act.

\* Processor c runs with interrupts enabled, outside the scheduler.
Open(c) == pc[c] = "out" /\ current[c] # NoThread

\* The thread on c executes ordinary code and may call into the scheduler.
Calls(c, t) == Open(c) /\ t = standing[c] /\ t \in Worker /\ at[t] = "free"

\* Nobody is inside c's lock.  Only sleep_ticks spans two steps under it.
Unlocked(c) == pc[c] # "publish"

-----------------------------------------------------------------------------
\* Coming up, and new threads.

\* adopt_secondary_cpu: the context c is already in becomes its idle thread.
AdoptSecondaryCpu(c) ==
  LET t == Idle[c]
  IN  /\ current[c] = NoThread
      /\ state' = [state EXCEPT ![t] = "Running"]
      /\ onCpu' = [onCpu EXCEPT ![t] = TRUE]
      /\ owner' = [owner EXCEPT ![t] = c]
      /\ threads' = threads \cup {t}
      /\ current' = [current EXCEPT ![c] = t]
      /\ standing' = [standing EXCEPT ![c] = t]
      /\ UNCHANGED <<priority, joiners, wakePending, ready, pending, reaped, stacks, clock, local, saved, at, why>>

\* spawn_inner, up to the push on THREADS: the thread exists and is not queued.
Spawn(c, u, p) ==
  /\ \E t \in Worker : Calls(c, t)
  /\ state[u] = "Unborn"
  /\ state' = [state EXCEPT ![u] = "Ready"]
  /\ priority' = [priority EXCEPT ![u] = p]
  /\ owner' = [owner EXCEPT ![u] = c]
  /\ saved' = [saved EXCEPT ![u] = TRUE]
  /\ threads' = threads \cup {u}
  /\ stacks' = stacks \cup {u}
  /\ pc' = [pc EXCEPT ![c] = "spawn"]
  /\ arg' = [arg EXCEPT ![c] = u]
  /\ UNCHANGED <<joiners, wakePending, onCpu, cpus, clock, wakes, burying, standing,
                 at, why>>

\* spawn_inner's last step: onto the spawner's queue.
SpawnEnqueue(c) ==
  /\ pc[c] = "spawn"
  /\ ready' = [ready EXCEPT ![c] = Enqueue(@, priority[arg[c]], arg[c])]
  /\ pc' = [pc EXCEPT ![c] = "out"]
  /\ arg' = [arg EXCEPT ![c] = NoThread]
  /\ UNCHANGED <<tcb, current, pending, reaped, threads, stacks, clock,
                 wakes, burying, machine, why>>

\* set_priority: a queued thread stays where it is filed.
SetPriority(c, u, p) ==
  /\ \E t \in Worker : Calls(c, t)
  /\ u \in threads
  /\ Unlocked(owner[u])
  /\ priority' = [priority EXCEPT ![u] = p]
  /\ UNCHANGED <<state, joiners, wakePending, onCpu, owner, cpus, threads, stacks,
                 clock, local, machine, why>>

-----------------------------------------------------------------------------
\* Parking and waking.

\* A bug to be caught: block_current parks without looking for a recorded wake.
BlockCurrentBlindly(c, t) ==
  /\ Calls(c, t)
  /\ state' = [state EXCEPT ![t] = "Blocked"]
  /\ at' = [at EXCEPT ![t] = "parking"]
  /\ why' = [why EXCEPT ![t] = Woken]
  /\ UNCHANGED <<priority, joiners, wakePending, onCpu, owner, cpus, threads, stacks,
                 clock, local, standing, saved>>

\* block_current: a recorded wake is consumed instead of parking.  Interrupts
\* are on again before schedule() is called.
BlockCurrent(c, t) ==
  /\ Calls(c, t)
  /\ IF wakePending[t]
     THEN /\ wakePending' = [wakePending EXCEPT ![t] = FALSE]
          /\ UNCHANGED <<state, at, why>>
     ELSE /\ state' = [state EXCEPT ![t] = "Blocked"]
          /\ at' = [at EXCEPT ![t] = "parking"]
          /\ why' = [why EXCEPT ![t] = Woken]
          /\ UNCHANGED wakePending
  /\ UNCHANGED <<priority, joiners, onCpu, owner, cpus, threads, stacks, clock, local,
                 standing, saved>>

\* A woken thread may go to the waker's queue: no processor stands on its stack.
MovableIfParked(u) == state[u] = "Blocked"   \* Mutant: the on_cpu test is missing.
Movable(u) == state[u] = "Blocked" /\ ~onCpu[u]

\* The body of unblock, run by processor c under its own lock and the owner's: a
\* parked thread becomes Ready, and is queued on c unless a processor still
\* stands on its stack; for any other live thread the wake is recorded.
Wake(c, u) ==
  LET parked == u \in threads /\ state[u] = "Blocked"
      move   == u \in threads /\ Movable(u)
  IN  /\ u \in threads => Unlocked(owner[u])
      /\ state' = IF parked THEN [state EXCEPT ![u] = "Ready"] ELSE state
      /\ wakePending' = IF u \in threads /\ ~parked /\ state[u] # "Finished"
                        THEN [wakePending EXCEPT ![u] = TRUE] ELSE wakePending
      /\ owner' = IF move THEN [owner EXCEPT ![u] = c] ELSE owner
      /\ ready' = IF move THEN [ready EXCEPT ![c] = Enqueue(@, priority[u], u)]
                          ELSE ready
      /\ UNCHANGED <<priority, joiners, onCpu, current, pending, reaped>>

\* unblock, called by code or an interrupt handler on c that this module does not
\* model.
Unblock(c, u) ==
  /\ Open(c)
  /\ Wake(c, u)
  /\ UNCHANGED <<threads, stacks, clock, local, machine, why>>

\* sleep_ticks under the processor's lock, up to the push on SLEEPERS.
SleepTicks(c, t, n) ==
  /\ Calls(c, t)
  /\ now + n <= MaxNow
  /\ wakePending' = [wakePending EXCEPT ![t] = FALSE]
  /\ state' = [state EXCEPT ![t] = "Blocked"]
  /\ sleepers' = sleepers \cup {[id |-> t, deadline |-> now + n]}
  /\ arg' = [arg EXCEPT ![c] = now + n]
  /\ pc' = [pc EXCEPT ![c] = "publish"]
  /\ why' = [why EXCEPT ![t] = [on |-> "sleep", until |-> now + n]]
  /\ UNCHANGED <<priority, joiners, onCpu, owner, cpus, threads, stacks, nextWake, now,
                 wakes, burying, machine>>

\* NEXT_WAKE.fetch_min: only ever moved earlier here.
PublishedStored(c) == arg[c]            \* Mutant: a plain store.
PublishedNever(c) == nextWake           \* Mutant: not published at all.
Published(c) == Min({nextWake, arg[c]})

\* sleep_ticks: NEXT_WAKE.fetch_min, then the lock goes.
PublishDeadline(c) ==
  /\ pc[c] = "publish"
  /\ nextWake' = Published(c)
  /\ pc' = [pc EXCEPT ![c] = "out"]
  /\ at' = [at EXCEPT ![standing[c]] = "parking"]
  /\ arg' = [arg EXCEPT ![c] = NoThread]
  /\ UNCHANGED <<tcb, cpus, threads, stacks, sleepers, now, wakes, burying, standing,
                 saved, why>>

MustWait(u) == state[u] # "Finished"

\* join, when the target is still running: on its list and parked in one step.
Join(c, t, u) ==
  /\ Calls(c, t)
  /\ u \in threads \ {t}
  /\ Unlocked(owner[u])
  /\ MustWait(u)
  /\ joiners' = [joiners EXCEPT ![u] = @ \cup {t}]
  /\ wakePending' = [wakePending EXCEPT ![t] = FALSE]
  /\ state' = [state EXCEPT ![t] = "Blocked"]
  /\ at' = [at EXCEPT ![t] = "parking"]
  /\ why' = [why EXCEPT ![t] = [on |-> "join", target |-> u]]
  /\ UNCHANGED <<priority, onCpu, owner, cpus, threads, stacks, clock, local, standing,
                 saved>>

JoinersOf(t) == joiners[t]

\* exit_current: Finished and the joiner list taken under one lock, interrupts
\* masked until the thread has been switched away from.
ExitCurrent(c, t) ==
  /\ Calls(c, t)
  /\ state' = [state EXCEPT ![t] = "Finished"]
  /\ joiners' = [joiners EXCEPT ![t] = {}]
  /\ wakes' = [wakes EXCEPT ![c] = JoinersOf(t)]
  /\ pc' = [pc EXCEPT ![c] = "wake"]
  /\ at' = [at EXCEPT ![t] = "exited"]
  /\ UNCHANGED <<priority, wakePending, onCpu, owner, cpus, threads, stacks, clock, arg,
                 burying, standing, saved, why>>

\* One round of the loops in exit_current and wake_due_sleepers.
HandOutWake(c, u) ==
  /\ pc[c] = "wake"
  /\ u \in wakes[c]
  /\ Wake(c, u)
  /\ wakes' = [wakes EXCEPT ![c] = @ \ {u}]
  /\ UNCHANGED <<threads, stacks, clock, pc, arg, burying, machine, why>>

\* Their end: both go on to schedule().
WakesDone(c) ==
  /\ pc[c] = "wake"
  /\ wakes[c] = {}
  /\ pc' = [pc EXCEPT ![c] = "enter"]
  /\ UNCHANGED <<tcb, cpus, threads, stacks, clock, arg, wakes, burying, machine, why>>

-----------------------------------------------------------------------------
\* The timer interrupt.

\* time::tick and the lock-free checks of on_timer_tick: the clock is read, and
\* NEXT_WAKE compared with it.  A slice is one tick, so every tick ends one.
TimerTick(c) ==
  LET tick == IF c = Boot /\ now < MaxNow THEN now + 1 ELSE now
  IN  /\ Open(c)
      /\ now' = tick
      /\ IF tick >= nextWake
         THEN /\ pc' = [pc EXCEPT ![c] = "collect"]
              /\ arg' = [arg EXCEPT ![c] = tick]
         ELSE /\ pc' = [pc EXCEPT ![c] = "enter"]
              /\ UNCHANGED arg
      /\ UNCHANGED <<tcb, cpus, threads, stacks, sleepers, nextWake, wakes, burying,
                     machine, why>>

\* The sleepers due at the tick c read, and those that stay listed.
DueSoon(c) == {s \in sleepers : s.deadline <= arg[c] + 1}     \* Mutant: one early.
DueNow(c) == {s \in sleepers : s.deadline <= arg[c]}
LeftAsleepAll(c) == sleepers                                  \* Mutant: none removed.
LeftAsleep(c) == sleepers \ DueNow(c)

\* wake_due_sleepers under the list's lock.  `now` is the value read earlier.
WakeDueSleepers(c) ==
  /\ pc[c] = "collect"
  /\ sleepers' = LeftAsleep(c)
  /\ nextWake' = Min({Never} \cup {s.deadline : s \in LeftAsleep(c)})
  /\ wakes' = [wakes EXCEPT ![c] = {s.id : s \in DueNow(c)}]
  /\ pc' = [pc EXCEPT ![c] = "wake"]
  /\ arg' = [arg EXCEPT ![c] = NoThread]
  /\ UNCHANGED <<tcb, cpus, threads, stacks, now, burying, machine, why>>

-----------------------------------------------------------------------------
\* schedule(), interrupts masked throughout.

\* yield_now, or sleep_ticks(0).
YieldNow(c, t) ==
  /\ Calls(c, t)
  /\ pc' = [pc EXCEPT ![c] = "enter"]
  /\ UNCHANGED <<tcb, cpus, threads, stacks, clock, arg, wakes, burying, machine, why>>

\* The schedule() that ends block_current, sleep_ticks and join.
ParkSchedule(c) ==
  /\ Open(c)
  /\ at[standing[c]] = "parking"
  /\ at' = [at EXCEPT ![standing[c]] = "free"]
  /\ pc' = [pc EXCEPT ![c] = "enter"]
  /\ UNCHANGED <<tcb, cpus, threads, stacks, clock, arg, wakes, burying, standing,
                 saved, why>>

\* The unlocked look at QUEUED: a processor with an empty queue means to steal
\* from another one it saw threads on.  The counters are read one by one, so the
\* one that looked busiest may be any that was not empty.
EnterSchedule(c) ==
  LET victims == {d \in Cpu \ {c} : Queued(ready[d]) > 0}
  IN  /\ pc[c] = "enter"
      /\ \/ /\ Queued(ready[c]) = 0
            /\ \E d \in victims : arg' = [arg EXCEPT ![c] = d]
            /\ pc' = [pc EXCEPT ![c] = "steal"]
         \/ /\ Queued(ready[c]) > 0 \/ victims = {}
            /\ pc' = [pc EXCEPT ![c] = "pick"]
            /\ UNCHANGED arg
      /\ UNCHANGED <<tcb, cpus, threads, stacks, clock, wakes, burying, machine, why>>

\* The threads pop_from is prepared to return.
Runnable(standingOn) == {t \in Thread : state[t] = "Ready" /\ ~standingOn[t]}

\* steal under both locks: nothing if this queue filled up meanwhile.
Steal(c) ==
  LET d     == arg[c]
      found == PopFrom(ready[d], HighestFirst, Runnable(onCpu))
      rest  == PopRest(ready[d], HighestFirst, Runnable(onCpu))
  IN  /\ pc[c] = "steal"
      /\ Unlocked(d)
      /\ IF Queued(ready[c]) > 0
         THEN UNCHANGED <<owner, ready>>
         ELSE IF found = NoThread
         THEN ready' = [ready EXCEPT ![d] = rest] /\ UNCHANGED owner
         ELSE /\ owner' = [owner EXCEPT ![found] = c]
              /\ ready' = [ready EXCEPT ![d] = rest,
                                        ![c] = Enqueue(@, priority[found], found)]
      /\ pc' = [pc EXCEPT ![c] = "pick"]
      /\ arg' = [arg EXCEPT ![c] = NoThread]
      /\ UNCHANGED <<state, priority, joiners, wakePending, onCpu, current, pending,
                     reaped, threads, stacks, clock, wakes, burying,
                     machine, why>>

\* flush_pending: the thread c switched away from is off its stack.  These are
\* on_cpu of every thread, and c's queues and reaped list, once it is done.
FlushedOnCpu(c) ==
  IF pending[c] = NoThread THEN onCpu ELSE [onCpu EXCEPT ![pending[c]] = FALSE]

\* A bug to be caught: the thread is not queued again.
FlushedReadyNot(c) == ready[c]

FlushedReady(c) ==
  LET t == pending[c]
  IN  IF t # NoThread /\ t # Idle[c] /\ state[t] = "Ready"
      THEN Enqueue(ready[c], priority[t], t) ELSE ready[c]

\* A bug to be caught: a thread that has just finished is buried by its own schedule().
FlushedReapedAtOnce(c) ==
  IF current[c] # NoThread /\ state[current[c]] = "Finished"
  THEN reaped[c] \cup {current[c]} ELSE reaped[c]

FlushedReaped(c) ==
  IF pending[c] # NoThread /\ state[pending[c]] = "Finished"
  THEN reaped[c] \cup {pending[c]} ELSE reaped[c]

\* prepare_switch's on_cpu: the incoming thread's is set, and the outgoing one's
\* left for flush_pending.
SwitchedOnCpuEarly(c, next) ==          \* Mutant: released before the switch.
  [FlushedOnCpu(c) EXCEPT ![current[c]] = FALSE, ![next] = TRUE]
SwitchedOnCpu(c, next) == [FlushedOnCpu(c) EXCEPT ![next] = TRUE]

\* The critical section of schedule(): flush_pending, prepare_switch, and the
\* dead taken for burial.  A switch was decided if pending holds a thread.  The
\* order the levels are tried in depends on the streak, which module Starvation
\* follows: here it is any order pop_runnable ever uses.
Pick(c, order) ==
  LET offCpu == FlushedOnCpu(c)
      found  == PopFrom(FlushedReady(c), order, Runnable(offCpu))
      cur    == current[c]
      next   == IF found = NoThread THEN Idle[c] ELSE found
      stay   == \/ found = NoThread /\ cur # Idle[c] /\ state[cur] = "Running"
                \/ next = cur
  IN  /\ pc[c] = "pick"
      /\ ready' = [ready EXCEPT
                     ![c] = PopRest(FlushedReady(c), order, Runnable(offCpu))]
      /\ burying' = [burying EXCEPT ![c] = FlushedReaped(c)]
      /\ reaped' = [reaped EXCEPT ![c] = {}]
      /\ IF stay
         THEN /\ onCpu' = offCpu
              /\ pending' = [pending EXCEPT ![c] = NoThread]
              /\ UNCHANGED <<state, current>>
         ELSE /\ onCpu' = SwitchedOnCpu(c, next)
              /\ pending' = [pending EXCEPT ![c] = cur]
              /\ current' = [current EXCEPT ![c] = next]
              /\ state' = [state EXCEPT ![cur] = IF @ = "Running" THEN "Ready" ELSE @,
                                        ![next] = "Running"]
      /\ pc' = [pc EXCEPT ![c] = IF FlushedReaped(c) # {} THEN "bury"
                                 ELSE IF stay THEN "out" ELSE "switch"]
      /\ UNCHANGED <<priority, joiners, wakePending, owner, threads, stacks, clock, arg,
                     wakes, machine, why>>

\* bury, with no scheduler lock held and something to bury; then the switch, if
\* there is to be one.
Bury(c) ==
  /\ pc[c] = "bury"
  /\ stacks' = stacks \ burying[c]
  /\ threads' = threads \ burying[c]
  /\ burying' = [burying EXCEPT ![c] = {}]
  /\ pc' = [pc EXCEPT ![c] = IF pending[c] = NoThread THEN "out" ELSE "switch"]
  /\ UNCHANGED <<tcb, cpus, clock, arg, wakes, machine, why>>

\* context_switch: the registers of the outgoing thread are saved and this
\* processor is on the incoming thread's stack.
ContextSwitch(c) ==
  /\ pc[c] = "switch"
  /\ saved' = [saved EXCEPT ![standing[c]] = TRUE, ![current[c]] = FALSE]
  /\ standing' = [standing EXCEPT ![c] = current[c]]
  /\ pc' = [pc EXCEPT ![c] = "arrive"]
  /\ UNCHANGED <<tcb, cpus, threads, stacks, clock, arg, wakes, burying, at, why>>

\* The incoming thread's flush_pending, in schedule() or in the trampoline.
Arrive(c) ==
  /\ pc[c] = "arrive"
  /\ onCpu' = FlushedOnCpu(c)
  /\ ready' = [ready EXCEPT ![c] = FlushedReady(c)]
  /\ reaped' = [reaped EXCEPT ![c] = FlushedReaped(c)]
  /\ pending' = [pending EXCEPT ![c] = NoThread]
  /\ pc' = [pc EXCEPT ![c] = "out"]
  /\ UNCHANGED <<state, priority, joiners, wakePending, owner, current,
                 threads, stacks, clock, arg, wakes, burying, machine, why>>

-----------------------------------------------------------------------------

\* What a thread or a device does of its own accord.
Request(c) ==
  \/ AdoptSecondaryCpu(c)
  \/ \E u \in Worker, p \in Priorities : Spawn(c, u, p) \/ SetPriority(c, u, p)
  \/ \E t \in Worker :
       \/ BlockCurrent(c, t)
       \/ \E n \in 1..MaxSleep : SleepTicks(c, t, n)
       \/ \E u \in Joinable : Join(c, t, u)
       \/ ExitCurrent(c, t)
       \/ YieldNow(c, t)
  \/ \E u \in MayWake : Unblock(c, u)

\* What processor c does next because it is in the middle of something.
Proceed(c) ==
  \/ SpawnEnqueue(c)
  \/ PublishDeadline(c)
  \/ \E u \in Worker : HandOutWake(c, u)
  \/ WakesDone(c)
  \/ WakeDueSleepers(c)
  \/ ParkSchedule(c)
  \/ EnterSchedule(c) \/ Steal(c)
  \/ \E order \in PickOrders : Pick(c, order)
  \/ Bury(c) \/ ContextSwitch(c) \/ Arrive(c)

Next == \E c \in Cpu : Request(c) \/ TimerTick(c) \/ Proceed(c)

Spec == Init /\ [][Next]_vars

\* A processor in the middle of something carries on.  The timer is strongly fair:
\* an interrupt that fires while they are masked stays pending in the APIC and is
\* taken as soon as they are enabled, however briefly.
Fairness == \A c \in Cpu : WF_vars(Proceed(c)) /\ SF_vars(TimerTick(c))

FairSpec == Spec /\ Fairness

-----------------------------------------------------------------------------
\* Properties.

States == {"Unborn", "Ready", "Running", "Blocked", "Finished"}
Places == {"out", "spawn", "publish", "collect", "wake", "enter", "steal", "pick",
           "bury", "switch", "arrive"}

StackTypes ==
  /\ state \in [Thread -> States]
  /\ onCpu \in [Thread -> BOOLEAN]
  /\ current \in [Cpu -> Thread \cup {NoThread}]
  /\ pending \in [Cpu -> Thread \cup {NoThread}]
  /\ pc \in [Cpu -> Places]
  /\ standing \in [Cpu -> Thread \cup {NoThread}]
  /\ saved \in [Thread -> BOOLEAN]
  /\ at \in [Thread -> {"free", "parking", "exited"}]

ThreadTypes ==
  /\ priority \in [Thread -> Level]
  /\ wakePending \in [Thread -> BOOLEAN]
  /\ owner \in [Thread -> Cpu]
  /\ joiners \in [Thread -> SUBSET Worker]
  /\ reaped \in [Cpu -> SUBSET Thread]
  /\ burying \in [Cpu -> SUBSET Thread]
  /\ wakes \in [Cpu -> SUBSET Worker]
  /\ threads \subseteq Thread
  /\ stacks \subseteq Thread

QueueTypes == ready \in [Cpu -> [Level -> Seq(Worker)]]

ClockTypes ==
  /\ now \in 0..MaxNow
  /\ nextWake \in 0..Never
  /\ sleepers \subseteq [id : Worker, deadline : 0..MaxNow]

\* The fields the code declares keep their types, and only workers are queued.
TypeOK == StackTypes /\ ThreadTypes /\ QueueTypes /\ ClockTypes

\* The parts of the inductive invariant behind OneCpuPerStack.

\* What arg holds at each place that reads it.
ArgInv ==
  /\ arg = [c \in Cpu |-> arg[c]]
  /\ \A c \in Cpu :
       /\ pc[c] = "spawn" => arg[c] \in Worker
       /\ pc[c] \in {"publish", "collect"} => arg[c] \in 0..MaxNow
       /\ pc[c] = "steal" => arg[c] \in Cpu \ {c}

\* The stack a processor is on, told from current and pending.
StandingInv ==
  \A c \in Cpu :
    /\ current[c] = NoThread => pc[c] = "out"
    /\ pending[c] # NoThread => pc[c] \in {"bury", "switch", "arrive"}
    /\ pc[c] \in {"switch", "arrive"} => pending[c] # NoThread
    /\ standing[c] = IF pending[c] = NoThread \/ pc[c] = "arrive"
                     THEN current[c] ELSE pending[c]

\* A thread that is some processor's current or pending has on_cpu set, and is
\* that of no other processor.
Holds(c, t) == t # NoThread /\ (t = current[c] \/ t = pending[c])

HeldInv ==
  /\ \A c \in Cpu, t \in Thread : Holds(c, t) => onCpu[t] /\ state[t] # "Unborn"
  /\ \A c, d \in Cpu, t \in Thread : Holds(c, t) /\ Holds(d, t) => c = d
  /\ \A c \in Cpu : pending[c] # NoThread => pending[c] # current[c]

\* Idle threads: "never queued, never moved".
IdleInv ==
  \A c \in Cpu :
    /\ \A d \in Cpu : Holds(d, Idle[c]) => d = c
    /\ state[Idle[c]] \notin {"Blocked", "Finished"}
    /\ current[c] # NoThread => state[Idle[c]] # "Unborn"
    /\ current[c] = Idle[c] => state[Idle[c]] = "Running"

\* A thread no processor stands on has its registers saved.
SavedInv ==
  \A t \in Thread : state[t] # "Unborn" /\ (\A c \in Cpu : standing[c] # t) => saved[t]

\* Code that may call into the scheduler runs on a Running thread.
RunningInv ==
  \A c \in Cpu :
    /\ current[c] # NoThread /\ at[current[c]] = "free"
    /\ pc[c] \in {"out", "spawn", "bury", "switch", "arrive"}
    => state[current[c]] = "Running"

StackInv == StandingInv /\ HeldInv /\ IdleInv /\ SavedInv /\ RunningInv

\* Together: what schedule() and its callers rely on about current, pending and
\* on_cpu whenever another processor can come in between.
SchedInv == ArgInv /\ StackInv

\* Two processors are never on one stack: the hazard on_cpu and Cpu::pending
\* exist for.
OneCpuPerStack ==
  \A c, d \in Cpu : c # d /\ standing[c] # NoThread => standing[c] # standing[d]

\* A thread is never resumed from a stack pointer that has not been written since
\* it last ran (the comment in unblock on the saved stack pointer).
ResumesSavedOnly == \A c \in Cpu : pc[c] = "switch" => saved[current[c]]

\* The invariant pop_from's comment claims: a queued thread is Ready, no processor
\* stands on it, it is queued on the processor that owns it, and only once.
QueuedOnceAndRunnable ==
  \A c \in Cpu, l \in Level : \A i \in 1..Len(ready[c][l]) :
    LET t == ready[c][l][i]
    IN  /\ state[t] = "Ready" /\ ~onCpu[t] /\ owner[t] = c
        /\ \A d \in Cpu, m \in Level : \A j \in 1..Len(ready[d][m]) :
             ready[d][m][j] = t => <<d, m, j>> = <<c, l, i>>

\* No runnable thread is lost: it is on a queue, or a processor that is still on
\* its stack will put it on one, or its spawn has yet to queue it.
ReadyNotLost ==
  \A t \in Worker : state[t] = "Ready" =>
    \E c \in Cpu :
      \/ t \in Waiting(ready[c])
      \/ t = pending[c]
      \/ t = current[c] /\ (at[t] = "parking" \/ pc[c] \in {"enter", "steal", "pick"})
      \/ pc[c] = "spawn" /\ arg[c] = t

\* A parked thread has no recorded wake: unblock on it was never taken for one on
\* a thread that had not parked yet.
ParkedHasNoRecordedWake == \A t \in Thread : state[t] = "Blocked" => ~wakePending[t]

\* A kernel stack is not freed while a processor is on it or about to be, and a
\* finished thread is never run again (exit_current's unreachable!).
NoStackFreedInUse ==
  \A c \in Cpu :
    /\ standing[c] \in Worker \ {BootThread} => standing[c] \in stacks
    /\ pc[c] = "switch" /\ current[c] \in Worker \ {BootThread} => current[c] \in stacks
    /\ pc[c] \in {"out", "arrive"} /\ current[c] # NoThread
         => state[current[c]] # "Finished"

\* join has not returned before its target finished, and the target's exit will not
\* miss a thread that waits for it, for a thread no other subsystem unblocks.
JoinWaits ==
  \A t \in Worker \ MayWake : why[t].on = "join" =>
    IF state[t] = "Blocked"
    THEN t \in joiners[why[t].target] \/ \E c \in Cpu : t \in wakes[c]
    ELSE state[why[t].target] = "Finished"

\* sleep_ticks parks for at least the ticks asked for, "a sleep is a floor", unless
\* another subsystem unblocks the thread.
SleepIsAFloor ==
  \A t \in Worker \ MayWake : why[t].on = "sleep" /\ state[t] # "Blocked" => now >= why[t].until

\* NEXT_WAKE is never later than a listed deadline, except for the one whose
\* sleeper is between the push and the fetch_min, so no tick skips a due sleeper; and
\* every sleeping thread is still listed, or its wake is on its way.
NextWakeCoversSleepers ==
  /\ \A s \in sleepers :
       \/ nextWake <= s.deadline
       \/ \E c \in Cpu : pc[c] = "publish" /\ standing[c] = s.id /\ arg[c] = s.deadline
  /\ \A t \in Worker : why[t].on = "sleep" /\ state[t] = "Blocked" =>
       \/ \E s \in sleepers : s.id = t
       \/ \E c \in Cpu : t \in wakes[c]

\* A thread that is woken, spawned or preempted runs again.
ReadyRuns == \A t \in Worker : state[t] = "Ready" ~> state[t] # "Ready"

\* A sleeper wakes, with no help but the timer's.
SleepEnds == \A t \in Worker :
  (why[t].on = "sleep" /\ state[t] = "Blocked") ~> state[t] # "Blocked"

\* A thread that joins one that has finished comes back.
JoinEnds == \A t \in Worker :
  (why[t].on = "join" /\ state[t] = "Blocked" /\ state[why[t].target] = "Finished")
    ~> state[t] # "Blocked"

\* Neither sleep_ticks nor join leaves its caller blocked for good.
WaitsEnd == SleepEnds /\ JoinEnds

-----------------------------------------------------------------------------
\* What the scheduler is for everything that blocks: module Parking.

ParkedView == [t \in Thread |-> IF state[t] = "Blocked" THEN "parked"
                                ELSE IF state[t] = "Finished" THEN "gone" ELSE "up"]

Abstract == INSTANCE Parking WITH parked <- ParkedView

\* Picking, stealing, switching and preempting neither park nor wake a thread, and
\* every unblock, block_current, sleep, join and exit does what Parking says.
ImplementsParking == Abstract!ParkingSpec
=============================================================================
