----------------------------- MODULE Starvation -----------------------------
(***************************************************************************)
(* How long a priority level can be passed over on one processor.  Threads *)
(* arrive at any level, the processor picks with pop_runnable, and idle    *)
(* processors steal from the top (kernel/src/sched/mod.rs).  The history   *)
(* variable missed counts, per level, the picks that went elsewhere while  *)
(* that level had a thread waiting.                                        *)
(***************************************************************************)
EXTENDS ReadyQueue

CONSTANTS Task,       \* the threads that queue here
          MaxQueue    \* bound on one level's length

ASSUME TaskAssumption == NoThread \notin Task
ASSUME MaxQueueAssumption == MaxQueue \in Nat

VARIABLES ready, streak, boost, missed

starvationVars == <<ready, streak, boost, missed>>

StarvationInit ==
  /\ ready = EmptyQueues
  /\ streak = 0
  /\ boost = 0
  /\ missed = [l \in Level |-> 0]

\* enqueue: a spawn, a wake or the end of a switch files a thread.
Arrive(l, t) ==
  /\ Len(ready[l]) < MaxQueue
  /\ ready' = Enqueue(ready, l, t)
  /\ UNCHANGED <<streak, boost, missed>>

\* The levels after a pop: one not served and still occupied has missed a turn.
MissedAfter(old, new) ==
  [l \in Level |-> IF new[l] = << >> \/ new[l] # old[l] THEN 0 ELSE missed[l] + 1]

\* pop_runnable by the processor that owns the queues.
Pick ==
  LET order == PickOrder(streak, boost)
  IN  /\ PopFrom(ready, order, Task) # NoThread
      /\ ready' = PopRest(ready, order, Task)
      /\ missed' = MissedAfter(ready, PopRest(ready, order, Task))
      /\ streak' = NextStreak(streak)
      /\ boost' = NextBoost(streak, boost)

\* steal by another processor: it does not count as a turn of this one.
StolenFrom ==
  /\ PopFrom(ready, HighestFirst, Task) # NoThread
  /\ ready' = PopRest(ready, HighestFirst, Task)
  /\ missed' = [l \in Level |-> IF ready'[l] = << >> THEN 0 ELSE missed[l]]
  /\ UNCHANGED <<streak, boost>>

StarvationNext ==
  \/ \E l \in Level, t \in Task : Arrive(l, t)
  \/ Pick
  \/ StolenFrom

StarvationSpec == StarvationInit /\ [][StarvationNext]_starvationVars

-----------------------------------------------------------------------------

StarvationTypeOK ==
  /\ ready \in [Level -> Seq(Task)]
  /\ streak \in 0..Guard
  /\ boost \in {0, 1}
  /\ missed \in [Level -> Nat]

\* No level with a thread waiting is passed over for two guard intervals: Low
\* and Normal are served at least once in every 2 * (STARVATION_GUARD + 1)
\* picks, High at least every second one.
BoundedWait ==
  /\ missed[0] <= 2 * Guard + 1
  /\ missed[1] <= 2 * Guard + 1
  /\ missed[2] <= 1

\* The inductive form: what a level may have missed given how far the streak has
\* run and whose guarded turn is next.
WaitBudget ==
  /\ missed[0] <= streak + (IF boost = 0 THEN Guard + 1 ELSE 0)
  /\ missed[1] <= streak + (IF boost = 1 THEN Guard + 1 ELSE 0)
  /\ missed[2] <= (IF streak = 0 THEN 1 ELSE 0)
=============================================================================
