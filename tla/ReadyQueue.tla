----------------------------- MODULE ReadyQueue -----------------------------
(***************************************************************************)
(* The ready queues of one processor: three FIFO levels, and the rule that *)
(* decides which level the next thread comes from                          *)
(* (kernel/src/sched/mod.rs, enqueue, pop_from and pop_runnable).          *)
(*                                                                         *)
(* A set of queues is a function from levels to sequences of threads.      *)
(***************************************************************************)
EXTENDS Integers, Sequences, FiniteSetsExt

CONSTANTS NoThread,   \* the None of Option<ThreadRef>
          Guard       \* STARVATION_GUARD: picks from the top before a guarded one

ASSUME GuardAssumption == Guard \in Nat \ {0}

\* Priority::Low, Normal and High as indices of `ready`.
Level == 0..2

EmptyQueues == [l \in Level |-> << >>]

\* QUEUED[cpu]: what the atomic counter holds whenever no queue is being changed.
Queued(q) == Len(q[0]) + Len(q[1]) + Len(q[2])

EnqueueFront(q, l, t) == [q EXCEPT ![l] = <<t>> \o @]   \* Mutant: push_front.
Enqueue(q, l, t) == [q EXCEPT ![l] = Append(@, t)]

\* Every thread some level of q holds.
Waiting(q) == UNION {{q[l][i] : i \in 1..Len(q[l])} : l \in Level}

\* The positions of s that hold a thread of the set `runnable`.
Hits(s, runnable) == {i \in 1..Len(s) : s[i] \in runnable}

\* The places in `order` of the levels that hold a runnable thread.
HitPlaces(q, order, runnable) == {k \in 1..3 : Hits(q[order[k]], runnable) # {}}

\* pop_from's result: the first runnable thread, levels tried in `order`.
PopFrom(q, order, runnable) ==
  LET places == HitPlaces(q, order, runnable)
      level  == order[Min(places)]
  IN  IF places = {} THEN NoThread
                     ELSE q[level][Min(Hits(q[level], runnable))]

AfterHit(s, runnable) ==
  IF Hits(s, runnable) = {} THEN << >>
                            ELSE SubSeq(s, Min(Hits(s, runnable)) + 1, Len(s))

\* What pop_from leaves: levels it tried in vain are empty, later ones untouched.
PopRest(q, order, runnable) ==
  LET places == HitPlaces(q, order, runnable)
      last   == IF places = {} THEN 3 ELSE Min(places)
  IN  [l \in Level |-> IF \E k \in 1..last : order[k] = l
                       THEN AfterHit(q[l], runnable)
                       ELSE q[l]]

HighestFirst == <<2, 1, 0>>

\* The order pop_runnable tries the levels in: the guarded turn goes to Low or
\* Normal in alternation, with the other levels behind it.
PickOrderLowestFirst(streak, boost) ==  \* Mutant: the guarded turn never alternates.
  IF streak < Guard THEN HighestFirst ELSE <<0, 1, 2>>
PickOrder(streak, boost) ==
  IF streak < Guard THEN HighestFirst
  ELSE IF boost = 0 THEN <<0, 1, 2>> ELSE <<1, 0, 2>>

PickOrders == {HighestFirst, <<0, 1, 2>>, <<1, 0, 2>>}

NextStreak(streak) == IF streak >= Guard THEN 0 ELSE streak + 1
NextBoost(streak, boost) == IF streak >= Guard THEN 1 - boost ELSE boost
=============================================================================
