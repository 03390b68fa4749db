-------------------------------- MODULE Ipc --------------------------------
(***************************************************************************)
(* Endpoints, and the kernel's own senders: one-shot timers and device     *)
(* interrupts (kernel/src/ipc.rs, timer.rs, device.rs), with the exit of a  *)
(* thread, which takes all of it back (lib.rs).                            *)
(*                                                                         *)
(* Every critical section of a lock is a step, and so is every access to   *)
(* an atomic outside one; unblock is called outside the registry's lock.   *)
(* Handlers are the interrupt contexts of the processors: what one has     *)
(* collected and not yet delivered is its own.                             *)
(*                                                                         *)
(* No property tells payloads apart, so a queue is the number of its       *)
(* messages.  A thread's quota is fixed by its spawner before it starts.   *)
(***************************************************************************)
EXTENDS Parking, Integers, Sequences, FiniteSets, SequencesExt

CONSTANTS Handler,      \* interrupt contexts
          MaxEndpoint,  \* ids handed out by next_id
          Capacity,     \* of every endpoint's queue
          Quota,        \* each thread's quota::of, as [endpoints |-> n, capabilities |-> m]
          Passed,       \* the sets of rights grant is asked for
          Delays,       \* the delays timers are set with
          IrqHolder,    \* the threads granted the interrupt line
          MaxNow,       \* bound on the tick counter
          MayStray      \* threads that another part of the kernel may wake

ASSUME IpcAssumption ==
  /\ MaxEndpoint \in Nat \ {0} /\ Capacity \in Nat \ {0} /\ MaxNow \in Nat
  /\ Handler \cap Thread = {} /\ MayStray \cup IrqHolder \subseteq Thread
  /\ Quota \in [Thread -> [endpoints : Nat, capabilities : Nat]]
  /\ Delays \subseteq Nat \ {0}

Endpoint == 1 .. MaxEndpoint
Unbound == 0
Never == MaxNow + 1                \* u64::MAX in NEXT
Right == {"SEND", "RECEIVE", "GRANT"}
Actor == Thread \cup Handler

VARIABLES
  nextId, owner,        \* Registry: owner[e] of an endpoint that exists
  queued, waiting,      \* Endpoint::queue and Endpoint::waiting
  rights,               \* Registry::capabilities
  place, on,            \* where a thread is, and the endpoint it is there for
  woken,                \* the waiter deliver popped, for each caller of deliver
  now, timers, next,    \* ticks(), TIMERS and NEXT
  due,                  \* on_tick's local list of endpoints
  boundBy, bound,       \* BOUND_BY and BOUND of one interrupt line
  strayed               \* a wake from elsewhere has been through (history)

registry == <<nextId, owner, queued, waiting, rights>>
clock == <<now, timers, next, due>>
line == <<boundBy, bound>>
ipcVars == <<parking, registry, place, on, woken, clock, line, strayed>>

Live == DOMAIN owner

IpcInit ==
  /\ ParkingInit
  /\ nextId = 1 /\ owner = << >> /\ queued = << >> /\ waiting = << >>
  /\ rights = [t \in Thread |-> [e \in Endpoint |-> {}]]
  /\ place = [t \in Thread |-> "user"] /\ on = [t \in Thread |-> 1]
  /\ woken = [x \in Actor |-> << >>]
  /\ now = 0 /\ timers = {} /\ next = Never
  /\ due = [h \in Handler |-> << >>]
  /\ boundBy = << >> /\ bound = Unbound
  /\ strayed = FALSE

\* A thread that is parked executes nothing.
Here(t, p) == parked[t] = "up" /\ place[t] = p
Goes(t, p) == place' = [place EXCEPT ![t] = p]

-----------------------------------------------------------------------------
(* Capabilities.                                                           *)

\* Registry::add_rights: widening is free, a new entry needs room.
HasRoom(t, e) ==
  rights[t][e] # {} \/ Cardinality({f \in Endpoint : rights[t][f] # {}}) < Quota[t].capabilities
Added(t, e, r) == [rights EXCEPT ![t][e] = @ \cup r]

\* create.  An owner without room for the capability gets an error, and the
\* endpoint stays.
Create(t) ==
  /\ Here(t, "user") /\ nextId <= MaxEndpoint
  /\ Cardinality({e \in Live : owner[e] = t}) < Quota[t].endpoints
  /\ nextId' = nextId + 1
  /\ owner' = [e \in Live \cup {nextId} |-> IF e = nextId THEN t ELSE owner[e]]
  /\ queued' = [e \in Live \cup {nextId} |-> IF e = nextId THEN 0 ELSE queued[e]]
  /\ waiting' = [e \in Live \cup {nextId} |-> IF e = nextId THEN << >> ELSE waiting[e]]
  /\ rights' = IF HasRoom(t, nextId) THEN Added(t, nextId, Right) ELSE rights
  /\ UNCHANGED <<parking, place, on, woken, clock, line, strayed>>

\* grant: what the granter holds of what it asks for.
Grant(t, u, e, r) ==
  /\ Here(t, "user") /\ e \in Live
  /\ "GRANT" \in rights[t][e] /\ r \cap rights[t][e] # {} /\ HasRoom(u, e)
  /\ rights' = Added(u, e, r \cap rights[t][e])
  /\ UNCHANGED <<parking, nextId, owner, queued, waiting, place, on, woken, clock, line, strayed>>

-----------------------------------------------------------------------------
(* Sending.                                                                *)

\* deliver under the lock: the message is queued and the oldest waiter popped.  A
\* full queue, or no endpoint, changes nothing.
Deliver(x, e) ==
  IF e \in Live /\ queued[e] < Capacity
  THEN /\ queued' = [queued EXCEPT ![e] = @ + 1]
       /\ IF waiting[e] = << >> THEN UNCHANGED <<woken, waiting>>
          ELSE /\ woken' = [woken EXCEPT ![x] = <<Head(waiting[e])>>]
               /\ waiting' = [waiting EXCEPT ![e] = Tail(@)]
  ELSE UNCHANGED <<queued, woken, waiting>>

\* ... and the unblock outside it.
DeliverWake(x) ==
  /\ woken[x] # << >>
  /\ x \in Thread => Here(x, "user")
  /\ Unblock(woken[x][1])
  /\ woken' = [woken EXCEPT ![x] = << >>]
  /\ UNCHANGED <<registry, place, on, clock, line, strayed>>

\* send, from a thread.
Send(t, e) ==
  /\ Here(t, "user") /\ woken[t] = << >>
  /\ "SEND" \in rights[t][e]
  /\ Deliver(t, e)
  /\ UNCHANGED <<parking, nextId, owner, rights, place, on, clock, line, strayed>>

-----------------------------------------------------------------------------
(* Receiving.                                                              *)

Receive(t, e) ==
  /\ Here(t, "user") /\ woken[t] = << >>
  /\ Goes(t, "look") /\ on' = [on EXCEPT ![t] = e]
  /\ UNCHANGED <<parking, registry, woken, clock, line, strayed>>

\* The waiter is listed unless it is already.
Registered(t, e) ==
  IF \E i \in DOMAIN waiting[e] : waiting[e][i] = t THEN waiting[e] ELSE Append(waiting[e], t)

\* receive under the lock: an error, a message, or the caller is listed.
ReceiveLook(t) ==
  /\ Here(t, "look")
  /\ LET e == on[t] IN
     \/ /\ "RECEIVE" \notin rights[t][e] \/ e \notin Live
        /\ Goes(t, "user") /\ UNCHANGED <<queued, waiting>>
     \/ /\ "RECEIVE" \in rights[t][e] /\ e \in Live /\ queued[e] > 0
        /\ queued' = [queued EXCEPT ![e] = @ - 1]
        /\ Goes(t, "user") /\ UNCHANGED waiting
     \/ /\ "RECEIVE" \in rights[t][e] /\ e \in Live /\ queued[e] = 0
        /\ waiting' = [waiting EXCEPT ![e] = Registered(t, e)]
        /\ Goes(t, "park") /\ UNCHANGED queued
  /\ UNCHANGED <<parking, nextId, owner, rights, on, woken, clock, line, strayed>>

\* A bug to be caught: a thread that is not parked is parked whatever was recorded.
ReceiveParkBlindly(t) ==
  /\ Here(t, "park")
  /\ ParkAfresh(t) /\ Goes(t, "look")
  /\ UNCHANGED <<registry, on, woken, clock, line, strayed>>

\* block_current, after the lock is released; then the loop goes round.
ReceivePark(t) ==
  /\ Here(t, "park")
  /\ BlockCurrent(t) /\ Goes(t, "look")
  /\ UNCHANGED <<registry, on, woken, clock, line, strayed>>

TryReceive(t, e) ==
  /\ Here(t, "user") /\ woken[t] = << >>
  /\ "RECEIVE" \in rights[t][e] /\ e \in Live /\ queued[e] > 0
  /\ queued' = [queued EXCEPT ![e] = @ - 1]
  /\ UNCHANGED <<parking, nextId, owner, waiting, rights, place, on, woken, clock, line, strayed>>

\* A wake meant for something else this thread waited for.
StrayWake(t) ==
  /\ Unblock(t) /\ strayed' = TRUE
  /\ UNCHANGED <<registry, place, on, woken, clock, line>>

-----------------------------------------------------------------------------
(* Timers.                                                                 *)

\* timer::sys_set: one timer per thread and endpoint.  (PER_THREAD is above any
\* MaxEndpoint of interest, so that limit is left out.)
TimerSet(t, e, delay) ==
  /\ Here(t, "user") /\ "RECEIVE" \in rights[t][e]
  /\ now + delay <= MaxNow
  /\ LET others == {timer \in timers : timer.owner # t \/ timer.endpoint # e}
         new == [owner |-> t, endpoint |-> e, deadline |-> now + delay]
     IN  timers' = others \cup {new} /\ next' = Min({next, new.deadline})
  /\ UNCHANGED <<parking, registry, place, on, woken, now, due, line, strayed>>

\* The tick counter, of the boot processor's interrupt.
Tick ==
  /\ now < MaxNow /\ now' = now + 1
  /\ UNCHANGED <<parking, registry, place, on, woken, timers, next, due, line, strayed>>

\* What on_tick stores in NEXT.
Left(left) == Min({Never} \cup {timer.deadline : timer \in left})

\* on_tick, past its look at NEXT and under the lock: collect what is due, and
\* publish the earliest of the rest.
OnTick(h) ==
  /\ due[h] = << >> /\ woken[h] = << >>
  /\ now >= next
  /\ LET expired == {timer \in timers : timer.deadline <= now} IN
     \E list \in SetToSeqs(expired) :
       /\ timers' = timers \ expired
       /\ next' = Left(timers \ expired)
       /\ due' = [due EXCEPT ![h] = [i \in DOMAIN list |-> list[i].endpoint]]
  /\ UNCHANGED <<parking, registry, place, on, woken, now, line, strayed>>

\* One notify of on_tick's loop, or of on_interrupt.
Notify(h) ==
  /\ due[h] # << >> /\ woken[h] = << >>
  /\ Deliver(h, Head(due[h]))
  /\ due' = [due EXCEPT ![h] = Tail(@)]
  /\ UNCHANGED <<parking, nextId, owner, rights, place, on, now, timers, next, line, strayed>>

-----------------------------------------------------------------------------
(* Device interrupts.                                                      *)

\* sys_irq_bind: the checks and the store to BOUND_BY ...
IrqBind(t, e) ==
  /\ Here(t, "user") /\ woken[t] = << >>
  /\ t \in IrqHolder /\ "SEND" \in rights[t][e]
  /\ boundBy' = <<t>> /\ on' = [on EXCEPT ![t] = e] /\ Goes(t, "bind")
  /\ UNCHANGED <<parking, registry, woken, clock, bound, strayed>>

\* ... and the store to BOUND.
IrqBound(t) ==
  /\ Here(t, "bind")
  /\ bound' = on[t] /\ Goes(t, "user")
  /\ UNCHANGED <<parking, registry, on, woken, clock, boundBy, strayed>>

\* device::on_interrupt reads BOUND; its notify is the next step.
OnInterrupt(h) ==
  /\ due[h] = << >> /\ woken[h] = << >> /\ bound # Unbound
  /\ due' = [due EXCEPT ![h] = <<bound>>]
  /\ UNCHANGED <<parking, registry, place, on, woken, now, timers, next, line, strayed>>

-----------------------------------------------------------------------------
(* Exit: release_thread_resources, in its order.                           *)

\* device::release_thread: the look at BOUND_BY, and the two stores.
ExitDevice(t) ==
  /\ Here(t, "user") /\ woken[t] = << >>
  /\ Goes(t, IF boundBy = <<t>> THEN "unbind" ELSE "exit")
  /\ UNCHANGED <<parking, registry, on, woken, clock, line, strayed>>

ExitUnbind(t) ==
  /\ Here(t, "unbind")
  /\ bound' = Unbound /\ Goes(t, "unbindBy")
  /\ UNCHANGED <<parking, registry, on, woken, clock, boundBy, strayed>>

ExitUnbindBy(t) ==
  /\ Here(t, "unbindBy")
  /\ boundBy' = << >> /\ Goes(t, "exit")
  /\ UNCHANGED <<parking, registry, on, woken, clock, bound, strayed>>

\* timer::release_thread.
ExitTimers(t) ==
  /\ Here(t, "exit")
  /\ timers' = {timer \in timers : timer.owner # t} /\ Goes(t, "exitIpc")
  /\ UNCHANGED <<parking, registry, on, woken, now, next, due, line, strayed>>

\* The other waiters of an endpoint.
KeptWaiters(list, t) == SelectSeq(list, LAMBDA u : u # t)

\* ipc::release_thread: capabilities, endpoints and waits, under one lock.  Whoever
\* is parked on an endpoint that goes is not woken.
ExitIpc(t) ==
  /\ Here(t, "exitIpc")
  /\ rights' = [rights EXCEPT ![t] = [e \in Endpoint |-> {}]]
  /\ LET kept == {e \in Live : owner[e] # t} IN
     /\ owner' = [e \in kept |-> owner[e]] /\ queued' = [e \in kept |-> queued[e]]
     /\ waiting' = [e \in kept |-> KeptWaiters(waiting[e], t)]
  /\ Exit(t) /\ Goes(t, "gone")
  /\ UNCHANGED <<nextId, on, woken, clock, line, strayed>>

-----------------------------------------------------------------------------

IpcNext ==
  \/ \E t \in Thread :
       \/ Create(t) \/ ReceiveLook(t) \/ ReceivePark(t) \/ IrqBound(t)
       \/ ExitDevice(t) \/ ExitUnbind(t) \/ ExitUnbindBy(t) \/ ExitTimers(t) \/ ExitIpc(t)
       \/ \E e \in Endpoint :
            \/ Send(t, e) \/ Receive(t, e) \/ TryReceive(t, e) \/ IrqBind(t, e)
            \/ \E d \in Delays : TimerSet(t, e, d)
            \/ \E u \in Thread, r \in Passed : Grant(t, u, e, r)
  \/ \E x \in Actor : DeliverWake(x)
  \/ \E h \in Handler : OnTick(h) \/ Notify(h) \/ OnInterrupt(h)
  \/ \E t \in MayStray : StrayWake(t)
  \/ Tick

IpcSpec == IpcInit /\ [][IpcNext]_ipcVars

-----------------------------------------------------------------------------

\* Receivers that are not in the waiters' list of a live endpoint any more, or not
\* yet: each is going to look at its queue.
Coming(e) ==
  {t \in Thread : on[t] = e /\ place[t] \in {"look", "park"} /\ ~ Contains(waiting[e], t)}

\* While anyone is listed, no more messages are queued than receivers are on their
\* way to take them.
MessagesAwaited ==
  \A e \in Live : waiting[e] # << >> => queued[e] <= Cardinality(Coming(e))

\* receive's comments: no wakeup is lost although the lock is released before the
\* park.  A receiver of a live endpoint that is parked is listed there or somebody
\* is about to unblock it, and no message lies beside a listed receiver while nobody
\* is on the way to it; the latter as long as only senders wake receivers.
NoReceiverStranded ==
  /\ \A t \in Thread :
       parked[t] = "parked" /\ on[t] \in Live =>
         Contains(waiting[on[t]], t) \/ \E x \in Actor : woken[x] = <<t>>
  /\ strayed \/ MessagesAwaited

\* "The earliest deadline, so a tick with nothing due never takes the lock": no
\* timer's deadline is before NEXT, so none is passed over.
NextCoversTimers == \A timer \in timers : next <= timer.deadline

\* release_thread: a thread that is gone owns no endpoint, waits in no list, and has
\* no timer left.
ExitForgets ==
  \A t \in Thread : place[t] = "gone" =>
    /\ \A e \in Live : owner[e] # t /\ ~ Contains(waiting[e], t)
    /\ \A timer \in timers : timer.owner # t
=============================================================================
