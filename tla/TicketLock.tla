----------------------------- MODULE TicketLock -----------------------------
(***************************************************************************)
(* Mutex, the ticket lock every other lock of the kernel is or is built    *)
(* on, together with the interrupt masking it does on the processor that   *)
(* takes it (kernel/src/sync.rs, Mutex::lock, try_lock and MutexGuard).    *)
(*                                                                         *)
(* A context is a processor running a thread, or the same processor in the *)
(* interrupt handler that interrupted it: both take the same locks, so a   *)
(* handler arriving at the wrong instant would spin on a lock its own      *)
(* processor holds.  Every access to a shared word is a step of its own.   *)
(*                                                                         *)
(* Locks are numbered and nested in increasing order, as lock_pair takes   *)
(* the processors' locks.  Guards go in reverse order, except inside       *)
(* without_interrupts, where they may go in any (sched's lock_pair relies  *)
(* on it).  Tickets are natural numbers: 2^64 acquisitions of one lock do  *)
(* not happen.                                                             *)
(***************************************************************************)
EXTENDS Integers

CONSTANTS Cpu, Lock,
          Context,    \* who takes locks: each processor's thread and handler
          CpuOf,      \* CpuOf[x]: the processor of context x
          Handler,    \* the contexts that are interrupt handlers
          MaxTicket   \* bound: tickets handed out per lock

ASSUME LockAssumption == Lock \subseteq Nat
ASSUME TicketAssumption == MaxTicket \in Nat
ASSUME ContextAssumption ==
  /\ CpuOf \in [Context -> Cpu] /\ Handler \subseteq Context
  /\ \A x, y \in Context :
       CpuOf[x] = CpuOf[y] /\ (x \in Handler <=> y \in Handler) => x = y

VARIABLES
  nextTicket, nowServing,  \* the two words of each lock
  irq,                     \* are_enabled() on each processor
  inHandler,               \* the processor is in an interrupt handler
  outer,                   \* its thread is inside without_interrupts
  pc, want, ticket, seen,  \* each context: place, lock, ticket, loaded word
  sampled,                 \* restore, as lock() and try_lock() sampled it
  held, restore            \* its guards, and which of them re-enables

words == <<nextTicket, nowServing>>
masks == <<irq, inHandler, outer>>
locals == <<want, ticket, seen, sampled>>
guards == <<held, restore>>
vars == <<words, masks, pc, locals, guards>>

Init ==
  /\ nextTicket = [l \in Lock |-> 0] /\ nowServing = [l \in Lock |-> 0]
  /\ irq = [c \in Cpu |-> TRUE]
  /\ inHandler = [c \in Cpu |-> FALSE] /\ outer = [c \in Cpu |-> FALSE]
  /\ pc = [x \in Context |-> "run"]
  /\ want = [x \in Context |-> 0] /\ ticket = [x \in Context |-> 0]
  /\ seen = [x \in Context |-> 0] /\ sampled = [x \in Context |-> FALSE]
  /\ held = [x \in Context |-> {}]
  /\ restore = [x \in Context |-> {}]

\* The context whose instructions its processor is executing.
Active(x) == inHandler[CpuOf[x]] <=> x \in Handler

At(x, place) == Active(x) /\ pc[x] = place

GoTo(x, place) == pc' = [pc EXCEPT ![x] = place]

\* Locks nest in increasing order.
MayNest(x, l) == \A h \in held[x] : h < l

\* lock() and try_lock() begin alike: sample, then mask.
MaskFirst(x, l, place) ==
  /\ At(x, "run") /\ MayNest(x, l)
  /\ sampled' = [sampled EXCEPT ![x] = irq[CpuOf[x]]]
  /\ irq' = [irq EXCEPT ![CpuOf[x]] = FALSE]
  /\ want' = [want EXCEPT ![x] = l]
  /\ GoTo(x, place)
  /\ UNCHANGED <<words, inHandler, outer, ticket, seen, guards>>

Mask(x, l) == nextTicket[l] < MaxTicket /\ MaskFirst(x, l, "ask")

\* A bug to be caught: the ticket is taken with interrupts still live.
TakeTicketLive(x) ==
  /\ At(x, "ask")
  /\ ticket' = [ticket EXCEPT ![x] = nextTicket[want[x]]]
  /\ nextTicket' = [nextTicket EXCEPT ![want[x]] = @ + 1]
  /\ irq' = [irq EXCEPT ![CpuOf[x]] = sampled[x]]
  /\ GoTo(x, "spin")
  /\ UNCHANGED <<nowServing, inHandler, outer, want, seen, sampled, guards>>

\* next_ticket.fetch_add(1).
TakeTicket(x) ==
  /\ At(x, "ask")
  /\ ticket' = [ticket EXCEPT ![x] = nextTicket[want[x]]]
  /\ nextTicket' = [nextTicket EXCEPT ![want[x]] = @ + 1]
  /\ GoTo(x, "spin")
  /\ UNCHANGED <<nowServing, masks, want, seen, sampled, guards>>

\* The operation is over: its local values are gone.
Forget(x) ==
  /\ pc' = [pc EXCEPT ![x] = "run"]
  /\ want' = [want EXCEPT ![x] = 0] /\ ticket' = [ticket EXCEPT ![x] = 0]
  /\ seen' = [seen EXCEPT ![x] = 0] /\ sampled' = [sampled EXCEPT ![x] = FALSE]

\* The guard lock() and try_lock() return.
Guarded(x) ==
  /\ held' = [held EXCEPT ![x] = @ \cup {want[x]}]
  /\ restore' = [restore EXCEPT ![x] = IF sampled[x] THEN @ \cup {want[x]} ELSE @]

\* A bug to be caught: any ticket at or past one's own will do.
EnterPast(x) ==
  /\ At(x, "spin") /\ nowServing[want[x]] + 1 >= ticket[x]
  /\ Guarded(x) /\ Forget(x)
  /\ UNCHANGED <<words, masks>>

\* The spin on now_serving ends.
Enter(x) ==
  /\ At(x, "spin") /\ nowServing[want[x]] = ticket[x]
  /\ Guarded(x) /\ Forget(x)
  /\ UNCHANGED <<words, masks>>

\* One more turn of the spin: a processor that waits is not stopped.
Spin(x) == At(x, "spin") /\ nowServing[want[x]] # ticket[x] /\ UNCHANGED vars

TryMask(x, l) == nextTicket[l] < MaxTicket /\ MaskFirst(x, l, "peek")

\* try_lock reads now_serving ...
TryLoad(x) ==
  /\ At(x, "peek")
  /\ seen' = [seen EXCEPT ![x] = nowServing[want[x]]]
  /\ GoTo(x, "swap")
  /\ UNCHANGED <<words, masks, want, ticket, sampled, guards>>

\* A bug to be caught: try_lock takes the next number whoever is queued.
TrySwapBlindly(x) ==
  /\ At(x, "swap")
  /\ nextTicket' = [nextTicket EXCEPT ![want[x]] = @ + 1]
  /\ Guarded(x) /\ Forget(x)
  /\ UNCHANGED <<nowServing, masks>>

\* ... and takes a number only if that is the next one, in one exchange.
TrySwap(x) ==
  /\ At(x, "swap")
  /\ IF nextTicket[want[x]] = seen[x]
     THEN /\ nextTicket' = [nextTicket EXCEPT ![want[x]] = seen[x] + 1]
          /\ Guarded(x)
          /\ UNCHANGED irq
     ELSE /\ irq' = [irq EXCEPT ![CpuOf[x]] = sampled[x]]
          /\ UNCHANGED <<nextTicket, guards>>
  /\ Forget(x)
  /\ UNCHANGED <<nowServing, inHandler, outer>>

\* MutexGuard::drop loads now_serving ...
Drop(x, l) ==
  /\ At(x, "run") /\ l \in held[x]
  /\ outer[CpuOf[x]] \/ \A h \in held[x] : h <= l
  /\ want' = [want EXCEPT ![x] = l]
  /\ seen' = [seen EXCEPT ![x] = nowServing[l]]
  /\ GoTo(x, "drop")
  /\ UNCHANGED <<words, masks, ticket, sampled, guards>>

\* ... stores it one higher, which hands the lock on ...
Release(x) ==
  /\ At(x, "drop")
  /\ nowServing' = [nowServing EXCEPT ![want[x]] = seen[x] + 1]
  /\ held' = [held EXCEPT ![x] = @ \ {want[x]}]
  /\ restore' = [restore EXCEPT ![x] = @ \ {want[x]}]
  /\ sampled' = [sampled EXCEPT ![x] = want[x] \in restore[x]]
  /\ GoTo(x, "enable")
  /\ UNCHANGED <<nextTicket, masks, want, ticket, seen>>

\* ... and only then re-enables interrupts, if this guard is to.
Enable(x) ==
  /\ At(x, "enable")
  /\ irq' = [irq EXCEPT ![CpuOf[x]] = @ \/ sampled[x]]
  /\ Forget(x)
  /\ UNCHANGED <<words, inHandler, outer, guards>>

\* without_interrupts around a section of a thread.
MaskSection(x) ==
  /\ At(x, "run") /\ x \notin Handler /\ irq[CpuOf[x]]
  /\ irq' = [irq EXCEPT ![CpuOf[x]] = FALSE]
  /\ outer' = [outer EXCEPT ![CpuOf[x]] = TRUE]
  /\ UNCHANGED <<words, inHandler, pc, locals, guards>>

UnmaskSection(x) ==
  /\ At(x, "run") /\ x \notin Handler /\ outer[CpuOf[x]] /\ held[x] = {}
  /\ irq' = [irq EXCEPT ![CpuOf[x]] = TRUE]
  /\ outer' = [outer EXCEPT ![CpuOf[x]] = FALSE]
  /\ UNCHANGED <<words, inHandler, pc, locals, guards>>

\* The processor takes an interrupt, and returns from it.
Interrupt(x) ==
  /\ x \in Handler /\ irq[CpuOf[x]] /\ ~inHandler[CpuOf[x]]
  /\ inHandler' = [inHandler EXCEPT ![CpuOf[x]] = TRUE]
  /\ irq' = [irq EXCEPT ![CpuOf[x]] = FALSE]
  /\ UNCHANGED <<words, outer, pc, locals, guards>>

Return(x) ==
  /\ At(x, "run") /\ x \in Handler /\ held[x] = {}
  /\ inHandler' = [inHandler EXCEPT ![CpuOf[x]] = FALSE]
  /\ irq' = [irq EXCEPT ![CpuOf[x]] = TRUE]
  /\ UNCHANGED <<words, outer, pc, locals, guards>>

\* What a context that has begun an operation does next.
Step(x) ==
  \/ TakeTicket(x) \/ Enter(x) \/ TryLoad(x) \/ TrySwap(x)
  \/ Release(x) \/ Enable(x)

Next ==
  \E x \in Context :
    \/ Step(x) \/ Spin(x)
    \/ \E l \in Lock : Mask(x, l) \/ TryMask(x, l) \/ Drop(x, l)
    \/ Interrupt(x) \/ Return(x) \/ MaskSection(x) \/ UnmaskSection(x)

Spec == Init /\ [][Next]_vars

\* A processor executes its instructions; sections and handlers end.  Nobody has
\* to start anything, and an interrupt need not arrive.
Fairness ==
  \A x \in Context :
    /\ WF_vars(Step(x))
    /\ WF_vars(\E l \in Lock : Drop(x, l))
    /\ WF_vars(Return(x))

FairSpec == Spec /\ Fairness
----------------------------------------------------------------------------
Place == {"run", "ask", "spin", "peek", "swap", "drop", "enable"}

TypeOK ==
  /\ nextTicket \in [Lock -> Nat] /\ nowServing \in [Lock -> Nat]
  /\ irq \in [Cpu -> BOOLEAN] /\ inHandler \in [Cpu -> BOOLEAN]
  /\ outer \in [Cpu -> BOOLEAN]
  /\ pc \in [Context -> Place]
  /\ want \in [Context -> Lock \cup {0}]
  /\ ticket \in [Context -> Nat] /\ seen \in [Context -> Nat]
  /\ sampled \in [Context -> BOOLEAN]
  /\ held \in [Context -> SUBSET Lock] /\ restore \in [Context -> SUBSET Lock]

\* Mutex hands out &mut T to one holder at a time, across processors and the
\* handlers that interrupt them, through lock() and try_lock() alike.
MutualExclusion ==
  \A x, y \in Context : x # y => held[x] \cap held[y] = {}

\* The comment on Mutex: "a holder always runs its critical section to
\* completion".  A handler runs only over a thread that neither holds a lock nor
\* is queued for one, so it never waits for its own processor.
HolderNotPreempted ==
  \A x \in Context \ Handler :
    inHandler[CpuOf[x]] => held[x] = {} /\ pc[x] = "run"

\* "Sampled before disabling, so nested locks restore correctly": once the last
\* guard is gone the mask is as it was before the first one, whichever way the
\* guards nested and whatever try_lock answered.
MaskRestored ==
  \A x \in Context \ Handler :
    /\ pc[x] = "run" /\ held[x] = {} /\ ~inHandler[CpuOf[x]]
       => (irq[CpuOf[x]] <=> ~outer[CpuOf[x]])
    /\ inHandler[CpuOf[x]] => ~irq[CpuOf[x]]

Asking == {"ask", "spin", "peek", "swap"}

\* What a context's place says of its ticket and its guards.
Outstanding(x) ==
  /\ pc[x] \in Asking => want[x] \in Lock /\ MayNest(x, want[x])
  /\ pc[x] = "spin" => nowServing[want[x]] <= ticket[x] /\ ticket[x] < nextTicket[want[x]]
  /\ pc[x] = "swap" => seen[x] <= nowServing[want[x]]
  /\ pc[x] = "drop" => /\ want[x] \in held[x] /\ seen[x] = nowServing[want[x]]
                       /\ outer[CpuOf[x]] \/ \A h \in held[x] : h <= want[x]
  /\ \A l \in held[x] : nowServing[l] < nextTicket[l]

\* A ticket belongs to one caller, and the one being served to the holder.
Distinct(x, y) ==
  /\ pc[x] = "spin" /\ pc[y] = "spin" /\ want[x] = want[y] /\ x # y
     => ticket[x] # ticket[y]
  /\ pc[y] = "spin" /\ want[y] \in held[x] => ticket[y] # nowServing[want[y]]

TicketInv ==
  /\ \A l \in Lock : nowServing[l] <= nextTicket[l]
  /\ \A x \in Context : Outstanding(x)
  /\ \A x, y \in Context : Distinct(x, y)

\* Who is to re-enable interrupts: the outermost guard, the caller still asking
\* for it or giving it back, without_interrupts, or the return from the handler.
Masked(x) ==
  /\ pc[x] # "run" \/ held[x] # {}
     => ~irq[CpuOf[x]] /\ (inHandler[CpuOf[x]] <=> x \in Handler)
  /\ pc[x] \in Asking \cup {"enable"}
     => (sampled[x] <=> x \notin Handler /\ held[x] = {} /\ ~outer[CpuOf[x]])

OutermostRestores(x) ==
  /\ restore[x] \subseteq held[x]
  /\ \A h \in held[x] :
       h \in restore[x] <=> /\ x \notin Handler /\ ~outer[CpuOf[x]]
                            /\ \A k \in held[x] : h <= k

MaskInv ==
  /\ \A c \in Cpu : inHandler[c] \/ outer[c] => ~irq[c] /\ (inHandler[c] => ~outer[c])
  /\ \A x \in Context : Masked(x) /\ OutermostRestores(x)

\* Inductive; every safety property of the lock follows from it.
LockInv == TypeOK /\ TicketInv /\ MaskInv /\ MutualExclusion /\ MaskRestored

\* Served in the order they asked: the line of each lock is its outstanding
\* tickets in order.
Queued(l) == {x \in Context : \/ pc[x] = "spin" /\ want[x] = l
                              \/ l \in held[x]}

TicketOf(x, l) == IF l \in held[x] THEN nowServing[l] ELSE ticket[x]

Bearers(l, n) == {x \in Queued(l) : TicketOf(x, l) = n}

LineOf(l) ==
  [i \in 1 .. nextTicket[l] - nowServing[l] |->
     LET b == Bearers(l, nowServing[l] + i - 1)
     IN  IF b = {} THEN "nobody" ELSE CHOOSE x \in b : TRUE]

Fifo == INSTANCE FifoLock WITH
  line <- [l \in Lock |-> LineOf(l)],
  holding <- [l \in Lock |-> \E x \in Context : l \in held[x]]

\* Callers are served in the order their tickets were taken, and try_lock
\* succeeds only on an empty queue.
ServedInOrder == Fifo!FifoSpec

\* Whoever has taken a ticket gets the lock: the holder cannot be descheduled.
TicketServed == \A x \in Context : pc[x] = "spin" ~> pc[x] = "run"
=============================================================================
