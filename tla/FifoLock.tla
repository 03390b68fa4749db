------------------------------ MODULE FifoLock ------------------------------
(***************************************************************************)
(* What kernel/src/sync.rs promises of Mutex: one line per lock, served    *)
(* strictly in the order callers joined it, and a try_lock that joins only *)
(* an empty line.  Module TicketLock implements this one.                  *)
(***************************************************************************)
EXTENDS Sequences

CONSTANTS Lock, Context

VARIABLES line,    \* line[l]: who asked for l and has not left, oldest first
          holding  \* holding[l]: whether the head of the line has been let in

fifo == <<line, holding>>

FifoInit ==
  /\ line = [l \in Lock |-> << >>]
  /\ holding = [l \in Lock |-> FALSE]

Join(x, l) ==
  /\ line' = [line EXCEPT ![l] = Append(@, x)]
  /\ UNCHANGED holding

LetIn(l) ==
  /\ line[l] # << >> /\ ~holding[l]
  /\ holding' = [holding EXCEPT ![l] = TRUE]
  /\ UNCHANGED line

TryJoin(x, l) ==
  /\ line[l] = << >>
  /\ line' = [line EXCEPT ![l] = <<x>>]
  /\ holding' = [holding EXCEPT ![l] = TRUE]

Leave(l) ==
  /\ holding[l]
  /\ line' = [line EXCEPT ![l] = Tail(@)]
  /\ holding' = [holding EXCEPT ![l] = FALSE]

FifoNext ==
  \E l \in Lock : LetIn(l) \/ Leave(l) \/ \E x \in Context : Join(x, l) \/ TryJoin(x, l)

FifoSpec == FifoInit /\ [][FifoNext]_fifo
=============================================================================
