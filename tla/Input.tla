------------------------------- MODULE Input -------------------------------
(***************************************************************************)
(* Console input: the byte queue the serial interrupt fills and the        *)
(* threads that read from it (kernel/src/console/input.rs and uart.rs).    *)
(*                                                                         *)
(* poll runs in an interrupt context, the UART's or a timer's, on any      *)
(* processor.  Each use of the input lock is a step, and unblock another.  *)
(* Bytes are not told apart, so the queue is their number.                 *)
(***************************************************************************)
EXTENDS Parking, Integers, Sequences, SequencesExt

CONSTANTS Poller,        \* the contexts poll runs in
          InputCapacity, \* CAPACITY
          FifoDepth,     \* what the UART's FIFO holds at most
          Limits         \* the lengths read is called with

ASSUME InputAssumption ==
  InputCapacity \in Nat \ {0} /\ FifoDepth \in Nat \ {0} /\ Limits \subseteq Nat \ {0}

VARIABLES
  bytes, readers, dropped,  \* Input: bytes, waiting, and whether any was dropped
  pollPc, pollFor,          \* a poller's place, and the reader it popped
  readPc, limit             \* a reader's place and its limit

inputVars == <<parking, bytes, readers, dropped, pollPc, pollFor, readPc, limit>>

InputInit ==
  /\ ParkingInit
  /\ bytes = 0 /\ readers = << >> /\ dropped = FALSE
  /\ pollPc = [p \in Poller |-> "idle"] /\ pollFor = [p \in Poller |-> << >>]
  /\ readPc = [t \in Thread |-> "user"] /\ limit = [t \in Thread |-> 0]

\* poll under the lock: drain_input pushes what fits and counts the rest.  Nothing
\* received is the early return.
PollDrain(p, n) ==
  /\ pollPc[p] = "idle"
  /\ bytes' = Min({bytes + n, InputCapacity})
  /\ dropped' = (dropped \/ bytes + n > InputCapacity)
  /\ pollPc' = [pollPc EXCEPT ![p] = "pop"]
  /\ UNCHANGED <<parking, readers, pollFor, readPc, limit>>

PopFront == IF readers = << >> THEN readers ELSE Tail(readers)

\* The second lock: one reader is taken off the list ...
PollPop(p) ==
  /\ pollPc[p] = "pop"
  /\ readers' = PopFront
  /\ IF readers = << >> THEN pollPc' = [pollPc EXCEPT ![p] = "idle"] /\ UNCHANGED pollFor
     ELSE /\ pollPc' = [pollPc EXCEPT ![p] = "wake"]
          /\ pollFor' = [pollFor EXCEPT ![p] = <<Head(readers)>>]
  /\ UNCHANGED <<parking, bytes, dropped, readPc, limit>>

\* ... and woken outside.
PollWake(p) ==
  /\ pollPc[p] = "wake"
  /\ Unblock(pollFor[p][1])
  /\ pollPc' = [pollPc EXCEPT ![p] = "idle"] /\ pollFor' = [pollFor EXCEPT ![p] = << >>]
  /\ UNCHANGED <<bytes, readers, dropped, readPc, limit>>

Reading(t, place) == parked[t] = "up" /\ readPc[t] = place

ReadBegin(t, n) ==
  /\ Reading(t, "user")
  /\ readPc' = [readPc EXCEPT ![t] = "look"] /\ limit' = [limit EXCEPT ![t] = n]
  /\ UNCHANGED <<parking, bytes, readers, dropped, pollPc, pollFor>>

\* read under the lock: up to limit bytes, or the reader is listed once.
ReadLook(t) ==
  /\ Reading(t, "look")
  /\ bytes' = bytes - Min({bytes, limit[t]})
  /\ IF bytes > 0
     THEN /\ readPc' = [readPc EXCEPT ![t] = "user"] /\ limit' = [limit EXCEPT ![t] = 0]
          /\ UNCHANGED readers
     ELSE /\ readPc' = [readPc EXCEPT ![t] = "park"]
          /\ readers' = IF Contains(readers, t) THEN readers ELSE Append(readers, t)
          /\ UNCHANGED limit
  /\ UNCHANGED <<parking, dropped, pollPc, pollFor>>

\* A bug to be caught: a wake that came early is forgotten.
ReadParkBlindly(t) ==
  /\ Reading(t, "park")
  /\ ParkAfresh(t) /\ readPc' = [readPc EXCEPT ![t] = "look"]
  /\ UNCHANGED <<bytes, readers, dropped, pollPc, pollFor, limit>>

\* block_current, and the loop.
ReadPark(t) ==
  /\ Reading(t, "park")
  /\ BlockCurrent(t) /\ readPc' = [readPc EXCEPT ![t] = "look"]
  /\ UNCHANGED <<bytes, readers, dropped, pollPc, pollFor, limit>>

InputNext ==
  \/ \E p \in Poller : PollPop(p) \/ PollWake(p) \/ \E n \in 1 .. FifoDepth : PollDrain(p, n)
  \/ \E t \in Thread : ReadLook(t) \/ ReadPark(t) \/ \E n \in Limits : ReadBegin(t, n)

InputSpec == InputInit /\ [][InputNext]_inputVars

\* read's comment tells of "a shell that stopped responding" because a wake came
\* between the look and the park.  Bytes do not lie in the buffer with every reader
\* asleep, unless a poll is on the way to wake one.  (poll wakes one reader: if that
\* one leaves bytes behind, another may sleep beside them.)
ReadersNotAllAsleep ==
  bytes > 0 /\ (\E t \in Thread : parked[t] = "parked") =>
    \/ \E p \in Poller : pollPc[p] \in {"pop", "wake"}
    \/ \E t \in Thread : parked[t] = "up"
=============================================================================
