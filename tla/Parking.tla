------------------------------ MODULE Parking ------------------------------
(***************************************************************************)
(* What the scheduler promises everything that blocks: block_current parks *)
(* a thread, unblock wakes it, and a wake that arrives before the park is  *)
(* recorded rather than lost (kernel/src/sched/mod.rs, block_current and   *)
(* unblock; Thread::wake_pending).  Module Sched implements this one; the  *)
(* modules of the parts that block are built on it.                        *)
(***************************************************************************)
CONSTANT Thread

VARIABLES parked,       \* "up", "parked" or "gone"
          wakePending   \* a wake that found its thread not parked

parking == <<parked, wakePending>>

ParkingInit ==
  /\ parked = [t \in Thread |-> "up"]
  /\ wakePending = [t \in Thread |-> FALSE]

\* block_current: consume a recorded wake, or park.
BlockCurrent(t) ==
  /\ parked[t] = "up"
  /\ IF wakePending[t]
     THEN wakePending' = [wakePending EXCEPT ![t] = FALSE] /\ UNCHANGED parked
     ELSE parked' = [parked EXCEPT ![t] = "parked"] /\ UNCHANGED wakePending

\* sleep_ticks and join: park, forgetting any recorded wake.
ParkAfresh(t) ==
  /\ parked[t] = "up"
  /\ parked' = [parked EXCEPT ![t] = "parked"]
  /\ wakePending' = [wakePending EXCEPT ![t] = FALSE]

\* unblock: wake a parked thread, record the wake of one that is not.
Unblock(t) ==
  /\ parked' = IF parked[t] = "parked" THEN [parked EXCEPT ![t] = "up"] ELSE parked
  /\ wakePending' = IF parked[t] = "up" THEN [wakePending EXCEPT ![t] = TRUE]
                                        ELSE wakePending

\* exit_current, as far as parking is concerned.
Exit(t) ==
  /\ parked[t] = "up"
  /\ parked' = [parked EXCEPT ![t] = "gone"]
  /\ UNCHANGED wakePending

ParkingNext ==
  \E t \in Thread : BlockCurrent(t) \/ ParkAfresh(t) \/ Unblock(t) \/ Exit(t)

ParkingSpec == ParkingInit /\ [][ParkingNext]_parking
=============================================================================
