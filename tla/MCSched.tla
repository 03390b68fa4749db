------------------------------ MODULE MCSched ------------------------------
(* Small instances of Sched: processors are 0 and up, idle threads strings. *)
EXTENDS Sched

MCIdle1 == [c \in {0} |-> "idle0"]
MCIdle2 == [c \in {0, 1} |-> IF c = 0 THEN "idle0" ELSE "idle1"]
=============================================================================
