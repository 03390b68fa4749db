-------------------------------- MODULE Nvme --------------------------------
(***************************************************************************)
(* The NVMe driver's I/O queue pair (kernel/src/block/nvme.rs): commands   *)
(* written to a submission ring, answers read from a completion ring by    *)
(* the phase tag each carries, and slots that are reused only when their   *)
(* command has been answered.                                              *)
(*                                                                         *)
(* The controller is external: it fetches in order, answers in any order,  *)
(* and stops only when the completion ring is full.  A command is known by *)
(* its slot, as it is to the driver.                                       *)
(***************************************************************************)
EXTENDS Naturals, FiniteSets

CONSTANTS NvmeSlot, QueueEntries

ASSUME QueueAssumption == Cardinality(NvmeSlot) < QueueEntries

Index == 0..(QueueEntries - 1)
After(i) == (i + 1) % QueueEntries
NoEntry == [slot |-> "none", phase |-> 0, ok |-> FALSE]

VARIABLES nvme,             \* "down", "up" or "refused"
          holder,           \* each slot: "free", "taken", "waiting" or "kept"
          outcome,          \* Completion::state of each slot
          submission, tail,         \* the ring, and submit
          completionRing, head, phase, \* the ring, and Reader
          servicing, advanced,      \* inside service(), under the reader's lock
          fetched, running, executed,  \* the controller: its place, what it runs, and
                                       \* how each slot's last command went
          posted, devicePhase, headBell

rings == <<submission, tail, completionRing, head, phase>>
controller == <<fetched, running, executed, posted, devicePhase, headBell>>
servicer == <<servicing, advanced>>
nvmeVars == <<nvme, holder, outcome, rings, servicer, controller>>

NvmeInit ==
  /\ nvme = "down"
  /\ holder = [s \in NvmeSlot |-> "free"]
  /\ outcome = [s \in NvmeSlot |-> "Idle"]
  /\ submission = [i \in Index |-> "none"] /\ tail = 0
  /\ completionRing = [i \in Index |-> NoEntry] /\ head = 0 /\ phase = 1
  /\ servicing = FALSE /\ advanced = FALSE
  /\ fetched = 0 /\ running = {} /\ executed = [s \in NvmeSlot |-> "none"]
  /\ posted = 0 /\ devicePhase = 1 /\ headBell = 0

\* bring_up(): the disk is there once every step of it worked, and before that
\* nobody can reach its queues.
BringUp ==
  /\ nvme = "down"
  /\ nvme' \in {"up", "refused"}
  /\ UNCHANGED <<holder, outcome, rings, servicer, controller>>

\* chunked() and flush() take a slot.
Take(s) ==
  /\ nvme = "up" /\ holder[s] = "free"
  /\ holder' = [holder EXCEPT ![s] = "taken"]
  /\ UNCHANGED <<nvme, outcome, rings, servicer, controller>>

\* run(): the entry, arm(), the tail and its doorbell, under the submit lock.
Submit(s) ==
  /\ holder[s] = "taken"
  /\ submission' = [submission EXCEPT ![tail] = s]
  /\ tail' = After(tail)
  /\ outcome' = [outcome EXCEPT ![s] = "InFlight"]
  /\ executed' = [executed EXCEPT ![s] = "none"]
  /\ holder' = [holder EXCEPT ![s] = "waiting"]
  /\ UNCHANGED <<nvme, completionRing, head, phase, servicer,
                 fetched, running, posted, devicePhase, headBell>>

\* An entry that has been fetched is not read again: it is "none" from then on.
Fetch ==
  /\ fetched # tail
  /\ running' = running \cup {submission[fetched]}
  /\ submission' = [submission EXCEPT ![fetched] = "none"]
  /\ fetched' = After(fetched)
  /\ UNCHANGED <<nvme, holder, outcome, tail, completionRing, head, phase, servicer,
                 executed, posted, devicePhase, headBell>>

Post(s, ok) ==
  /\ s \in running /\ After(posted) # headBell
  /\ running' = running \ {s}
  /\ executed' = [executed EXCEPT ![s] = IF ok THEN "Done" ELSE "Fault"]
  /\ completionRing' = [completionRing EXCEPT ![posted] =
                         [slot |-> s, phase |-> devicePhase, ok |-> ok]]
  /\ posted' = After(posted)
  /\ devicePhase' = IF posted' = 0 THEN 1 - devicePhase ELSE devicePhase
  /\ UNCHANGED <<nvme, holder, outcome, submission, tail, head, phase, servicer,
                 fetched, headBell>>

\* service(), by an interrupt or by a polling waiter, holding the reader's lock.
ServiceBegin ==
  /\ ~servicing /\ nvme = "up"
  /\ servicing' = TRUE /\ advanced' = FALSE
  /\ UNCHANGED <<nvme, holder, outcome, rings, controller>>

\* A bug to be caught: the tag expected is not flipped when the head wraps.
ServiceEntrySamePhase ==
  /\ servicing /\ completionRing[head].phase = phase
  /\ LET entry == completionRing[head]
     IN  outcome' = [outcome EXCEPT ![entry.slot] = IF entry.ok THEN "Done" ELSE "Fault"]
  /\ head' = After(head)
  /\ advanced' = TRUE
  /\ UNCHANGED <<nvme, holder, submission, tail, completionRing, phase, servicing,
                 controller>>

ServiceEntry ==
  /\ servicing /\ completionRing[head].phase = phase
  /\ LET entry == completionRing[head]
     IN  outcome' = [outcome EXCEPT ![entry.slot] = IF entry.ok THEN "Done" ELSE "Fault"]
  /\ head' = After(head)
  /\ phase' = IF head' = 0 THEN 1 - phase ELSE phase
  /\ advanced' = TRUE
  /\ UNCHANGED <<nvme, holder, submission, tail, completionRing, servicing, controller>>

ServiceEnd ==
  /\ servicing /\ completionRing[head].phase # phase
  /\ servicing' = FALSE /\ advanced' = FALSE
  /\ headBell' = IF advanced THEN head ELSE headBell
  /\ UNCHANGED <<nvme, holder, outcome, rings, fetched, running, executed, posted, devicePhase>>

\* wait() returns the answer: chunked() goes on to the next chunk on the same
\* slot, or gives the slot back.
Answered(s, more) ==
  /\ holder[s] = "waiting" /\ outcome[s] \in {"Done", "Fault"}
  /\ more => outcome[s] = "Done"
  /\ holder' = [holder EXCEPT ![s] = IF more THEN "taken" ELSE "free"]
  /\ UNCHANGED <<nvme, outcome, rings, servicer, controller>>

\* A polled wait() gives up; release() keeps the slot while it is in flight.
TimedOut(s) ==
  /\ holder[s] = "waiting"
  /\ holder' = [holder EXCEPT ![s] = IF outcome[s] = "InFlight" THEN "kept" ELSE "free"]
  /\ UNCHANGED <<nvme, outcome, rings, servicer, controller>>

NvmeNext ==
  \/ BringUp \/ Fetch \/ ServiceBegin \/ ServiceEntry \/ ServiceEnd
  \/ \E s \in running, ok \in BOOLEAN : Post(s, ok)
  \/ \E s \in NvmeSlot : \/ Take(s) \/ Submit(s) \/ TimedOut(s)
                         \/ \E more \in BOOLEAN : Answered(s, more)

NvmeSpec == NvmeInit /\ [][NvmeNext]_nvmeVars

\* Every answer is the one to the command its slot last had: a request told it is
\* done was executed, whatever the rings wrap over and however late an answer is.
NvmeAnswersOwn ==
  \A s \in NvmeSlot : outcome[s] \in {"Done", "Fault"} => outcome[s] = executed[s]

\* Entries between one end of a ring and the other, and answers not yet read.
Between(from, to) == {i \in Index : (i + QueueEntries - from) % QueueEntries
                                    < (to + QueueEntries - from) % QueueEntries}
Unread == {completionRing[i].slot : i \in {i \in Index : completionRing[i].phase =
                                     IF i >= head THEN phase ELSE 1 - phase}}

\* And no answer is lost: a command in flight is in the submission ring, with the
\* controller, or in an entry service() has yet to read.
NvmeAnswersKept ==
  \A s \in NvmeSlot : outcome[s] = "InFlight" =>
    s \in {submission[i] : i \in Between(fetched, tail)} \cup running \cup Unread

\* run(): "a ring of 16 never fills with 8 slots".  The driver answers each
\* request with its own command's outcome, and every command is answered.
NvmeSound == NvmeAnswersOwn /\ NvmeAnswersKept
=============================================================================
