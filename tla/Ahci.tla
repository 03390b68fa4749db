-------------------------------- MODULE Ahci --------------------------------
(***************************************************************************)
(* One port of the AHCI driver (kernel/src/block/ahci.rs): queued commands *)
(* on slots of their own, plain ones alone on slot 0, the service routine  *)
(* that reads four registers one after the other while the device goes on, *)
(* the error that fails everything and restarts the port, and bring-up.    *)
(*                                                                         *)
(* The device is external: a queued command leaves SACT when it is done, a *)
(* plain one leaves CI; an error sets the status bit, may or may not take  *)
(* the plain command's CI bit, and halts the port until it is restarted.   *)
(***************************************************************************)
EXTENDS Naturals

CONSTANT AhciSlot   \* 0 and up

VARIABLES
  port, queues,                     \* how far bring-up is; the drive queues commands
  using,                            \* each slot: "free", "taken", "waiting", "kept";
                                    \* "alone" on all of them when one request has all
  plainCaller,                      \* that request: "none", "taken", "waiting", "kept"
  answered,                         \* Completion::state of each slot
  issuedQueued, issuedPlain,        \* Issued
  service,                          \* what service() has read, and its place
  sact, ci, is, taskFileError,      \* the port's registers
  halted, done                      \* the device: stopped on an error; what each slot's
                                    \* last command came to

requests == <<using, plainCaller, answered>>
issued == <<issuedQueued, issuedPlain>>
registers == <<sact, ci, is, taskFileError>>
ahciVars == <<port, queues, requests, issued, service, registers, halted, done>>

PortIdle == [at |-> "out", status |-> {}, active |-> {}, commands |-> {}]

\* bring_up_port() has given the port its memory and started its engines.
AhciInit ==
  /\ port = "started" /\ queues = FALSE
  /\ using = [s \in AhciSlot |-> "free"] /\ plainCaller = "none"
  /\ answered = [s \in AhciSlot |-> "Idle"]
  /\ issuedQueued = {} /\ issuedPlain = FALSE /\ service = PortIdle
  /\ sact = {} /\ ci = {} /\ is = {} /\ taskFileError = FALSE
  /\ halted = FALSE /\ done = [s \in AhciSlot |-> "none"]

\* identify(), flush(), and every transfer of a drive that does not queue:
\* take_all() ...
TakeAll ==
  /\ port \in {"started", "up"} /\ plainCaller = "none"
  /\ \A s \in AhciSlot : using[s] = "free"
  /\ using' = [s \in AhciSlot |-> "alone"] /\ plainCaller' = "taken"
  /\ port' = IF port = "started" THEN "identify" ELSE port
  /\ UNCHANGED <<queues, answered, issued, service, registers, halted, done>>

\* ... and run_plain().
RunPlain ==
  /\ plainCaller = "taken" /\ service.at = "out"
  /\ answered' = [answered EXCEPT ![0] = "InFlight"]
  /\ done' = [done EXCEPT ![0] = "none"]
  /\ issuedPlain' = TRUE /\ ci' = ci \cup {0}
  /\ plainCaller' = "waiting"
  /\ UNCHANGED <<port, queues, using, issuedQueued, service, sact, is, taskFileError, halted>>

\* A queueing drive's transfer(): take(), then run_queued() for each chunk.
TakeOne(s) ==
  /\ port = "up" /\ queues /\ using[s] = "free"
  /\ using' = [using EXCEPT ![s] = "taken"]
  /\ UNCHANGED <<port, queues, plainCaller, answered, issued, service, registers, halted, done>>

RunQueued(s) ==
  /\ using[s] = "taken" /\ service.at = "out"
  /\ answered' = [answered EXCEPT ![s] = "InFlight"]
  /\ done' = [done EXCEPT ![s] = "none"]
  /\ issuedQueued' = issuedQueued \cup {s}
  /\ sact' = sact \cup {s} /\ ci' = ci \cup {s}
  /\ using' = [using EXCEPT ![s] = "waiting"]
  /\ UNCHANGED <<port, queues, plainCaller, issuedPlain, service, is, taskFileError, halted>>

\* wait() returns, with an answer or, polled, without: release() and give_all()
\* keep what is still in flight.  A transfer goes on to its next chunk.
QueuedReturns(s, more) ==
  /\ using[s] = "waiting" /\ (more => answered[s] = "Done")
  /\ using' = [using EXCEPT ![s] = IF more THEN "taken"
                                   ELSE IF answered[s] = "InFlight" THEN "kept" ELSE "free"]
  /\ UNCHANGED <<port, queues, plainCaller, answered, issued, service, registers, halted, done>>

\* identify()'s answer decides whether there is a disk; without one the disk is
\* dropped.
PlainReturns(more, drive) ==
  /\ plainCaller = "waiting" /\ (more => answered[0] = "Done" /\ port = "up")
  /\ port = "identify" => service.at = "out"   \* polled, by this very thread
  /\ LET kept == answered[0] = "InFlight"
     IN  /\ plainCaller' = IF more THEN "taken" ELSE IF kept THEN "kept" ELSE "none"
         /\ using' = IF more \/ kept THEN using ELSE [s \in AhciSlot |-> "free"]
  /\ IF port = "identify"
     THEN /\ port' = IF answered[0] = "Done" THEN "up" ELSE "dropped"
          /\ queues' = (drive /\ port' = "up")
     ELSE UNCHANGED <<port, queues>>
  /\ UNCHANGED <<answered, issued, service, registers, halted, done>>

\* service(): four reads, under the lock of Issued, with the device running.
Serve(from, to, read) ==
  /\ service.at = from
  /\ service' = [read EXCEPT !.at = to]
  /\ UNCHANGED <<port, queues, requests, issued, halted, done>>

ReadStatus ==
  /\ port # "dropped"
  /\ Serve("out", "clear", [PortIdle EXCEPT !.status = is]) /\ UNCHANGED registers
ClearStatus ==
  /\ Serve("clear", "active", service)
  /\ is' = is \ service.status /\ UNCHANGED <<sact, ci, taskFileError>>
ReadActive == Serve("active", "commands", [service EXCEPT !.active = sact]) /\ UNCHANGED registers
ReadCommands == Serve("commands", "act", [service EXCEPT !.commands = ci]) /\ UNCHANGED registers

\* The task file, and what follows from the four.
ServeError ==
  /\ service.at = "act" /\ "error" \in service.status
  /\ answered' = [s \in AhciSlot |-> IF s \in issuedQueued \/ (s = 0 /\ issuedPlain)
                                     THEN "Fault" ELSE answered[s]]
  /\ issuedQueued' = {} /\ issuedPlain' = FALSE
  /\ sact' = {} /\ ci' = {} /\ is' = {} /\ halted' = FALSE   \* restart()
  /\ service' = PortIdle
  /\ UNCHANGED <<port, queues, using, plainCaller, taskFileError, done>>

ServeFinished ==
  /\ service.at = "act" /\ "error" \notin service.status
  /\ LET finished == issuedQueued \ service.active
         plain == issuedPlain /\ 0 \notin service.commands
     IN  /\ answered' = [s \in AhciSlot |->
              IF s \in finished THEN "Done"
              ELSE IF s = 0 /\ plain THEN IF taskFileError THEN "Fault" ELSE "Done"
              ELSE answered[s]]
         /\ issuedQueued' = issuedQueued \ finished
         /\ issuedPlain' = (issuedPlain /\ ~plain)
  /\ service' = PortIdle
  /\ UNCHANGED <<port, queues, using, plainCaller, registers, halted, done>>

Plain(s) == s \in ci \ sact

DeviceDone(s) ==
  /\ ~halted /\ s \in sact \cup ci
  /\ done' = [done EXCEPT ![s] = "Done"]
  /\ sact' = sact \ {s} /\ ci' = ci \ {s} /\ is' = is \cup {"answer"}
  /\ taskFileError' = IF Plain(s) THEN FALSE ELSE taskFileError
  /\ UNCHANGED <<port, queues, requests, issued, service, halted>>

DeviceError(s) ==
  /\ ~halted /\ s \in sact \cup ci
  /\ done' = [done EXCEPT ![s] = "Fault"]
  /\ halted' = TRUE /\ taskFileError' = TRUE /\ is' = is \cup {"error"}
  /\ ci' \in {ci, IF Plain(s) THEN ci \ {s} ELSE ci}
  /\ UNCHANGED <<port, queues, requests, issued, service, sact>>

AhciNext ==
  \/ TakeAll \/ RunPlain \/ \E more, drive \in BOOLEAN : PlainReturns(more, drive)
  \/ ReadStatus \/ ClearStatus \/ ReadActive \/ ReadCommands \/ ServeError \/ ServeFinished
  \/ \E s \in AhciSlot : \/ TakeOne(s) \/ RunQueued(s) \/ DeviceDone(s) \/ DeviceError(s)
                         \/ \E more \in BOOLEAN : QueuedReturns(s, more)

AhciSpec == AhciInit /\ [][AhciNext]_ahciVars

\* service(): a request told that it is done was done by the device, whichever
\* registers change between its reads, and one that waits is in Issued, so a
\* later service() or an error will answer it.  A plain command is alone.
AhciSound ==
  /\ \A s \in AhciSlot : answered[s] = "Done" => done[s] = "Done"
  /\ \A s \in AhciSlot : answered[s] = "InFlight" <=> s \in issuedQueued \/ (s = 0 /\ issuedPlain)
  /\ issuedPlain => issuedQueued = {} /\ sact = {}

=============================================================================
