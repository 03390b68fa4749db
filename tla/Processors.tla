----------------------------- MODULE Processors -----------------------------
(* Bringing up the application processors (kernel/src/smp.rs).  The boot     *)
(* processor copies one trampoline page, writes a stack and an index into it *)
(* and wakes one processor at a time with INIT-SIPI-SIPI; the woken one reads *)
(* the two parameters, sets its own tables up, enters itself in ONLINE_MASK  *)
(* and shakes hands.  The wait for the handshake is bounded.                 *)
(* Processors are named by their index in the firmware's list, counted from  *)
(* 1; a stack is named by the index it was allocated for.                    *)
EXTENDS Naturals, FiniteSets

CONSTANTS
    Listed,      \* how many processors the firmware lists
    MaxCpus,     \* MAX_CPUS
    BootIndex,   \* where the firmware lists the boot processor
    Slow,        \* processors that do not answer within the spin bound
    LateStarts   \* whether a slow processor may still start afterwards

ASSUME ProcessorsAssumption ==
    /\ Listed \in Nat \ {0}
    /\ MaxCpus \in Nat \ {0}
    /\ BootIndex \in 1 .. Listed
    /\ Slow \subseteq (1 .. Listed) \ {BootIndex}
    /\ LateStarts \in BOOLEAN

VARIABLES
    bootStep,     \* what start_application_processors does next
    candidate,    \* `index`: the processor it is starting
    pageStack,    \* PARAM_STACK in the trampoline page
    pageIndex,    \* PARAM_INDEX in the trampoline page
    handshake,    \* HANDSHAKE
    started,      \* processors counted as started
    arrival,      \* how far each processor has come
    ownStack,     \* the stack each processor runs on, 0 before it has one
    ownIndex,     \* the index each processor was given, 0 before it has one
    onlineMask    \* ONLINE_MASK

processorVars == <<bootStep, candidate, pageStack, pageIndex, handshake,
                   started, arrival, ownStack, ownIndex, onlineMask>>
pageVars == <<pageStack, pageIndex>>
arrivalVars == <<arrival, ownStack, ownIndex, onlineMask>>

\* record_topology keeps at most MAX_CPUS of the firmware's processors.
Recorded == 1 .. (IF Listed < MaxCpus THEN Listed ELSE MaxCpus)

\* for_each_other_online_processor: whom an interrupt from p is addressed to.
Addressed(p) ==
    IF Cardinality(onlineMask) <= 1 THEN {}
    ELSE {q \in Recorded : q # p /\ q \in onlineMask}

ProcessorsInit ==
    /\ bootStep = "stack"
    /\ candidate = 1
    /\ pageStack = 0
    /\ pageIndex = 0
    /\ handshake = 0
    /\ started = 0
    /\ arrival = [p \in 1 .. Listed |-> IF p = BootIndex THEN "up" ELSE "off"]
    /\ ownStack = [p \in 1 .. Listed |-> 0]
    /\ ownIndex = [p \in 1 .. Listed |-> 0]
    /\ onlineMask = {1}

-----------------------------------------------------------------------------
(* The boot processor.                                                       *)

Starting(step) == bootStep = step /\ candidate \in Recorded

\* The loop passes over the boot processor itself.
SkipSelf ==
    /\ Starting("stack")
    /\ candidate = BootIndex
    /\ candidate' = candidate + 1
    /\ UNCHANGED <<bootStep, pageVars, handshake, started, arrivalVars>>

\* A fresh stack, written to the page.
WriteStack ==
    /\ Starting("stack")
    /\ candidate # BootIndex
    /\ pageStack' = candidate
    /\ bootStep' = "index"
    /\ UNCHANGED <<candidate, pageIndex, handshake, started, arrivalVars>>

WriteIndex ==
    /\ Starting("index")
    /\ pageIndex' = candidate
    /\ bootStep' = "reset"
    /\ UNCHANGED <<candidate, pageStack, handshake, started, arrivalVars>>

\* A bug to be caught: the handshake of the processor before is left standing.
ResetHandshakeNot ==
    /\ Starting("reset")
    /\ bootStep' = "wake"
    /\ UNCHANGED <<candidate, pageVars, handshake, started, arrivalVars>>

ResetHandshake ==
    /\ Starting("reset")
    /\ handshake' = 0
    /\ bootStep' = "wake"
    /\ UNCHANGED <<candidate, pageVars, started, arrivalVars>>

\* start_processor: INIT, then the startup interrupt twice; a processor that
\* started at the first ignores the second.
StartProcessor ==
    /\ Starting("wake")
    /\ arrival' = [arrival EXCEPT ![candidate] = "woken"]
    /\ bootStep' = "wait"
    /\ UNCHANGED <<candidate, pageVars, handshake, started, ownStack, ownIndex,
                   onlineMask>>

\* The wait ends: the handshake was seen, or the spins ran out, which a
\* processor that answers in time does not let happen.
WaitEnds ==
    /\ Starting("wait")
    /\ handshake # 0 \/ candidate \in Slow
    /\ bootStep' = "count"
    /\ UNCHANGED <<candidate, pageVars, handshake, started, arrivalVars>>

\* The second look at the handshake, and on to the next processor.
CountStarted ==
    /\ Starting("count")
    /\ started' = IF handshake # 0 THEN started + 1 ELSE started
    /\ candidate' = candidate + 1
    /\ bootStep' = "stack"
    /\ UNCHANGED <<pageVars, handshake, arrivalVars>>

-----------------------------------------------------------------------------
(* A woken processor.  A slow one that does not start late never runs.       *)

Running(p) ==
    \/ p \notin Slow
    \/ LateStarts /\ (candidate > p \/ bootStep = "count")

\* The trampoline's last three loads: the stack, the index, the entry point.
LoadStack(p) ==
    /\ arrival[p] = "woken"
    /\ Running(p)
    /\ ownStack' = [ownStack EXCEPT ![p] = pageStack]
    /\ arrival' = [arrival EXCEPT ![p] = "onStack"]
    /\ UNCHANGED <<bootStep, candidate, pageVars, handshake, started, ownIndex,
                   onlineMask>>

LoadIndex(p) ==
    /\ arrival[p] = "onStack"
    /\ ownIndex' = [ownIndex EXCEPT ![p] = pageIndex]
    /\ arrival' = [arrival EXCEPT ![p] = "entered"]
    /\ UNCHANGED <<bootStep, candidate, pageVars, handshake, started, ownStack,
                   onlineMask>>

\* application_processor_entry up to ONLINE_MASK and ONLINE: descriptor tables,
\* protections and the Local APIC first.
GoOnline(p) ==
    /\ arrival[p] = "entered"
    /\ onlineMask' = onlineMask \cup {ownIndex[p]}
    /\ arrival' = [arrival EXCEPT ![p] = "online"]
    /\ UNCHANGED <<bootStep, candidate, pageVars, handshake, started, ownStack,
                   ownIndex>>

\* The handshake, adoption by the scheduler and the idle loop.
ShakeHands(p) ==
    /\ arrival[p] = "online"
    /\ handshake' = ownIndex[p] + 1
    /\ arrival' = [arrival EXCEPT ![p] = "up"]
    /\ UNCHANGED <<bootStep, candidate, pageVars, started, ownStack, ownIndex,
                   onlineMask>>

ProcessorsNext ==
    \/ SkipSelf
    \/ WriteStack
    \/ WriteIndex
    \/ ResetHandshake
    \/ StartProcessor
    \/ WaitEnds
    \/ CountStarted
    \/ \E p \in 1 .. Listed :
           LoadStack(p) \/ LoadIndex(p) \/ GoOnline(p) \/ ShakeHands(p)

ProcessorsSpec == ProcessorsInit /\ [][ProcessorsNext]_processorVars

-----------------------------------------------------------------------------

\* "A processor is only in here after it has its own IDT" (smp.rs:188): an
\* interrupt addressed from ONLINE_MASK reaches no processor that has not set
\* its own tables up yet.
IpisAnswerable ==
    \A p \in 1 .. Listed : arrival[p] = "up" =>
        \A q \in Addressed(p) : arrival[q] \in {"online", "up"}

\* Every processor that comes up has a stack and an index to itself, the index
\* is its own place in the firmware's list, and between two candidates exactly
\* those that came up have been counted as started.
ProcessorsApart ==
    /\ IpisAnswerable
    /\ \A p \in 1 .. Listed : ownStack[p] \in {0, p} /\ ownIndex[p] \in {0, p}
    /\ bootStep = "stack" =>
           started = Cardinality({p \in 1 .. Listed :
                                      p # BootIndex /\ arrival[p] = "up"})

=============================================================================
