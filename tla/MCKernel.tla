------------------------------ MODULE MCKernel ------------------------------
(***************************************************************************)
(* Small instances of the kernel's core outside the scheduler: the ways    *)
(* threads wait for one another's data (a ring, an endpoint with its       *)
(* timers and its interrupt, the console's input), the ready queues, the   *)
(* allocators, the page tables and what is mapped through them, and the    *)
(* start of programs and processors.                                       *)
(*                                                                         *)
(* The parts share the parking of threads and nothing else, so one run     *)
(* holds them side by side: the initial state chooses the part that moves, *)
(* and the state spaces add up instead of multiplying.                     *)
(***************************************************************************)
EXTENDS Ring, Ipc, Input, Starvation, Allocators, Stacks, Shared, Tables, Spaces,
        Processors, Elf

VARIABLE part

ringState == <<memory, sleeping, side, message, out, taken>>
ipcState == <<registry, place, on, woken, clock, line, strayed>>
inputState == <<bytes, readers, dropped, pollPc, pollFor, readPc, limit>>
messageState == <<parking, ringState, ipcState, inputState>>
allocatorState == <<heapVars, frameVars>>
mappingState == <<stackVars, sharedVars, tableVars, spaceVars>>
startState == <<processorVars, elfVars>>
restState == <<starvationVars, allocatorState, mappingState, startState>>

kernelVars == <<messageState, restState, part>>

MCQuota == [t \in Thread |-> [endpoints |-> 1, capabilities |-> 2]]

\* A hole of two frames below more memory, and a low end that is not a whole frame.
MCMemoryMaps == {{[start |-> 0, end |-> 3], [start |-> 5, end |-> 17]},
                 {[start |-> 1, end |-> 5], [start |-> 6, end |-> 14]}}

MCLayouts == {[size |-> 1, align |-> 1], [size |-> 3, align |-> 1],
              [size |-> 2, align |-> 2], [size |-> 4, align |-> 4]}

\* Two pages of one table and one of its neighbour; a window of two huge pages.
MCSmallPage == {<<0, 0, 0>>, <<0, 0, 1>>, <<0, 1, 0>>}
MCWindowPage == {<<1, j, k>> : j, k \in {0, 1}}
MCDevicePage == <<1, 0, 1>>

\* Writable data at, across and past the ends of the region, and code in pages of
\* its own or shared with that data, its bytes in the file or cut off.
MCSegments ==
  [at : {3, 4, 5, 7, 10, 15}, memory : {0, 1, 3}, file : {0, 1, 2}, inFile : {TRUE},
   writes : {TRUE}, runs : {FALSE}] \cup
  [at : {4, 6, 7}, memory : {2}, file : {2}, inFile : BOOLEAN,
   writes : {FALSE}, runs : {TRUE}]

MCImages ==
  {[entry |-> e, segments |-> s] :
     e \in {3, 5, 9}, s \in {<<x>> : x \in MCSegments} \cup (MCSegments \X MCSegments)}

Parts == {"ring", "ipc", "input", "starvation", "heap", "frames", "stacks", "shared",
          "tables", "spaces", "processors", "elf"}

\* A part that does not move begins with one of its choices.
FirstMap == CHOOSE m \in MemoryMaps : TRUE
FirstUsed == UsedAtStart(FirstMap, CHOOSE r \in Hosts(FirstMap) : TRUE)
FirstImage == CHOOSE i \in Images : TRUE

KernelInit ==
  /\ part \in Parts
  /\ RingInit /\ IpcInit /\ InputInit /\ StarvationInit /\ HeapInit /\ StacksInit
  /\ SharedInit /\ TablesInit /\ SpacesInit /\ ProcessorsInit
  /\ (part = "frames" \/ (map = FirstMap /\ used = FirstUsed)) /\ FramesInit
  /\ (part = "elf" \/ image = FirstImage) /\ ElfInit

KernelNext ==
  /\ \/ part = "ring" /\ RingNext /\ UNCHANGED <<ipcState, inputState, restState>>
     \/ part = "ipc" /\ IpcNext /\ UNCHANGED <<ringState, inputState, restState>>
     \/ part = "input" /\ InputNext /\ UNCHANGED <<ringState, ipcState, restState>>
     \/ part = "starvation" /\ StarvationNext
        /\ UNCHANGED <<messageState, allocatorState, mappingState, startState>>
     \/ part \in {"heap", "frames"}
        /\ UNCHANGED <<messageState, starvationVars, mappingState, startState>>
        /\ \/ part = "heap" /\ HeapNext /\ UNCHANGED frameVars
           \/ part = "frames" /\ FramesNext /\ UNCHANGED heapVars
     \/ part \in {"stacks", "shared", "tables", "spaces"}
        /\ UNCHANGED <<messageState, starvationVars, allocatorState, startState>>
        /\ \/ part = "stacks" /\ StacksNext /\ UNCHANGED <<sharedVars, tableVars, spaceVars>>
           \/ part = "shared" /\ SharedNext /\ UNCHANGED <<stackVars, tableVars, spaceVars>>
           \/ part = "tables" /\ TablesNext /\ UNCHANGED <<stackVars, sharedVars, spaceVars>>
           \/ part = "spaces" /\ SpacesNext /\ UNCHANGED <<stackVars, sharedVars, tableVars>>
     \/ part \in {"processors", "elf"}
        /\ UNCHANGED <<messageState, starvationVars, allocatorState, mappingState>>
        /\ \/ part = "processors" /\ ProcessorsNext /\ UNCHANGED elfVars
           \/ part = "elf" /\ ElfNext /\ UNCHANGED processorVars
  /\ UNCHANGED part

KernelSpec == KernelInit /\ [][KernelNext]_kernelVars
-----------------------------------------------------------------------------
(* What parts promise together; what a part promises alone is in its module.  *)

\* ring and console input: no side of a ring stays parked with something to do, and
\* no byte lies in the input buffer with every reader asleep, unless a wake is
\* pending or on its way.
DataWakes == /\ part = "ring" => NoSideParkedReady
             /\ part = "input" => ReadersNotAllAsleep

\* ipc: no receiver stays parked on a queue that holds a message with nobody on the
\* way to wake it, NEXT never lies beyond the earliest timer, so on_tick does not pass
\* over one that is due, and a thread that is gone is in no list or timer.
MessagesArrive == part = "ipc" => NoReceiverStranded /\ NextCoversTimers /\ ExitForgets

\* Neither allocator hands out what is in use, loses what came back or overlaps two
\* of its callers: the heap's free list and the frame bitmap with its count and hint.
AllocatorsSound == /\ part = "heap" => HeapSound
                   /\ part = "frames" => FramesSound

\* Frames of buffers and rings shared by processes go back once, when the last of
\* them is out, and never while one can still reach them.
SharedSound == part = "shared" => SharedNotFreed /\ LastOutFrees

\* Page tables: a walk gives each page what its last map, unmap or change of flags
\* asked for, and no free table is one that some processor may still walk through.
TablesHold == part = "tables" => TablesSound

\* Application processors: every one that comes up has a stack and an index to
\* itself, is counted once, and is interrupted only after its tables are set up.
ProcessorsSplit == part = "processors" => ProcessorsApart

\* Programs: what load_elf accepts is in memory as it was linked, inside its slot,
\* and no processor translates through a level 4 table that has gone back or that
\* belongs to a thread it does not run.
ProgramsSound == /\ part = "elf" => ImageAsLinked
                 /\ part = "spaces" => SpacesSafe
=============================================================================
