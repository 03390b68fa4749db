----------------------------- MODULE MCDevices -----------------------------
(***************************************************************************)
(* Small instances of what stands between programs and devices: the locks  *)
(* and the request slots drivers use, the disk controllers, partitions and *)
(* the crash record on a disk, the network card with the stack above it,   *)
(* the keyboard and the display.  The parts share the parking of threads   *)
(* and nothing else; the initial state chooses the part that moves.        *)
(***************************************************************************)
EXTENDS TicketLock, SleepLock, DiskSlots, Nvme, Ahci, VirtioBlk, Crash, Nic, Tcp,
        Lookups, Buffers, Ps2, Compositor, TLC

VARIABLE part

lockState == <<vars, sleepLock>>
diskState == <<takenVars, callerVars, nvmeVars, ahciVars, blkVars>>
storeState == <<partitionVars, crashVars>>
netState == <<nicVars, tcpVars, neighbourVars, lookupVars, bufferVars>>
deskState == <<ps2Vars, compositorVars>>

devicesVars == <<parking, lockState, diskState, storeState, netState, deskState, part>>

MCContext == {"t1", "h1", "t2", "h2"}
MCCpuOf == [x \in MCContext |-> IF x \in {"t1", "h1"} THEN 1 ELSE 2]

MCSurfaceWidth == (1 :> 2) @@ (2 :> 3) @@ (3 :> 1)

Parts == {"ticket", "sleep", "slots", "nvme", "ahci", "blk", "partitions", "crash",
          "nic", "tcp", "neighbours", "lookups", "buffers", "ps2", "compositor"}

\* A part that does not move begins with one of its choices.
FirstTable == CHOOSE t \in Tables : TRUE

DevicesInit ==
  /\ part \in Parts
  /\ ParkingInit /\ Init /\ SleepLockInit /\ SlotsInit /\ NvmeInit /\ AhciInit /\ BlkInit
  /\ CrashInit /\ NicInit /\ TcpInit /\ NeighboursInit /\ BuffersInit /\ Ps2Init
  /\ CompositorInit
  /\ (part = "partitions" \/ table = FirstTable) /\ PartitionsInit
  /\ (part = "lookups" \/ (dhcp = "Done" /\ resolver = FALSE)) /\ LookupsInit

LockNext ==
  /\ part \in {"ticket", "sleep"}
  /\ UNCHANGED <<diskState, storeState, netState, deskState>>
  /\ \/ part = "ticket" /\ Next /\ UNCHANGED <<parking, sleepLock>>
     \/ part = "sleep" /\ SleepLockNext /\ UNCHANGED vars

DiskNext ==
  /\ part \in {"slots", "nvme", "ahci", "blk"}
  /\ UNCHANGED <<lockState, storeState, netState, deskState>>
  /\ \/ part = "slots" /\ SlotsNext /\ UNCHANGED <<nvmeVars, ahciVars, blkVars>>
     \/ /\ UNCHANGED slotVars
        /\ \/ part = "nvme" /\ NvmeNext /\ UNCHANGED <<ahciVars, blkVars>>
           \/ part = "ahci" /\ AhciNext /\ UNCHANGED <<nvmeVars, blkVars>>
           \/ part = "blk" /\ BlkNext /\ UNCHANGED <<nvmeVars, ahciVars>>

StoreNext ==
  /\ part \in {"partitions", "crash"}
  /\ UNCHANGED <<parking, lockState, diskState, netState, deskState>>
  /\ \/ part = "partitions" /\ PartitionsNext /\ UNCHANGED crashVars
     \/ part = "crash" /\ CrashNext /\ UNCHANGED partitionVars

NetNext ==
  /\ part \in {"nic", "tcp", "neighbours", "lookups", "buffers"}
  /\ UNCHANGED <<parking, lockState, diskState, storeState, deskState>>
  /\ \/ part = "nic" /\ NicNext
        /\ UNCHANGED <<tcpVars, neighbourVars, lookupVars, bufferVars>>
     \/ part = "tcp" /\ TcpNext
        /\ UNCHANGED <<nicVars, neighbourVars, lookupVars, bufferVars>>
     \/ part = "neighbours" /\ NeighboursNext
        /\ UNCHANGED <<nicVars, tcpVars, lookupVars, bufferVars>>
     \/ part = "lookups" /\ LookupsNext
        /\ UNCHANGED <<nicVars, tcpVars, neighbourVars, bufferVars>>
     \/ part = "buffers" /\ BuffersNext
        /\ UNCHANGED <<nicVars, tcpVars, neighbourVars, lookupVars>>

DeskNext ==
  /\ part \in {"ps2", "compositor"}
  /\ UNCHANGED <<parking, lockState, diskState, storeState, netState>>
  /\ \/ part = "ps2" /\ Ps2Next /\ UNCHANGED compositorVars
     \/ part = "compositor" /\ CompositorNext /\ UNCHANGED ps2Vars

DevicesNext ==
  /\ LockNext \/ DiskNext \/ StoreNext \/ NetNext \/ DeskNext
  /\ UNCHANGED part

DevicesSpec == DevicesInit /\ [][DevicesNext]_devicesVars
----------------------------------------------------------------------------
(* What parts promise together; what a part promises alone is in its module. *)

\* Disk controllers: no request is answered with another one's outcome, or before the
\* device is done with its memory, and no caller sleeps for a slot that is free.
DisksAnswer ==
  /\ part = "slots" => SlotWaitersWoken
  /\ part = "nvme" => NvmeSound
  /\ part = "ahci" => AhciSound
  /\ part = "blk" => BlkSound

\* Network card: a receive buffer is read only after the device has filled it and
\* before it is given back, and a frame is not changed while the device sends it.
CardSound == part = "nic" => NicSound

\* TCP: what a side reads is what the other wrote, in order and once, and a close
\* that is acknowledged means all of it has arrived.
StreamsIntact == part = "tcp" => StreamIntact /\ FinishedDelivered

\* Keyboard: no byte stays in the controller with its interrupt lost, and the shift
\* state follows the keys.
KeysArrive == part = "ps2" => ByteNotStranded /\ ShiftTracksKeys

\* Compositor: after a frame the display shows the surfaces as they are stacked.
ScreenCurrent == part = "compositor" => DisplayUpToDate
=============================================================================
