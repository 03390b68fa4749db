----------------------------- MODULE VirtioBlk -----------------------------
(***************************************************************************)
(* The virtio-blk driver (kernel/src/block/virtio_blk.rs): each slot has a *)
(* chain of descriptors and an outcome byte of its own, and service()      *)
(* collects whatever chains the device has finished, in its order.         *)
(***************************************************************************)
EXTENDS Virtio, FiniteSets

CONSTANT BlkSlot

\* bring_up() gives each slot three descriptors of the queue.
ASSUME BlkAssumption == 3 * Cardinality(BlkSlot) <= QueueSize

VARIABLES blkQueue, blkHolder, blkState,   \* the queue; each slot's holder and Completion
          outcomeByte,                     \* in each slot's memory: 0, 1 or 255
          atDevice, carriedOut             \* chains the device has; what each slot's came to

blkVars == <<blkQueue, blkHolder, blkState, outcomeByte, atDevice, carriedOut>>

BlkInit ==
  /\ blkQueue = NewQueue
  /\ blkHolder = [s \in BlkSlot |-> "free"] /\ blkState = [s \in BlkSlot |-> "Idle"]
  /\ outcomeByte = [s \in BlkSlot |-> 255]
  /\ atDevice = {} /\ carriedOut = [s \in BlkSlot |-> "none"]

BlkTake(s) ==
  /\ blkHolder[s] = "free"
  /\ blkHolder' = [blkHolder EXCEPT ![s] = "taken"]
  /\ UNCHANGED <<blkQueue, blkState, outcomeByte, atDevice, carriedOut>>

\* request(): the header and the outcome byte, then arm(), the chain and its
\* offer under the queue's lock.
BlkRequest(s) ==
  /\ blkHolder[s] = "taken"
  /\ outcomeByte' = [outcomeByte EXCEPT ![s] = 255]
  /\ blkState' = [blkState EXCEPT ![s] = "InFlight"]
  /\ blkQueue' = Offer(blkQueue, s)
  /\ blkHolder' = [blkHolder EXCEPT ![s] = "waiting"]
  /\ carriedOut' = [carriedOut EXCEPT ![s] = "none"]
  /\ UNCHANGED atDevice

BlkDeviceTakes ==
  /\ HasOffer(blkQueue)
  /\ atDevice' = atDevice \cup {FirstOffer(blkQueue)}
  /\ blkQueue' = TakeOffer(blkQueue)
  /\ UNCHANGED <<blkHolder, blkState, outcomeByte, carriedOut>>

\* The device writes the outcome before it returns the chain.
BlkDeviceAnswers(s, ok) ==
  /\ s \in atDevice /\ outcomeByte[s] = 255
  /\ outcomeByte' = [outcomeByte EXCEPT ![s] = IF ok THEN 0 ELSE 1]
  /\ carriedOut' = [carriedOut EXCEPT ![s] = IF ok THEN "Done" ELSE "Fault"]
  /\ UNCHANGED <<blkQueue, blkHolder, blkState, atDevice>>
BlkDeviceReturns(s) ==
  /\ s \in atDevice /\ outcomeByte[s] # 255
  /\ atDevice' = atDevice \ {s}
  /\ blkQueue' = PutUsed(blkQueue, s)
  /\ UNCHANGED <<blkHolder, blkState, outcomeByte, carriedOut>>

\* One turn of service()'s loop, which holds the queue's lock throughout.
BlkService ==
  /\ HasUsed(blkQueue)
  /\ LET s == FirstUsed(blkQueue)
     IN  blkState' = [blkState EXCEPT ![s] = IF outcomeByte[s] = 0 THEN "Done" ELSE "Fault"]
  /\ blkQueue' = TakeUsed(blkQueue)
  /\ UNCHANGED <<blkHolder, outcomeByte, atDevice, carriedOut>>

\* wait() returns, answered or, polled, timed out; chunked() goes on to the next
\* chunk on the same slot or release()s it.
BlkReturns(s, more) ==
  /\ blkHolder[s] = "waiting" /\ (more => blkState[s] = "Done")
  /\ blkHolder' = [blkHolder EXCEPT ![s] = IF more THEN "taken"
                                           ELSE IF blkState[s] = "InFlight" THEN "kept" ELSE "free"]
  /\ UNCHANGED <<blkQueue, blkState, outcomeByte, atDevice, carriedOut>>

BlkNext ==
  \/ BlkDeviceTakes \/ BlkService
  \/ \E s \in BlkSlot : \/ BlkTake(s) \/ BlkRequest(s) \/ BlkDeviceReturns(s)
                        \/ \E b \in BOOLEAN : BlkDeviceAnswers(s, b) \/ BlkReturns(s, b)

BlkSpec == BlkInit /\ [][BlkNext]_blkVars

\* A request is told what became of its own chain, and its slot's memory is in
\* nobody else's hands while the device may write there.
BlkSound ==
  \A s \in BlkSlot :
    /\ blkState[s] \in {"Done", "Fault"} => blkState[s] = carriedOut[s]
    /\ s \in atDevice => blkHolder[s] \in {"waiting", "kept"}
=============================================================================
