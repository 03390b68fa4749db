-------------------------------- MODULE Nic --------------------------------
(***************************************************************************)
(* The network card (kernel/src/net.rs) and the loop of the daemon that    *)
(* uses it (userland/src/bin/net.rs, main and drain): frames arrive in the *)
(* buffers on offer, an interrupt posts a notification to the endpoint the *)
(* daemon has bound, and the same endpoint carries its clients' commands.  *)
(*                                                                         *)
(* A frame is its number on the wire.  The card is external.               *)
(***************************************************************************)
EXTENDS Virtio, Sequences, FiniteSetsExt

CONSTANTS ReceiveBuffer,     \* RECEIVE_BUFFERS descriptors
          NicCapacity,       \* of the daemon's endpoint
          NicDrainLimit,     \* frames one drain() takes at most
          MaxArrivals, MaxSends   \* bounds: frames that come in and go out

VARIABLES receiveQueue, buffer, arrived, received,   \* receive: the queue, each buffer's frame
          interrupts,                                \* raised and not yet taken
          announceTo, control, lost,                      \* BOUND; the endpoint; a notification met it full
          stack, drained,                            \* the daemon: its place, frames this drain took
          transmitQueue, transmitting, transmitBuffer, accepted, onWire

receiving == <<receiveQueue, buffer, arrived, received>>
announcing == <<interrupts, announceTo, control, lost>>
stackVars == <<stack, drained>>
sending == <<transmitQueue, transmitting, transmitBuffer, accepted, onWire>>
nicVars == <<receiving, announcing, stackVars, sending>>

OfferAll(q, buffers) == FoldSet(LAMBDA b, r : Offer(r, b), q, buffers)

\* bring_up(): every receive buffer on offer.
NicInit ==
  /\ receiveQueue = OfferAll(NewQueue, ReceiveBuffer)
  /\ buffer = [b \in ReceiveBuffer |-> 0] /\ arrived = 0 /\ received = 0
  /\ interrupts = 0 /\ announceTo = FALSE /\ control = <<>> /\ lost = FALSE
  /\ stack = "bind" /\ drained = 0
  /\ transmitQueue = NewQueue /\ transmitting = FALSE /\ transmitBuffer = 0
  /\ accepted = 0 /\ onWire = 0

\* A frame lands in the next buffer on offer, and the card raises its vector.
FrameArrives ==
  /\ HasOffer(receiveQueue) /\ arrived < MaxArrivals
  /\ arrived' = arrived + 1
  /\ buffer' = [buffer EXCEPT ![FirstOffer(receiveQueue)] = arrived + 1]
  /\ receiveQueue' = PutUsed(TakeOffer(receiveQueue), FirstOffer(receiveQueue))
  /\ interrupts' = interrupts + 1
  /\ UNCHANGED <<received, announceTo, control, lost, stackVars, sending>>

\* on_receive: "A full queue already holds a notification".
OnReceive ==
  /\ interrupts > 0
  /\ interrupts' = interrupts - 1
  /\ control' = IF announceTo /\ Len(control) < NicCapacity THEN Append(control, "received") ELSE control
  /\ lost' = (lost \/ (announceTo /\ Len(control) >= NicCapacity))
  /\ UNCHANGED <<receiving, announceTo, stackVars, sending>>

\* A client's command, refused by an endpoint that is full.
ClientSends ==
  /\ Len(control) < NicCapacity
  /\ control' = Append(control, "command")
  /\ UNCHANGED <<receiving, interrupts, announceTo, lost, stackVars, sending>>

\* A bug to be caught: binding without taking what came before.
BindArrivalsOnly ==
  /\ stack = "bind"
  /\ announceTo' = TRUE
  /\ stack' = "wait" /\ drained' = 0
  /\ UNCHANGED <<receiving, interrupts, control, lost, sending>>

\* main: net_bind, and drain() for what was announced to nobody.
BindArrivals ==
  /\ stack = "bind"
  /\ announceTo' = TRUE
  /\ stack' = "drain" /\ drained' = 0
  /\ UNCHANGED <<receiving, interrupts, control, lost, sending>>

\* One turn of drain(): receive() takes a frame and puts its buffer back on
\* offer; drain() ends when there is none, or at its limit.
DrainOne ==
  /\ stack = "drain" /\ drained < NicDrainLimit /\ HasUsed(receiveQueue)
  /\ LET b == FirstUsed(receiveQueue)
     IN  /\ received' = IF buffer[b] = received + 1 THEN received + 1 ELSE 0
         /\ receiveQueue' = Offer(TakeUsed(receiveQueue), b)
  /\ drained' = drained + 1
  /\ UNCHANGED <<buffer, arrived, announcing, stack, sending>>

NicDrainEnds ==
  /\ stack = "drain" /\ (drained = NicDrainLimit \/ ~HasUsed(receiveQueue))
  /\ stack' = "wait" /\ drained' = 0
  /\ UNCHANGED <<receiving, announcing, sending>>

\* The loop: the next message, a notification or a command.
TakeMessage ==
  /\ stack = "wait" /\ control # <<>>
  /\ control' = Tail(control)
  /\ stack' = IF Head(control) = "received" THEN "drain" ELSE "command"
  /\ UNCHANGED <<receiving, interrupts, announceTo, lost, drained, sending>>

\* send(), for a command or for the answer to a frame just taken: the last frame
\* has come back, or this is a Timeout.
Send ==
  /\ stack \in {"command", "drain"} /\ accepted < MaxSends
  /\ transmitting => HasUsed(transmitQueue)
  /\ accepted' = accepted + 1 /\ transmitBuffer' = accepted + 1
  /\ transmitQueue' = Offer(IF transmitting THEN TakeUsed(transmitQueue) ELSE transmitQueue, "buffer")
  /\ transmitting' = TRUE
  /\ stack' = IF stack = "command" THEN "wait" ELSE stack
  /\ UNCHANGED <<receiving, announcing, drained, onWire>>

\* A command that sends nothing, or whose send() timed out.
NothingSent ==
  /\ stack = "command"
  /\ stack' = "wait"
  /\ UNCHANGED <<receiving, announcing, drained, sending>>

\* The card puts the buffer's frame on the wire and returns the descriptor.
FrameLeaves ==
  /\ HasOffer(transmitQueue)
  /\ onWire' = IF transmitBuffer = onWire + 1 THEN onWire + 1 ELSE 0
  /\ transmitQueue' = PutUsed(TakeOffer(transmitQueue), FirstOffer(transmitQueue))
  /\ UNCHANGED <<receiving, announcing, stackVars, transmitting, transmitBuffer, accepted>>

\* release_thread, when the daemon's thread exits: nobody is told of arrivals.
StackExits ==
  /\ stack # "gone"
  /\ stack' = "gone" /\ drained' = 0
  /\ announceTo' = FALSE
  /\ UNCHANGED <<receiving, interrupts, control, lost, sending>>

NicNext ==
  \/ FrameArrives \/ OnReceive \/ ClientSends \/ BindArrivals \/ DrainOne \/ NicDrainEnds
  \/ StackExits \/ TakeMessage \/ Send \/ NothingSent \/ FrameLeaves

NicSpec == NicInit /\ [][NicNext]_nicVars

\* The daemon waits with frames there for it and no word of them on the way.
Stranded == /\ stack = "wait" /\ control = <<>> /\ interrupts = 0
            /\ HasUsed(receiveQueue)

\* Each sends the stack to take every frame there is: frames are left lying only
\* after a notification has met a full endpoint.  What the daemon is handed is
\* every frame that came, once and in order, and what leaves the card is every
\* frame send() took: no buffer is used again before its owner is done with it.
NicSound ==
  /\ Stranded => lost
  /\ ~HasUsed(receiveQueue) => received = arrived
  /\ ~HasOffer(transmitQueue) => onWire = accepted

\* on_receive: "A full queue already holds a notification, and each sends the
\* stack to take every frame there is."  No frame waits unannounced.
FramesNotStranded == ~Stranded
=============================================================================
