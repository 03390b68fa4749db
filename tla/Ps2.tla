-------------------------------- MODULE Ps2 --------------------------------
(***************************************************************************)
(* The input daemon (userland/src/bin/input.rs): the keyboard controller's *)
(* one-byte buffer, its edge-triggered interrupt, which the kernel turns   *)
(* into a message on the daemon's endpoint, and the decoding of the bytes. *)
(*                                                                         *)
(* The controller and the keyboard are external.  Keys are the two shifts  *)
(* and an extended key, whose bytes are E0 and a code; a release is the    *)
(* code with its top bit, here the sign.  The mouse's packets share the    *)
(* buffer and are not modelled.                                            *)
(***************************************************************************)
EXTENDS Integers, Sequences

CONSTANTS EndpointCapacity,   \* of the daemon's endpoint
          DrainLimit,         \* bytes one drain() takes at most
          MaxWire,            \* bound: bytes the keyboard has still to send
          MaxPresses          \* bound: keys pressed or released

VARIABLES heldKeys, wire, presses,      \* the keyboard: keys down, bytes to send
          outputByte,               \* the controller's buffer
          bound, queued,            \* irq_bind was made; messages on the endpoint
          daemon, taken,            \* what the daemon is doing; bytes this drain took
          extended, leftShift, rightShift

keyboard == <<heldKeys, wire, presses>>
decoder == <<extended, leftShift, rightShift>>
ps2Vars == <<keyboard, outputByte, bound, queued, daemon, taken, decoder>>

NoByte == 0
E0 == 100
LeftShift == 42
RightShift == 54

Key == {LeftShift, RightShift, E0 + LeftShift}
Code(key) == IF key > E0 THEN key - E0 ELSE key
Prefix(key) == IF key > E0 THEN <<E0>> ELSE <<>>

\* init_controller() has run: both devices on and the buffer emptied.
Ps2Init ==
  /\ heldKeys = {} /\ wire = <<>> /\ presses = 0
  /\ outputByte = NoByte /\ bound = FALSE /\ queued = 0
  /\ daemon = "bind" /\ taken = 0
  /\ extended = FALSE /\ leftShift = FALSE /\ rightShift = FALSE

Press(key) ==
  /\ presses < MaxPresses /\ Len(wire) < MaxWire
  /\ presses' = presses + 1
  /\ heldKeys' = IF key \in heldKeys THEN heldKeys \ {key} ELSE heldKeys \cup {key}
  /\ wire' = wire \o Prefix(key) \o <<IF key \in heldKeys THEN 0 - Code(key) ELSE Code(key)>>
  /\ UNCHANGED <<outputByte, bound, queued, daemon, taken, decoder>>

\* A byte reaches the buffer and raises the line: device::on_interrupt
\* posts it, and an endpoint that is full drops it.
Arrive ==
  /\ wire # <<>> /\ outputByte = NoByte
  /\ outputByte' = Head(wire)
  /\ wire' = Tail(wire)
  /\ queued' = IF bound /\ queued < EndpointCapacity THEN queued + 1 ELSE queued
  /\ UNCHANGED <<heldKeys, presses, bound, daemon, taken, decoder>>

\* A bug: the daemon waits for the first interrupt without looking.
BindAndWait ==
  /\ daemon = "bind"
  /\ bound' = TRUE /\ daemon' = "wait"
  /\ UNCHANGED <<keyboard, outputByte, queued, taken, decoder>>

\* Bound, then drained.
Bind ==
  /\ daemon = "bind"
  /\ bound' = TRUE /\ daemon' = "drain"
  /\ UNCHANGED <<keyboard, outputByte, queued, taken, decoder>>

ReceiveIrq ==
  /\ daemon = "wait" /\ queued > 0
  /\ queued' = queued - 1
  /\ daemon' = "drain"
  /\ UNCHANGED <<keyboard, outputByte, bound, taken, decoder>>

ExtendedAfter(byte) == byte = E0

\* Decoder::key.
Decode(byte) ==
  /\ extended' = ExtendedAfter(byte)
  /\ leftShift' = IF ~extended /\ byte \in {LeftShift, -LeftShift} THEN byte > 0 ELSE leftShift
  /\ rightShift' = IF ~extended /\ byte \in {RightShift, -RightShift} THEN byte > 0 ELSE rightShift

\* One turn of drain().
DrainByte ==
  /\ daemon = "drain" /\ taken < DrainLimit /\ outputByte # NoByte
  /\ Decode(outputByte)
  /\ outputByte' = NoByte
  /\ taken' = taken + 1
  /\ UNCHANGED <<keyboard, bound, queued, daemon>>

DrainEnds ==
  /\ daemon = "drain" /\ (taken = DrainLimit \/ outputByte = NoByte)
  /\ daemon' = "wait" /\ taken' = 0
  /\ UNCHANGED <<keyboard, outputByte, bound, queued, decoder>>

Ps2Next ==
  \/ \E key \in Key : Press(key)
  \/ Arrive \/ Bind \/ ReceiveIrq \/ DrainByte \/ DrainEnds

Ps2Spec == Ps2Init /\ [][Ps2Next]_ps2Vars

\* No byte is left in the controller with the daemon waiting for an
\* interrupt that has already been: the line is edge-triggered, so nothing
\* would announce it again (input.rs:50, and drain's early stop).
ByteNotStranded == daemon = "wait" /\ outputByte # NoByte => queued > 0

\* Once every byte has been taken, the shift the daemon reports with a key is
\* the shift that is held, whatever was pressed along with it.
ShiftTracksKeys ==
  wire = <<>> /\ outputByte = NoByte =>
    (leftShift <=> LeftShift \in heldKeys) /\ (rightShift <=> RightShift \in heldKeys)
=============================================================================
