------------------------------ MODULE Channel ------------------------------
(***************************************************************************)
(* A bounded first-in first-out channel: what a ring is to the processes   *)
(* at its ends.                                                            *)
(***************************************************************************)
EXTENDS Naturals, Sequences

CONSTANTS Capacity, Value

VARIABLES queue,   \* what was sent and not yet received
          taken    \* the value last received

channel == <<queue, taken>>

ChannelInit == queue = << >> /\ taken \in Value

Put(v) ==
  /\ Len(queue) < Capacity
  /\ queue' = Append(queue, v)
  /\ UNCHANGED taken

Take ==
  /\ queue # << >>
  /\ taken' = Head(queue)
  /\ queue' = Tail(queue)

ChannelNext == (\E v \in Value : Put(v)) \/ Take

ChannelSpec == ChannelInit /\ [][ChannelNext]_channel
=============================================================================
