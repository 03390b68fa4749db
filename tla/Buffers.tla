------------------------------- MODULE Buffers -------------------------------
(***************************************************************************)
(* The network daemon's table of the client buffers it has mapped          *)
(* (userland/src/bin/net.rs, mapping and refers_to).  Bindings, listeners, *)
(* connections and lookups keep the address of a buffer, and a full table  *)
(* makes room by unmapping one.  An address stands for its buffer, since   *)
(* the kernel hands out each address once.                                 *)
(***************************************************************************)
EXTENDS Integers, FiniteSets

CONSTANTS Buffer,         \* buffers clients may name
          Mappings,       \* MAPPINGS
          Port            \* ports clients may bind or listen on

\* No client's buffer is the empty entry.
ASSUME BuffersAssumption == Mappings \in Nat /\ "none" \notin Buffer

VARIABLES mappings,       \* slot -> buffer
          bindings,       \* port -> buffer
          listeners,      \* port -> buffer
          stream,         \* the connection: its buffer, and what is in flight from
          lookupBase      \* the lookup's buffer

bufferVars == <<mappings, bindings, listeners, stream, lookupBase>>

NoBuffer == "none"
Unopened == [base |-> NoBuffer, flight |-> NoBuffer]

BuffersInit ==
  /\ mappings = [s \in 1..Mappings |-> NoBuffer]
  /\ bindings = [p \in Port |-> NoBuffer] /\ listeners = [p \in Port |-> NoBuffer]
  /\ stream = Unopened /\ lookupBase = NoBuffer

\* A bug: what is in flight is forgotten.
RefersToNoFlight(b) ==
  \/ \E p \in Port : bindings[p] = b \/ listeners[p] = b
  \/ stream.base = b
  \/ lookupBase = b

RefersTo(b) ==
  \/ \E p \in Port : bindings[p] = b \/ listeners[p] = b
  \/ stream.base = b \/ (stream.base # NoBuffer /\ stream.flight = b)
  \/ lookupBase = b

First(slots) == CHOOSE s \in slots : \A t \in slots : s <= t

\* mapping(): the buffer is in the table already, or takes a free slot, or
\* the first that nothing refers to.
Mapped(b) == \E s \in DOMAIN mappings : mappings[s] = b
Holding(b) == {s \in DOMAIN mappings : mappings[s] = b}
Spare == {s \in DOMAIN mappings : ~RefersTo(mappings[s])}

Room == IF Holding(NoBuffer) # {} THEN Holding(NoBuffer) ELSE Spare

Mapping(b) ==
  \/ Mapped(b) /\ UNCHANGED mappings
  \/ /\ ~Mapped(b) /\ Room # {}
     /\ mappings' = [mappings EXCEPT ![First(Room)] = b]

\* The kernel refuses a buffer nobody shared: the slot was emptied first.
MappingRefused(b) ==
  /\ ~Mapped(b) /\ Room # {}
  /\ mappings' = [mappings EXCEPT ![First(Room)] = NoBuffer]
  /\ UNCHANGED <<bindings, listeners, stream, lookupBase>>

BindBuffer(p, b) ==
  /\ Mapping(b)
  /\ bindings' = [bindings EXCEPT ![p] = b]
  /\ UNCHANGED <<listeners, stream, lookupBase>>

Listen(p, b) ==
  /\ Mapping(b)
  /\ listeners' = [listeners EXCEPT ![p] = b]
  /\ UNCHANGED <<bindings, stream, lookupBase>>

\* accept() takes the listener and its buffer with it.
AcceptOn(p) ==
  /\ listeners[p] # NoBuffer /\ stream = Unopened
  /\ stream' = [Unopened EXCEPT !.base = listeners[p]]
  /\ listeners' = [listeners EXCEPT ![p] = NoBuffer]
  /\ UNCHANGED <<mappings, bindings, lookupBase>>

ConnectWith(b) ==
  /\ stream = Unopened
  /\ Mapping(b)
  /\ stream' = [Unopened EXCEPT !.base = b]
  /\ UNCHANGED <<bindings, listeners, lookupBase>>

\* send_tcp and start_flight; the address stays when the flight has landed.
SendFrom(b) ==
  /\ stream # Unopened
  /\ Mapping(b)
  /\ stream' = [stream EXCEPT !.flight = b]
  /\ UNCHANGED <<bindings, listeners, lookupBase>>

FinishStream ==
  /\ stream # Unopened
  /\ stream' = Unopened
  /\ UNCHANGED <<mappings, bindings, listeners, lookupBase>>

ResolveWith(b) ==
  /\ lookupBase = NoBuffer
  /\ Mapping(b)
  /\ lookupBase' = b
  /\ UNCHANGED <<bindings, listeners, stream>>

ResolveEnds ==
  /\ lookupBase # NoBuffer
  /\ lookupBase' = NoBuffer
  /\ UNCHANGED <<mappings, bindings, listeners, stream>>

\* send_udp and a ping over IPv6 only read it.
SendUdp(b) == Mapping(b) /\ UNCHANGED <<bindings, listeners, stream, lookupBase>>

BuffersNext ==
  \/ \E b \in Buffer :
       \/ MappingRefused(b) \/ ConnectWith(b) \/ SendFrom(b) \/ ResolveWith(b) \/ SendUdp(b)
       \/ \E p \in Port : BindBuffer(p, b) \/ Listen(p, b)
  \/ \E p \in Port : AcceptOn(p)
  \/ FinishStream \/ ResolveEnds

BuffersSpec == BuffersInit /\ [][BuffersNext]_bufferVars

\* Every buffer the daemon may still read or write is mapped: the data a
\* segment is sent again from, the place a datagram or an answer is put.
BuffersStayMapped ==
  \A b \in Buffer :
    b \in {lookupBase, stream.base, stream.flight} \cup {bindings[p] : p \in Port}
          \cup {listeners[p] : p \in Port} => Mapped(b)
=============================================================================
