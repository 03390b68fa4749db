-------------------------------- MODULE Tcp --------------------------------
(***************************************************************************)
(* TCP in the network daemon (userland/src/bin/net.rs): one connection     *)
(* between two machines that both run this code.  "a" connects and "b"     *)
(* listens.                                                                *)
(*                                                                         *)
(* The network keeps every segment ever sent and delivers any of them, any *)
(* number of times and in any order: loss is a segment never delivered,    *)
(* and checksums make corruption a loss.  A sequence number counts modulo  *)
(* 2^32 in the code and modulo Modulus here; a segment carries one byte,   *)
(* whose value is its place in the stream, so what arrives can be compared *)
(* with what was written.  The peer's window and options are ignored, as   *)
(* in the code, and the receive buffer (a page or more) always holds a     *)
(* segment once the client has consumed the last.  Ticks and retries are   *)
(* not counted: a segment may be sent again, or given up on, at any time.  *)
(***************************************************************************)
EXTENDS Integers, Sequences, FiniteSets

CONSTANTS Modulus,      \* sequence numbers
          Starts,       \* what sequence_start may return
          Writers,      \* bound: the machines whose clients write
          MaxBytes      \* bound: bytes each of them may write

ASSUME TcpAssumption == Starts \subseteq 0..(Modulus - 1) /\ MaxBytes \in Nat

MaxWrites == [s \in {"a", "b"} |-> IF s \in Writers THEN MaxBytes ELSE 0]

VARIABLES connection,   \* each machine's Connection
          listening,    \* b's listener is in the table
          network,      \* every segment sent
          wrote,        \* bytes each client has had accepted by send_tcp
          got,          \* bytes each client has been given
          sent,         \* bytes each client has been told are acknowledged
          ended         \* the reason in a client's last TAG_TCP_CLOSED

tcpVars == <<connection, listening, network, wrote, got, sent, ended>>

Machine == {"a", "b"}
Peer(m) == IF m = "a" THEN "b" ELSE "a"
Plus(n, k) == (n + k) % Modulus

\* Connection::default(): the slot is free, and its remote address is ::
Closed ==
  [state |-> "Free", remote |-> "nobody", delivered |-> FALSE, unacknowledged |-> 0,
   nextSend |-> 0, nextReceive |-> 0, flight |-> {}, data |-> 0, closing |-> FALSE]

TcpInit ==
  /\ connection = [m \in Machine |-> Closed]
  /\ listening = TRUE
  /\ network = {}
  /\ wrote = [m \in Machine |-> 0] /\ sent = [m \in Machine |-> 0]
  /\ got = [m \in Machine |-> <<>>]
  /\ ended = [m \in Machine |-> "no"]

InFlight(c) == c.unacknowledged # c.nextSend

(***************************************************************************)
(* A handler's effect: the connection as the handler leaves it, what it    *)
(* sent and what it told the client.  Each function of the code is an      *)
(* operator from one effect to the next.                                   *)
(***************************************************************************)
Effect(c) == [c |-> c, out |-> {}, told |-> {}]

Tell(e, what) == [e EXCEPT !.told = @ \cup {what}]

\* segment(): the acknowledgement is written only under ACK.
Segment(to, sequence, acknowledgement, flags, data) ==
  [to |-> to, sequence |-> sequence, flags |-> flags, data |-> data,
   acknowledgement |-> IF "ACK" \in flags THEN acknowledgement ELSE 0]

ConnectionSegment(e, sequence, flags, data) ==
  [e EXCEPT !.out = @ \cup {Segment(e.c.remote, sequence, e.c.nextReceive, flags, data)}]

SendAck(e) == ConnectionSegment(e, e.c.nextSend, {"ACK"}, 0)
SendReset(e) == ConnectionSegment(e, e.c.nextSend, {"RST"}, 0)

Transmit(e) ==
  ConnectionSegment(e, e.c.unacknowledged,
    e.c.flight \cup (IF e.c.state = "SynSent" THEN {} ELSE {"ACK"}), e.c.data)

StartFlight(e, flags, data) ==
  Transmit([e EXCEPT !.c =
    [@ EXCEPT !.unacknowledged = e.c.nextSend, !.nextSend = Plus(@, 1),
              !.flight = flags, !.data = data]])

SendFin(e) ==
  StartFlight([e EXCEPT !.c.state = IF @ = "CloseWait" THEN "LastAck" ELSE "FinWait1"], {"FIN"}, 0)

Finish(e, reason) == [Tell(e, <<"closed", reason>>) EXCEPT !.c = Closed]

FlightLanded(e) ==
  LET landed == [e EXCEPT !.c.unacknowledged = e.c.nextSend, !.c.flight = {}, !.c.data = 0]
      said   == IF e.c.data = 0 THEN landed ELSE Tell(landed, <<"sent", e.c.data>>)
  IN  IF "FIN" \in e.c.flight
      THEN CASE e.c.state = "FinWait1" -> [landed EXCEPT !.c.state = "FinWait2"]
             [] e.c.state \in {"Closing", "LastAck"} -> Finish(landed, "finished")
             [] OTHER -> landed
      ELSE IF e.c.closing /\ e.c.state \in {"Established", "CloseWait"}
           THEN SendFin([said EXCEPT !.c.closing = FALSE])
           ELSE said

(***************************************************************************)
(* tcp(): a segment for a connection that exists.                          *)
(***************************************************************************)
ResetBelieved(c, s) ==
  IF c.state = "SynSent" THEN "ACK" \in s.flags /\ s.acknowledgement = c.nextSend
                         ELSE s.sequence = c.nextReceive

Acknowledges(c, s) == "ACK" \in s.flags /\ s.acknowledgement = c.nextSend

Acknowledged(e, s) ==
  IF e.c.state = "SynReceived" THEN FlightLanded([e EXCEPT !.c.state = "Established"])
  ELSE IF InFlight(e.c) /\ Acknowledges(e.c, s) THEN FlightLanded(e) ELSE e

Receiving(c) == c.state \in {"Established", "FinWait1", "FinWait2"}

\* A bug: a segment that was already taken is taken again.
TakesAny(c, s) == s.data # 0 /\ Receiving(c) /\ ~c.delivered

Takes(c, s) ==
  s.data # 0 /\ Receiving(c) /\ s.sequence = c.nextReceive /\ ~c.delivered

TakeData(e, s) ==
  IF Takes(e.c, s)
  THEN Tell([e EXCEPT !.c.nextReceive = Plus(@, 1), !.c.delivered = TRUE], <<"data", s.data>>)
  ELSE e

\* The sequence number after the payload must be the one expected now.
\* "receiving" and "taken" were settled before the data was looked at.
TakeFin(e, s, receiving, taken) ==
  LET acked == SendAck([e EXCEPT !.c.nextReceive = Plus(@, 1)]) IN
  IF /\ "FIN" \in s.flags /\ receiving /\ (s.data = 0 \/ taken)
     /\ Plus(s.sequence, IF s.data = 0 THEN 0 ELSE 1) = e.c.nextReceive
  THEN CASE e.c.state = "Established" -> [acked EXCEPT !.c.state = "CloseWait"]
         [] e.c.state = "FinWait1" -> [acked EXCEPT !.c.state = "Closing"]
         [] OTHER -> Finish(acked, "finished")
  ELSE IF s.data # 0 \/ "FIN" \in s.flags THEN SendAck(e) ELSE e

Opened(e, s) ==
  SendAck(FlightLanded([e EXCEPT !.c.nextReceive = Plus(s.sequence, 1), !.c.state = "Established"]))

Handled(c, s) ==
  LET e == Effect(c) IN
  IF "RST" \in s.flags THEN IF ResetBelieved(c, s) THEN Finish(e, "reset") ELSE e
  ELSE IF c.state = "SynSent"
  THEN IF {"SYN", "ACK"} \subseteq s.flags /\ Acknowledges(c, s) THEN Opened(e, s) ELSE e
  ELSE IF c.state = "SynReceived" /\ ~Acknowledges(c, s) THEN e
  ELSE LET landed == Acknowledged(e, s)
       IN  TakeFin(TakeData(landed, s), s, Receiving(landed.c), Takes(landed.c, s))

\* A segment for no connection is refused, unless it is a reset itself.
Refused(m, s) ==
  IF "RST" \in s.flags THEN {}
  ELSE IF "ACK" \in s.flags THEN {Segment(Peer(m), s.acknowledgement, 0, {"RST"}, 0)}
  ELSE {Segment(Peer(m), 0, Plus(s.sequence, 1), {"RST", "ACK"}, 0)}

Apply(m, e) ==
  /\ connection' = [connection EXCEPT ![m] = e.c]
  /\ network' = network \cup e.out
  /\ got' = [got EXCEPT ![m] = @ \o (IF \E n \in 1..MaxWrites[Peer(m)] : <<"data", n>> \in e.told
       THEN <<CHOOSE n \in 1..MaxWrites[Peer(m)] : <<"data", n>> \in e.told>> ELSE <<>>)]
  /\ sent' = [sent EXCEPT ![m] = IF \E n \in 1..MaxWrites[m] : <<"sent", n>> \in e.told THEN @ + 1 ELSE @]
  /\ ended' = [ended EXCEPT ![m] =
       IF \E r \in {"reset", "finished", "timed out"} : <<"closed", r>> \in e.told
       THEN CHOOSE r \in {"reset", "finished", "timed out"} : <<"closed", r>> \in e.told ELSE @]

(***************************************************************************)
(* The machines.                                                           *)
(***************************************************************************)
Receive(m, s) ==
  /\ s.to = m /\ connection[m].state # "Free"
  /\ Apply(m, Handled(connection[m], s))
  /\ UNCHANGED <<listening, wrote>>

Opening(m, state, start, nextReceive) ==
  [Closed EXCEPT !.state = state, !.remote = Peer(m), !.unacknowledged = start,
                 !.nextSend = start, !.nextReceive = nextReceive]

Connect(m, start) ==
  /\ m = "a" /\ connection[m].state = "Free" /\ ended[m] = "no"
  /\ Apply(m, StartFlight(Effect(Opening(m, "SynSent", start, 0)), {"SYN"}, 0))
  /\ UNCHANGED <<listening, wrote>>

\* A SYN for a port someone is listening on; the listener is used up.
Accept(m, s, start) ==
  /\ s.to = m /\ connection[m].state = "Free"
  /\ s.flags = {"SYN"} /\ m = "b" /\ listening
  /\ listening' = FALSE
  /\ Apply(m, StartFlight(Effect(Opening(m, "SynReceived", start, Plus(s.sequence, 1))), {"SYN"}, 0))
  /\ UNCHANGED wrote

Refuse(m, s) ==
  /\ s.to = m /\ connection[m].state = "Free"
  /\ ~(s.flags = {"SYN"} /\ m = "b" /\ listening)
  /\ network' = network \cup Refused(m, s)
  /\ UNCHANGED <<connection, listening, wrote, got, sent, ended>>

\* send_tcp; one that is not idle and open is answered with zero bytes sent.
SendTcp(m) ==
  LET c == connection[m] IN
  /\ c.state \in {"Established", "CloseWait"} /\ ~InFlight(c) /\ ~c.closing
  /\ wrote[m] < MaxWrites[m]
  /\ wrote' = [wrote EXCEPT ![m] = @ + 1]
  /\ Apply(m, StartFlight(Effect(c), {"PSH"}, wrote[m] + 1))
  /\ UNCHANGED listening

Consumed(m) ==
  /\ connection[m].state # "Free" /\ connection[m].delivered
  /\ Apply(m, SendAck(Effect([connection[m] EXCEPT !.delivered = FALSE])))
  /\ UNCHANGED <<listening, wrote>>

Close(m) ==
  LET c == connection[m] IN
  /\ c.state \in {"SynSent", "SynReceived", "Established", "CloseWait"}
  /\ Apply(m, CASE c.state \in {"SynSent", "SynReceived"} -> Finish(SendReset(Effect(c)), "finished")
                [] InFlight(c) -> Effect([c EXCEPT !.closing = TRUE])
                [] OTHER -> SendFin(Effect(c)))
  /\ UNCHANGED <<listening, wrote>>

\* tick(), for a segment that has waited out its timeout: it is sent again,
\* or given up on once it has been sent too often.
TcpTick(m) ==
  LET c == connection[m] IN
  /\ c.state # "Free" /\ InFlight(c)
  /\ \/ Apply(m, Transmit(Effect(c)))
     \/ Apply(m, Finish(SendReset(Effect(c)), "timed out"))
  /\ UNCHANGED <<listening, wrote>>

TcpNext ==
  \E m \in Machine :
    \/ \E s \in network : Receive(m, s) \/ Refuse(m, s) \/ \E start \in Starts : Accept(m, s, start)
    \/ \E start \in Starts : Connect(m, start)
    \/ SendTcp(m) \/ Consumed(m) \/ Close(m) \/ TcpTick(m)

TcpSpec == TcpInit /\ [][TcpNext]_tcpVars

(***************************************************************************)
(* Properties.                                                             *)
(***************************************************************************)

\* Whatever the network loses, repeats and reorders, a client is given the
\* bytes the other one wrote, once each and in order, and is told that a
\* byte of its own is acknowledged only after the other client has it.
StreamIntact ==
  \A m \in Machine :
    /\ got[m] = [i \in 1..Len(got[m]) |-> i]
    /\ sent[m] <= Len(got[Peer(m)])
    /\ Len(got[m]) <= wrote[Peer(m)]

\* A connection reported as finished, rather than reset or timed out, has
\* delivered everything its client wrote.
FinishedDelivered ==
  \A m \in Machine : ended[m] = "finished" => Len(got[Peer(m)]) = wrote[m]

\* The answer to a repeated FIN goes to the peer that repeated it
\* (net.rs:1039: "say where this side is, so the peer knows what to send
\* again. A repeated FIN whose acknowledgement was lost lands here").
AnswersReachPeer == \A s \in network : s.to \in Machine
=============================================================================
