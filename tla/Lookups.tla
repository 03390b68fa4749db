------------------------------ MODULE Lookups ------------------------------
(***************************************************************************)
(* What the network daemon asks of others and waits to be told             *)
(* (userland/src/bin/net.rs): the MAC of a neighbour from ARP and NDP, an  *)
(* address from DHCP, a prefix from a router, addresses for names from     *)
(* DNS; and the one timer that has them asked again.                       *)
(***************************************************************************)
EXTENDS Integers, FiniteSets

(***************************************************************************)
(* Neighbours: one cache for ARP and NDP, filled round and round, and a    *)
(* few slots for frames whose next hop is not known yet.                   *)
(*                                                                         *)
(* A neighbour's MAC is the number of times it has been replaced; it       *)
(* announces itself whenever it likes.  Frames are numbered, and the       *)
(* network is what has left: each frame with the MAC it was sent to.       *)
(***************************************************************************)
CONSTANTS Neighbour,        \* addresses on the link, of either family
          Gateway,          \* the one that routes (gateway, router6)
          ArpEntries,       \* ARP_ENTRIES
          WaitingFrames,    \* WAITING_FRAMES
          MaxFrames,        \* bound: frames sent
          MaxMac            \* bound: times a neighbour is replaced

VARIABLES mac,              \* each neighbour's MAC now
          arp, arpNext,     \* the cache: entry -> <<address, mac>>, and where next
          waiting,          \* slot -> <<next_hop, frame>>
          number,           \* frames sent so far
          left              \* <<frame, next hop, mac>> for each that left

neighbourVars == <<mac, arp, arpNext, waiting, number, left>>

Nobody == "unspecified"
Far == "far"
Everyone == "everyone"

NeighboursInit ==
  /\ mac = [n \in Neighbour |-> 0]
  /\ arp = [e \in 0..(ArpEntries - 1) |-> <<Nobody, 0>>] /\ arpNext = 0
  /\ waiting = [s \in 1..WaitingFrames |-> <<Nobody, 0>>]
  /\ number = 0 /\ left = {}

Known(address) == {e \in DOMAIN arp : arp[e][1] = address}
Waiting(address) == {s \in DOMAIN waiting : waiting[s][1] = address}

\* send_ipv4 and send_ipv6 choose the next hop alike.
NextHop(destination) == IF destination = Far THEN Gateway ELSE destination

SendTo(destination) ==
  LET hop == NextHop(destination) IN
  /\ number < MaxFrames
  /\ number' = number + 1
  /\ \/ /\ destination = Everyone
        /\ left' = left \cup {<<number', Everyone, 0>>}
        /\ UNCHANGED waiting
     \/ /\ destination # Everyone
        /\ \E e \in Known(hop) : left' = left \cup {<<number', hop, arp[e][2]>>}
        /\ UNCHANGED waiting
     \/ /\ destination # Everyone /\ Known(hop) = {}
        /\ LET room == Waiting(Nobody) IN
             waiting' = IF room = {} THEN waiting
                        ELSE [waiting EXCEPT ![CHOOSE s \in room : \A t \in room : s <= t] =
                                <<hop, number'>>]
        /\ UNCHANGED left
  /\ UNCHANGED <<mac, arp, arpNext>>

Released(address) ==
  [s \in DOMAIN waiting |-> IF waiting[s][1] = address THEN <<Nobody, 0>> ELSE waiting[s]]

\* learn(), from an ARP packet for this machine, a solicitation for one of
\* its addresses, an advertisement, or a router's; the last three by NDP.
Learn(n) ==
  /\ IF Known(n) # {}
     THEN arp' = [e \in DOMAIN arp |-> IF e \in Known(n) THEN <<n, mac[n]>> ELSE arp[e]]
          /\ UNCHANGED arpNext
     ELSE arp' = [arp EXCEPT ![arpNext] = <<n, mac[n]>>]
          /\ arpNext' = (arpNext + 1) % ArpEntries
  /\ left' = left \cup {<<waiting[s][2], n, mac[n]>> : s \in Waiting(n)}
  /\ waiting' = Released(n)
  /\ UNCHANGED <<mac, number>>

\* Another machine takes a neighbour's address.
Replaced(n) ==
  /\ mac[n] < MaxMac
  /\ mac' = [mac EXCEPT ![n] = @ + 1]
  /\ UNCHANGED <<arp, arpNext, waiting, number, left>>

NeighboursNext ==
  \/ \E d \in Neighbour \cup {Far, Everyone} : SendTo(d)
  \/ \E n \in Neighbour : Learn(n) \/ Replaced(n)

NeighboursSpec == NeighboursInit /\ [][NeighboursNext]_neighbourVars

\* A frame waits only for a neighbour that is not in the cache, although
\* entries are pushed out of it by others; and it leaves once, from its slot
\* or directly, never both.
FramesLeaveOnce ==
  /\ \A s \in DOMAIN waiting : waiting[s][1] # Nobody =>
       Known(waiting[s][1]) = {} /\ \A f \in left : f[1] # waiting[s][2]
  /\ \A f, g \in left : f[1] = g[1] => f = g

(***************************************************************************)
(* Configuration and names.  Every message of the daemon's and every       *)
(* answer to one stays in a set from which any may be received, any number *)
(* of times and late.  The servers are external: each DHCP server has one  *)
(* address to offer, and grants or refuses it whenever it is asked.        *)
(* Random transaction and query ids are taken to be fresh.  The ticks a    *)
(* request has waited are not counted: any of them may be due at any tick. *)
(***************************************************************************)
CONSTANTS Server,           \* DHCP servers; each offers the address of its name
          ConfigWaiters,    \* CONFIG_WAITERS
          Resolvers,        \* RESOLVERS
          DnsTries,         \* DNS_TRIES
          Solicitations,    \* SOLICITATIONS
          MaxLookups,       \* bound: lookups asked for
          MaxTransaction    \* bound: DHCP transactions

VARIABLES dhcp, transaction, offered, address,  \* DHCP: state, id, offer, result
          granted,          \* <<transaction, server>> acknowledged
          questions,        \* DHCP messages sent: <<kind, transaction, server>>
          replies,          \* DHCP replies: <<kind, transaction, server>>
          resolving, waiters6,            \* clients waiting for the configuration
          router, solicited,            \* global6 is set; solicitations sent
          resolver,         \* dns_port is set
          resolves,         \* slot -> [id, tries], id 0 for a free one
          lookup,           \* lookups asked for so far
          queries,          \* DNS queries sent: <<slot, id>>
          told,             \* lookup -> what its client was told, in order
          timerArmed

\* What the proofs use of the constants: the addresses are addresses, and the
\* arrays have the sizes the source gives them.
ASSUME LookupsAssumption ==
  /\ Gateway \in Neighbour /\ Nobody \notin Neighbour
  /\ ArpEntries \in Nat \ {0} /\ WaitingFrames \in Nat
  /\ Resolvers \in Nat /\ MaxLookups \in Nat

lookupVars == <<dhcp, transaction, offered, address, granted, questions, replies, resolving,
                waiters6, router, solicited, resolver, resolves, lookup, queries, told, timerArmed>>

None == "none"
ResolveSlot == 1..Resolvers
Client == {"c", "d"}

Discover(t) == <<"discover", t, None>>
Request(t, server) == <<"request", t, server>>

\* main(): with no address of its own the daemon asks for one.
LookupsInit ==
  /\ \E static \in BOOLEAN :
       /\ dhcp = IF static THEN "Done" ELSE "Discovering"
       /\ address = IF static THEN "static" ELSE None
       /\ questions = IF static THEN {} ELSE {Discover(1)}
  /\ transaction = 1 /\ offered = None /\ granted = {} /\ replies = {}
  /\ resolving = {} /\ waiters6 = {} /\ router = FALSE /\ solicited = 1
  /\ resolver \in BOOLEAN
  /\ resolves = [s \in ResolveSlot |-> [id |-> 0, tries |-> 0]]
  /\ lookup = 0 /\ queries = {} /\ told = [l \in 1..MaxLookups |-> {}]
  /\ timerArmed = TRUE

Idle == [id |-> 0, tries |-> 0]

WaitingFor(state, slots, prefix, tries) ==
  \/ state # "Done"
  \/ \E s \in ResolveSlot : slots[s].id # 0
  \/ ~prefix /\ tries < Solicitations

\* arm_timer(), after the handler's changes.
ArmTimer(armed) == timerArmed' = (armed \/ WaitingFor(dhcp', resolves', router', solicited'))

dhcpVars == <<dhcp, transaction, offered, address, granted, questions, replies>>
dnsVars == <<resolver, resolves, lookup, queries, told>>
routerVars == <<router, solicited, waiters6>>

(***************************************************************************)
(* DHCP.                                                                   *)
(***************************************************************************)
ServerReplies(server) ==
  /\ \E t \in 1..MaxTransaction :
       \/ /\ Discover(t) \in questions
          /\ replies' = replies \cup {<<"offer", t, server>>}
          /\ UNCHANGED granted
       \/ /\ Request(t, server) \in questions
          /\ \/ /\ replies' = replies \cup {<<"ack", t, server>>}
                /\ granted' = granted \cup {<<t, server>>}
             \/ replies' = replies \cup {<<"nak", t, server>>} /\ UNCHANGED granted
  /\ UNCHANGED <<dhcp, transaction, offered, address, questions, resolving, routerVars, dnsVars, timerArmed>>

DhcpOffer(server) ==
  /\ dhcp = "Discovering" /\ <<"offer", transaction, server>> \in replies
  /\ offered' = server
  /\ dhcp' = "Requesting"
  /\ questions' = questions \cup {Request(transaction, server)}
  /\ UNCHANGED <<transaction, address, granted, replies, resolving, routerVars, dnsVars, timerArmed>>

\* The reply may or may not name a DNS server.
DhcpAck(server) ==
  /\ dhcp = "Requesting" /\ <<"ack", transaction, server>> \in replies
  /\ address' = offered
  /\ dhcp' = "Done"
  /\ resolver' \in {resolver, TRUE}
  /\ resolving' = {}
  /\ UNCHANGED <<transaction, offered, granted, questions, replies, routerVars, resolves, lookup,
                 queries, told, timerArmed>>

DhcpNak(server) ==
  /\ dhcp = "Requesting" /\ <<"nak", transaction, server>> \in replies
  /\ transaction < MaxTransaction
  /\ transaction' = transaction + 1
  /\ dhcp' = "Discovering"
  /\ questions' = questions \cup {Discover(transaction')}
  /\ UNCHANGED <<offered, address, granted, replies, resolving, routerVars, dnsVars, timerArmed>>

\* config(): answered at once, or when the configuration comes.
Config(client) ==
  /\ dhcp # "Done" /\ Cardinality(resolving) < ConfigWaiters
  /\ resolving' = resolving \cup {client}
  /\ UNCHANGED <<dhcpVars, routerVars, dnsVars, timerArmed>>

(***************************************************************************)
(* The router's advertisement, with a prefix and perhaps a DNS server.     *)
(***************************************************************************)
RouterAdvertisement ==
  /\ router' = TRUE
  /\ resolver' \in {resolver, TRUE}
  /\ waiters6' = {}
  /\ UNCHANGED <<dhcpVars, resolving, solicited, resolves, lookup, queries, told, timerArmed>>

Config6(client) ==
  /\ ~router /\ Cardinality(waiters6) < ConfigWaiters
  /\ waiters6' = waiters6 \cup {client}
  /\ UNCHANGED <<dhcpVars, resolving, router, solicited, dnsVars, timerArmed>>

(***************************************************************************)
(* DNS.                                                                    *)
(***************************************************************************)
\* A bug: the timer is left for the next request to arm.
ResolveUnarmed(slot) ==
  /\ lookup < MaxLookups /\ resolver /\ resolves[slot].id = 0
  /\ lookup' = lookup + 1
  /\ resolves' = [resolves EXCEPT ![slot] = [id |-> lookup', tries |-> 1]]
  /\ queries' = queries \cup {<<slot, lookup'>>}
  /\ UNCHANGED <<dhcpVars, resolving, routerVars, resolver, told, timerArmed>>

Resolve(slot) ==
  /\ lookup < MaxLookups /\ resolver /\ resolves[slot].id = 0
  /\ lookup' = lookup + 1
  /\ resolves' = [resolves EXCEPT ![slot] = [id |-> lookup', tries |-> 1]]
  /\ queries' = queries \cup {<<slot, lookup'>>}
  /\ UNCHANGED <<dhcpVars, resolving, routerVars, resolver, told>>
  /\ ArmTimer(timerArmed)

\* No server to ask, no slot, or not a name.
ResolveRefused ==
  /\ lookup < MaxLookups
  /\ lookup' = lookup + 1
  /\ told' = [told EXCEPT ![lookup'] = {<<"refused", lookup'>>}]
  /\ UNCHANGED <<dhcpVars, resolving, routerVars, resolver, resolves, queries, timerArmed>>

Answers(slot, id) == resolves[slot].id # 0 /\ resolves[slot].id = id

\* The answer to a query, late or repeated, to the port of the query's slot.
DnsReply(slot, id) ==
  /\ <<slot, id>> \in queries /\ Answers(slot, id)
  /\ told' = [told EXCEPT ![resolves[slot].id] = @ \cup {<<"answer", id>>}]
  /\ resolves' = [resolves EXCEPT ![slot] = Idle]
  /\ UNCHANGED <<dhcpVars, resolving, routerVars, resolver, lookup, queries, timerArmed>>

(***************************************************************************)
(* tick(): what is due is asked again or given up; the timer is set again  *)
(* while anything waits.  A question asked again is one already in the set *)
(* of questions.                                                           *)
(***************************************************************************)
GivenUp(due) == {s \in due : resolves[s].id # 0 /\ resolves[s].tries = DnsTries}

TickDns(due) ==
  /\ resolves' = [s \in ResolveSlot |->
       IF s \in GivenUp(due) THEN Idle
       ELSE IF s \in due /\ resolves[s].id # 0 THEN [resolves[s] EXCEPT !.tries = @ + 1] ELSE resolves[s]]
  /\ told' = [l \in 1..MaxLookups |->
       told[l] \cup {<<"timed out", l>> : s \in {t \in GivenUp(due) : resolves[t].id = l}}]

Tick(due, routerDue) ==
  /\ timerArmed
  /\ TickDns(due)
  /\ solicited' = IF routerDue /\ ~router /\ solicited < Solicitations
                  THEN solicited + 1 ELSE solicited
  /\ UNCHANGED <<dhcpVars, resolving, waiters6, router, resolver, lookup, queries>>
  /\ ArmTimer(FALSE)

LookupsNext ==
  \/ \E v \in Server : ServerReplies(v) \/ DhcpOffer(v) \/ DhcpAck(v) \/ DhcpNak(v)
  \/ \E c \in Client : Config(c) \/ Config6(c)
  \/ RouterAdvertisement
  \/ \E s \in ResolveSlot : Resolve(s) \/ \E q \in queries : DnsReply(s, q[2])
  \/ ResolveRefused
  \/ \E due \in SUBSET ResolveSlot, routerDue \in BOOLEAN : Tick(due, routerDue)

LookupsSpec == LookupsInit /\ [][LookupsNext]_lookupVars

\* The address the daemon takes for its own is one its server granted, in
\* the transaction that asked for it, however late other answers come; and
\* no client is left waiting for a configuration that has come.
LeaseGranted ==
  /\ dhcp = "Done" /\ address # "static" => <<transaction, address>> \in granted
  /\ dhcp = "Done" => resolving = {}
  /\ router => waiters6 = {}

\* A client that asked for a name is told one thing, once, and it is about
\* that name; until then its lookup holds one slot.
LookupAnswered ==
  \A l \in 1..lookup :
    /\ \A t \in told[l] : t[2] = l
    /\ Cardinality(told[l]) + Cardinality({s \in ResolveSlot : resolves[s].id = l}) = 1

\* While anything waits to be asked again, the timer is set.
TimerCoversWaits == WaitingFor(dhcp, resolves, router, solicited) => timerArmed

\* Address resolution, DHCP, DNS and router solicitation: a frame leaves once and to
\* the owner of its address, only an address a server granted is used, only the
\* question asked is answered, and the timer is armed while anything waits for it.
LookupsSound == FramesLeaveOnce /\ LeaseGranted /\ LookupAnswered /\ TimerCoversWaits
=============================================================================
