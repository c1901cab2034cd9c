------------------------------- MODULE Peers -------------------------------
(***************************************************************************)
(* The peer table of each conode and the gossip of gateway addresses.      *)
(*                                                                         *)
(* An operator's `peer add' or `peer del' is checked under the lock of     *)
(* peerStorage and carried out later, by a goroutine that takes the lock   *)
(* again.  A node that is added receives a Ping and adds the sender.       *)
(* `proxy add' spreads addresses along the peer tables.  Goroutines use    *)
(* two maps without a lock, which may end the process; run_nodes.sh starts *)
(* it again, with empty tables, since nothing calls save.                  *)
(***************************************************************************)
EXTENDS Naturals, FiniteSets

CONSTANTS
    Nodes,
    Addrs,         \* gateway addresses
    MaxRequests    \* bound: commands of the operators

ASSUME MaxRequestsAssumption == MaxRequests \in Nat

VARIABLES
    up,
    peerNodeMap,   \* peerStorage.peerNodeMap: known peers
    addressMap,    \* known gateway addresses
    goroutines,    \* started and not yet run, or in the middle of a call: [node, op, arg]
    net,           \* messages in flight
    requests,      \* commands given so far
    asked,         \* history: peers the operator named in a command to this process
    forgotten      \* history: nodes whose adding this one forgot when its process ended

vars == <<up, peerNodeMap, addressMap, goroutines, net, requests, asked, forgotten>>

-----------------------------------------------------------------------------
Go(n, op, arg) == {g \in {[node |-> n, op |-> op, arg |-> arg]} : arg # {}}

Request(n) ==
    /\ up[n]
    /\ requests < MaxRequests
    /\ requests' = requests + 1

\* Peer "add": the peers that are not in the table yet.
PeerAdd(n, ps) ==
    /\ Request(n)
    /\ goroutines' = goroutines \cup Go(n, "add", ps \ peerNodeMap[n])
    /\ asked' = [asked EXCEPT ![n] = @ \cup ps]
    /\ UNCHANGED <<up, peerNodeMap, addressMap, net, forgotten>>

\* Peer "del": the peers that are in the table now.
PeerDel(n, ps) ==
    /\ Request(n)
    /\ goroutines' = goroutines \cup Go(n, "del", ps \cap peerNodeMap[n])
    /\ asked' = [asked EXCEPT ![n] = @ \cup ps]
    /\ UNCHANGED <<up, peerNodeMap, addressMap, net, forgotten>>

Reached(g) == {p \in g.arg : up[p]}

Pings(n, ps) == {[type |-> "Ping", from |-> n, to |-> p] : p \in ps}

\* Mutant: the peers are added without a Ping.
AddPeerWithoutPing(g) ==
    /\ g \in goroutines /\ g.op = "add" /\ up[g.node]
    /\ goroutines' = goroutines \ {g}
    /\ peerNodeMap' = [peerNodeMap EXCEPT ![g.node] = @ \cup g.arg]
    /\ UNCHANGED <<up, addressMap, net, requests, asked, forgotten>>

\* AddPeerServerIdentity with needConn: Ping every peer, add those reached.
AddPeerServerIdentity(g) ==
    LET reached == Reached(g) IN
    /\ g \in goroutines /\ g.op = "add" /\ up[g.node]
    /\ goroutines' = goroutines \ {g}
    /\ peerNodeMap' = [peerNodeMap EXCEPT ![g.node] = @ \cup reached]
    /\ net' = net \cup Pings(g.node, reached)
    /\ forgotten' = [p \in Nodes |-> IF p \in reached THEN forgotten[p] \ {g.node} ELSE forgotten[p]]
    /\ UNCHANGED <<up, addressMap, requests, asked>>

RemovePeerServerIdentity(g) ==
    /\ g \in goroutines /\ g.op = "del" /\ up[g.node]
    /\ goroutines' = goroutines \ {g}
    /\ peerNodeMap' = [peerNodeMap EXCEPT ![g.node] = @ \ g.arg]
    /\ UNCHANGED <<up, addressMap, net, requests, asked, forgotten>>

\* PingMessage: add the sender, without a Ping of our own.
HandlePingMessage(m) ==
    /\ m \in net /\ m.type = "Ping" /\ up[m.to]
    /\ net' = net \ {m}
    /\ peerNodeMap' = [peerNodeMap EXCEPT ![m.to] = @ \cup {m.from}]
    /\ UNCHANGED <<up, addressMap, goroutines, requests, asked, forgotten>>

-----------------------------------------------------------------------------
BroadcastAddressTx(n, as) ==
    {[type |-> "Address", from |-> n, to |-> p, addrs |-> as] : p \in {q \in peerNodeMap[n] : up[q]}}

\* Mutant: the addresses are treated as peers to be added.
ProxyAddAsPeers(n, as) ==
    /\ Request(n)
    /\ goroutines' = goroutines \cup Go(n, "add", as)
    /\ UNCHANGED <<up, peerNodeMap, addressMap, net, asked, forgotten>>

\* Proxy "add", up to its writes: the addresses may be known or not.
ProxyAdd(n, as) ==
    /\ Request(n)
    /\ goroutines' = goroutines \cup Go(n, "proxy", as)
    /\ UNCHANGED <<up, peerNodeMap, addressMap, net, asked, forgotten>>

\* Proxy "del" looks the address up in proxyStorage, which is keyed by public
\* keys and filled by no message that is ever sent: it removes nothing.
ProxyDel(n, as) ==
    /\ Request(n)
    /\ UNCHANGED <<up, peerNodeMap, addressMap, goroutines, net, asked, forgotten>>

NewAddresses(m) == m.addrs \ addressMap[m.to]

Handler(m, as) ==
    {g \in {[node |-> m.to, op |-> "address", arg |-> as, from |-> m.from]} : as # {}}

\* Mutant: every address is written and relayed, known or not.
HandleAddressMessageRelayAll(m) ==
    /\ m \in net /\ m.type = "Address" /\ up[m.to]
    /\ net' = net \ {m}
    /\ goroutines' = goroutines \cup Handler(m, m.addrs)
    /\ UNCHANGED <<up, peerNodeMap, addressMap, requests, asked, forgotten>>

\* AddressMessage, up to the test: the addresses that are not in the map, if any,
\* are written and relayed; several handlers may find the same one missing.
HandleAddressMessage(m) ==
    /\ m \in net /\ m.type = "Address" /\ up[m.to]
    /\ net' = net \ {m}
    /\ goroutines' = goroutines \cup Handler(m, NewAddresses(m))
    /\ UNCHANGED <<up, peerNodeMap, addressMap, requests, asked, forgotten>>

\* The goroutines about to write addressMap: Proxy "add" and AddressMessage.
Writes(g) == g.op \in {"proxy", "address"}

\* They write it, and then broadcast what they wrote.
RememberAddresses(g) ==
    /\ g \in goroutines /\ Writes(g) /\ up[g.node]
    /\ addressMap' = [addressMap EXCEPT ![g.node] = @ \cup g.arg]
    /\ goroutines' = (goroutines \ {g}) \cup Go(g.node, "broadcast", g.arg)
    /\ UNCHANGED <<up, peerNodeMap, net, requests, asked, forgotten>>

\* To the peers of the moment.
Broadcast(g) ==
    /\ g \in goroutines /\ g.op = "broadcast" /\ up[g.node]
    /\ goroutines' = goroutines \ {g}
    /\ net' = net \cup BroadcastAddressTx(g.node, g.arg)
    /\ UNCHANGED <<up, peerNodeMap, addressMap, requests, asked, forgotten>>

\* The process of n ends, at work on the goroutines and messages of `work'
\* and having sent `sent': what it held in memory is lost.
Die(n, work, sent) ==
    /\ up[n]
    /\ up' = [up EXCEPT ![n] = FALSE]
    /\ net' = (net \ work) \cup sent
    /\ goroutines' = {g \in goroutines : g.node # n}
    /\ peerNodeMap' = [peerNodeMap EXCEPT ![n] = {}]
    /\ addressMap' = [addressMap EXCEPT ![n] = {}]
    /\ asked' = [asked EXCEPT ![n] = {}]
    /\ forgotten' = [forgotten EXCEPT ![n] =
                        @ \cup {p \in Nodes : n \in peerNodeMap[p] \/ Pings(n, {p}) \subseteq net'}]
    /\ UNCHANGED requests

\* A goroutine writes addressMap while another one writes or reads it: the Go
\* runtime may stop the process ("concurrent map writes", "concurrent map read and
\* map write").  The lock that Proxy holds keeps only its own calls apart.
ConcurrentMapAccess(g) ==
    /\ g \in goroutines /\ Writes(g)
    /\ \/ /\ \E h \in goroutines \ {g} :
                h.node = g.node /\ Writes(h) /\ "address" \in {g.op, h.op}
          /\ Die(g.node, {}, {})
       \/ \E m \in net : m.type = "Address" /\ m.to = g.node /\ Die(g.node, {m}, {})

\* What a broadcast of n may be sending.
Sending(n) ==
    UNION {BroadcastAddressTx(n, g.arg) : g \in {h \in goroutines : h.node = n /\ h.op = "broadcast"}}

\* A broadcast ranges over peerNodeMap without its lock while a goroutine adds
\* or removes a peer: the Go runtime may stop the process ("concurrent map
\* iteration and map write").
IterationAndGoroutine(g) ==
    /\ g \in goroutines /\ g.op \in {"add", "del"}
    /\ Sending(g.node) # {}
    /\ \E sent \in SUBSET Sending(g.node), ps \in SUBSET Reached(g) :
        /\ g.op = "del" => ps = {}
        /\ Die(g.node, {}, sent \cup Pings(g.node, ps))

IterationAndPing(m) ==
    /\ m \in net /\ m.type = "Ping"
    /\ Sending(m.to) # {}
    /\ \E sent \in SUBSET Sending(m.to) : Die(m.to, {m}, sent)

\* run_nodes.sh starts the process again.
Restart(n) ==
    /\ ~up[n]
    /\ up' = [up EXCEPT ![n] = TRUE]
    /\ UNCHANGED <<peerNodeMap, addressMap, goroutines, net, requests, asked, forgotten>>

Lose(m) ==
    /\ m \in net
    /\ ~up[m.to]
    /\ net' = net \ {m}
    /\ UNCHANGED <<up, peerNodeMap, addressMap, goroutines, requests, asked, forgotten>>

Init ==
    /\ up = [n \in Nodes |-> TRUE]
    /\ peerNodeMap = [n \in Nodes |-> {}]
    /\ addressMap = [n \in Nodes |-> {}]
    /\ goroutines = {}
    /\ net = {}
    /\ requests = 0
    /\ asked = [n \in Nodes |-> {}]
    /\ forgotten = [n \in Nodes |-> {}]

Run(g) ==
    \/ AddPeerServerIdentity(g) \/ RemovePeerServerIdentity(g)
    \/ RememberAddresses(g) \/ Broadcast(g)
    \/ ConcurrentMapAccess(g) \/ IterationAndGoroutine(g)

HandleMessage(m) ==
    \/ HandlePingMessage(m)
    \/ HandleAddressMessage(m)
    \/ IterationAndPing(m)
    \/ Lose(m)

\* The command line sends the peers whose URLs it can convert, maybe none; an
\* operator does not name the conode itself.
PeerCommand(n) == \E ps \in SUBSET (Nodes \ {n}) : PeerAdd(n, ps) \/ PeerDel(n, ps)

\* Addresses are sent as they are, and there is at least one.
ProxyCommand(n) == \E as \in (SUBSET Addrs) \ {{}} : ProxyAdd(n, as) \/ ProxyDel(n, as)

Next ==
    \/ \E n \in Nodes : PeerCommand(n) \/ ProxyCommand(n)
    \/ \E g \in goroutines : Run(g)
    \/ \E m \in net : HandleMessage(m)
    \/ \E n \in Nodes : Restart(n)

Spec == Init /\ [][Next]_vars

\* Goroutines and handlers are scheduled; operators may stop giving commands.
FairSpec == Spec /\ WF_vars(\E g \in goroutines : Run(g)) /\ WF_vars(\E m \in net : HandleMessage(m))

-----------------------------------------------------------------------------
Message ==
    [type : {"Ping"}, from : Nodes, to : Nodes] \cup
    [type : {"Address"}, from : Nodes, to : Nodes, addrs : SUBSET Addrs]

Goroutine ==
    [node : Nodes, op : {"add", "del"}, arg : SUBSET Nodes] \cup
    [node : Nodes, op : {"proxy", "broadcast"}, arg : SUBSET Addrs] \cup
    [node : Nodes, op : {"address"}, arg : SUBSET Addrs, from : Nodes]

\* Every variable holds what its Go declaration allows.
TypeOK ==
    /\ up \in [Nodes -> BOOLEAN]
    /\ peerNodeMap \in [Nodes -> SUBSET Nodes]
    /\ addressMap \in [Nodes -> SUBSET Addrs]
    /\ goroutines \subseteq Goroutine
    /\ net \subseteq Message
    /\ requests \in 0..MaxRequests
    /\ asked \in [Nodes -> SUBSET Nodes]
    /\ forgotten \in [Nodes -> SUBSET Nodes]

\* Peering is mutual: a running node that another one lists lists it too, or
\* has its Ping on the way, whatever adds, dels, crashes and restarts crossed;
\* unless its own operator named that other one to it, or it has restarted
\* since the other one added it.
PeeringIsMutual ==
    \A n, p \in Nodes :
        /\ p \in peerNodeMap[n]
        /\ up[p]
        /\ n \notin asked[p] \cup forgotten[p]
        /\ [type |-> "Ping", from |-> n, to |-> p] \notin net
        => n \in peerNodeMap[p]

\* An address message never travels for ever, not even in a cycle of peers:
\* once the operators are done, the network falls silent.
GossipEnds == <>[](requests = MaxRequests) => <>[](net = {})
=============================================================================
