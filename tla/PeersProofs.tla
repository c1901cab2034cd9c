---------------------------- MODULE PeersProofs ----------------------------
(***************************************************************************)
(* Proofs about Peers, for any number of nodes and commands.               *)
(***************************************************************************)
EXTENDS Peers, TLAPS

Ping(n, p) == [type |-> "Ping", from |-> n, to |-> p]

\* n lists p, or will when it handles the Ping on its way.
Lists(n, p) == p \in peerNodeMap[n] \/ Ping(p, n) \in net

(***************************************************************************)
(* The inductive invariant.  Whoever lists a node is listed by it, except  *)
(* as PeeringIsMutual says; a Ping counts for both sides, because the node *)
(* that sent it may since have ended or been told to forget the other one. *)
(***************************************************************************)
ListingIsMutual ==
    \A n, p \in Nodes :
        Lists(n, p) => n \in asked[p] \cup forgotten[p] \/ (up[p] /\ Lists(p, n))

DelsAreAsked == \A g \in goroutines : g.op = "del" => g.arg \subseteq asked[g.node]

PeersInv == TypeOK /\ DelsAreAsked /\ ListingIsMutual

\* What goroutines and messages carry.
LEMMA Carried ==
    /\ \A g \in Goroutine : /\ g.node \in Nodes
                            /\ g.op \in {"add", "del"} => g.arg \subseteq Nodes
                            /\ g.op \in {"proxy", "address", "broadcast"} => g.arg \subseteq Addrs
    /\ \A m \in Message : /\ m.from \in Nodes /\ m.to \in Nodes
                          /\ m.type = "Ping" => m = Ping(m.from, m.to)
                          /\ m.type = "Address" => m.addrs \subseteq Addrs
    /\ \A n, p \in Nodes : Ping(n, p) \in Message
    /\ \A n, p : /\ Ping(n, p).type = "Ping" /\ Ping(n, p).from = n /\ Ping(n, p).to = p
                 /\ \A q, r : Ping(n, p) = Ping(q, r) => n = q /\ p = r
  <1>1. \A g \in Goroutine : /\ g.node \in Nodes
                             /\ g.op \in {"add", "del"} => g.arg \subseteq Nodes
                             /\ g.op \in {"proxy", "address", "broadcast"} => g.arg \subseteq Addrs
    BY DEF Goroutine
  <1>2. \A m \in Message : /\ m.from \in Nodes /\ m.to \in Nodes
                           /\ m.type = "Ping" => m = Ping(m.from, m.to)
                           /\ m.type = "Address" => m.addrs \subseteq Addrs
    BY DEF Message, Ping
  <1>3. \A n, p \in Nodes : Ping(n, p) \in Message
    BY DEF Message, Ping
  <1>4. \A n, p : /\ Ping(n, p).type = "Ping" /\ Ping(n, p).from = n /\ Ping(n, p).to = p
                  /\ \A q, r : Ping(n, p) = Ping(q, r) => n = q /\ p = r
    BY DEF Ping
  <1> QED
    BY <1>1, <1>2, <1>3, <1>4

\* What nodes send.
LEMMA Sent ==
    ASSUME TypeOK, NEW n \in Nodes
    PROVE  /\ \A ps \in SUBSET Nodes : Pings(n, ps) \subseteq Message
           /\ \A ps : \A q, r : Ping(q, r) \in Pings(n, ps) <=> q = n /\ r \in ps
           /\ \A ads \in SUBSET Addrs : BroadcastAddressTx(n, ads) \subseteq Message
           /\ \A ads : \A q, r : Ping(q, r) \notin BroadcastAddressTx(n, ads)
           /\ Sending(n) \subseteq Message
           /\ \A q, r : Ping(q, r) \notin Sending(n)
  <1>1. \A ps \in SUBSET Nodes : Pings(n, ps) \subseteq Message
    BY DEF Pings, Message
  <1>2. \A ps : \A q, r : Ping(q, r) \in Pings(n, ps) <=> q = n /\ r \in ps
    BY DEF Pings, Ping
  <1> DEFINE Address(p, ads) == [type |-> "Address", from |-> n, to |-> p, addrs |-> ads]
  <1>a. \A ads : \A m \in BroadcastAddressTx(n, ads) : \E p \in peerNodeMap[n] : m = Address(p, ads)
    BY Zenon DEF BroadcastAddressTx
  <1>b. \A p, ads : Address(p, ads).type = "Address"
    OBVIOUS
  <1>c. \A p \in Nodes, ads \in SUBSET Addrs : Address(p, ads) \in Message
    BY DEF Message
  <1>d. \A p \in peerNodeMap[n] : p \in Nodes
    BY DEF TypeOK
  <1> HIDE DEF Address
  <1>3. \A ads \in SUBSET Addrs : BroadcastAddressTx(n, ads) \subseteq Message
    BY <1>a, <1>c, <1>d
  <1>4. \A ads : \A m \in BroadcastAddressTx(n, ads) : m.type = "Address"
    <2> SUFFICES ASSUME NEW ads, NEW m \in BroadcastAddressTx(n, ads)
                 PROVE  m.type = "Address"
      OBVIOUS
    <2>1. PICK p \in peerNodeMap[n] : m = Address(p, ads)
      BY <1>a, Zenon
    <2> QED
      BY <1>b, <2>1
  <1>5. \A ads : \A q, r : Ping(q, r) \notin BroadcastAddressTx(n, ads)
    <2> SUFFICES ASSUME NEW ads, NEW q, NEW r, Ping(q, r) \in BroadcastAddressTx(n, ads)
                 PROVE  FALSE
      OBVIOUS
    <2>1. Ping(q, r).type = "Address"
      BY <1>4, Zenon
    <2>2. Ping(q, r).type = "Ping"
      BY DEF Ping
    <2> QED
      BY <2>1, <2>2
  <1>6. ASSUME NEW m \in Sending(n)
        PROVE  \E ads \in SUBSET Addrs : m \in BroadcastAddressTx(n, ads)
    <2>1. \A g \in goroutines : g.op = "broadcast" => g.arg \in SUBSET Addrs
      BY Carried DEF TypeOK
    <2>2. \E g \in goroutines : g.op = "broadcast" /\ m \in BroadcastAddressTx(n, g.arg)
      BY Zenon DEF Sending
    <2> QED
      BY <2>1, <2>2, Zenon
  <1>7. Sending(n) \subseteq Message
    BY <1>3, <1>6, Zenon
  <1>8. \A q, r : Ping(q, r) \notin Sending(n)
    BY <1>5, <1>6, Zenon
  <1> QED
    BY <1>1, <1>2, <1>3, <1>5, <1>7, <1>8, Zenon

\* The steps at which a process ends.
Dies ==
    \/ \E g \in goroutines : ConcurrentMapAccess(g)
    \/ \E g \in goroutines : IterationAndGoroutine(g)
    \/ \E m \in net : IterationAndPing(m)

\* What a process that ends leaves behind.
LEMMA DeathLeaves ==
    ASSUME TypeOK, Dies
    PROVE  \E n \in Nodes, work \in SUBSET Message, sent \in SUBSET Message :
              /\ Die(n, work, sent)
              /\ \A m \in work : m.to = n
              /\ \A q, p : Ping(q, p) \in sent => q = n
  <1>1. ASSUME NEW g \in goroutines, ConcurrentMapAccess(g)
        PROVE  \E work \in SUBSET Message :
                  /\ g.node \in Nodes
                  /\ Die(g.node, work, {})
                  /\ \A m \in work : m.to = g.node
    <2>1. g.node \in Nodes /\ {} \in SUBSET Message /\ \A m \in {} : m.to = g.node
      BY Carried DEF TypeOK
    <2>2. \A m \in net : {m} \in SUBSET Message
      BY DEF TypeOK
    <2>3. CASE Die(g.node, {}, {})
      BY <2>1, <2>3
    <2>4. ASSUME NEW m \in net, m.to = g.node, Die(g.node, {m}, {})
          PROVE  \E work \in SUBSET Message :
                    /\ g.node \in Nodes
                    /\ Die(g.node, work, {})
                    /\ \A k \in work : k.to = g.node
      BY <2>1, <2>2, <2>4
    <2> QED
      BY <1>1, <2>3, <2>4, Zenon DEF ConcurrentMapAccess
  <1>2. ASSUME NEW g \in goroutines, IterationAndGoroutine(g)
        PROVE  \E sent \in SUBSET Message :
                  /\ g.node \in Nodes
                  /\ Die(g.node, {}, sent)
                  /\ \A q, p : Ping(q, p) \in sent => q = g.node
    <2>1. g.node \in Nodes /\ Reached(g) \in SUBSET Nodes
      BY <1>2, Carried DEF IterationAndGoroutine, Reached, TypeOK
    <2>2. PICK some \in SUBSET Sending(g.node), ps \in SUBSET Reached(g) :
              Die(g.node, {}, some \cup Pings(g.node, ps))
      BY <1>2 DEF IterationAndGoroutine
    <2>3. some \cup Pings(g.node, ps) \in SUBSET Message
      BY <2>1, Sent
    <2>4. \A q, p : Ping(q, p) \in some \cup Pings(g.node, ps) => q = g.node
      BY <2>1, Sent
    <2> QED
      BY <2>1, <2>2, <2>3, <2>4
  <1>3. ASSUME NEW m \in net, IterationAndPing(m)
        PROVE  \E sent \in SUBSET Message :
                  /\ m \in Message /\ m.to \in Nodes
                  /\ Die(m.to, {m}, sent)
                  /\ \A q, p : Ping(q, p) \in sent => q = m.to
    <2>1. m \in Message /\ m.to \in Nodes
      BY Carried DEF TypeOK
    <2> QED
      BY <1>3, <2>1, Sent DEF IterationAndPing
  <1>4. ASSUME NEW g \in goroutines, ConcurrentMapAccess(g)
        PROVE  \E n \in Nodes, work \in SUBSET Message, sent \in SUBSET Message :
                  /\ Die(n, work, sent)
                  /\ \A m \in work : m.to = n
                  /\ \A q, p : Ping(q, p) \in sent => q = n
    <2>1. {} \in SUBSET Message /\ \A q, p : Ping(q, p) \notin {}
      OBVIOUS
    <2>2. PICK work \in SUBSET Message :
              g.node \in Nodes /\ Die(g.node, work, {}) /\ \A m \in work : m.to = g.node
      BY <1>1, <1>4, Zenon
    <2> QED
      BY <2>1, <2>2, Zenon
  <1>5. ASSUME NEW g \in goroutines, IterationAndGoroutine(g)
        PROVE  \E n \in Nodes, work \in SUBSET Message, sent \in SUBSET Message :
                  /\ Die(n, work, sent)
                  /\ \A m \in work : m.to = n
                  /\ \A q, p : Ping(q, p) \in sent => q = n
    <2>1. {} \in SUBSET Message /\ \A m \in {} : m.to = g.node
      OBVIOUS
    <2> QED
      BY <1>2, <1>5, <2>1
  <1>6. ASSUME NEW k \in net, IterationAndPing(k)
        PROVE  \E n \in Nodes, work \in SUBSET Message, sent \in SUBSET Message :
                  /\ Die(n, work, sent)
                  /\ \A m \in work : m.to = n
                  /\ \A q, p : Ping(q, p) \in sent => q = n
    <2>1. (k \in Message => {k} \in SUBSET Message) /\ \A m \in {k} : m.to = k.to
      OBVIOUS
    <2> QED
      BY <1>3, <1>6, <2>1
  <1> QED
    BY <1>4, <1>5, <1>6 DEF Dies

-----------------------------------------------------------------------------
LEMMA PeersInvInit ==
    ASSUME Init
    PROVE  PeersInv
  <1>1. TypeOK
    BY MaxRequestsAssumption DEF Init, TypeOK
  <1>2. DelsAreAsked
    BY DEF Init, DelsAreAsked
  <1>3. ListingIsMutual
    BY DEF Init, ListingIsMutual, Lists
  <1> QED
    BY <1>1, <1>2, <1>3 DEF PeersInv

\* The commands of the operators that change the state.
LEMMA TypeCommands ==
    ASSUME TypeOK, NEW n \in Nodes, PeerCommand(n) \/ ProxyCommand(n)
    PROVE  TypeOK'
  <1>1. ASSUME Request(n)
        PROVE  requests' \in 0..MaxRequests
    BY <1>1, MaxRequestsAssumption DEF Request, TypeOK
  <1>2. ASSUME NEW ps \in SUBSET (Nodes \ {n}), PeerAdd(n, ps) \/ PeerDel(n, ps)
        PROVE  TypeOK'
    <2>1. \A op \in {"add", "del"}, arg \in SUBSET Nodes : Go(n, op, arg) \subseteq Goroutine
      BY DEF Go, Goroutine
    <2>2. ps \ peerNodeMap[n] \in SUBSET Nodes /\ ps \cap peerNodeMap[n] \in SUBSET Nodes
      OBVIOUS
    <2>3. goroutines' \subseteq Goroutine
      BY <1>2, <2>1, <2>2 DEF PeerAdd, PeerDel, TypeOK
    <2>4. asked' \in [Nodes -> SUBSET Nodes]
      BY <1>2 DEF PeerAdd, PeerDel, TypeOK
    <2>5. requests' \in 0..MaxRequests
      BY <1>1, <1>2 DEF PeerAdd, PeerDel
    <2>6. UNCHANGED <<up, peerNodeMap, addressMap, net, forgotten>>
      BY <1>2 DEF PeerAdd, PeerDel
    <2> QED
      BY <2>3, <2>4, <2>5, <2>6 DEF TypeOK
  <1>3. ASSUME NEW ads \in (SUBSET Addrs) \ {{}}, ProxyAdd(n, ads) \/ ProxyDel(n, ads)
        PROVE  TypeOK'
    <2>0. ads \in SUBSET Addrs
      OBVIOUS
    <2>1. \A arg \in SUBSET Addrs : Go(n, "proxy", arg) \subseteq Goroutine
      BY DEF Go, Goroutine
    <2>2. goroutines' \subseteq Goroutine
      BY <1>3, <2>0, <2>1 DEF ProxyAdd, ProxyDel, TypeOK
    <2>3. requests' \in 0..MaxRequests
      BY <1>1, <1>3 DEF ProxyAdd, ProxyDel
    <2>4. UNCHANGED <<up, peerNodeMap, addressMap, net, asked, forgotten>>
      BY <1>3 DEF ProxyAdd, ProxyDel
    <2> QED
      BY <2>2, <2>3, <2>4 DEF TypeOK
  <1> QED
    BY <1>2, <1>3 DEF PeerCommand, ProxyCommand

\* The goroutines and handlers that do not end the process, and a restart.
LEMMA TypeWork ==
    ASSUME TypeOK,
           \/ \E g \in goroutines :
                 \/ AddPeerServerIdentity(g) \/ RemovePeerServerIdentity(g)
                 \/ RememberAddresses(g) \/ Broadcast(g)
           \/ \E m \in net : HandlePingMessage(m) \/ HandleAddressMessage(m) \/ Lose(m)
           \/ \E n \in Nodes : Restart(n)
    PROVE  TypeOK'
  <1>1. ASSUME NEW g \in goroutines, AddPeerServerIdentity(g)
        PROVE  TypeOK'
    <2>1. g.node \in Nodes /\ Reached(g) \in SUBSET Nodes
      BY <1>1, Carried DEF AddPeerServerIdentity, Reached, TypeOK
    <2>2. Pings(g.node, Reached(g)) \subseteq Message
      BY <2>1, Sent
    <2> QED
      BY <1>1, <2>1, <2>2 DEF AddPeerServerIdentity, TypeOK
  <1>2. ASSUME NEW g \in goroutines, RemovePeerServerIdentity(g)
        PROVE  TypeOK'
    BY <1>2 DEF RemovePeerServerIdentity, TypeOK
  <1>3. ASSUME NEW g \in goroutines, Broadcast(g)
        PROVE  TypeOK'
    <2>1. g.node \in Nodes /\ g.arg \in SUBSET Addrs
      BY <1>3, Carried DEF Broadcast, TypeOK
    <2>2. BroadcastAddressTx(g.node, g.arg) \subseteq Message
      BY <2>1, Sent
    <2> QED
      BY <1>3, <2>2 DEF Broadcast, TypeOK
  <1>4. ASSUME NEW m \in net, HandlePingMessage(m)
        PROVE  TypeOK'
    BY <1>4, Carried DEF HandlePingMessage, TypeOK
  <1>5. ASSUME NEW m \in net, HandleAddressMessage(m)
        PROVE  TypeOK'
    <2>1. m.to \in Nodes /\ m.addrs \in SUBSET Addrs /\ NewAddresses(m) \in SUBSET Addrs
      BY <1>5, Carried DEF HandleAddressMessage, NewAddresses, TypeOK
    <2>2. m.from \in Nodes
      BY Carried DEF TypeOK
    <2>3. Handler(m, NewAddresses(m)) \subseteq Goroutine
      BY <2>1, <2>2 DEF Handler, Goroutine
    <2> QED
      BY <1>5, <2>3 DEF HandleAddressMessage, TypeOK
  <1>6. ASSUME NEW m \in net, Lose(m)
        PROVE  TypeOK'
    BY <1>6 DEF Lose, TypeOK
  <1>7. ASSUME NEW n \in Nodes, Restart(n)
        PROVE  TypeOK'
    BY <1>7 DEF Restart, TypeOK
  <1>8. ASSUME NEW g \in goroutines, RememberAddresses(g)
        PROVE  TypeOK'
    <2>1. g.node \in Nodes /\ g.arg \in SUBSET Addrs
      BY <1>8, Carried DEF RememberAddresses, Writes, TypeOK
    <2>2. Go(g.node, "broadcast", g.arg) \subseteq Goroutine
      BY <2>1 DEF Go, Goroutine
    <2>3. goroutines' \subseteq Goroutine
      BY <1>8, <2>2 DEF RememberAddresses, TypeOK
    <2>4. addressMap' \in [Nodes -> SUBSET Addrs]
      BY <1>8, <2>1 DEF RememberAddresses, TypeOK
    <2> QED
      BY <1>8, <2>3, <2>4 DEF RememberAddresses, TypeOK
  <1> QED
    BY <1>1, <1>2, <1>3, <1>4, <1>5, <1>6, <1>7, <1>8, Zenon

LEMMA TypeDies ==
    ASSUME TypeOK, Dies
    PROVE  TypeOK'
  <1>1. PICK n \in Nodes, work \in SUBSET Message, sent \in SUBSET Message : Die(n, work, sent)
    BY DeathLeaves, Zenon
  <1>2. forgotten' \in [Nodes -> SUBSET Nodes]
    BY <1>1 DEF Die, TypeOK
  <1> QED
    BY <1>1, <1>2 DEF Die, TypeOK

-----------------------------------------------------------------------------
\* A step that changes neither a table nor a Ping, and forgets nothing.
LEMMA ListsStay ==
    ASSUME TypeOK, ListingIsMutual, UNCHANGED <<peerNodeMap, forgotten>>,
           \A n, p \in Nodes : Ping(n, p) \in net' <=> Ping(n, p) \in net,
           \A n \in Nodes : up[n] => up'[n],
           \A n \in Nodes : asked[n] \subseteq asked'[n]
    PROVE  ListingIsMutual'
  BY DEF ListingIsMutual, Lists

LEMMA ListsCommands ==
    ASSUME TypeOK, ListingIsMutual, NEW n \in Nodes, PeerCommand(n) \/ ProxyCommand(n)
    PROVE  ListingIsMutual'
  <1>1. UNCHANGED <<up, peerNodeMap, net, forgotten>>
    BY DEF PeerCommand, ProxyCommand, PeerAdd, PeerDel, ProxyAdd, ProxyDel
  <1>2. \A q \in Nodes : asked[q] \subseteq asked'[q]
    BY DEF PeerCommand, ProxyCommand, PeerAdd, PeerDel, ProxyAdd, ProxyDel, TypeOK
  <1> QED
    BY <1>1, <1>2, ListsStay

\* Goroutines, handlers and restarts that touch no table.
LEMMA ListsElsewhere ==
    ASSUME TypeOK, ListingIsMutual,
           \/ \E g \in goroutines : RememberAddresses(g) \/ Broadcast(g)
           \/ \E m \in net : HandleAddressMessage(m)
           \/ \E n \in Nodes : Restart(n)
    PROVE  ListingIsMutual'
  <1>1. ASSUME NEW g \in goroutines, Broadcast(g)
        PROVE  ListingIsMutual'
    <2>1. g.node \in Nodes
      BY Carried DEF TypeOK
    <2>2. \A n, p \in Nodes : Ping(n, p) \in net' <=> Ping(n, p) \in net
      BY <1>1, <2>1, Sent DEF Broadcast
    <2> QED
      BY <1>1, <2>2, ListsStay DEF Broadcast
  <1>2. ASSUME NEW m \in net, HandleAddressMessage(m)
        PROVE  ListingIsMutual'
    <2>1. \A n, p : Ping(n, p) # m
      BY <1>2, Carried DEF HandleAddressMessage
    <2>2. \A n, p \in Nodes : Ping(n, p) \in net' <=> Ping(n, p) \in net
      BY <1>2, <2>1 DEF HandleAddressMessage
    <2> QED
      BY <1>2, <2>2, ListsStay DEF HandleAddressMessage
  <1>3. ASSUME NEW n \in Nodes, Restart(n)
        PROVE  ListingIsMutual'
    <2>1. \A p \in Nodes : up[p] => up'[p]
      BY <1>3 DEF Restart, TypeOK
    <2> QED
      BY <1>3, <2>1, ListsStay DEF Restart
  <1>4. ASSUME NEW g \in goroutines, RememberAddresses(g)
        PROVE  ListingIsMutual'
    BY <1>4, ListsStay DEF RememberAddresses
  <1> QED
    BY <1>1, <1>2, <1>3, <1>4

\* The node that adds another one lists it, and its Ping is on the way.
LEMMA ListsAdd ==
    ASSUME TypeOK, ListingIsMutual, NEW g \in goroutines, AddPeerServerIdentity(g)
    PROVE  ListingIsMutual'
  <1> DEFINE x == g.node
             new == Reached(g)
  <1>1. x \in Nodes /\ new \in SUBSET Nodes /\ \A p \in new : up[p]
    BY Carried DEF AddPeerServerIdentity, Reached, TypeOK
  <1>2. up[x] /\ UNCHANGED <<up, asked>>
    BY DEF AddPeerServerIdentity
  <1>3. \A n, p \in Nodes : p \in peerNodeMap'[n] <=> p \in peerNodeMap[n] \/ (n = x /\ p \in new)
    BY <1>1 DEF AddPeerServerIdentity, TypeOK
  <1>4. \A n, p \in Nodes : Ping(n, p) \in net' <=> Ping(n, p) \in net \/ (n = x /\ p \in new)
    BY <1>1, Sent DEF AddPeerServerIdentity
  <1>5. \A n, p \in Nodes : n \in forgotten[p] => n \in forgotten'[p] \/ (n = x /\ p \in new)
    BY <1>1 DEF AddPeerServerIdentity, TypeOK
  <1>6. \A n, p \in Nodes :
            Lists(n, p)' <=> Lists(n, p) \/ (n = x /\ p \in new) \/ (p = x /\ n \in new)
    BY <1>3, <1>4 DEF Lists
  <1> HIDE DEF x, new
  <1> SUFFICES ASSUME NEW n \in Nodes, NEW p \in Nodes, Lists(n, p)'
               PROVE  n \in asked'[p] \cup forgotten'[p] \/ (up'[p] /\ Lists(p, n)')
    BY DEF ListingIsMutual
  <1>7. CASE (n = x /\ p \in new) \/ (p = x /\ n \in new)
    BY <1>1, <1>2, <1>6, <1>7
  <1>8. CASE Lists(n, p) /\ ~(n = x /\ p \in new)
    BY <1>2, <1>5, <1>6, <1>8 DEF ListingIsMutual
  <1> QED
    BY <1>6, <1>7, <1>8

\* A node forgets only peers its operator named.
LEMMA ListsRemove ==
    ASSUME TypeOK, DelsAreAsked, ListingIsMutual,
           NEW g \in goroutines, RemovePeerServerIdentity(g)
    PROVE  ListingIsMutual'
  <1>1. g.node \in Nodes /\ g.arg \subseteq asked[g.node]
    BY Carried DEF RemovePeerServerIdentity, DelsAreAsked, TypeOK
  <1>2. UNCHANGED <<up, net, asked, forgotten>>
    BY DEF RemovePeerServerIdentity
  <1>3. \A n, p \in Nodes : p \in peerNodeMap'[n] <=> p \in peerNodeMap[n] /\ ~(n = g.node /\ p \in g.arg)
    BY <1>1 DEF RemovePeerServerIdentity, TypeOK
  <1>4. \A n, p \in Nodes : Lists(n, p)' => Lists(n, p)
    BY <1>2, <1>3 DEF Lists
  <1>5. \A n, p \in Nodes : Lists(p, n) => Lists(p, n)' \/ n \in asked[p]
    BY <1>1, <1>2, <1>3 DEF Lists
  <1> QED
    BY <1>2, <1>4, <1>5 DEF ListingIsMutual

\* A Ping turns into an entry of the table of the node that handles it.
LEMMA ListsPing ==
    ASSUME TypeOK, ListingIsMutual, NEW m \in net, HandlePingMessage(m)
    PROVE  ListingIsMutual'
  <1>1. m.to \in Nodes /\ m.from \in Nodes /\ m = Ping(m.from, m.to)
    BY Carried DEF HandlePingMessage, TypeOK
  <1>2. UNCHANGED <<up, asked, forgotten>>
    BY DEF HandlePingMessage
  <1>3. \A n, p \in Nodes : p \in peerNodeMap'[n] <=> p \in peerNodeMap[n] \/ (n = m.to /\ p = m.from)
    BY <1>1 DEF HandlePingMessage, TypeOK
  <1>4. \A n, p \in Nodes : Ping(p, n) \in net' <=> Ping(p, n) \in net /\ ~(n = m.to /\ p = m.from)
    BY <1>1, Carried DEF HandlePingMessage
  <1>5. \A n, p \in Nodes : Lists(n, p)' <=> Lists(n, p)
    BY <1>1, <1>3, <1>4 DEF Lists
  <1> QED
    BY <1>2, <1>5 DEF ListingIsMutual

\* Only messages to a process that has ended are lost.
LEMMA ListsLose ==
    ASSUME TypeOK, ListingIsMutual, NEW m \in net, Lose(m)
    PROVE  ListingIsMutual'
  <1>1. UNCHANGED <<up, peerNodeMap, asked, forgotten>> /\ ~up[m.to] /\ net' = net \ {m}
    BY DEF Lose
  <1>2. \A n, p \in Nodes : Lists(n, p)' => Lists(n, p)
    BY <1>1 DEF Lists
  <1>3. \A n, p \in Nodes : up[p] /\ Lists(p, n) => Lists(p, n)'
    BY <1>1, Carried DEF Lists
  <1> QED
    BY <1>1, <1>2, <1>3 DEF ListingIsMutual

\* Whoever lists a node that ends is in its `forgotten'; whom it listed itself
\* is listed by its Ping alone, which is still on the way.
LEMMA ListsDies ==
    ASSUME TypeOK, ListingIsMutual, Dies
    PROVE  ListingIsMutual'
  <1>1. PICK x \in Nodes, work \in SUBSET Message, sent \in SUBSET Message :
            /\ Die(x, work, sent)
            /\ \A m \in work : m.to = x
            /\ \A q, p : Ping(q, p) \in sent => q = x
    BY DeathLeaves, Zenon
  <1>2. \A n \in Nodes : n # x => /\ up'[n] = up[n] /\ asked'[n] = asked[n]
                                  /\ peerNodeMap'[n] = peerNodeMap[n]
                                  /\ forgotten'[n] = forgotten[n]
    BY <1>1 DEF Die, TypeOK
  <1>3. \A n, p \in Nodes : p # x /\ Ping(p, n) \in net' => Ping(p, n) \in net
    BY <1>1 DEF Die
  <1>4. \A n, p \in Nodes : p # x /\ Ping(n, p) \in net => Ping(n, p) \in net'
    BY <1>1, Carried DEF Die
  <1>5. peerNodeMap'[x] = {}
    BY <1>1 DEF Die, TypeOK
  <1>6. \A n \in Nodes : Lists(n, x)' => n \in forgotten'[x]
    <2>1. \A n \in Nodes : Ping(x, n) \in net' => Pings(x, {n}) \subseteq net'
      BY DEF Pings, Ping
    <2>2. forgotten'[x] = forgotten[x] \cup {p \in Nodes : x \in peerNodeMap[p] \/ Pings(x, {p}) \subseteq net'}
      BY <1>1 DEF Die, TypeOK
    <2>3. \A n \in Nodes : x \in peerNodeMap'[n] => x \in peerNodeMap[n]
      BY <1>2, <1>5
    <2> QED
      BY <2>1, <2>2, <2>3 DEF Lists
  <1>7. \A n, p \in Nodes : p # x /\ Lists(n, p)' => Lists(n, p)
    BY <1>2, <1>3, <1>5 DEF Lists
  <1>8. \A n, p \in Nodes : p # x /\ Lists(p, n) => Lists(p, n)'
    BY <1>2, <1>4 DEF Lists
  <1> SUFFICES ASSUME NEW n \in Nodes, NEW p \in Nodes, Lists(n, p)'
               PROVE  n \in asked'[p] \cup forgotten'[p] \/ (up'[p] /\ Lists(p, n)')
    BY DEF ListingIsMutual
  <1>9. CASE p = x
    BY <1>6, <1>9
  <1>10. CASE p # x
    BY <1>2, <1>7, <1>8, <1>10 DEF ListingIsMutual
  <1> QED
    BY <1>9, <1>10

LEMMA DelsStep ==
    ASSUME TypeOK, DelsAreAsked, Next
    PROVE  DelsAreAsked'
  <1>1. ASSUME NEW n \in Nodes, NEW ps \in SUBSET (Nodes \ {n}), PeerAdd(n, ps) \/ PeerDel(n, ps)
        PROVE  DelsAreAsked'
    <2>1. \A q \in Nodes : asked[q] \subseteq asked'[q]
      BY <1>1 DEF PeerAdd, PeerDel, TypeOK
    <2>2. ps \subseteq asked'[n]
      BY <1>1 DEF PeerAdd, PeerDel, TypeOK
    <2>3. \A g \in goroutines' : g \in goroutines \/ (g.node = n /\ (g.op = "del" => g.arg \subseteq ps))
      BY <1>1 DEF PeerAdd, PeerDel, Go
    <2>4. \A g \in goroutines : g.node \in Nodes
      BY Carried DEF TypeOK
    <2> QED
      BY <2>1, <2>2, <2>3, <2>4 DEF DelsAreAsked
  <1>2. ASSUME NEW n \in Nodes, NEW ads, ProxyAdd(n, ads) \/ ProxyDel(n, ads)
        PROVE  DelsAreAsked'
    <2>1. asked' = asked /\ \A g \in goroutines' : g \in goroutines \/ g.op = "proxy"
      BY <1>2 DEF ProxyAdd, ProxyDel, Go
    <2> QED
      BY <2>1 DEF DelsAreAsked
  <1>3. ASSUME Dies
        PROVE  DelsAreAsked'
    <2>1. PICK x \in Nodes, work \in SUBSET Message, sent \in SUBSET Message : Die(x, work, sent)
      BY <1>3, DeathLeaves, Zenon
    <2>2. \A g \in goroutines' : g \in goroutines /\ g.node \in Nodes /\ g.node # x
      BY <2>1, Carried DEF Die, TypeOK
    <2>3. \A n \in Nodes : n # x => asked'[n] = asked[n]
      BY <2>1 DEF Die, TypeOK
    <2> QED
      BY <2>2, <2>3 DEF DelsAreAsked
  <1>4. ASSUME asked' = asked, goroutines' \subseteq goroutines
        PROVE  DelsAreAsked'
    BY <1>4 DEF DelsAreAsked
  <1>5. ASSUME NEW g \in goroutines,
               AddPeerServerIdentity(g) \/ RemovePeerServerIdentity(g) \/ Broadcast(g)
        PROVE  asked' = asked /\ goroutines' \subseteq goroutines
    BY <1>5 DEF AddPeerServerIdentity, RemovePeerServerIdentity, Broadcast
  <1>6. ASSUME NEW m \in net, HandlePingMessage(m) \/ Lose(m)
        PROVE  asked' = asked /\ goroutines' \subseteq goroutines
    BY <1>6 DEF HandlePingMessage, Lose
  <1>7. ASSUME NEW n \in Nodes, Restart(n)
        PROVE  asked' = asked /\ goroutines' \subseteq goroutines
    BY <1>7 DEF Restart
  <1>8. ASSUME asked' = asked, \A g \in goroutines' : g \in goroutines \/ g.op # "del"
        PROVE  DelsAreAsked'
    BY <1>8 DEF DelsAreAsked
  <1>9. ASSUME NEW m \in net, HandleAddressMessage(m)
        PROVE  DelsAreAsked'
    BY <1>8, <1>9 DEF HandleAddressMessage, Handler
  <1>10. ASSUME NEW g \in goroutines, RememberAddresses(g)
         PROVE  DelsAreAsked'
    BY <1>8, <1>10 DEF RememberAddresses, Go
  <1> QED
    BY <1>1, <1>2, <1>3, <1>4, <1>5, <1>6, <1>7, <1>9, <1>10, Zenon
       DEF Next, PeerCommand, ProxyCommand, Run, HandleMessage, Dies

LEMMA PeersInvNext ==
    ASSUME PeersInv, [Next]_vars
    PROVE  PeersInv'
  <1> USE DEF PeersInv
  <1>1. ASSUME NEW n \in Nodes, PeerCommand(n) \/ ProxyCommand(n)
        PROVE  TypeOK' /\ ListingIsMutual'
    BY <1>1, TypeCommands, ListsCommands
  <1>2. ASSUME NEW g \in goroutines, Run(g)
        PROVE  TypeOK' /\ ListingIsMutual'
    <2>1. CASE AddPeerServerIdentity(g)
      BY <2>1, TypeWork, ListsAdd
    <2>2. CASE RemovePeerServerIdentity(g)
      BY <2>2, TypeWork, ListsRemove
    <2>3. CASE Broadcast(g)
      BY <2>3, TypeWork, ListsElsewhere
    <2>4. CASE ConcurrentMapAccess(g) \/ IterationAndGoroutine(g)
      BY <2>4, TypeDies, ListsDies DEF Dies
    <2>5. CASE RememberAddresses(g)
      BY <2>5, TypeWork, ListsElsewhere
    <2> QED
      BY <1>2, <2>1, <2>2, <2>3, <2>4, <2>5 DEF Run
  <1>3. ASSUME NEW m \in net, HandleMessage(m)
        PROVE  TypeOK' /\ ListingIsMutual'
    <2>1. CASE HandlePingMessage(m)
      BY <2>1, TypeWork, ListsPing
    <2>2. CASE HandleAddressMessage(m)
      BY <2>2, TypeWork, ListsElsewhere
    <2>3. CASE IterationAndPing(m)
      BY <2>3, TypeDies, ListsDies DEF Dies
    <2>4. CASE Lose(m)
      BY <2>4, TypeWork, ListsLose
    <2> QED
      BY <1>3, <2>1, <2>2, <2>3, <2>4 DEF HandleMessage
  <1>4. ASSUME NEW n \in Nodes, Restart(n)
        PROVE  TypeOK' /\ ListingIsMutual'
    BY <1>4, TypeWork, ListsElsewhere
  <1>5. CASE Next
    BY <1>1, <1>2, <1>3, <1>4, <1>5, DelsStep DEF Next
  <1>6. CASE UNCHANGED vars
    BY <1>6 DEF vars, TypeOK, DelsAreAsked, ListingIsMutual, Lists
  <1> QED
    BY <1>5, <1>6

LEMMA PeersInvAlways == Spec => []PeersInv
  <1> QED
    BY PeersInvInit, PeersInvNext, PTL DEF Spec

-----------------------------------------------------------------------------
\* Tables, messages and goroutines of the peer commands stay within their
\* types, whatever is added, removed, crashes and restarts.
THEOREM PeersTypeOK == Spec => []TypeOK
  <1>1. PeersInv => TypeOK
    BY DEF PeersInv
  <1> QED
    BY <1>1, PeersInvAlways, PTL

\* Peering stays mutual for any number of nodes and commands: Ping, the sender
\* being added by whoever handles it, keeps the tables of two running nodes in
\* agreement unless an operator or a restart set them apart.
THEOREM PeeringStaysMutual == Spec => []PeeringIsMutual
  <1>1. PeersInv => PeeringIsMutual
    BY DEF PeersInv, ListingIsMutual, Lists, Ping, PeeringIsMutual
  <1> QED
    BY <1>1, PeersInvAlways, PTL
=============================================================================
