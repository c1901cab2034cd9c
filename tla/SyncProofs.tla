----------------------------- MODULE SyncProofs -----------------------------
(***************************************************************************)
(* Proofs about Sync, for any nodes, peer tables, data directories and     *)
(* numbers of starts, and chains of heights 0 and 1: module LeaderRound    *)
(* shows that there are no others (ChainStopsAtOne).                       *)
(***************************************************************************)
EXTENDS Sync, FiniteSetTheorems, TLAPS

OneEpoch == Heights \subseteq {0, 1}

\* A goroutine that compares a remote has taken one from synChan.
WorkersHoldRemotes ==
    \A w \in Workers : At(w, "compare") => workers[w].left > 0 /\ workers[w].remote # Nil

\* A request that names the chain comes from a node that has its genesis block,
\* and asks for no block but that one.
RequestsKnow ==
    \A m \in net : m.type = "Request" => m.size <= 1 /\ (m.genesis => 0 \in bucket[m.from])

\* A response carries the genesis block, to a node that has it.
ResponsesKnow ==
    \A m \in net : m.type = "Response" => m.blocks = {0} /\ 0 \in bucket[m.to]

SyncInv == TypeOK /\ WorkersHoldRemotes /\ RequestsKnow /\ ResponsesKnow

-----------------------------------------------------------------------------
\* What messages, remotes and goroutines carry.
LEMMA Fields ==
    /\ \A m \in Message : m.from \in Nodes /\ m.to \in Nodes
    /\ \A m \in Message : m.type = "Handshake" => m.latest \in Heights \cup {Nil}
    /\ \A m \in Message : m.type = "Request" => m.start \in Heights /\ m.size \in Nat
    /\ \A r \in Remote : r.node \in Nodes /\ r.index \in Heights
    /\ \A t \in Worker : /\ t.node \in Nodes /\ t.left \in Nat
                         /\ t.pc \in {"collect", "compare", "choose"}
                         /\ t.remotes \subseteq Remote /\ t.remote \in Remote \cup {Nil}
  <1>1. \A m \in Message : m.from \in Nodes /\ m.to \in Nodes
    BY DEF Message
  <1>2. \A m \in Message : m.type = "Handshake" => m.latest \in Heights \cup {Nil}
    BY DEF Message
  <1>3. \A m \in Message : m.type = "Request" => m.start \in Heights /\ m.size \in Nat
    BY SyncAssumption DEF Message
  <1>4. \A r \in Remote : r.node \in Nodes /\ r.index \in Heights
    BY DEF Remote
  <1>5. \A t \in Worker : /\ t.node \in Nodes /\ t.left \in Nat
                          /\ t.pc \in {"collect", "compare", "choose"}
                          /\ t.remotes \subseteq Remote /\ t.remote \in Remote \cup {Nil}
    BY DEF Worker
  <1> QED
    BY <1>1, <1>2, <1>3, <1>4, <1>5

\* Messages stay as they are true while buckets only grow.
LEMMA MessagesStay ==
    ASSUME TypeOK, RequestsKnow, ResponsesKnow, net' \subseteq net,
           \A n \in Nodes : bucket[n] \subseteq bucket'[n]
    PROVE  net' \subseteq Message /\ RequestsKnow' /\ ResponsesKnow'
  BY Fields DEF TypeOK, RequestsKnow, ResponsesKnow

LEMMA SyncInvInit ==
    ASSUME Init
    PROVE  SyncInv
  <1>a. bucket \in [Nodes -> SUBSET Heights]
    BY SyncAssumption DEF Init
  <1>b. \A n \in Nodes : starts[n] <= MaxStarts[n]
    BY SyncAssumption DEF Init
  <1>c. /\ blockIndexMap \in [Nodes -> SUBSET Heights]
        /\ \A n \in Nodes : blockIndexMap[n] \subseteq IF up[n] THEN bucket[n] ELSE {}
    BY DEF Init
  <1>1. TypeOK
    BY <1>a, <1>b, <1>c DEF Init, TypeOK
  <1>2. WorkersHoldRemotes /\ RequestsKnow /\ ResponsesKnow
    BY DEF Init, WorkersHoldRemotes, At, RequestsKnow, ResponsesKnow
  <1> QED
    BY <1>1, <1>2 DEF SyncInv

-----------------------------------------------------------------------------
(***************************************************************************)
(* Process and database.                                                   *)
(***************************************************************************)
\* A process that ends loses its memory and keeps its bucket.
LEMMA StopKeeps ==
    ASSUME SyncInv, NEW n \in Nodes, Stop(n), net' \subseteq net
    PROVE  SyncInv'
  <1>1. UNCHANGED <<bucket, starts>> /\ net' \subseteq Message
    BY DEF Stop, SyncInv, TypeOK
  <1>2. workers' \in [Workers -> Worker \cup {Nil}]
    BY DEF Stop, SyncInv, TypeOK
  <1>3. WorkersHoldRemotes'
    BY DEF Stop, SyncInv, TypeOK, WorkersHoldRemotes, At
  <1>4. blockIndexMap' \in [Nodes -> SUBSET Heights] /\ latest' \in [Nodes -> Heights \cup {Nil}]
    BY DEF Stop, SyncInv, TypeOK
  <1>5. \A k \in Nodes : blockIndexMap'[k] \subseteq IF up'[k] THEN bucket'[k] ELSE {}
    BY <1>1 DEF Stop, SyncInv, TypeOK
  <1>6. up' \in [Nodes -> BOOLEAN] /\ mutexHeld' \in [Nodes -> BOOLEAN] /\ calls' \in [Nodes -> Nat]
    BY DEF Stop, SyncInv, TypeOK
  <1>7. /\ greeting' \in [Nodes -> (SUBSET Nodes) \cup {Nil}]
        /\ sending' \in [Nodes -> SUBSET Remote] /\ synChan' \in [Nodes -> Remote \cup {Nil}]
    BY DEF Stop, SyncInv, TypeOK
  <1>8. TypeOK'
    BY <1>1, <1>2, <1>4, <1>5, <1>6, <1>7 DEF SyncInv, TypeOK
  <1> QED
    BY <1>1, <1>3, <1>8, MessagesStay DEF SyncInv

LEMMA StartKeeps ==
    ASSUME SyncInv, NEW n \in Nodes, Start(n)
    PROVE  SyncInv'
  <1>1. UNCHANGED <<bucket, mutexHeld, greeting, workers, sending, synChan, net>>
    BY DEF Start
  <1>2. latest' \in [Nodes -> Heights \cup {Nil}]
    BY DEF Start, SyncInv, TypeOK
  <1>a. \A k \in Nodes : MaxStarts[k] \in Nat /\ starts[k] \in Nat /\ starts[k] <= MaxStarts[k]
    BY SyncAssumption DEF SyncInv, TypeOK
  <1>b. starts' \in [Nodes -> Nat]
    BY DEF Start, SyncInv, TypeOK
  <1>c. \A k \in Nodes : starts'[k] = IF k = n THEN starts[k] + 1 ELSE starts[k]
    BY DEF Start, SyncInv, TypeOK
  <1>3. starts' \in [Nodes -> Nat] /\ \A k \in Nodes : starts'[k] <= MaxStarts[k]
    BY <1>a, <1>b, <1>c DEF Start
  <1>4. /\ up' \in [Nodes -> BOOLEAN] /\ calls' \in [Nodes -> Nat]
        /\ blockIndexMap' \in [Nodes -> SUBSET Heights]
        /\ \A k \in Nodes : blockIndexMap'[k] \subseteq IF up'[k] THEN bucket'[k] ELSE {}
    BY DEF Start, SyncInv, TypeOK
  <1>5. TypeOK'
    BY <1>1, <1>2, <1>3, <1>4 DEF SyncInv, TypeOK
  <1> QED
    BY <1>1, <1>5, MessagesStay DEF SyncInv, WorkersHoldRemotes, At

LEMMA BlockMessageKeeps ==
    ASSUME SyncInv, NEW n \in Nodes, NEW p \in Nodes, NEW b \in Heights, HandleBlockMessage(n, p, b)
    PROVE  SyncInv'
  <1>1. UNCHANGED <<up, mutexHeld, syncVars, net, starts>>
    BY DEF HandleBlockMessage
  <1>2. bucket' \in [Nodes -> SUBSET Heights] /\ \A k \in Nodes : bucket[k] \subseteq bucket'[k]
    BY DEF HandleBlockMessage, SyncInv, TypeOK
  <1>3. /\ blockIndexMap' \in [Nodes -> SUBSET Heights]
        /\ \A k \in Nodes : blockIndexMap'[k] \subseteq IF up'[k] THEN bucket'[k] ELSE {}
    BY DEF HandleBlockMessage, SyncInv, TypeOK
  <1>4. latest' \in [Nodes -> Heights \cup {Nil}]
    BY DEF HandleBlockMessage, SyncInv, TypeOK
  <1>5. TypeOK'
    BY <1>1, <1>2, <1>3, <1>4 DEF syncVars, SyncInv, TypeOK
  <1>6. WorkersHoldRemotes'
    BY <1>1 DEF syncVars, SyncInv, WorkersHoldRemotes, At
  <1> QED
    BY <1>1, <1>2, <1>5, <1>6, MessagesStay DEF SyncInv

-----------------------------------------------------------------------------
(***************************************************************************)
(* Handshakes and processMessage.                                          *)
(***************************************************************************)
\* A goroutine's variables, and nothing of database or network.
LEMMA WorkersMove ==
    ASSUME SyncInv, UNCHANGED <<up, dbVars, starts>>,
           workers' \in [Workers -> Worker \cup {Nil}], WorkersHoldRemotes',
           calls' \in [Nodes -> Nat], greeting' \in [Nodes -> (SUBSET Nodes) \cup {Nil}],
           sending' \in [Nodes -> SUBSET Remote], synChan' \in [Nodes -> Remote \cup {Nil}],
           net' \subseteq Message, RequestsKnow', ResponsesKnow'
    PROVE  SyncInv'
  <1>1. TypeOK'
    BY DEF SyncInv, TypeOK, dbVars
  <1> QED
    BY <1>1 DEF SyncInv

LEMMA HandshakeKeeps ==
    ASSUME SyncInv, NEW n \in Nodes, HandshakeStep(n)
    PROVE  SyncInv'
  <1> USE DEF SyncInv
  <1>1. CASE HandshakeBegin(n)
    <2>1. calls' \in [Nodes -> Nat]
      BY <1>1 DEF HandshakeBegin, TypeOK
    <2>2. greeting' \in [Nodes -> (SUBSET Nodes) \cup {Nil}]
      BY <1>1, SyncAssumption DEF HandshakeBegin, TypeOK
    <2>3. workers' \in [Workers -> Worker \cup {Nil}] /\ WorkersHoldRemotes'
      <3>1. CASE Peers[n] = {}
        BY <1>1, <3>1 DEF HandshakeBegin, TypeOK, WorkersHoldRemotes, At
      <3>2. CASE Peers[n] # {}
        <4> DEFINE t == [node |-> n, pc |-> "collect", left |-> Cardinality(Peers[n]),
                         remotes |-> {}, remote |-> Nil]
        <4>1. PICK w \in Free : workers' = [workers EXCEPT ![w] = t]
          BY <1>1, <3>2 DEF HandshakeBegin
        <4>2. Cardinality(Peers[n]) \in Nat
          BY SyncAssumption, FS_CardinalityType, FS_Subset
        <4>3. t \in Worker /\ t.pc = "collect"
          BY <4>2 DEF Worker
        <4>4. w \in Workers
          BY DEF Free
        <4> HIDE DEF t
        <4> QED
          BY <4>1, <4>3, <4>4 DEF TypeOK, WorkersHoldRemotes, At
      <3> QED
        BY <3>1, <3>2
    <2>4. UNCHANGED <<up, dbVars, sending, synChan, net, starts>>
      BY <1>1 DEF HandshakeBegin
    <2> QED
      BY <2>1, <2>2, <2>3, <2>4, MessagesStay, WorkersMove DEF TypeOK, dbVars
  <1>2. CASE HandshakeSend(n)
    <2>1. PICK p \in greeting[n] :
            /\ greeting' = [greeting EXCEPT ![n] = @ \ {p}]
            /\ net' = net \cup Send([type |-> "Handshake", from |-> n, to |-> p,
                                     genesis |-> HasGenesis(n), latest |-> latest[n]])
      BY <1>2 DEF HandshakeSend
    <2>2. greeting[n] \in SUBSET Nodes /\ p \in Nodes
      BY <1>2 DEF HandshakeSend, TypeOK
    <2> DEFINE m == [type |-> "Handshake", from |-> n, to |-> p,
                     genesis |-> HasGenesis(n), latest |-> latest[n]]
    <2>3. m \in Message /\ m.type = "Handshake"
      BY <2>2 DEF Message, HasGenesis, TypeOK
    <2>4. net' \subseteq net \cup {m}
      BY <2>1 DEF Send
    <2>5. UNCHANGED <<up, dbVars, calls, workers, sending, synChan, starts>>
      BY <1>2 DEF HandshakeSend
    <2> HIDE DEF m
    <2>6. net' \subseteq Message /\ RequestsKnow' /\ ResponsesKnow'
      BY <2>3, <2>4, <2>5 DEF TypeOK, RequestsKnow, ResponsesKnow, dbVars
    <2>7. greeting' \in [Nodes -> (SUBSET Nodes) \cup {Nil}]
      BY <2>1, <2>2 DEF TypeOK
    <2>8. WorkersHoldRemotes'
      BY <2>5 DEF WorkersHoldRemotes, At
    <2> QED
      BY <2>5, <2>6, <2>7, <2>8, WorkersMove DEF TypeOK
  <1>3. CASE HandshakeEnd(n)
    <2>1. UNCHANGED <<up, dbVars, calls, workers, sending, synChan, net, starts>>
      BY <1>3 DEF HandshakeEnd
    <2>2. greeting' \in [Nodes -> (SUBSET Nodes) \cup {Nil}] /\ WorkersHoldRemotes'
      BY <1>3, <2>1 DEF HandshakeEnd, TypeOK, WorkersHoldRemotes, At
    <2> QED
      BY <2>1, <2>2, MessagesStay, WorkersMove DEF TypeOK, dbVars
  <1> QED
    BY <1>1, <1>2, <1>3 DEF HandshakeStep

LEMMA SynSendKeeps ==
    ASSUME SyncInv, NEW n \in Nodes, SynSend(n)
    PROVE  SyncInv'
  <1>1. UNCHANGED <<up, dbVars, calls, greeting, workers, net, starts>>
    BY DEF SynSend
  <1>2. synChan' \in [Nodes -> Remote \cup {Nil}] /\ sending' \in [Nodes -> SUBSET Remote]
    BY DEF SynSend, SyncInv, TypeOK
  <1>3. WorkersHoldRemotes'
    BY <1>1 DEF SyncInv, WorkersHoldRemotes, At
  <1> QED
    BY <1>1, <1>2, <1>3, MessagesStay, WorkersMove DEF SyncInv, TypeOK, dbVars

LEMMA WorkerTyped ==
    ASSUME TypeOK, NEW w \in Workers, workers[w] # Nil
    PROVE  workers[w] \in Worker /\ workers[w].node \in Nodes /\ workers[w].left \in Nat
           /\ workers[w].remotes \subseteq Remote /\ workers[w].remote \in Remote \cup {Nil}
  BY Fields DEF TypeOK

\* A step of a processMessage goroutine w that becomes t, or ends.
LEMMA WorkerBecomes ==
    ASSUME TypeOK, WorkersHoldRemotes, NEW w \in Workers, NEW t \in Worker \cup {Nil},
           t # Nil /\ t.pc = "compare" => t.left > 0 /\ t.remote # Nil,
           workers' = [workers EXCEPT ![w] = t]
    PROVE  workers' \in [Workers -> Worker \cup {Nil}] /\ WorkersHoldRemotes'
  BY DEF TypeOK, WorkersHoldRemotes, At

LEMMA CollectKeeps ==
    ASSUME SyncInv, NEW w \in Workers, CollectRemote(w) \/ CompareRemote(w) \/ CollectEnd(w)
    PROVE  SyncInv'
  <1> USE DEF SyncInv
  <1> DEFINE t == workers[w]
  <1>1. t # Nil /\ t \in Worker /\ t.node \in Nodes /\ t.left \in Nat
        /\ t.remotes \subseteq Remote /\ t.remote \in Remote \cup {Nil}
    BY WorkerTyped DEF CollectRemote, CompareRemote, CollectEnd, At
  <1>2. UNCHANGED <<up, dbVars, calls, greeting, sending, net, starts>>
    BY DEF CollectRemote, CompareRemote, CollectEnd
  <1>3. synChan' \in [Nodes -> Remote \cup {Nil}]
    BY <1>1 DEF CollectRemote, CompareRemote, CollectEnd, TypeOK
  <1>4. workers' \in [Workers -> Worker \cup {Nil}] /\ WorkersHoldRemotes'
    <2>1. CASE CollectRemote(w)
      <3> DEFINE u == [t EXCEPT !.pc = "compare", !.remote = synChan[t.node]]
      <3>1. workers' = [workers EXCEPT ![w] = u]
        BY <2>1 DEF CollectRemote, TypeOK
      <3>2. synChan[t.node] \in Remote /\ t.left > 0
        BY <1>1, <2>1 DEF CollectRemote, TypeOK
      <3>3. u \in Worker /\ u.left > 0 /\ u.remote = synChan[t.node]
        BY <1>1, <3>2 DEF Worker
      <3>4. u.remote # Nil
        BY <2>1, <3>3 DEF CollectRemote
      <3> HIDE DEF u, t
      <3> QED
        BY <3>1, <3>3, <3>4, WorkerBecomes
    <2>2. CASE CompareRemote(w)
      <3> DEFINE kept == IF latest[t.node] = Nil \/ t.remote.index > latest[t.node]
                         THEN t.remotes \cup {t.remote} ELSE t.remotes
                 u == [t EXCEPT !.pc = "collect", !.left = t.left - 1, !.remote = Nil, !.remotes = kept]
      <3>1. workers' = [workers EXCEPT ![w] = u]
        BY <2>2 DEF CompareRemote
      <3>2. t.left > 0 /\ t.remote \in Remote
        BY <1>1, <2>2 DEF CompareRemote, WorkersHoldRemotes
      <3>3. kept \subseteq Remote /\ t.left - 1 \in Nat
        BY <1>1, <3>2
      <3> HIDE DEF kept
      <3>4. u \in Worker /\ u.pc = "collect"
        BY <1>1, <3>3 DEF Worker
      <3> HIDE DEF u, t
      <3> QED
        BY <3>1, <3>4, WorkerBecomes
    <2>3. CASE CollectEnd(w)
      <3> DEFINE u == [t EXCEPT !.pc = "choose"]
      <3>1. workers' = [workers EXCEPT ![w] = u]
        BY <2>3 DEF CollectEnd, TypeOK
      <3>2. u \in Worker /\ u.pc = "choose"
        BY <1>1 DEF Worker
      <3> HIDE DEF u, t
      <3> QED
        BY <3>1, <3>2, WorkerBecomes
    <2> QED
      BY <2>1, <2>2, <2>3
  <1> QED
    BY <1>2, <1>3, <1>4, MessagesStay, WorkersMove DEF TypeOK, dbVars

LEMMA ChooseKeeps ==
    ASSUME SyncInv, OneEpoch, NEW w \in Workers, NoRemote(w) \/ AskRemote(w)
    PROVE  SyncInv'
  <1> USE DEF SyncInv
  <1> DEFINE t == workers[w]
             n == t.node
  <1>1. t # Nil /\ t \in Worker /\ n \in Nodes /\ t.remotes \subseteq Remote
    BY WorkerTyped DEF NoRemote, AskRemote, At
  <1>2. UNCHANGED <<up, dbVars, greeting, sending, synChan, starts>>
    BY DEF NoRemote, AskRemote
  <1>3. ASSUME workers' = [workers EXCEPT ![w] = Nil]
        PROVE  workers' \in [Workers -> Worker \cup {Nil}] /\ WorkersHoldRemotes'
    BY <1>3, WorkerBecomes
  <1>4. CASE NoRemote(w)
    BY <1>2, <1>3, <1>4, MessagesStay, WorkersMove DEF NoRemote, TypeOK, dbVars
  <1>5. CASE AskRemote(w)
    <2>1. PICK r \in t.remotes :
            IF up[r.node]
            THEN /\ net' = net \cup {[type |-> "Request", from |-> n, to |-> r.node,
                                      genesis |-> HasGenesis(n), start |-> DownloadStart(n),
                                      size |-> Min(r.index, MaxPerOnce)]}
                 /\ workers' = [workers EXCEPT ![w] = Nil]
                 /\ UNCHANGED calls
            ELSE /\ UNCHANGED net
                 /\ IF t.remotes = {r}
                    THEN /\ workers' = [workers EXCEPT ![w] = Nil]
                         /\ calls' = [calls EXCEPT ![n] = @ + 1]
                    ELSE /\ workers' = [workers EXCEPT ![w].remotes = @ \ {r}]
                         /\ UNCHANGED calls
      BY <1>5 DEF AskRemote
    <2>2. r.node \in Nodes /\ r.index \in Heights /\ r.index \in {0, 1}
      BY <1>1, Fields DEF OneEpoch
    <2>3. calls' \in [Nodes -> Nat]
      BY <2>1 DEF TypeOK
    <2>4. workers' \in [Workers -> Worker \cup {Nil}] /\ WorkersHoldRemotes'
      <3> DEFINE u == [t EXCEPT !.remotes = t.remotes \ {r}]
      <3>1. workers' = [workers EXCEPT ![w] = Nil] \/ workers' = [workers EXCEPT ![w] = u]
        BY <2>1
      <3>2. u \in Worker /\ u.pc = "choose"
        BY <1>1, <1>5 DEF Worker, AskRemote, At
      <3> HIDE DEF u, t
      <3> QED
        BY <1>3, <3>1, <3>2, WorkerBecomes
    <2>5. net' \subseteq Message /\ RequestsKnow' /\ ResponsesKnow'
      <3>1. CASE up[r.node]
        <4> DEFINE m == [type |-> "Request", from |-> n, to |-> r.node,
                         genesis |-> HasGenesis(n), start |-> DownloadStart(n),
                         size |-> Min(r.index, MaxPerOnce)]
        <4>1. net' = net \cup {m} /\ bucket' = bucket
          BY <1>2, <2>1, <3>1 DEF dbVars
        <4>2. HasGenesis(n) \in BOOLEAN /\ (HasGenesis(n) => 0 \in bucket[n])
          BY <1>1 DEF HasGenesis, TypeOK
        <4>3. DownloadStart(n) \in Heights
          BY <1>1, SyncAssumption DEF DownloadStart, TypeOK
        <4>4. Min(r.index, MaxPerOnce) \in 0..MaxPerOnce /\ Min(r.index, MaxPerOnce) <= 1
          BY <2>2, SyncAssumption DEF Min
        <4>5. m \in Message
          BY <1>1, <2>2, <4>2, <4>3, <4>4 DEF Message
        <4>6. m.type = "Request" /\ m.size <= 1 /\ (m.genesis => 0 \in bucket[m.from])
          BY <4>2, <4>4
        <4> HIDE DEF m
        <4> QED
          BY <4>1, <4>5, <4>6 DEF TypeOK, RequestsKnow, ResponsesKnow
      <3>2. CASE ~up[r.node]
        BY <1>2, <2>1, <3>2, MessagesStay DEF dbVars
      <3> QED
        BY <3>1, <3>2
    <2> QED
      BY <1>2, <2>3, <2>4, <2>5, WorkersMove DEF TypeOK
  <1> QED
    BY <1>4, <1>5

-----------------------------------------------------------------------------
(***************************************************************************)
(* Messages.                                                               *)
(***************************************************************************)
LEMMA HandshakeMessageKeeps ==
    ASSUME SyncInv, NEW m \in net, HandleHandshakeMessage(m)
    PROVE  SyncInv'
  <1>1. m.to \in Nodes /\ m.from \in Nodes /\ m.latest \in Heights \cup {Nil}
    BY Fields DEF HandleHandshakeMessage, Receive, SyncInv, TypeOK
  <1>2. UNCHANGED <<up, bucket, blockIndexMap, latest, calls, greeting, workers, synChan, starts>>
        /\ net' \subseteq net
    BY DEF HandleHandshakeMessage
  <1>3. mutexHeld' \in [Nodes -> BOOLEAN]
    BY <1>1 DEF HandleHandshakeMessage, HasGenesis, SyncInv, TypeOK
  <1>4. sending' \in [Nodes -> SUBSET Remote]
    <2> DEFINE r == [node |-> m.from, index |-> m.latest]
    <2>1. m.latest # Nil => r \in Remote
      BY <1>1 DEF Remote
    <2>2. sending' = sending \/ (m.latest # Nil /\ sending' = [sending EXCEPT ![m.to] = @ \cup {r}])
      BY DEF HandleHandshakeMessage
    <2> HIDE DEF r
    <2> QED
      BY <1>1, <2>1, <2>2 DEF SyncInv, TypeOK
  <1>5. TypeOK'
    BY <1>2, <1>3, <1>4 DEF SyncInv, TypeOK
  <1> QED
    BY <1>2, <1>5, MessagesStay DEF SyncInv, WorkersHoldRemotes, At

\* What is served is below Size, so at most the genesis block; and it goes to
\* a node that has named the chain.
LEMMA RequestKeeps ==
    ASSUME SyncInv, OneEpoch, NEW m \in net, HandleDownloadBlockRequest(m)
    PROVE  SyncInv'
  <1> USE DEF SyncInv
  <1> DEFINE n == m.to
             blocks == Served(n, m.start, m.size)
             answer == [type |-> "Response", from |-> n, to |-> m.from,
                        genesis |-> HasGenesis(n), blocks |-> blocks]
  <1>1. m.type = "Request" /\ m.start \in Heights /\ m.size \in Nat /\ m.size <= 1
        /\ (m.genesis => 0 \in bucket[m.from]) /\ n \in Nodes /\ m.from \in Nodes
    BY Fields DEF HandleDownloadBlockRequest, Receive, RequestsKnow, TypeOK
  <1>2. \A b \in blocks : b \in Heights /\ b = 0 /\ b \in blockIndexMap[n]
    <2>1. \A b \in blocks : b \in blockIndexMap[n] /\ b < m.size
      BY DEF Served
    <2>2. \A b \in blockIndexMap[n] : b \in Heights /\ b \in {0, 1}
      BY <1>1 DEF TypeOK, OneEpoch
    <2> HIDE DEF blocks
    <2> QED
      BY <1>1, <2>1, <2>2
  <1> HIDE DEF blocks
  <1>3. UNCHANGED <<up, dbVars, syncVars, starts>>
    BY DEF HandleDownloadBlockRequest
  <1>4. net' \subseteq net \/
        (m.genesis = HasGenesis(n) /\ blocks # {} /\ net' \subseteq net \cup {answer})
    BY DEF HandleDownloadBlockRequest, Send, blocks
  <1>5. ASSUME m.genesis = HasGenesis(n), blocks # {}, net' \subseteq net \cup {answer}
        PROVE  net' \subseteq Message /\ RequestsKnow' /\ ResponsesKnow'
    <2>1. blocks = {0} /\ HasGenesis(n)
      BY <1>2, <1>5 DEF HasGenesis
    <2>2. 0 \in bucket[m.from]
      BY <1>1, <1>5, <2>1
    <2>3. answer \in Message
      BY <1>1, <2>1, SyncAssumption DEF Message, HasGenesis
    <2>4. answer.type = "Response" /\ answer.blocks = {0} /\ 0 \in bucket[answer.to]
      BY <2>1, <2>2
    <2> HIDE DEF answer
    <2> QED
      BY <1>3, <1>5, <2>3, <2>4 DEF TypeOK, RequestsKnow, ResponsesKnow, dbVars
  <1>6. net' \subseteq Message /\ RequestsKnow' /\ ResponsesKnow'
    BY <1>3, <1>4, <1>5, MessagesStay DEF dbVars
  <1>7. WorkersHoldRemotes'
    BY <1>3 DEF WorkersHoldRemotes, At, syncVars
  <1> QED
    BY <1>3, <1>6, <1>7, WorkersMove DEF TypeOK, syncVars

LEMMA ResponseKeeps ==
    ASSUME SyncInv, NEW m \in net, HandleDownloadBlockResponse(m)
    PROVE  SyncInv'
  <1> USE DEF SyncInv
  <1>1. m.to \in Nodes /\ m.blocks = {0}
    BY Fields DEF HandleDownloadBlockResponse, Receive, ResponsesKnow, TypeOK
  <1> DEFINE top == CHOOSE b \in m.blocks : \A i \in m.blocks : i <= b
  <1>2. top = 0
    BY <1>1
  <1>3. net' \subseteq net
    BY DEF HandleDownloadBlockResponse
  <1>4. CASE Stop(m.to)
    BY <1>1, <1>3, <1>4, StopKeeps
  <1>5. CASE ~Stop(m.to)
    <2>1. /\ UNCHANGED <<up, bucket, blockIndexMap, mutexHeld, greeting, workers, sending, synChan,
                         starts>>
          /\ calls' = [calls EXCEPT ![m.to] = @ + 1] \/ calls' = calls
      BY <1>5 DEF HandleDownloadBlockResponse
    <2>a. latest' = latest \/ top > 0
      BY <1>5, Zenon DEF HandleDownloadBlockResponse
    <2>b. latest' = latest
      <3> HIDE DEF top
      <3> QED
        BY <1>2, <2>a
    <2>2. calls' \in [Nodes -> Nat]
      BY <1>1, <2>1 DEF TypeOK
    <2>3. WorkersHoldRemotes'
      BY <2>1 DEF WorkersHoldRemotes, At
    <2> QED
      BY <1>3, <2>1, <2>2, <2>3, <2>b, MessagesStay, WorkersMove DEF TypeOK, dbVars
  <1> QED
    BY <1>4, <1>5

LEMMA LoseKeeps ==
    ASSUME SyncInv, NEW m \in net, Lose(m)
    PROVE  SyncInv'
  <1>1. UNCHANGED <<up, dbVars, syncVars, starts>> /\ net' \subseteq net
    BY DEF Lose
  <1>2. WorkersHoldRemotes'
    BY <1>1 DEF SyncInv, WorkersHoldRemotes, At, syncVars
  <1> QED
    BY <1>1, <1>2, MessagesStay, WorkersMove DEF SyncInv, TypeOK, dbVars, syncVars

LEMMA SyncInvNext ==
    ASSUME SyncInv, OneEpoch, [Next]_vars
    PROVE  SyncInv'
  <1>1. ASSUME NEW n \in Nodes, Start(n) \/ Crash(n) \/ HandshakeStep(n) \/ SynSend(n)
        PROVE  SyncInv'
    BY <1>1, StartKeeps, StopKeeps, HandshakeKeeps, SynSendKeeps DEF Crash
  <1>2. ASSUME NEW n \in Nodes, NEW p \in Nodes, NEW b \in Heights, HandleBlockMessage(n, p, b)
        PROVE  SyncInv'
    BY <1>2, BlockMessageKeeps
  <1>3. ASSUME NEW w \in Workers, WorkerStep(w)
        PROVE  SyncInv'
    BY <1>3, CollectKeeps, ChooseKeeps DEF WorkerStep
  <1>4. ASSUME NEW m \in net, HandleMessage(m)
        PROVE  SyncInv'
    BY <1>4, HandshakeMessageKeeps, RequestKeeps, ResponseKeeps, LoseKeeps DEF HandleMessage
  <1>5. CASE UNCHANGED vars
    BY <1>5 DEF vars, dbVars, syncVars, SyncInv, TypeOK, WorkersHoldRemotes, At, RequestsKnow,
                ResponsesKnow
  <1> QED
    BY <1>1, <1>2, <1>3, <1>4, <1>5 DEF Next

LEMMA SyncInvAlways == ASSUME OneEpoch PROVE Spec => []SyncInv
  <1>1. SyncInv /\ [Next]_vars => SyncInv'
    BY SyncInvNext
  <1> QED
    BY <1>1, SyncInvInit, PTL DEF Spec

-----------------------------------------------------------------------------
\* The variables of synchronisation keep their types, and the index of a node
\* stays part of its bucket, on every network.
THEOREM SyncTypeOK == ASSUME OneEpoch PROVE Spec => []TypeOK
  <1>1. SyncInv => TypeOK
    BY DEF SyncInv
  <1> QED
    BY <1>1, SyncInvAlways, PTL

\* On every network and with every data directory, nothing that is downloaded
\* is new to its receiver: a node without a chain cannot name the chain it
\* wants, and Size, used as the height to stop at, leaves only the genesis block.
THEOREM NothingNewIsDownloaded == ASSUME OneEpoch PROVE Spec => []DownloadsBringNothing
  <1>1. SyncInv => DownloadsBringNothing
    BY DEF SyncInv, ResponsesKnow, DownloadsBringNothing
  <1> QED
    BY <1>1, SyncInvAlways, PTL
=============================================================================
