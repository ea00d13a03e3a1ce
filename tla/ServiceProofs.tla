--------------------------- MODULE ServiceProofs ---------------------------
(***************************************************************************)
(* Proofs about one process for every set of requests, of chains and of    *)
(* rows in the keystore.                                                   *)
(***************************************************************************)
EXTENDS Service, Integers, FiniteSetTheorems, TLAPS

\* What a request of a kind may still have to fetch: a rest of its plan, or
\* what queueFor does in its place.
TodoOf(kind) ==
    CASE kind = "deploy" ->
           {<<"pool", "client", "client">>, <<"client", "client">>,
            <<"client">>, <<>>}
      [] kind = "entrypoint" -> {<<"pool", "client">>, <<"client">>, <<>>}
      [] kind = "wallet" ->
           {<<"server_key1", "server_key2", "client">>,
            <<"server_key2", "client">>, <<"client">>, <<>>}
      [] kind = "account" ->
           {<<"client", "server_key1", "server_key2", "queue">>,
            <<"server_key1", "server_key2", "queue">>,
            <<"server_key2", "queue">>, <<"queue">>,
            <<"pool", "start">>, <<"start">>, <<>>}
      [] kind = "split" ->
           {<<"server_key1", "server_key1", "server_key2", "client">>,
            <<"server_key2", "server_key1", "server_key2", "client">>,
            <<"server_key1", "server_key2", "client">>,
            <<"server_key2", "client">>, <<"client">>, <<>>}
      [] kind = "userop" -> {<<"queue">>, <<"pool", "start">>, <<"start">>, <<>>}

Working == {"fetch", "dial", "dialled", "load"}

\* A request that is served knows its handler and its chain, and follows its
\* plan; only a load has names and a part of a pool.
PlanInv ==
    \A r \in Requests :
        /\ rq[r].pc \in Working =>
              /\ rq[r].kind \in Handlers /\ rq[r].chain \in Chains
              /\ rq[r].todo \in TodoOf(rq[r].kind)
              /\ rq[r].turn = 0
        /\ rq[r].pc \in {"dial", "dialled"} =>
              rq[r].todo # <<>> /\ Head(rq[r].todo) = "client"
        /\ rq[r].pc = "load" =>
              /\ rq[r].todo # <<>>
              /\ Head(rq[r].todo) \in {"pool", "server_key1", "server_key2"}
        /\ rq[r].pc # "load" => rq[r].names = <<>> /\ rq[r].pool = <<>>
        /\ rq[r].pc \in {"new", "failed", "rejected"} =>
              rq[r].client = None /\ rq[r].turn = 0
        /\ rq[r].pc = "sent" => rq[r].chain \in Chains

\* A client is of the chain of the request that dialled it, and that request
\* does not dial again.
ClientInv ==
    \A r \in Requests, c \in Chains :
        clients[c] = r => /\ rq[r].pc \in {"fetch", "load", "sent", "failed"}
                          /\ rq[r].pc # "failed" => rq[r].chain = c

\* A pool that is being loaded is not cached, and what is loaded and what is
\* still to load make up a whole list.
LoadInv ==
    \A r \in Requests :
        rq[r].pc = "load" /\ Head(rq[r].todo) = "pool" =>
            /\ pools[rq[r].chain] = <<>>
            /\ rq[r].pool \o rq[r].names \in Candidates(rq[r].chain)

\* Who has fetched the pool finds it, and who has fetched the queue finds it.
FoundInv ==
    \A r \in Requests :
        LET c == rq[r].chain IN
        /\ /\ rq[r].pc \in Working /\ rq[r].kind \in {"deploy", "entrypoint"}
           /\ rq[r].todo = <<>> \/ Head(rq[r].todo) # "pool"
           => pools[c] # <<>>
        /\ rq[r].pc \in Working /\ rq[r].todo = <<"start">> => pools[c] # <<>>
        /\ rq[r].pc \in Working /\ rq[r].kind \in Queued /\ rq[r].todo = <<>> =>
              queues[c] # <<>>

\* A turn was drawn from a pool of several wallets.
TurnInv ==
    \A r \in Requests :
        LET c == rq[r].chain
            n == Len(queues[c])
        IN  rq[r].turn # 0 =>
               /\ rq[r].pc = "sent" /\ c \in Chains
               /\ n > 1
               /\ rq[r].wallet = queues[c][NextIndex(rq[r].turn, n) + 1]

IndInv ==
    /\ TypeOK
    /\ PlanInv
    /\ ClientInv
    /\ OneClient
    /\ NoConnectionLeak
    /\ LoadInv
    /\ PoolIsComplete
    /\ FoundInv
    /\ TurnInv

USE ServiceAssumption

Items == {"pool", "client", "queue", "start", "server_key1", "server_key2"}
KeyItems == {"pool", "server_key1", "server_key2"}
Starting == {<<"pool", "start">>, <<"start">>}

\* The types of the locals, by name.
PCs == {"new", "fetch", "dial", "dialled", "load", "sent", "failed", "rejected"}
KindSet == Handlers \cup {"none"}
ChainSet == Chains \cup {<<>>}
TodoSeq == Seq(Items)
KeySeq == Seq(Keys)
ClientSet == Requests \cup {None}
WalletSet == Keys \cup {None}

Locals ==
    [pc : PCs, kind : KindSet, chain : ChainSet, todo : TodoSeq, names : KeySeq,
     pool : KeySeq, client : ClientSet, turn : Nat, wallet : WalletSet]

LEMMA LocalsFields ==
    ASSUME NEW v \in Locals
    PROVE  /\ v.pc \in PCs /\ v.kind \in KindSet /\ v.chain \in ChainSet
           /\ v.todo \in TodoSeq /\ v.names \in KeySeq /\ v.pool \in KeySeq
           /\ v.client \in ClientSet /\ v.turn \in Nat /\ v.wallet \in WalletSet
  BY DEF Locals

-----------------------------------------------------------------------------
(***************************************************************************)
(* Plans                                                                   *)
(***************************************************************************)
LEMMA Tails ==
    /\ Tail(<<"pool", "client", "client">>) = <<"client", "client">>
    /\ Tail(<<"client", "client">>) = <<"client">>
    /\ Tail(<<"client">>) = <<>>
    /\ Tail(<<"pool", "client">>) = <<"client">>
    /\ Tail(<<"server_key1", "server_key2", "client">>) = <<"server_key2", "client">>
    /\ Tail(<<"server_key2", "client">>) = <<"client">>
    /\ Tail(<<"client", "server_key1", "server_key2", "queue">>)
          = <<"server_key1", "server_key2", "queue">>
    /\ Tail(<<"server_key1", "server_key2", "queue">>) = <<"server_key2", "queue">>
    /\ Tail(<<"server_key2", "queue">>) = <<"queue">>
    /\ Tail(<<"queue">>) = <<>>
    /\ Tail(<<"pool", "start">>) = <<"start">>
    /\ Tail(<<"start">>) = <<>>
    /\ Tail(<<"server_key1", "server_key1", "server_key2", "client">>)
          = <<"server_key1", "server_key2", "client">>
    /\ Tail(<<"server_key2", "server_key1", "server_key2", "client">>)
          = <<"server_key1", "server_key2", "client">>
  OBVIOUS

\* What the first item of what is left tells about the rest.
TodoFacts(kind, t) ==
    /\ t # <<>> => Tail(t) \in TodoOf(kind)
    /\ t # <<>> /\ Tail(t) \in Starting => t \in Starting /\ Head(t) = "pool"
    /\ t # <<>> /\ t[Len(t)] = "start" <=> t \in Starting
    /\ t \in Starting => kind \in Queued
    /\ t # <<>> /\ Head(t) = "start" => t = <<"start">>
    /\ t # <<>> /\ Head(t) = "queue" => t = <<"queue">> /\ kind \in Queued
    /\ t # <<>> /\ Head(t) = "pool" /\ kind \in Queued => t = <<"pool", "start">>
    /\ t # <<>> /\ Head(t) \in {"client", "server_key1", "server_key2"} =>
          t \notin Starting /\ Tail(t) # <<"start">>
    /\ t # <<>> /\ Tail(t) = <<>> /\ kind \in Queued => Head(t) \in {"queue", "start"}
    /\ t \in Starting /\ Head(t) = "pool" => Tail(t) = <<"start">>
    /\ t # <<>> /\ Head(t) \in {"start", "queue"} => Tail(t) = <<>>
    /\ t # <<>> => Head(t) \in Items

LEMMA Todo ==
    ASSUME NEW kind \in Handlers, NEW t \in TodoOf(kind)
    PROVE  TodoFacts(kind, t)
<1> USE Tails DEF TodoFacts, Starting, Queued, Items
<1>1. CASE kind = "deploy"
  <2> DEFINE T == {<<"pool", "client", "client">>, <<"client", "client">>,
                   <<"client">>, <<>>}
  <2>1. t \in T /\ TodoOf(kind) = T
    BY <1>1 DEF TodoOf
  <2>2. CASE t = <<"pool", "client", "client">>
    BY <1>1, <2>1, <2>2
  <2>3. CASE t = <<"client", "client">>
    BY <1>1, <2>1, <2>3
  <2>4. CASE t = <<"client">>
    BY <1>1, <2>1, <2>4
  <2>5. CASE t = <<>>
    BY <1>1, <2>1, <2>5
  <2> QED BY <2>1, <2>2, <2>3, <2>4, <2>5
<1>2. CASE kind = "entrypoint"
  <2> DEFINE T == {<<"pool", "client">>, <<"client">>, <<>>}
  <2>1. t \in T /\ TodoOf(kind) = T
    BY <1>2 DEF TodoOf
  <2>2. CASE t = <<"pool", "client">>
    BY <1>2, <2>1, <2>2
  <2>3. CASE t = <<"client">>
    BY <1>2, <2>1, <2>3
  <2>4. CASE t = <<>>
    BY <1>2, <2>1, <2>4
  <2> QED BY <2>1, <2>2, <2>3, <2>4
<1>3. CASE kind = "wallet"
  <2> DEFINE T == {<<"server_key1", "server_key2", "client">>,
                   <<"server_key2", "client">>, <<"client">>, <<>>}
  <2>1. t \in T /\ TodoOf(kind) = T
    BY <1>3 DEF TodoOf
  <2>2. CASE t = <<"server_key1", "server_key2", "client">>
    BY <1>3, <2>1, <2>2
  <2>3. CASE t = <<"server_key2", "client">>
    BY <1>3, <2>1, <2>3
  <2>4. CASE t = <<"client">>
    BY <1>3, <2>1, <2>4
  <2>5. CASE t = <<>>
    BY <1>3, <2>1, <2>5
  <2> QED BY <2>1, <2>2, <2>3, <2>4, <2>5
<1>4. CASE kind = "account"
  <2> DEFINE T == {<<"client", "server_key1", "server_key2", "queue">>,
                   <<"server_key1", "server_key2", "queue">>,
                   <<"server_key2", "queue">>, <<"queue">>, <<"pool", "start">>,
                   <<"start">>, <<>>}
  <2>1. t \in T /\ TodoOf(kind) = T
    BY <1>4 DEF TodoOf
  <2>2. CASE t = <<"client", "server_key1", "server_key2", "queue">>
    BY <1>4, <2>1, <2>2
  <2>3. CASE t = <<"server_key1", "server_key2", "queue">>
    BY <1>4, <2>1, <2>3
  <2>4. CASE t = <<"server_key2", "queue">>
    BY <1>4, <2>1, <2>4
  <2>5. CASE t = <<"queue">>
    BY <1>4, <2>1, <2>5
  <2>6. CASE t = <<"pool", "start">>
    BY <1>4, <2>1, <2>6
  <2>7. CASE t = <<"start">>
    BY <1>4, <2>1, <2>7
  <2>8. CASE t = <<>>
    BY <1>4, <2>1, <2>8
  <2> QED BY <2>1, <2>2, <2>3, <2>4, <2>5, <2>6, <2>7, <2>8
<1>5. CASE kind = "split"
  <2> DEFINE T == {<<"server_key1", "server_key1", "server_key2", "client">>,
                   <<"server_key2", "server_key1", "server_key2", "client">>,
                   <<"server_key1", "server_key2", "client">>,
                   <<"server_key2", "client">>, <<"client">>, <<>>}
  <2>1. t \in T /\ TodoOf(kind) = T
    BY <1>5 DEF TodoOf
  <2>2. CASE t = <<"server_key1", "server_key1", "server_key2", "client">>
    BY <1>5, <2>1, <2>2
  <2>3. CASE t = <<"server_key2", "server_key1", "server_key2", "client">>
    BY <1>5, <2>1, <2>3
  <2>4. CASE t = <<"server_key1", "server_key2", "client">>
    BY <1>5, <2>1, <2>4
  <2>5. CASE t = <<"server_key2", "client">>
    BY <1>5, <2>1, <2>5
  <2>6. CASE t = <<"client">>
    BY <1>5, <2>1, <2>6
  <2>7. CASE t = <<>>
    BY <1>5, <2>1, <2>7
  <2> QED BY <2>1, <2>2, <2>3, <2>4, <2>5, <2>6, <2>7
<1>6. CASE kind = "userop"
  <2> DEFINE T == {<<"queue">>, <<"pool", "start">>, <<"start">>, <<>>}
  <2>1. t \in T /\ TodoOf(kind) = T
    BY <1>6 DEF TodoOf
  <2>2. CASE t = <<"queue">>
    BY <1>6, <2>1, <2>2
  <2>3. CASE t = <<"pool", "start">>
    BY <1>6, <2>1, <2>3
  <2>4. CASE t = <<"start">>
    BY <1>6, <2>1, <2>4
  <2>5. CASE t = <<>>
    BY <1>6, <2>1, <2>5
  <2> QED BY <2>1, <2>2, <2>3, <2>4, <2>5
<1> QED BY <1>1, <1>2, <1>3, <1>4, <1>5, <1>6 DEF Handlers

-----------------------------------------------------------------------------
(***************************************************************************)
(* Pools                                                                   *)
(***************************************************************************)
\* A list that buildPool may load is not empty, and has each wallet once.
LEMMA CandidateFacts ==
    ASSUME NEW c, NEW p \in Candidates(c)
    PROVE  /\ p \in Seq(Keys) /\ p # <<>>
           /\ \A i, j \in 1 .. Len(p) : i # j => p[i] # p[j]
<1> DEFINE S == {row \in Rows : Matches(c, row)}
<1>1. \/ p = <<Single("OWNER_KEY")>> \/ p = <<Single("owner_key")>>
      \/ S # {} /\ p \in Sorted(S)
  BY DEF Candidates
<1>2. CASE p = <<Single("OWNER_KEY")>> \/ p = <<Single("owner_key")>>
  <2>1. PICK k \in Keys : p = <<k>>
    BY <1>2 DEF Keys
  <2>2. p \in Seq(Keys) /\ Len(p) = 1
    BY <2>1
  <2>3. p # <<>> /\ \A i, j \in 1 .. 1 : i = j
    BY <2>2
  <2> QED BY <2>2, <2>3
<1>3. CASE S # {} /\ p \in Sorted(S)
  <2>1. S \subseteq Rows /\ Rows \subseteq Keys
    BY DEF Keys
  <2>2. IsFiniteSet(S) /\ Cardinality(S) \in Nat /\ Cardinality(S) # 0
    BY <1>3, <2>1, FS_Subset, FS_CardinalityType, FS_EmptySet
  <2> DEFINE n == Cardinality(S)
  <2>3. p \in [1 .. n -> S] /\ \A i, j \in DOMAIN p : i < j => p[i] # p[j]
    BY <1>3 DEF Sorted
  <2> HIDE DEF S, n
  <2>4. n \in Nat /\ n # 0
    BY <2>2 DEF n
  <2>5. p \in Seq(Keys) /\ Len(p) = n
    BY <2>1, <2>3, <2>4
  <2>6. \A i, j \in 1 .. n : i # j => i < j \/ j < i
    BY <2>4
  <2>7. \A i, j \in 1 .. Len(p) : i # j => p[i] # p[j]
    BY <2>3, <2>5, <2>6
  <2> QED BY <2>4, <2>5, <2>7
<1> QED BY <1>1, <1>2, <1>3

\* NextIndex is the remainder, and within n turns it does not come back.
LEMMA Division ==
    ASSUME NEW v \in Nat, NEW n \in Nat \ {0}
    PROVE  v = n * (v \div n) + (v % n) /\ v % n \in 0 .. n - 1 /\ v \div n \in Nat
  OBVIOUS

LEMMA NextIndexFacts ==
    ASSUME NEW v \in Nat, NEW n \in Nat \ {0}
    PROVE  NextIndex(v, n) = v % n /\ NextIndex(v, n) \in 0 .. n - 1
<1>1. v % n \in 0 .. n - 1
  BY Division
<1>2. ASSUME NEW k \in 0 .. n - 1
      PROVE  (k + n) % n = k
  BY <1>2
<1> QED BY <1>1, <1>2 DEF NextIndex

LEMMA NextIndexDiffers ==
    ASSUME NEW v \in Nat, NEW w \in Nat, NEW n \in Nat \ {0}, v < w, w < v + n
    PROVE  NextIndex(v, n) # NextIndex(w, n)
<1> DEFINE q == v \div n
           p == w \div n
<1>1. /\ v = n * q + (v % n) /\ w = n * p + (w % n) /\ q \in Nat /\ p \in Nat
      /\ v % n \in Nat /\ w % n \in Nat
  BY Division
<1> HIDE DEF q, p
<1> SUFFICES ASSUME v % n = w % n
             PROVE  FALSE
  BY NextIndexFacts
<1>2. n * p - n * q > 0 /\ n * p - n * q < n
  BY <1>1
<1>3. n * p - n * q = n * (p - q)
  BY <1>1
<1>4. p - q \in Int /\ (p - q >= 1 \/ p - q <= 0)
  BY <1>1
<1>5. \A k \in Int : (k >= 1 => n * k >= n) /\ (k <= 0 => n * k <= 0)
  OBVIOUS
<1> QED BY <1>2, <1>3, <1>4, <1>5

-----------------------------------------------------------------------------
(***************************************************************************)
(* The steps by what they change.                                          *)
(***************************************************************************)
Only(r) == \A s \in Requests : s # r => rq'[s] = rq[s]

\* Request r moves to pc with this left to fetch, and this much of the keys.
Sets(r, pc, todo, names, pool, client) ==
    /\ Only(r)
    /\ rq'[r].pc = pc /\ rq'[r].todo = todo /\ rq'[r].names = names
    /\ rq'[r].pool = pool /\ rq'[r].client = client
    /\ rq'[r].kind = rq[r].kind /\ rq'[r].chain = rq[r].chain
    /\ rq'[r].turn = rq[r].turn /\ rq'[r].wallet = rq[r].wallet

Moves(r, pc) == Sets(r, pc, rq[r].todo, rq[r].names, rq[r].pool, rq[r].client)

\* The first item of r's plan is there.
Takes(r, client) ==
    Sets(r, "fetch", Tail(rq[r].todo), <<>>, <<>>, client)

\* Request r works at its plan, at an item of S.
At(r, pc, S) == rq[r].pc = pc /\ rq[r].todo # <<>> /\ Head(rq[r].todo) \in S

SameNet == UNCHANGED <<clients, open>>
SameKeys == UNCHANGED <<mgrMu, pools, servers>>
SameLine == UNCHANGED <<batMu, queues, cursor>>

Accepts(r) ==
    /\ rq[r].pc = "new" /\ Only(r)
    /\ rq'[r].pc = "fetch" /\ rq'[r].kind \in Handlers /\ rq'[r].chain \in Chains
    /\ rq'[r].todo \in TodoOf(rq'[r].kind) /\ rq'[r].todo # <<>>
    /\ rq'[r].todo \notin Starting
    /\ rq'[r].kind \in {"deploy", "entrypoint"} => Head(rq'[r].todo) = "pool"
    /\ rq'[r].names = rq[r].names /\ rq'[r].pool = rq[r].pool
    /\ rq'[r].client = rq[r].client /\ rq'[r].turn = rq[r].turn
    /\ SameNet /\ SameKeys /\ SameLine

Rejects(r) ==
    /\ rq[r].pc = "new" /\ Moves(r, "rejected")
    /\ SameNet /\ SameKeys /\ SameLine

Fails(r) ==
    /\ rq[r].pc \in {"fetch", "dial", "load"}
    /\ Only(r) /\ rq'[r] = [New EXCEPT !.pc = "failed"]
    /\ mgrMu' = IF mgrMu = r THEN None ELSE mgrMu
    /\ batMu' = IF batMu = r THEN None ELSE batMu
    /\ SameNet /\ UNCHANGED <<pools, servers, queues, cursor>>

HasClient(r) ==
    /\ At(r, "fetch", {"client"}) /\ clients[rq[r].chain] # None
    /\ Takes(r, clients[rq[r].chain])
    /\ SameNet /\ SameKeys /\ SameLine

Dials(r) ==
    /\ At(r, "fetch", {"client"}) /\ clients[rq[r].chain] = None
    /\ Moves(r, "dial")
    /\ SameNet /\ SameKeys /\ SameLine

Opens(r) ==
    /\ rq[r].pc = "dial" /\ Moves(r, "dialled")
    /\ open' = open \cup {r}
    /\ UNCHANGED clients /\ SameKeys /\ SameLine

Installs(r) ==
    LET c == rq[r].chain IN
    /\ rq[r].pc = "dialled"
    /\ \/ /\ clients[c] = None /\ UNCHANGED open
          /\ \A d \in Chains : clients'[d] = IF d = c THEN r ELSE clients[d]
          /\ Takes(r, r)
       \/ /\ clients[c] # None /\ open' = open \ {r}
          /\ \A d \in Chains : clients'[d] = clients[d]
          /\ Takes(r, clients[c])
    /\ SameKeys /\ SameLine

HasItem(r) ==
    /\ At(r, "fetch", KeyItems)
    /\ Head(rq[r].todo) = "pool" => pools[rq[r].chain] # <<>>
    /\ Takes(r, rq[r].client)
    /\ SameNet /\ SameKeys /\ SameLine

Lists(r) ==
    /\ At(r, "fetch", KeyItems) /\ mgrMu = None
    /\ \E names \in KeySeq :
          /\ Sets(r, "load", rq[r].todo, names, rq[r].pool, rq[r].client)
          /\ Head(rq[r].todo) = "pool" =>
                /\ pools[rq[r].chain] = <<>>
                /\ names \in Candidates(rq[r].chain)
    /\ mgrMu' = r
    /\ SameNet /\ UNCHANGED <<pools, servers>> /\ SameLine

Loads(r) ==
    /\ rq[r].pc = "load" /\ rq[r].names # <<>>
    /\ Sets(r, "load", rq[r].todo, Tail(rq[r].names),
            Append(rq[r].pool, Head(rq[r].names)), rq[r].client)
    /\ SameNet /\ SameKeys /\ SameLine

Keeps(r) ==
    LET c == rq[r].chain IN
    /\ rq[r].pc = "load" /\ rq[r].names = <<>>
    /\ \/ /\ Head(rq[r].todo) = "pool"
          /\ \A d \in Chains : pools'[d] = IF d = c THEN rq[r].pool ELSE pools[d]
       \/ /\ Head(rq[r].todo) # "pool"
          /\ \A d \in Chains : pools'[d] = pools[d]
    /\ mgrMu' = None
    /\ Takes(r, rq[r].client)
    /\ SameNet /\ SameLine

HasQueue(r) ==
    /\ At(r, "fetch", {"queue"}) /\ queues[rq[r].chain] # <<>>
    /\ Takes(r, rq[r].client)
    /\ SameNet /\ SameKeys /\ SameLine

Asks(r) ==
    /\ At(r, "fetch", {"queue"}) /\ batMu = None
    /\ Sets(r, "fetch", <<"pool", "start">>, rq[r].names, rq[r].pool, rq[r].client)
    /\ batMu' = r
    /\ SameNet /\ SameKeys /\ UNCHANGED <<queues, cursor>>

Starts(r) ==
    /\ At(r, "fetch", {"start"})
    /\ \A d \in Chains : queues'[d] = IF d = rq[r].chain THEN pools[d] ELSE queues[d]
    /\ batMu' = None
    /\ Takes(r, rq[r].client)
    /\ SameNet /\ SameKeys /\ UNCHANGED cursor

Sends(r) ==
    LET c == rq[r].chain
        n == Len(queues[c])
    IN
    /\ rq[r].pc = "fetch" /\ rq[r].todo = <<>>
    /\ Only(r)
    /\ rq'[r].pc = "sent" /\ rq'[r].kind = rq[r].kind /\ rq'[r].chain = c
    /\ rq'[r].todo = <<>> /\ rq'[r].names = rq[r].names
    /\ rq'[r].pool = rq[r].pool /\ rq'[r].client = rq[r].client
    /\ \/ rq'[r].turn = 0
       \/ n > 1 /\ rq'[r].wallet = queues[c][NextIndex(rq'[r].turn, n) + 1]
    /\ SameNet /\ SameKeys /\ UNCHANGED <<batMu, queues>>

Class(r) ==
    \/ Accepts(r) \/ Rejects(r) \/ Fails(r) \/ HasClient(r) \/ Dials(r)
    \/ Opens(r) \/ Installs(r) \/ HasItem(r) \/ Lists(r) \/ Loads(r) \/ Keeps(r)
    \/ HasQueue(r) \/ Asks(r) \/ Starts(r) \/ Sends(r)

Types ==
    /\ rq \in [Requests -> Locals]
    /\ clients \in [Chains -> ClientSet]
    /\ open \subseteq Requests
    /\ {mgrMu, batMu} \subseteq ClientSet
    /\ pools \in [Chains -> KeySeq]
    /\ servers \subseteq {"server_key1", "server_key2"}
    /\ queues \in [Chains -> KeySeq]
    /\ cursor \in [Chains -> Nat]
    /\ up \in BOOLEAN

Mutexes ==
    \A r \in Requests :
        /\ mgrMu = r <=> rq[r].pc = "load"
        /\ batMu = r <=> /\ rq[r].pc \in {"fetch", "load"}
                         /\ rq[r].todo # <<>>
                         /\ rq[r].todo[Len(rq[r].todo)] = "start"

LEMMA TypeParts == TypeOK <=> Types /\ Mutexes
  BY DEF TypeOK, Types, Mutexes, Locals, Items, PCs, KindSet, ChainSet, TodoSeq,
         KeySeq, ClientSet, WalletSet

LEMMA TypePartsNext == Types' /\ Mutexes' => TypeOK'
  BY DEF TypeOK, Types, Mutexes, Locals, Items, PCs, KindSet, ChainSet, TodoSeq,
         KeySeq, ClientSet, WalletSet

\* What an assignment to one request does to it and to the others.
LEMMA Assigned ==
    ASSUME Types, NEW r \in Requests, NEW v \in Locals, rq' = [rq EXCEPT ![r] = v]
    PROVE  rq' \in [Requests -> Locals] /\ Only(r) /\ rq'[r] = v
  BY DEF Types, Only

LEMMA FetchedFacts ==
    ASSUME Types, NEW r \in Requests, rq[r].todo # <<>>
    PROVE  LET f == Fetched(r) IN
           /\ f \in Locals
           /\ f.pc = "fetch" /\ f.todo = Tail(rq[r].todo) /\ f.names = <<>>
           /\ f.pool = <<>> /\ f.client = rq[r].client /\ f.kind = rq[r].kind
           /\ f.chain = rq[r].chain /\ f.turn = rq[r].turn /\ f.wallet = rq[r].wallet
<1>1. rq[r] \in Locals
  BY DEF Types
<1>2. Tail(rq[r].todo) \in TodoSeq /\ <<>> \in KeySeq /\ "fetch" \in PCs
  BY <1>1, LocalsFields DEF TodoSeq, KeySeq, PCs
<1> QED BY <1>1, <1>2 DEF Fetched, Locals

LEMMA ProceedFacts ==
    ASSUME Types, NEW r \in Requests, rq[r].todo # <<>>, Proceed(r)
    PROVE  rq' \in [Requests -> Locals] /\ Takes(r, rq[r].client)
<1>1. Fetched(r) \in Locals /\ rq' = [rq EXCEPT ![r] = Fetched(r)]
  BY FetchedFacts DEF Proceed
<1>2. rq' \in [Requests -> Locals] /\ Only(r) /\ rq'[r] = Fetched(r)
  BY <1>1, Assigned
<1> QED BY <1>2, FetchedFacts DEF Takes, Sets

LEMMA TakeClientFacts ==
    ASSUME Types, NEW r \in Requests, rq[r].todo # <<>>,
           NEW s \in ClientSet,
           rq' = [rq EXCEPT ![r] = [Fetched(r) EXCEPT !.client = s]]
    PROVE  rq' \in [Requests -> Locals] /\ Takes(r, s)
<1> DEFINE f == Fetched(r)
           v == [f EXCEPT !.client = s]
<1>1. /\ f \in Locals
      /\ f.pc = "fetch" /\ f.todo = Tail(rq[r].todo) /\ f.names = <<>>
      /\ f.pool = <<>> /\ f.kind = rq[r].kind
      /\ f.chain = rq[r].chain /\ f.turn = rq[r].turn /\ f.wallet = rq[r].wallet
  BY FetchedFacts
<1> HIDE DEF f
<1>2. /\ v \in Locals
      /\ v.pc = "fetch" /\ v.todo = Tail(rq[r].todo) /\ v.names = <<>>
      /\ v.pool = <<>> /\ v.kind = rq[r].kind /\ v.client = s
      /\ v.chain = rq[r].chain /\ v.turn = rq[r].turn /\ v.wallet = rq[r].wallet
  BY <1>1 DEF Locals
<1>3. rq' = [rq EXCEPT ![r] = v]
  BY DEF f
<1> HIDE DEF v
<1>4. rq' \in [Requests -> Locals] /\ Only(r) /\ rq'[r] = v
  BY <1>2, <1>3, Assigned
<1> QED BY <1>2, <1>4 DEF Takes, Sets

LEMMA MoveFacts ==
    ASSUME Types, NEW r \in Requests, NEW pc \in {"dial", "dialled", "rejected"},
           rq' = [rq EXCEPT ![r].pc = pc]
    PROVE  rq' \in [Requests -> Locals] /\ Moves(r, pc)
<1> DEFINE v == [rq[r] EXCEPT !.pc = pc]
<1>1. pc \in PCs /\ rq[r] \in Locals /\ rq' = [rq EXCEPT ![r] = v]
  BY DEF PCs, Types
<1>2. /\ v \in Locals
      /\ v.pc = pc /\ v.kind = rq[r].kind /\ v.chain = rq[r].chain
      /\ v.todo = rq[r].todo /\ v.names = rq[r].names /\ v.pool = rq[r].pool
      /\ v.client = rq[r].client /\ v.turn = rq[r].turn /\ v.wallet = rq[r].wallet
  BY <1>1 DEF Locals
<1> HIDE DEF v
<1>3. rq' \in [Requests -> Locals] /\ Only(r) /\ rq'[r] = v
  BY <1>1, <1>2, Assigned
<1> QED BY <1>2, <1>3 DEF Moves, Sets

LEMMA FailFacts ==
    ASSUME Types, NEW r \in Requests, Fail(r), UNCHANGED up,
           rq[r].pc \in {"fetch", "dial", "load"}
    PROVE  Fails(r) /\ Types'
<1> DEFINE v == [New EXCEPT !.pc = "failed"]
<1>0. /\ "failed" \in PCs /\ "none" \in KindSet /\ <<>> \in ChainSet
      /\ <<>> \in TodoSeq /\ <<>> \in KeySeq /\ None \in ClientSet /\ None \in WalletSet
  BY DEF PCs, KindSet, ChainSet, TodoSeq, KeySeq, ClientSet, WalletSet
<1>1. v \in Locals
  BY <1>0 DEF New, Locals
<1>2. rq' = [rq EXCEPT ![r] = v]
  BY DEF Fail
<1> HIDE DEF v
<1>3. rq' \in [Requests -> Locals] /\ Only(r) /\ rq'[r] = v
  BY <1>1, <1>2, Assigned
<1>4. Fails(r)
  BY <1>3 DEF Fails, Fail, v, net, SameNet
<1>5. {mgrMu', batMu'} \subseteq ClientSet
  BY <1>4 DEF Types, Fails, ClientSet
<1> QED BY <1>3, <1>4, <1>5 DEF Types, Fails, SameNet

LEMMA AcceptClass ==
    ASSUME Types, NEW r \in Requests, Accept(r)
    PROVE  Accepts(r) /\ rq' \in [Requests -> Locals]
<1> DEFINE Chosen(kind, c, plan) ==
              rq' = [rq EXCEPT ![r] = [rq[r] EXCEPT !.pc = "fetch", !.kind = kind,
                                                    !.chain = c, !.todo = plan]]
<1>0. \E kind \in Kinds[r], c \in Chains :
         \E plan \in Plans(kind) : Chosen(kind, c, plan)
  BY ZenonT(30) DEF Accept
<1> HIDE DEF Chosen
<1>1. PICK kind \in Kinds[r], c \in Chains :
         \E plan \in Plans(kind) : Chosen(kind, c, plan)
  BY <1>0
<1>a. PICK plan \in Plans(kind) : Chosen(kind, c, plan)
  BY <1>1
<1>2. kind \in Handlers
  OBVIOUS
<1>3. /\ plan \in TodoOf(kind) /\ plan # <<>> /\ plan \notin Starting
      /\ kind \in {"deploy", "entrypoint"} => Head(plan) = "pool"
      /\ plan \in TodoSeq
  <2>1. CASE kind = "deploy"
    <3>1. plan = <<"pool", "client", "client">>
      BY <2>1 DEF Plans, Deploy
    <3> QED BY <2>1, <3>1 DEF TodoOf, Starting, Items, TodoSeq
  <2>2. CASE kind = "entrypoint"
    <3>1. plan = <<"pool", "client">>
      BY <2>2 DEF Plans, EntryPointTransfer
    <3> QED BY <2>2, <3>1 DEF TodoOf, Starting, Items, TodoSeq
  <2>3. CASE kind = "wallet"
    <3>1. plan = <<"server_key1", "server_key2", "client">>
      BY <2>3 DEF Plans, SendFromWallet
    <3> QED BY <2>3, <3>1 DEF TodoOf, Starting, Items, TodoSeq
  <2>4. CASE kind = "account"
    <3>1. plan = <<"client", "server_key1", "server_key2", "queue">>
      BY <2>4 DEF Plans, SendViaAccount
    <3> QED BY <2>4, <3>1 DEF TodoOf, Starting, Items, TodoSeq
  <2>5. CASE kind = "split"
    <3>1. \/ plan = <<"server_key1", "server_key1", "server_key2", "client">>
          \/ plan = <<"server_key2", "server_key1", "server_key2", "client">>
      BY <2>5 DEF Plans, ExecuteSplit
    <3>2. CASE plan = <<"server_key1", "server_key1", "server_key2", "client">>
      BY <2>5, <3>2 DEF TodoOf, Starting, Items, TodoSeq
    <3>3. CASE plan = <<"server_key2", "server_key1", "server_key2", "client">>
      BY <2>5, <3>3 DEF TodoOf, Starting, Items, TodoSeq
    <3> QED BY <3>1, <3>2, <3>3
  <2>6. CASE kind = "userop"
    <3>1. plan = <<"queue">>
      BY <2>6 DEF Plans, HandleSendUserOp
    <3> QED BY <2>6, <3>1 DEF TodoOf, Starting, Items, TodoSeq
  <2> QED BY <1>2, <2>1, <2>2, <2>3, <2>4, <2>5, <2>6 DEF Handlers
<1> DEFINE v == [rq[r] EXCEPT !.pc = "fetch", !.kind = kind, !.chain = c, !.todo = plan]
<1>4. rq[r] \in Locals /\ "fetch" \in PCs /\ kind \in KindSet /\ c \in ChainSet
  BY <1>2 DEF Types, PCs, KindSet, ChainSet
<1>5. /\ v \in Locals
      /\ v.pc = "fetch" /\ v.kind = kind /\ v.chain = c /\ v.todo = plan
      /\ v.names = rq[r].names /\ v.pool = rq[r].pool /\ v.client = rq[r].client
      /\ v.turn = rq[r].turn
  BY <1>2, <1>3, <1>4 DEF Locals
<1>6. rq' = [rq EXCEPT ![r] = v]
  BY <1>a DEF Chosen
<1> HIDE DEF v
<1>7. rq' \in [Requests -> Locals] /\ Only(r) /\ rq'[r] = v
  BY <1>5, <1>6, Assigned
<1> QED BY <1>2, <1>3, <1>5, <1>7
        DEF Accept, Accepts, net, keys, line, SameNet, SameKeys, SameLine

\* The steps of the client cache.
LEMMA ClientClasses ==
    ASSUME Types, PlanInv, ClientInv, NEW r \in Requests,
           Client(r) \/ Dial(r) \/ Install(r), UNCHANGED up
    PROVE  Class(r) /\ Types'
<1> USE DEF net, keys, line, SameNet, SameKeys, SameLine
<1> DEFINE c == rq[r].chain
<1>1. CASE Client(r)
  <2>1. At(r, "fetch", {"client"})
    BY <1>1 DEF Client, Needs, At
  <2>2. c \in Chains /\ rq[r].todo # <<>>
    BY <2>1 DEF PlanInv, Working, At
  <2>3. clients[c] \in ClientSet
    BY <2>2 DEF Types
  <2>4. UNCHANGED <<clients, open, mgrMu, pools, servers, batMu, queues, cursor, up>>
    BY <1>1 DEF Client
  <2>5. CASE clients[c] # None
    <3>1. rq' = [rq EXCEPT ![r] = [Fetched(r) EXCEPT !.client = clients[c]]]
      BY <1>1, <2>5 DEF Client
    <3>2. rq' \in [Requests -> Locals] /\ Takes(r, clients[c])
      BY <2>2, <2>3, <3>1, TakeClientFacts
    <3>3. HasClient(r)
      BY <2>1, <2>4, <2>5, <3>2 DEF HasClient
    <3> QED BY <2>4, <3>2, <3>3 DEF Types, Class
  <2>6. CASE clients[c] = None
    <3>1. rq' = [rq EXCEPT ![r].pc = "dial"]
      BY <1>1, <2>6 DEF Client
    <3>2. rq' \in [Requests -> Locals] /\ Moves(r, "dial")
      BY <3>1, MoveFacts
    <3>3. Dials(r)
      BY <2>1, <2>4, <2>6, <3>2 DEF Dials
    <3> QED BY <2>4, <3>2, <3>3 DEF Types, Class
  <2> QED BY <2>5, <2>6
<1>2. CASE Dial(r)
  <2>1. rq' \in [Requests -> Locals] /\ Moves(r, "dialled")
    BY <1>2, MoveFacts DEF Dial
  <2>2. Opens(r)
    BY <1>2, <2>1 DEF Dial, Opens
  <2> QED BY <2>1, <2>2 DEF Types, Class, Opens
<1>3. CASE Install(r)
  <2> DEFINE winner == IF clients[c] = None THEN r ELSE clients[c]
  <2>1. rq[r].pc = "dialled" /\ c \in Chains /\ rq[r].todo # <<>>
    BY <1>3 DEF Install, PlanInv, Working
  <2>2. winner \in ClientSet /\ clients[c] \in ClientSet
    BY <2>1 DEF Types, ClientSet
  <2>3. /\ clients' = [clients EXCEPT ![c] = winner]
        /\ open' = IF winner = r THEN open ELSE open \ {r}
        /\ rq' = [rq EXCEPT ![r] = [Fetched(r) EXCEPT !.client = winner]]
        /\ UNCHANGED <<mgrMu, pools, servers, batMu, queues, cursor, up>>
    BY <1>3 DEF Install
  <2>4. /\ clients[c] = None => winner = r
        /\ clients[c] # None => winner = clients[c]
    OBVIOUS
  <2> HIDE DEF winner
  <2>5. rq' \in [Requests -> Locals] /\ Takes(r, winner)
    BY <2>1, <2>2, <2>3, TakeClientFacts
  <2>6. /\ clients' \in [Chains -> ClientSet]
        /\ \A d \in Chains : clients'[d] = IF d = c THEN winner ELSE clients[d]
    BY <2>1, <2>2, <2>3 DEF Types
  <2>7. Types'
    BY <2>3, <2>5, <2>6 DEF Types
  <2>8. clients[c] # r
    BY <2>1 DEF ClientInv
  <2>9. Installs(r)
    BY <2>1, <2>3, <2>4, <2>5, <2>6, <2>8 DEF Installs
  <2> QED BY <2>7, <2>9 DEF Class
<1> QED BY <1>1, <1>2, <1>3

\* The steps of the signer manager.
LEMMA KeyClasses ==
    ASSUME Types, PlanInv, NEW r \in Requests,
           HasKeys(r) \/ ListNames(r) \/ LoadKey(r) \/ KeepKeys(r), UNCHANGED up
    PROVE  Class(r) /\ Types'
<1> USE DEF net, keys, line, SameNet, SameKeys, SameLine
<1> DEFINE c == rq[r].chain
<1>0. rq[r] \in Locals
  BY DEF Types
<1>w. ASSUME NEW k \in Wants(r)
      PROVE  At(r, "fetch", KeyItems) /\ k = Head(rq[r].todo) /\ k \in KeyItems
  BY <1>w DEF Wants, Needs, At, KeyItems
<1>1. CASE HasKeys(r)
  <2>1. PICK k \in Wants(r) : IF k = "pool" THEN pools[c] # <<>> ELSE k \in servers
    BY <1>1 DEF HasKeys
  <2>2. At(r, "fetch", KeyItems) /\ k = Head(rq[r].todo)
    BY <1>w
  <2>3. rq' \in [Requests -> Locals] /\ Takes(r, rq[r].client)
    BY <1>1, <2>2, ProceedFacts DEF HasKeys, At
  <2>4. UNCHANGED <<clients, open, mgrMu, pools, servers, batMu, queues, cursor, up>>
    BY <1>1 DEF HasKeys
  <2>5. HasItem(r)
    BY <2>1, <2>2, <2>3, <2>4 DEF HasItem
  <2> QED BY <2>3, <2>4, <2>5 DEF Types, Class
<1>2. CASE ListNames(r)
  <2>0. PICK k \in Wants(r) :
           \E names \in IF k = "pool" THEN Candidates(c) ELSE {<<Single(k)>>} :
              /\ IF k = "pool" THEN pools[c] = <<>> ELSE k \notin servers
              /\ rq' = [rq EXCEPT ![r].pc = "load", ![r].names = names]
    BY <1>2 DEF ListNames
  <2>1. PICK names \in IF k = "pool" THEN Candidates(c) ELSE {<<Single(k)>>} :
              /\ IF k = "pool" THEN pools[c] = <<>> ELSE k \notin servers
              /\ rq' = [rq EXCEPT ![r].pc = "load", ![r].names = names]
    BY <2>0
  <2>2. At(r, "fetch", KeyItems) /\ k = Head(rq[r].todo) /\ k \in KeyItems
    BY <1>w
  <2>3. names \in KeySeq
    <3>1. CASE k = "pool"
      BY <2>1, <3>1, CandidateFacts DEF KeySeq
    <3>2. CASE k # "pool"
      <4>1. Single(k) \in Keys
        BY <2>2, <3>2 DEF KeyItems, Keys
      <4>2. names = <<Single(k)>>
        BY <2>1, <3>2
      <4>3. \A key \in Keys : <<key>> \in KeySeq
        BY DEF KeySeq
      <4> QED BY <4>1, <4>2, <4>3
    <3> QED BY <3>1, <3>2
  <2> DEFINE v == [rq[r] EXCEPT !.pc = "load", !.names = names]
  <2>4. rq' = [rq EXCEPT ![r] = v] /\ "load" \in PCs
    BY <2>1 DEF PCs, Types
  <2>5. /\ v \in Locals
        /\ v.pc = "load" /\ v.kind = rq[r].kind /\ v.chain = rq[r].chain
        /\ v.todo = rq[r].todo /\ v.names = names /\ v.pool = rq[r].pool
        /\ v.client = rq[r].client /\ v.turn = rq[r].turn /\ v.wallet = rq[r].wallet
    BY <1>0, <2>3, <2>4 DEF Locals
  <2> HIDE DEF v
  <2>6. rq' \in [Requests -> Locals] /\ Only(r) /\ rq'[r] = v
    BY <2>4, <2>5, Assigned
  <2>7. Sets(r, "load", rq[r].todo, names, rq[r].pool, rq[r].client)
    BY <2>5, <2>6 DEF Sets
  <2>8. /\ mgrMu = None /\ mgrMu' = r
        /\ UNCHANGED <<clients, open, pools, servers, batMu, queues, cursor, up>>
    BY <1>2 DEF ListNames
  <2>9. k = "pool" => pools[c] = <<>> /\ names \in Candidates(c)
    BY <2>1
  <2>10. Lists(r)
    BY <2>2, <2>3, <2>7, <2>8, <2>9 DEF Lists
  <2>11. {mgrMu', batMu'} \subseteq ClientSet
    BY <2>8 DEF Types, ClientSet
  <2> QED BY <2>6, <2>8, <2>10, <2>11 DEF Types, Class
<1>3. CASE LoadKey(r)
  <2> DEFINE names == Tail(rq[r].names)
             pool == Append(rq[r].pool, Head(rq[r].names))
             v == [rq[r] EXCEPT !.names = names, !.pool = pool]
  <2>1. rq[r].pc = "load" /\ rq[r].names # <<>> /\ rq' = [rq EXCEPT ![r] = v]
    BY <1>0, <1>3 DEF LoadKey, Types, Locals
  <2>2. names \in KeySeq /\ pool \in KeySeq
    BY <1>0, <2>1, LocalsFields DEF KeySeq
  <2>3. Loads(r) <=> Sets(r, "load", rq[r].todo, names, pool, rq[r].client)
    BY <1>3, <2>1 DEF LoadKey, Loads
  <2>4. UNCHANGED <<clients, open, mgrMu, pools, servers, batMu, queues, cursor, up>>
    BY <1>3 DEF LoadKey
  <2> HIDE DEF names, pool
  <2>5. /\ v \in Locals
        /\ v.pc = rq[r].pc /\ v.kind = rq[r].kind /\ v.chain = rq[r].chain
        /\ v.todo = rq[r].todo /\ v.names = names /\ v.pool = pool
        /\ v.client = rq[r].client /\ v.turn = rq[r].turn /\ v.wallet = rq[r].wallet
    BY <1>0, <2>2 DEF Locals
  <2> HIDE DEF v
  <2>6. rq' \in [Requests -> Locals] /\ Only(r) /\ rq'[r] = v
    BY <2>1, <2>5, Assigned
  <2>7. Loads(r)
    BY <2>1, <2>3, <2>5, <2>6 DEF Sets
  <2> QED BY <2>4, <2>6, <2>7 DEF Types, Class
<1>4. CASE KeepKeys(r)
  <2>1. /\ rq[r].pc = "load" /\ rq[r].names = <<>> /\ rq[r].todo # <<>>
        /\ Head(rq[r].todo) \in KeyItems /\ c \in Chains
    BY <1>4 DEF KeepKeys, PlanInv, Working, KeyItems
  <2>2. rq' \in [Requests -> Locals] /\ Takes(r, rq[r].client)
    BY <1>4, <2>1, ProceedFacts DEF KeepKeys
  <2>3. mgrMu' = None /\ UNCHANGED <<clients, open, batMu, queues, cursor, up>>
    BY <1>4 DEF KeepKeys
  <2>4. {mgrMu', batMu'} \subseteq ClientSet
    BY <2>3 DEF Types, ClientSet
  <2>5. CASE Head(rq[r].todo) = "pool"
    <3>1. pools' = [pools EXCEPT ![c] = rq[r].pool] /\ UNCHANGED servers
      BY <1>4, <2>5 DEF KeepKeys
    <3>2. rq[r].pool \in KeySeq
      BY <1>0, LocalsFields
    <3>3. /\ pools' \in [Chains -> KeySeq]
          /\ \A d \in Chains : pools'[d] = IF d = c THEN rq[r].pool ELSE pools[d]
      BY <2>1, <3>1, <3>2 DEF Types
    <3>4. Keeps(r)
      BY <2>1, <2>2, <2>3, <2>5, <3>3 DEF Keeps
    <3> QED BY <2>2, <2>3, <2>4, <3>1, <3>3, <3>4 DEF Types, Class
  <2>6. CASE Head(rq[r].todo) # "pool"
    <3>1. servers' = servers \cup {Head(rq[r].todo)} /\ UNCHANGED pools
      BY <1>4, <2>6 DEF KeepKeys
    <3>2. servers' \subseteq {"server_key1", "server_key2"}
      BY <2>1, <2>6, <3>1 DEF Types, KeyItems
    <3>3. Keeps(r)
      BY <2>1, <2>2, <2>3, <2>6, <3>1 DEF Keeps
    <3> QED BY <2>2, <2>3, <2>4, <3>1, <3>2, <3>3 DEF Types, Class
  <2> QED BY <2>5, <2>6
<1> QED BY <1>1, <1>2, <1>3, <1>4

\* The steps of queueFor.
LEMMA QueueClasses ==
    ASSUME Types, PlanInv, NEW r \in Requests,
           QueueFor(r) \/ StartQueue(r), UNCHANGED up
    PROVE  Class(r) /\ Types'
<1> USE DEF net, keys, line, SameNet, SameKeys, SameLine
<1> DEFINE c == rq[r].chain
<1>0. rq[r] \in Locals
  BY DEF Types
<1>1. CASE QueueFor(r)
  <2>1. At(r, "fetch", {"queue"}) /\ batMu = None /\ rq[r].todo # <<>>
    BY <1>1 DEF QueueFor, Needs, At
  <2>2. UNCHANGED <<clients, open, mgrMu, pools, servers, queues, cursor, up>>
    BY <1>1 DEF QueueFor
  <2>3. CASE queues[c] # <<>>
    <3>1. Proceed(r) /\ UNCHANGED batMu
      BY <1>1, <2>3 DEF QueueFor
    <3>2. rq' \in [Requests -> Locals] /\ Takes(r, rq[r].client)
      BY <2>1, <3>1, ProceedFacts
    <3>3. HasQueue(r)
      BY <2>1, <2>2, <2>3, <3>1, <3>2 DEF HasQueue
    <3> QED BY <2>2, <3>1, <3>2, <3>3 DEF Types, Class
  <2>4. CASE queues[c] = <<>>
    <3> DEFINE todo == <<"pool", "start">>
               v == [rq[r] EXCEPT !.todo = todo]
    <3>1. rq' = [rq EXCEPT ![r] = v] /\ batMu' = r
      BY <1>1, <2>4 DEF QueueFor, Types
    <3>2. todo \in TodoSeq
      BY DEF TodoSeq, Items
    <3>3. Asks(r) <=> Sets(r, "fetch", todo, rq[r].names, rq[r].pool, rq[r].client)
      BY <2>1, <2>2, <3>1 DEF Asks
    <3> HIDE DEF todo
    <3>4. /\ v \in Locals
          /\ v.pc = rq[r].pc /\ v.kind = rq[r].kind /\ v.chain = rq[r].chain
          /\ v.todo = todo /\ v.names = rq[r].names /\ v.pool = rq[r].pool
          /\ v.client = rq[r].client /\ v.turn = rq[r].turn /\ v.wallet = rq[r].wallet
      BY <1>0, <3>2 DEF Locals
    <3> HIDE DEF v
    <3>5. rq' \in [Requests -> Locals] /\ Only(r) /\ rq'[r] = v
      BY <3>1, <3>4, Assigned
    <3>6. Asks(r)
      BY <2>1, <3>3, <3>4, <3>5 DEF Sets, At
    <3>7. {mgrMu', batMu'} \subseteq ClientSet
      BY <2>2, <3>1 DEF Types, ClientSet
    <3> QED BY <2>2, <3>5, <3>6, <3>7 DEF Types, Class
  <2> QED BY <2>3, <2>4
<1>2. CASE StartQueue(r)
  <2>1. At(r, "fetch", {"start"}) /\ rq[r].todo # <<>>
    BY <1>2 DEF StartQueue, Needs, At
  <2>2. c \in Chains
    BY <2>1 DEF At, PlanInv, Working
  <2>3. rq' \in [Requests -> Locals] /\ Takes(r, rq[r].client)
    BY <1>2, <2>1, ProceedFacts DEF StartQueue
  <2>4. /\ queues' = [queues EXCEPT ![c] = pools[c]] /\ batMu' = None
        /\ UNCHANGED <<clients, open, mgrMu, pools, servers, cursor, up>>
    BY <1>2 DEF StartQueue
  <2>5. /\ queues' \in [Chains -> KeySeq]
        /\ \A d \in Chains : queues'[d] = IF d = c THEN pools[d] ELSE queues[d]
    BY <2>2, <2>4 DEF Types
  <2>6. Starts(r)
    BY <2>1, <2>3, <2>4, <2>5 DEF Starts
  <2>7. {mgrMu', batMu'} \subseteq ClientSet
    BY <2>4 DEF Types, ClientSet
  <2> QED BY <2>3, <2>4, <2>5, <2>6, <2>7 DEF Types, Class
<1> QED BY <1>1, <1>2

\* The request draws a wallet and sends.
LEMMA SendClass ==
    ASSUME Types, PlanInv, FoundInv, NEW r \in Requests, Send(r), UNCHANGED up
    PROVE  Class(r) /\ Types'
<1> USE DEF net, keys, line, SameNet, SameKeys, SameLine
<1> DEFINE c == rq[r].chain
           n == Len(queues[c])
           Sent(turn, wallet) ==
              rq' = [rq EXCEPT ![r] = [rq[r] EXCEPT !.pc = "sent", !.turn = turn,
                                                    !.wallet = wallet]]
<1>0. rq[r] \in Locals
  BY DEF Types
<1>1. rq[r].pc = "fetch" /\ rq[r].todo = <<>> /\ rq[r].kind \in Handlers /\ c \in Chains
  BY DEF Send, PlanInv, Working
<1>2. UNCHANGED <<clients, open, mgrMu, pools, servers, batMu, queues, up>>
  BY DEF Send
<1>3. queues[c] \in KeySeq /\ pools[c] \in KeySeq /\ cursor[c] \in Nat
  BY <1>1 DEF Types
<1>4. n \in Nat
  BY <1>3 DEF KeySeq
<1>5. rq[r].kind \in Queued => queues[c] # <<>>
  BY <1>1 DEF FoundInv, Working
<1>6. rq[r].kind \in {"deploy", "entrypoint"} => pools[c] # <<>>
  BY <1>1 DEF FoundInv, Working
<1>7. \E turn \in Nat, wallet \in WalletSet :
         /\ Sent(turn, wallet) /\ cursor' \in [Chains -> Nat]
         /\ turn = 0 \/ (n > 1 /\ wallet = queues[c][NextIndex(turn, n) + 1])
  <2> HIDE DEF Sent
  <2>1. CASE /\ rq[r].kind \in Queued /\ n > 1
             /\ cursor' = [cursor EXCEPT ![c] = cursor[c] + 1]
             /\ Sent(cursor[c] + 1, queues[c][NextIndex(cursor[c] + 1, n) + 1])
    <3> DEFINE v == cursor[c] + 1
               i == NextIndex(v, n)
    <3>1. v \in Nat /\ cursor' = [cursor EXCEPT ![c] = v]
      BY <1>3, <2>1
    <3>2. n \in Nat \ {0}
      BY <1>4, <2>1
    <3> HIDE DEF v
    <3>3. cursor' \in [Chains -> Nat]
      BY <3>1 DEF Types
    <3> HIDE DEF n
    <3>4. i \in 0 .. n - 1
      BY <3>1, <3>2, NextIndexFacts
    <3> USE DEF v, n
    <3> HIDE DEF i
    <3>5. queues[c][i + 1] \in WalletSet
      BY <1>3, <3>4 DEF KeySeq, WalletSet
    <3> QED BY <2>1, <3>1, <3>3, <3>5 DEF i
  <2>2. CASE rq[r].kind \in Queued /\ Sent(0, queues[c][1]) /\ UNCHANGED cursor
    <3>1. queues[c][1] \in WalletSet
      BY <1>3, <1>5, <2>2 DEF KeySeq, WalletSet
    <3> QED BY <2>2, <3>1 DEF Types
  <2>3. CASE rq[r].kind \in {"deploy", "entrypoint"} /\ Sent(0, pools[c][1]) /\ UNCHANGED cursor
    <3>1. pools[c][1] \in WalletSet
      BY <1>3, <1>6, <2>3 DEF KeySeq, WalletSet
    <3> QED BY <2>3, <3>1 DEF Types
  <2>4. CASE Sent(0, None) /\ UNCHANGED cursor
    BY <2>4 DEF Types, WalletSet
  <2> QED BY <2>1, <2>2, <2>3, <2>4 DEF Send, Sent
<1>8. PICK turn \in Nat, wallet \in WalletSet :
         /\ Sent(turn, wallet) /\ cursor' \in [Chains -> Nat]
         /\ turn = 0 \/ (n > 1 /\ wallet = queues[c][NextIndex(turn, n) + 1])
  BY <1>7
<1> DEFINE v == [rq[r] EXCEPT !.pc = "sent", !.turn = turn, !.wallet = wallet]
<1>9. rq' = [rq EXCEPT ![r] = v] /\ "sent" \in PCs
  BY <1>8 DEF PCs
<1>10. /\ v \in Locals
       /\ v.pc = "sent" /\ v.kind = rq[r].kind /\ v.chain = rq[r].chain
       /\ v.todo = rq[r].todo /\ v.names = rq[r].names /\ v.pool = rq[r].pool
       /\ v.client = rq[r].client /\ v.turn = turn /\ v.wallet = wallet
  BY <1>0, <1>9 DEF Locals
<1> HIDE DEF v
<1>11. rq' \in [Requests -> Locals] /\ Only(r) /\ rq'[r] = v
  BY <1>9, <1>10, Assigned
<1>12. Sends(r)
  BY <1>1, <1>2, <1>8, <1>10, <1>11 DEF Sends
<1> QED BY <1>2, <1>8, <1>11, <1>12 DEF Types, Class

LEMMA StepClasses ==
    ASSUME IndInv, NEW r \in Requests, Accept(r) \/ Reject(r) \/ Step(r), UNCHANGED up
    PROVE  Class(r) /\ Types'
<1>0. Types /\ PlanInv /\ ClientInv /\ FoundInv
  BY TypeParts DEF IndInv
<1>1. CASE Accept(r)
  <2>1. Accepts(r) /\ rq' \in [Requests -> Locals]
    BY <1>0, <1>1, AcceptClass
  <2> QED BY <1>0, <2>1 DEF Class, Types, Accepts, SameNet, SameKeys, SameLine
<1>2. CASE Reject(r)
  <2>1. rq[r].pc = "new" /\ rq' = [rq EXCEPT ![r].pc = "rejected"]
          /\ SameNet /\ SameKeys /\ SameLine
    BY <1>2 DEF Reject, net, keys, line, SameNet, SameKeys, SameLine
  <2>2. rq' \in [Requests -> Locals] /\ Moves(r, "rejected")
    BY <1>0, <2>1, MoveFacts
  <2>3. Rejects(r)
    BY <2>1, <2>2 DEF Rejects
  <2> QED BY <1>0, <2>2, <2>3 DEF Class, Types, Rejects, SameNet, SameKeys, SameLine
<1>3. CASE DialFails(r) \/ Refuse(r) \/ ListFails(r) \/ LoadFails(r)
  <2>1. Fail(r) /\ rq[r].pc \in {"fetch", "dial", "load"}
    BY <1>3 DEF DialFails, Refuse, ListFails, LoadFails, Needs
  <2> QED BY <1>0, <2>1, FailFacts DEF Class
<1>4. CASE Client(r) \/ Dial(r) \/ Install(r)
  BY <1>0, <1>4, ClientClasses
<1>5. CASE HasKeys(r) \/ ListNames(r) \/ LoadKey(r) \/ KeepKeys(r)
  BY <1>0, <1>5, KeyClasses
<1>6. CASE QueueFor(r) \/ StartQueue(r)
  BY <1>0, <1>6, QueueClasses
<1>7. CASE Send(r)
  BY <1>0, <1>7, SendClass
<1> QED BY <1>1, <1>2, <1>3, <1>4, <1>5, <1>6, <1>7 DEF Step

-----------------------------------------------------------------------------
(***************************************************************************)
(* The parts of the invariant, step by step.                               *)
(***************************************************************************)
\* The plan of a request that is served.
LEMMA PlanOf ==
    ASSUME PlanInv, NEW r \in Requests, rq[r].pc \in Working
    PROVE  TodoFacts(rq[r].kind, rq[r].todo)
  BY Todo DEF PlanInv

LEMMA TakesPlan ==
    ASSUME PlanInv, NEW r \in Requests, NEW client, rq[r].pc \in Working,
           rq[r].todo # <<>>, Takes(r, client)
    PROVE  /\ rq'[r].todo \in TodoOf(rq[r].kind)
           /\ rq'[r].turn = 0
  BY PlanOf DEF TodoFacts, Takes, Sets, PlanInv

LEMMA StepPlan ==
    ASSUME PlanInv, NEW r \in Requests, Class(r)
    PROVE  PlanInv'
<1> DEFINE Plan(s) ==
        /\ rq[s].pc \in Working =>
              /\ rq[s].kind \in Handlers /\ rq[s].chain \in Chains
              /\ rq[s].todo \in TodoOf(rq[s].kind)
              /\ rq[s].turn = 0
        /\ rq[s].pc \in {"dial", "dialled"} =>
              rq[s].todo # <<>> /\ Head(rq[s].todo) = "client"
        /\ rq[s].pc = "load" =>
              /\ rq[s].todo # <<>>
              /\ Head(rq[s].todo) \in {"pool", "server_key1", "server_key2"}
        /\ rq[s].pc # "load" => rq[s].names = <<>> /\ rq[s].pool = <<>>
        /\ rq[s].pc \in {"new", "failed", "rejected"} =>
              rq[s].client = None /\ rq[s].turn = 0
        /\ rq[s].pc = "sent" => rq[s].chain \in Chains
<1>0. Plan(r)
  BY DEF PlanInv
<1>1. \A s \in Requests : s # r => rq'[s] = rq[s]
  BY DEF Class, Accepts, Rejects, Fails, HasClient, Dials, Opens, Installs, HasItem,
         Lists, Loads, Keeps, HasQueue, Asks, Starts, Sends, Takes, Moves, Sets, Only
<1>2. Plan(r)'
  <2> USE DEF Working
  <2>1. CASE Accepts(r)
    BY <1>0, <2>1 DEF Accepts
  <2>2. CASE Rejects(r)
    BY <1>0, <2>2 DEF Rejects, Moves, Sets
  <2>3. CASE Fails(r)
    BY <2>3 DEF Fails, New
  <2>4. CASE Dials(r) \/ Opens(r)
    BY <1>0, <2>4 DEF Dials, Opens, Moves, Sets, At
  <2>5. ASSUME NEW client, rq[r].pc \in Working, rq[r].todo # <<>>, Takes(r, client)
        PROVE  Plan(r)'
    <3>1. rq'[r].todo \in TodoOf(rq[r].kind) /\ rq'[r].turn = 0
      BY <2>5, TakesPlan
    <3> QED BY <1>0, <2>5, <3>1 DEF Takes, Sets
  <2>6. CASE HasClient(r) \/ HasItem(r) \/ HasQueue(r) \/ Starts(r)
    BY <2>5, <2>6 DEF HasClient, HasItem, HasQueue, Starts, At
  <2>7. CASE Installs(r) \/ Keeps(r)
    BY <1>0, <2>5, <2>7 DEF Installs, Keeps
  <2>8. CASE Lists(r)
    BY <1>0, <2>8 DEF Lists, Sets, At, KeyItems
  <2>9. CASE Loads(r)
    BY <1>0, <2>9 DEF Loads, Sets
  <2>10. CASE Asks(r)
    <3>1. rq[r].kind \in Queued
      BY <2>10, PlanOf DEF TodoFacts, Asks, At
    <3>2. <<"pool", "start">> \in TodoOf(rq[r].kind)
      BY <3>1 DEF Queued, TodoOf
    <3> QED BY <1>0, <2>10, <3>2 DEF Asks, Sets, At
  <2>11. CASE Sends(r)
    BY <1>0, <2>11 DEF Sends
  <2> QED
    BY <2>1, <2>2, <2>3, <2>4, <2>6, <2>7, <2>8, <2>9, <2>10, <2>11 DEF Class
<1>3. \A s \in Requests : Plan(s)'
  BY <1>1, <1>2 DEF PlanInv
<1> QED BY <1>3 DEF PlanInv

\* Batcher.mu is held from Asks to Starts.
BatHeld(r) == rq[r].pc \in {"fetch", "load"} /\ rq[r].todo \in Starting

LEMMA MutexParts ==
    ASSUME PlanInv
    PROVE  Mutexes <=> \A r \in Requests : /\ mgrMu = r <=> rq[r].pc = "load"
                                           /\ batMu = r <=> BatHeld(r)
<1>1. \A r \in Requests : rq[r].pc \in {"fetch", "load"} =>
         (rq[r].todo # <<>> /\ rq[r].todo[Len(rq[r].todo)] = "start"
            <=> rq[r].todo \in Starting)
  BY PlanOf DEF Working, TodoFacts
<1> QED BY <1>1 DEF Mutexes, BatHeld

LEMMA TakesBat ==
    ASSUME PlanInv, NEW r \in Requests, NEW client, rq[r].pc \in {"fetch", "load"},
           rq[r].todo # <<>>, Takes(r, client), Head(rq[r].todo) # "start"
    PROVE  BatHeld(r)' <=> BatHeld(r)
<1>1. TodoFacts(rq[r].kind, rq[r].todo)
  BY PlanOf DEF Working
<1>2. <<>> \notin Starting /\ <<"start">> \in Starting
        /\ \A t \in Starting : Head(t) \in {"pool", "start"}
  BY DEF Starting
<1> QED BY <1>1, <1>2 DEF TodoFacts, BatHeld, Takes, Sets

LEMMA StepMutexes ==
    ASSUME PlanInv, Mutexes, NEW r \in Requests, Class(r)
    PROVE  Mutexes'
<1>0. PlanInv'
  BY StepPlan
<1>1. /\ \A s \in Requests : mgrMu = s <=> rq[s].pc = "load"
      /\ \A s \in Requests : batMu = s <=> BatHeld(s)
  BY MutexParts
<1>2. \A s \in Requests : s # r => rq'[s] = rq[s]
  BY DEF Class, Accepts, Rejects, Fails, HasClient, Dials, Opens, Installs, HasItem,
         Lists, Loads, Keeps, HasQueue, Asks, Starts, Sends, Takes, Moves, Sets, Only
<1>3. \A s \in Requests : mgrMu' = s <=> rq'[s].pc = "load"
  BY <1>1, <1>2 DEF Class, Accepts, Rejects, Fails, HasClient, Dials, Opens, Installs,
         HasItem, Lists, Loads, Keeps, HasQueue, Asks, Starts, Sends, Takes, Moves,
         Sets, At, SameKeys, New
<1>4. \A s \in Requests : rq'[s].pc \in {"fetch", "load"} =>
         (rq'[s].todo # <<>> /\ rq'[s].todo[Len(rq'[s].todo)] = "start"
            <=> rq'[s].todo \in Starting)
  BY <1>0, Todo DEF PlanInv, Working, TodoFacts
<1>t. <<>> \notin Starting /\ <<"start">> \in Starting /\ <<"pool", "start">> \in Starting
  BY DEF Starting
<1>5. \A s \in Requests : batMu' = s <=> BatHeld(s)'
  <2>1. CASE Accepts(r) \/ Rejects(r) \/ Sends(r)
    BY <1>1, <1>2, <1>t, <2>1
    DEF Accepts, Rejects, Sends, Moves, Sets, SameLine, BatHeld
  <2>2. CASE Fails(r)
    BY <1>1, <1>2, <1>t, <2>2 DEF Fails, New, BatHeld
  <2>3. CASE Lists(r) \/ Loads(r)
    BY <1>1, <1>2, <2>3 DEF Lists, Loads, Sets, SameLine, BatHeld, At
  <2>4. CASE Dials(r) \/ Opens(r) \/ Installs(r)
    <3>1. rq[r].pc \in Working /\ rq[r].todo # <<>> /\ Head(rq[r].todo) = "client"
      BY <2>4 DEF Dials, Opens, Installs, At, PlanInv, Working
    <3>2. rq[r].todo \notin Starting /\ Tail(rq[r].todo) \notin Starting
      BY <3>1, PlanOf DEF TodoFacts
    <3>3. ~BatHeld(r) /\ ~BatHeld(r)'
      BY <2>4, <3>2 DEF Dials, Opens, Installs, Takes, Moves, Sets, BatHeld
    <3> QED BY <1>1, <1>2, <2>4, <3>3 DEF Dials, Opens, Installs, SameLine, BatHeld
  <2>5. CASE HasClient(r) \/ HasItem(r) \/ Keeps(r) \/ HasQueue(r)
    <3>1. /\ rq[r].pc \in {"fetch", "load"} /\ rq[r].todo # <<>>
          /\ Head(rq[r].todo) # "start" /\ \E client : Takes(r, client)
          /\ UNCHANGED batMu
      BY <2>5 DEF HasClient, HasItem, Keeps, HasQueue, At, SameLine, KeyItems, PlanInv
    <3>2. BatHeld(r)' <=> BatHeld(r)
      BY <3>1, TakesBat
    <3> QED BY <1>1, <1>2, <3>1, <3>2 DEF BatHeld
  <2>6. CASE Asks(r)
    BY <1>1, <1>2, <1>t, <2>6 DEF Asks, Sets, At, BatHeld
  <2>7. CASE Starts(r)
    <3>1. rq[r].pc = "fetch" /\ rq[r].todo # <<>> /\ Head(rq[r].todo) = "start"
      BY <2>7 DEF Starts, At
    <3>2. rq[r].todo = <<"start">> /\ Tail(rq[r].todo) = <<>>
      BY <3>1, PlanOf DEF Working, TodoFacts
    <3>3. batMu = r
      BY <1>1, <1>t, <3>1, <3>2 DEF BatHeld
    <3> QED BY <1>1, <1>2, <1>t, <2>7, <3>2, <3>3 DEF Starts, Takes, Sets, BatHeld
  <2> QED BY <2>1, <2>2, <2>3, <2>4, <2>5, <2>6, <2>7 DEF Class
<1> QED BY <1>3, <1>4, <1>5 DEF Mutexes, BatHeld

-----------------------------------------------------------------------------
\* The connections.
LEMMA StepClients ==
    ASSUME Types, PlanInv, ClientInv, OneClient, NoConnectionLeak, up,
           NEW r \in Requests, Class(r), UNCHANGED up
    PROVE  ClientInv' /\ OneClient' /\ NoConnectionLeak'
<1>1. \A s \in Requests : s # r => rq'[s] = rq[s]
  BY DEF Class, Accepts, Rejects, Fails, HasClient, Dials, Opens, Installs, HasItem,
         Lists, Loads, Keeps, HasQueue, Asks, Starts, Sends, Takes, Moves, Sets, Only
<1>2. CASE Accepts(r) \/ Rejects(r)
  <2>1. SameNet /\ rq[r].pc = "new" /\ rq'[r].pc \in {"fetch", "rejected"}
          /\ rq'[r].client = None
    BY <1>2 DEF Accepts, Rejects, Moves, Sets, PlanInv
  <2>2. ClientInv'
    BY <1>1, <2>1 DEF ClientInv, SameNet
  <2>3. OneClient'
    BY <1>1, <2>1 DEF OneClient, SameNet
  <2>4. NoConnectionLeak'
    BY <1>1, <2>1 DEF NoConnectionLeak, SameNet
  <2> QED BY <2>2, <2>3, <2>4
<1>3. CASE Fails(r)
  <2>1. SameNet /\ rq[r].pc \in {"fetch", "dial", "load"} /\ rq'[r].pc = "failed"
          /\ rq'[r].client = None
    BY <1>3 DEF Fails, New
  <2>2. ClientInv'
    BY <1>1, <2>1 DEF ClientInv, SameNet
  <2>3. OneClient'
    BY <1>1, <2>1 DEF OneClient, SameNet
  <2>4. NoConnectionLeak'
    BY <1>1, <2>1 DEF NoConnectionLeak, SameNet
  <2> QED BY <2>2, <2>3, <2>4
<1>4. CASE HasItem(r) \/ Lists(r) \/ Loads(r) \/ Keeps(r) \/ HasQueue(r) \/ Asks(r)
           \/ Starts(r) \/ Sends(r)
  <2>1. /\ SameNet /\ rq[r].pc \in {"fetch", "load"}
        /\ rq'[r].pc \in {"fetch", "load", "sent"}
        /\ rq'[r].client = rq[r].client /\ rq'[r].chain = rq[r].chain
    BY <1>4 DEF HasItem, Lists, Loads, Keeps, HasQueue, Asks, Starts, Sends, Takes,
                Sets, At
  <2>2. ClientInv'
    BY <1>1, <2>1 DEF ClientInv, SameNet
  <2>3. OneClient'
    BY <1>1, <2>1 DEF OneClient, SameNet
  <2>4. NoConnectionLeak'
    BY <1>1, <2>1 DEF NoConnectionLeak, SameNet
  <2> QED BY <2>2, <2>3, <2>4
<1>5. CASE HasClient(r)
  <2> DEFINE c == rq[r].chain
  <2>1. /\ SameNet /\ rq[r].pc = "fetch" /\ rq'[r].pc = "fetch"
        /\ rq'[r].client = clients[c] /\ clients[c] # None
        /\ rq'[r].chain = c
    BY <1>5 DEF HasClient, At, Takes, Sets
  <2>2. clients[c] \in open
    <3>1. c \in Chains
      BY <2>1 DEF PlanInv, Working
    <3> QED BY <2>1, <3>1 DEF NoConnectionLeak
  <2>3. ClientInv'
    BY <1>1, <2>1 DEF ClientInv, SameNet
  <2>4. OneClient'
    BY <1>1, <2>1, <2>2 DEF OneClient, SameNet
  <2>5. NoConnectionLeak'
    BY <1>1, <2>1 DEF NoConnectionLeak, SameNet
  <2> QED BY <2>3, <2>4, <2>5
<1>6. CASE Dials(r)
  <2>1. /\ SameNet /\ rq[r].pc = "fetch" /\ rq'[r].pc = "dial"
        /\ rq'[r].client = rq[r].client /\ rq'[r].chain = rq[r].chain
        /\ clients[rq[r].chain] = None
    BY <1>6 DEF Dials, At, Moves, Sets
  <2>2. \A d \in Chains : clients[d] # r
    BY <2>1 DEF ClientInv
  <2>3. ClientInv'
    BY <1>1, <2>1, <2>2 DEF ClientInv, SameNet
  <2>4. OneClient'
    BY <1>1, <2>1 DEF OneClient, SameNet
  <2>5. NoConnectionLeak'
    BY <1>1, <2>1 DEF NoConnectionLeak, SameNet
  <2> QED BY <2>3, <2>4, <2>5
<1>7. CASE Opens(r)
  <2>1. /\ UNCHANGED clients /\ open' = open \cup {r}
        /\ rq[r].pc = "dial" /\ rq'[r].pc = "dialled"
        /\ rq'[r].client = rq[r].client /\ rq'[r].chain = rq[r].chain
    BY <1>7 DEF Opens, Moves, Sets
  <2>2. ClientInv'
    BY <1>1, <2>1 DEF ClientInv
  <2>3. OneClient'
    BY <1>1, <2>1 DEF OneClient
  <2>4. NoConnectionLeak'
    BY <1>1, <2>1 DEF NoConnectionLeak
  <2> QED BY <2>2, <2>3, <2>4
<1>8. CASE Installs(r)
  <2> DEFINE c == rq[r].chain
  <2>1. /\ rq[r].pc = "dialled" /\ rq'[r].pc = "fetch" /\ rq'[r].chain = c
        /\ c \in Chains
        /\ \/ /\ clients[c] = None /\ UNCHANGED open /\ rq'[r].client = r
              /\ \A d \in Chains : clients'[d] = IF d = c THEN r ELSE clients[d]
           \/ /\ clients[c] # None /\ open' = open \ {r}
              /\ rq'[r].client = clients[c]
              /\ \A d \in Chains : clients'[d] = clients[d]
    BY <1>8 DEF Installs, Takes, Sets, PlanInv, Working
  <2>2. \A d \in Chains : clients[d] # r
    BY <2>1 DEF ClientInv
  <2>3. r \in open
    BY <2>1 DEF NoConnectionLeak
  <2>4. ClientInv'
    BY <1>1, <2>1, <2>2 DEF ClientInv
  <2>5. NoConnectionLeak'
    BY <1>1, <2>1, <2>2, <2>3 DEF NoConnectionLeak
  <2>6. OneClient'
    <3>1. ASSUME NEW s \in Requests, rq'[s].client # None
          PROVE  rq'[s].client = clients'[rq'[s].chain] /\ rq'[s].client \in open'
      <4>1. CASE s = r
        <5>1. clients[c] # None => clients[c] \in open
          BY <2>1 DEF NoConnectionLeak
        <5> QED BY <2>1, <2>2, <2>3, <4>1, <5>1
      <4>2. CASE s # r
        <5>1. /\ rq[s].client # None /\ rq[s].client = clients[rq[s].chain]
              /\ rq[s].client \in open
          BY <1>1, <3>1, <4>2 DEF OneClient
        <5>2. rq[s].chain \in Chains
          <6>1. rq[s].pc \in PCs
            BY LocalsFields DEF Types
          <6> QED BY <5>1, <6>1 DEF PCs, PlanInv, Working
        <5> QED BY <1>1, <2>1, <2>2, <4>2, <5>1, <5>2
      <4> QED BY <4>1, <4>2
    <3> QED BY <3>1 DEF OneClient
  <2> QED BY <2>4, <2>5, <2>6
<1> QED BY <1>2, <1>3, <1>4, <1>5, <1>6, <1>7, <1>8 DEF Class

-----------------------------------------------------------------------------
(***************************************************************************)
(* The pools, the queues and the cursor.                                   *)
(***************************************************************************)
\* A pool that is cached and a queue that has started do not change.
LEMMA CachedStay ==
    ASSUME PlanInv, LoadInv, PoolIsComplete, NEW r \in Requests, Class(r),
           NEW c \in Chains
    PROVE  /\ pools[c] # <<>> => pools'[c] = pools[c]
           /\ queues[c] # <<>> => queues'[c] = queues[c]
<1>1. CASE Keeps(r)
  <2>1. rq[r].pc = "load" /\ UNCHANGED queues
    BY <1>1 DEF Keeps, SameLine
  <2>2. Head(rq[r].todo) = "pool" => pools[rq[r].chain] = <<>>
    BY <2>1 DEF LoadInv
  <2> QED BY <1>1, <2>1, <2>2 DEF Keeps
<1>2. CASE Starts(r)
  BY <1>2 DEF Starts, SameKeys, PoolIsComplete
<1>3. CASE ~Keeps(r) /\ ~Starts(r)
  <2>1. UNCHANGED <<pools, queues>>
    BY <1>3 DEF Class, Accepts, Rejects, Fails, HasClient, Dials, Opens, Installs,
                HasItem, Lists, Loads, HasQueue, Asks, Sends, SameKeys, SameLine
  <2> QED BY <2>1
<1> QED BY <1>1, <1>2, <1>3

\* One key more of a list is loaded.
LEMMA LoadOne ==
    ASSUME NEW S, NEW p \in Seq(S), NEW n \in Seq(S), n # <<>>
    PROVE  Append(p, Head(n)) \o Tail(n) = p \o n
<1> DEFINE a == Append(p, Head(n)) \o Tail(n)
           b == p \o n
<1>1. Head(n) \in S /\ Tail(n) \in Seq(S) /\ Len(Tail(n)) = Len(n) - 1
        /\ Len(n) \in Nat \ {0} /\ Len(p) \in Nat
  OBVIOUS
<1>2. Append(p, Head(n)) \in Seq(S) /\ Len(Append(p, Head(n))) = Len(p) + 1
  BY <1>1
<1>3. a \in Seq(S) /\ b \in Seq(S) /\ Len(a) = Len(b) /\ Len(b) = Len(p) + Len(n)
  BY <1>1, <1>2
<1>4. ASSUME NEW i \in 1 .. Len(b)
      PROVE  a[i] = b[i]
  <2>1. CASE i <= Len(p)
    BY <1>1, <1>2, <1>3, <1>4, <2>1
  <2>2. CASE i = Len(p) + 1
    BY <1>1, <1>2, <1>3, <1>4, <2>2
  <2>3. CASE i > Len(p) + 1
    <3> DEFINE j == i - Len(p)
    <3>1. j \in 2 .. Len(n) /\ i = Len(p) + j
      BY <1>1, <1>3, <1>4, <2>3
    <3>2. a[i] = Tail(n)[j - 1] /\ b[i] = n[j]
      BY <1>1, <1>2, <1>3, <3>1
    <3>3. Tail(n)[j - 1] = n[j]
      BY <1>1, <3>1
    <3> QED BY <3>2, <3>3
  <2> QED BY <1>1, <1>3, <1>4, <2>1, <2>2, <2>3
<1> HIDE DEF a, b
<1>5. a = b
  BY <1>3, <1>4
<1> QED BY <1>5 DEF a, b

LEMMA StepLoad ==
    ASSUME Types, PlanInv, Mutexes, LoadInv, NEW r \in Requests, Class(r)
    PROVE  LoadInv'
<1> DEFINE L(s) == rq[s].pc = "load" /\ Head(rq[s].todo) = "pool" =>
                      /\ pools[rq[s].chain] = <<>>
                      /\ rq[s].pool \o rq[s].names \in Candidates(rq[s].chain)
<1>0. L(r) /\ \A s \in Requests : L(s)
  BY DEF LoadInv
<1>1. \A s \in Requests : s # r => rq'[s] = rq[s]
  BY DEF Class, Accepts, Rejects, Fails, HasClient, Dials, Opens, Installs, HasItem,
         Lists, Loads, Keeps, HasQueue, Asks, Starts, Sends, Takes, Moves, Sets, Only
<1>2. CASE Keeps(r)
  <2>1. \A s \in Requests : s # r => rq[s].pc # "load"
    BY <1>2 DEF Keeps, Mutexes
  <2>2. \A s \in Requests : rq'[s].pc # "load"
    BY <1>1, <1>2, <2>1 DEF Keeps, Takes, Sets
  <2> QED BY <2>2 DEF LoadInv
<1>3. CASE ~Keeps(r)
  <2>1. UNCHANGED pools
    BY <1>3 DEF Class, Accepts, Rejects, Fails, HasClient, Dials, Opens, Installs,
                HasItem, Lists, Loads, HasQueue, Asks, Starts, Sends, SameKeys
  <2>2. L(r)'
    <3>1. CASE Lists(r)
      <4>1. PICK names \in KeySeq :
               /\ Sets(r, "load", rq[r].todo, names, rq[r].pool, rq[r].client)
               /\ Head(rq[r].todo) = "pool" =>
                     /\ pools[rq[r].chain] = <<>>
                     /\ names \in Candidates(rq[r].chain)
        BY <3>1 DEF Lists
      <4>2. rq[r].pool = <<>>
        BY <3>1 DEF Lists, At, PlanInv
      <4>3. <<>> \o names = names
        BY DEF KeySeq
      <4> QED BY <2>1, <4>1, <4>2, <4>3 DEF Sets
    <3>2. CASE Loads(r)
      <4>1. rq[r].pool \in Seq(Keys) /\ rq[r].names \in Seq(Keys) /\ rq[r].names # <<>>
        BY <3>2, LocalsFields DEF Types, KeySeq, Loads
      <4>2. Append(rq[r].pool, Head(rq[r].names)) \o Tail(rq[r].names)
               = rq[r].pool \o rq[r].names
        BY <4>1, LoadOne
      <4> QED BY <1>0, <2>1, <3>2, <4>2 DEF Loads, Sets
    <3>3. CASE ~Lists(r) /\ ~Loads(r)
      <4>1. rq'[r].pc # "load"
        BY <1>3, <3>3 DEF Class, Accepts, Rejects, Fails, HasClient, Dials, Opens,
              Installs, HasItem, HasQueue, Asks, Starts, Sends, Takes, Moves, Sets, New
      <4> QED BY <4>1
    <3> QED BY <3>1, <3>2, <3>3
  <2>3. \A s \in Requests : L(s)'
    BY <1>0, <1>1, <2>1, <2>2
  <2> QED BY <2>3 DEF LoadInv
<1> QED BY <1>2, <1>3

LEMMA StepPools ==
    ASSUME Types, PlanInv, LoadInv, PoolIsComplete, NEW r \in Requests, Class(r)
    PROVE  PoolIsComplete'
<1> SUFFICES ASSUME NEW c \in Chains
             PROVE  /\ pools'[c] # <<>> => pools'[c] \in Candidates(c)
                    /\ queues'[c] # <<>> => queues'[c] = pools'[c]
  BY DEF PoolIsComplete
<1>1. /\ pools[c] # <<>> => pools[c] \in Candidates(c)
      /\ queues[c] # <<>> => queues[c] = pools[c]
  BY DEF PoolIsComplete
<1>2. pools[c] # <<>> => pools'[c] = pools[c]
  BY CachedStay
<1>3. CASE Keeps(r)
  <2>1. queues' = queues /\ rq[r].pc = "load" /\ rq[r].names = <<>>
    BY <1>3 DEF Keeps, SameLine
  <2>2. CASE Head(rq[r].todo) = "pool" /\ c = rq[r].chain
    <3>1. rq[r].pool \o <<>> \in Candidates(c)
      BY <2>1, <2>2 DEF LoadInv
    <3>2. rq[r].pool \o <<>> = rq[r].pool
      <4>1. rq[r].pool \in Seq(Keys)
        BY LocalsFields DEF Types, KeySeq
      <4> QED BY <4>1
    <3>3. pools'[c] = rq[r].pool
      BY <1>3, <2>2 DEF Keeps
    <3> QED BY <1>1, <1>2, <2>1, <3>1, <3>2, <3>3
  <2>3. CASE ~(Head(rq[r].todo) = "pool" /\ c = rq[r].chain)
    <3>1. pools'[c] = pools[c]
      BY <1>3, <2>3 DEF Keeps
    <3> QED BY <1>1, <2>1, <3>1
  <2> QED BY <2>2, <2>3
<1>4. CASE Starts(r)
  BY <1>1, <1>4 DEF Starts, SameKeys
<1>5. CASE ~Keeps(r) /\ ~Starts(r)
  <2>1. UNCHANGED <<pools, queues>>
    BY <1>5 DEF Class, Accepts, Rejects, Fails, HasClient, Dials, Opens, Installs,
                HasItem, Lists, Loads, HasQueue, Asks, Sends, SameKeys, SameLine
  <2> QED BY <1>1, <2>1
<1> QED BY <1>3, <1>4, <1>5

LEMMA StepFound ==
    ASSUME Types, PlanInv, LoadInv, PoolIsComplete, FoundInv,
           NEW r \in Requests, Class(r)
    PROVE  FoundInv'
<1> DEFINE Works(s) == rq[s].pc \in Working
           HasPool(s) == \/ /\ rq[s].kind \in {"deploy", "entrypoint"}
                            /\ rq[s].todo = <<>> \/ Head(rq[s].todo) # "pool"
                         \/ rq[s].todo = <<"start">>
           InLine(s) == rq[s].kind \in Queued /\ rq[s].todo = <<>>
           F(s) == Works(s) => /\ HasPool(s) => pools[rq[s].chain] # <<>>
                               /\ InLine(s) => queues[rq[s].chain] # <<>>
<1>0. F(r) /\ \A s \in Requests : F(s)
  BY DEF FoundInv
<1>1. \A s \in Requests : s # r => rq'[s] = rq[s]
  BY DEF Class, Accepts, Rejects, Fails, HasClient, Dials, Opens, Installs, HasItem,
         Lists, Loads, Keeps, HasQueue, Asks, Starts, Sends, Takes, Moves, Sets, Only
<1>2. \A c \in Chains : /\ pools[c] # <<>> => pools'[c] # <<>>
                        /\ queues[c] # <<>> => queues'[c] # <<>>
  BY CachedStay
<1>3. \A s \in Requests : rq[s].pc \in Working => rq[s].chain \in Chains
  BY DEF PlanInv
<1>t. /\ <<"start">> # <<>> /\ <<"pool", "start">> # <<>>
      /\ <<"pool", "start">> # <<"start">>
      /\ Head(<<"pool", "start">>) = "pool"
  OBVIOUS
<1>4. F(r)'
  <2>1. CASE Accepts(r)
    <3>1. rq'[r].todo \notin Starting /\ rq'[r].todo # <<>>
            /\ (rq'[r].kind \in {"deploy", "entrypoint"} => Head(rq'[r].todo) = "pool")
      BY <2>1 DEF Accepts
    <3> QED BY <3>1 DEF Starting
  <2>2. CASE Rejects(r) \/ Fails(r) \/ Sends(r)
    <3>1. rq'[r].pc \notin Working
      BY <2>2 DEF Rejects, Fails, Sends, Moves, Sets, New, Working
    <3> QED BY <3>1
  <2>3. CASE Dials(r) \/ Opens(r) \/ Lists(r) \/ Loads(r)
    <3>1. /\ rq[r].pc \in Working /\ rq'[r].kind = rq[r].kind
          /\ rq'[r].chain = rq[r].chain /\ rq'[r].todo = rq[r].todo
      BY <2>3 DEF Dials, Opens, Lists, Loads, Moves, Sets, At, Working
    <3> QED BY <1>0, <1>2, <1>3, <3>1
  <2>4. CASE Asks(r)
    <3>1. rq[r].kind \in Queued
      BY <2>4, PlanOf DEF TodoFacts, Asks, At, Working
    <3>2. rq'[r].todo = <<"pool", "start">>
      BY <2>4 DEF Asks, Sets
    <3>3. rq'[r].kind \notin {"deploy", "entrypoint"}
      BY <2>4, <3>1 DEF Asks, Sets, Queued
    <3> QED BY <1>t, <3>2, <3>3
  <2>5. CASE \/ HasClient(r) \/ Installs(r) \/ HasItem(r) \/ Keeps(r) \/ HasQueue(r)
             \/ Starts(r)
    <3>1. /\ rq[r].pc \in Working /\ rq[r].todo # <<>>
          /\ rq'[r].kind = rq[r].kind /\ rq'[r].chain = rq[r].chain
          /\ rq'[r].todo = Tail(rq[r].todo)
      BY <2>5 DEF HasClient, Installs, HasItem, Keeps, HasQueue, Starts, Takes, Sets,
                  At, Working, PlanInv
    <3>2. TodoFacts(rq[r].kind, rq[r].todo) /\ rq[r].chain \in Chains
            /\ rq[r].kind \in Handlers
      BY <1>3, <3>1, PlanOf DEF PlanInv
    <3>3. Head(rq[r].todo) = "pool" => pools'[rq[r].chain] # <<>>
      <4>1. CASE HasItem(r)
        BY <1>2, <3>2, <4>1 DEF HasItem
      <4>2. CASE Keeps(r)
        <5> SUFFICES ASSUME Head(rq[r].todo) = "pool"
                     PROVE  pools'[rq[r].chain] # <<>>
          OBVIOUS
        <5>1. rq[r].pool \o <<>> \in Candidates(rq[r].chain)
          BY <4>2 DEF Keeps, LoadInv
        <5>2. rq[r].pool \in Seq(Keys)
          BY LocalsFields DEF Types, KeySeq
        <5>3. rq[r].pool \o <<>> = rq[r].pool
          BY <5>2
        <5>4. rq[r].pool # <<>>
          BY <5>1, <5>3, CandidateFacts
        <5> QED BY <3>2, <4>2, <5>4 DEF Keeps
      <4>3. CASE HasClient(r) \/ Installs(r) \/ HasQueue(r) \/ Starts(r)
        BY <4>3 DEF HasClient, Installs, HasQueue, Starts, At, PlanInv
      <4> QED BY <2>5, <4>1, <4>2, <4>3
    <3>4. HasPool(r)' => pools'[rq[r].chain] # <<>>
      <4>1. CASE Head(rq[r].todo) = "pool"
        BY <3>3, <4>1
      <4>2. CASE Head(rq[r].todo) # "pool"
        <5>1. rq'[r].todo # <<"start">>
          BY <3>1, <3>2, <4>2, <1>t DEF TodoFacts, Items, Starting
        <5>2. rq[r].kind \in {"deploy", "entrypoint"} => pools[rq[r].chain] # <<>>
          BY <1>0, <3>1, <4>2
        <5> QED BY <1>2, <3>1, <3>2, <5>1, <5>2
      <4> QED BY <4>1, <4>2
    <3>5. InLine(r)' => queues'[rq[r].chain] # <<>>
      <4> SUFFICES ASSUME rq[r].kind \in Queued, Tail(rq[r].todo) = <<>>
                   PROVE  queues'[rq[r].chain] # <<>>
        BY <3>1
      <4>1. Head(rq[r].todo) \in {"queue", "start"}
        BY <3>1, <3>2 DEF TodoFacts
      <4>2. CASE HasQueue(r)
        BY <1>2, <3>2, <4>2 DEF HasQueue
      <4>3. CASE Starts(r)
        <5>1. rq[r].todo = <<"start">>
          BY <3>1, <3>2, <4>3 DEF TodoFacts, Starts, At
        <5>2. pools[rq[r].chain] # <<>>
          BY <1>0, <3>1, <5>1
        <5> QED BY <3>2, <4>3, <5>2 DEF Starts
      <4>4. CASE HasClient(r) \/ Installs(r) \/ HasItem(r) \/ Keeps(r)
        BY <4>1, <4>4 DEF HasClient, Installs, HasItem, Keeps, At, KeyItems, PlanInv
      <4> QED BY <2>5, <4>2, <4>3, <4>4
    <3> QED BY <3>1, <3>4, <3>5
  <2> QED BY <2>1, <2>2, <2>3, <2>4, <2>5 DEF Class
<1>5. \A s \in Requests : F(s)'
  BY <1>0, <1>1, <1>2, <1>3, <1>4
<1> QED BY <1>5 DEF FoundInv

LEMMA StepTurn ==
    ASSUME Types, PlanInv, LoadInv, PoolIsComplete, TurnInv,
           NEW r \in Requests, Class(r)
    PROVE  TurnInv'
<1> DEFINE Wallet(s) == queues[rq[s].chain][NextIndex(rq[s].turn, Len(queues[rq[s].chain])) + 1]
           T(s) == rq[s].turn # 0 =>
                      /\ rq[s].pc = "sent" /\ rq[s].chain \in Chains
                      /\ Len(queues[rq[s].chain]) > 1
                      /\ rq[s].wallet = Wallet(s)
<1>0. T(r) /\ \A s \in Requests : T(s)
  BY DEF TurnInv
<1>1. \A s \in Requests : s # r => rq'[s] = rq[s]
  BY DEF Class, Accepts, Rejects, Fails, HasClient, Dials, Opens, Installs, HasItem,
         Lists, Loads, Keeps, HasQueue, Asks, Starts, Sends, Takes, Moves, Sets, Only
<1>2. \A c \in Chains : Len(queues[c]) > 1 => queues'[c] = queues[c]
  <2>1. \A c \in Chains : Len(queues[c]) > 1 => queues[c] # <<>>
    OBVIOUS
  <2> QED BY <2>1, CachedStay
<1>3. T(r)'
  <2>1. CASE Sends(r)
    <3>1. rq[r].chain \in Chains
      BY <2>1 DEF Sends, PlanInv, Working
    <3>2. /\ rq'[r].pc = "sent" /\ rq'[r].chain = rq[r].chain /\ queues' = queues
          /\ \/ rq'[r].turn = 0
             \/ /\ Len(queues[rq[r].chain]) > 1
                /\ rq'[r].wallet = queues[rq[r].chain]
                      [NextIndex(rq'[r].turn, Len(queues[rq[r].chain])) + 1]
      BY <2>1 DEF Sends
    <3> QED BY <3>1, <3>2
  <2>2. CASE ~Sends(r)
    <3>1. rq[r].turn = 0
      BY <1>0, <2>2 DEF Class, Accepts, Rejects, Fails, HasClient, Dials, Opens,
            Installs, HasItem, Lists, Loads, Keeps, HasQueue, Asks, Starts, At
    <3>2. rq'[r].turn = 0
      BY <2>2, <3>1 DEF Class, Accepts, Rejects, Fails, HasClient, Dials, Opens,
            Installs, HasItem, Lists, Loads, Keeps, HasQueue, Asks, Starts, Takes,
            Moves, Sets, New
    <3> QED BY <3>2
  <2> QED BY <2>1, <2>2
<1>4. \A s \in Requests : T(s)'
  <2> SUFFICES ASSUME NEW s \in Requests, s # r, rq[s].turn # 0
               PROVE  T(s)'
    BY <1>1, <1>3
  <2>1. /\ rq[s].pc = "sent" /\ rq[s].chain \in Chains
        /\ Len(queues[rq[s].chain]) > 1 /\ rq[s].wallet = Wallet(s)
    BY <1>0
  <2>2. rq'[s] = rq[s] /\ queues'[rq[s].chain] = queues[rq[s].chain]
    BY <1>1, <1>2, <2>1
  <2> QED BY <2>1, <2>2
<1> QED BY <1>4 DEF TurnInv

-----------------------------------------------------------------------------
(***************************************************************************)
(* The theorems.                                                           *)
(***************************************************************************)
LEMMA InitIndInv == Init => IndInv
<1> SUFFICES ASSUME Init
             PROVE  IndInv
  OBVIOUS
<1>0. \A r \in Requests : rq[r] = New
  BY DEF Init
<1>1. \A r \in Requests :
         /\ rq[r].pc = "new" /\ rq[r].client = None /\ rq[r].turn = 0
         /\ rq[r].names = <<>> /\ rq[r].pool = <<>>
  BY <1>0 DEF New
<1>2. New \in Locals
  <2>1. /\ "new" \in PCs /\ "none" \in KindSet /\ <<>> \in ChainSet
        /\ <<>> \in TodoSeq /\ <<>> \in KeySeq /\ None \in ClientSet
        /\ None \in WalletSet /\ 0 \in Nat
    BY DEF PCs, KindSet, ChainSet, TodoSeq, KeySeq, ClientSet, WalletSet
  <2> QED BY <2>1 DEF New, Locals
<1>3. Types
  <2>1. <<>> \in KeySeq /\ None \in ClientSet
    BY DEF KeySeq, ClientSet
  <2> QED BY <1>2, <2>1 DEF Init, Types
<1>4. Mutexes
  BY <1>1 DEF Init, Mutexes
<1>5. PlanInv /\ ClientInv
  BY <1>1 DEF Init, PlanInv, ClientInv, Working
<1>6. OneClient
  BY <1>1 DEF OneClient
<1>7. NoConnectionLeak
  BY <1>1 DEF Init, NoConnectionLeak
<1>8. LoadInv /\ PoolIsComplete
  BY <1>1 DEF Init, LoadInv, PoolIsComplete
<1>9. FoundInv /\ TurnInv
  BY <1>1 DEF FoundInv, TurnInv, Working
<1> QED BY <1>3, <1>4, <1>5, <1>6, <1>7, <1>8, <1>9, TypeParts DEF IndInv

LEMMA ExitIndInv ==
    ASSUME IndInv, up, Exit
    PROVE  IndInv'
<1>0. /\ Types /\ Mutexes /\ PlanInv /\ ClientInv /\ NoConnectionLeak /\ LoadInv
      /\ PoolIsComplete /\ FoundInv /\ TurnInv
  BY TypeParts DEF IndInv
<1>1. /\ UNCHANGED <<rq, mgrMu, batMu, pools, servers, queues, cursor>>
      /\ up' = FALSE
      /\ open' = open \ {clients[c] : c \in Chains}
      /\ clients' = [c \in Chains |-> None]
  BY DEF Exit, keys, line
<1>2. Types'
  BY <1>0, <1>1 DEF Types, ClientSet
<1>3. Mutexes' /\ PlanInv'
  BY <1>0, <1>1 DEF Mutexes, PlanInv
<1>4. ClientInv' /\ OneClient'
  BY <1>1 DEF ClientInv, OneClient
<1>5. NoConnectionLeak'
  <2>1. \A r \in Requests : rq[r].pc = "dialled" => r \notin {clients[c] : c \in Chains}
    BY <1>0 DEF ClientInv
  <2>2. open' = {r \in Requests : rq[r].pc = "dialled"}
    BY <1>0, <1>1, <2>1 DEF NoConnectionLeak
  <2>3. {clients'[c] : c \in Chains} \ {None} = {}
    BY <1>1
  <2> QED BY <1>1, <2>2, <2>3 DEF NoConnectionLeak
<1>6. LoadInv' /\ PoolIsComplete'
  BY <1>0, <1>1 DEF LoadInv, PoolIsComplete
<1>7. FoundInv' /\ TurnInv'
  BY <1>0, <1>1 DEF FoundInv, TurnInv
<1>8. TypeOK'
  BY <1>2, <1>3, TypePartsNext
<1> QED BY <1>3, <1>4, <1>5, <1>6, <1>7, <1>8 DEF IndInv

LEMMA NextIndInv ==
    ASSUME IndInv, [Next]_vars
    PROVE  IndInv'
<1>1. ASSUME NEW r \in Requests, up, UNCHANGED up, Accept(r) \/ Reject(r) \/ Step(r)
      PROVE  IndInv'
  <2>1. Class(r) /\ Types'
    BY <1>1, StepClasses
  <2>2. /\ Types /\ Mutexes /\ PlanInv /\ ClientInv /\ OneClient /\ NoConnectionLeak
        /\ LoadInv /\ PoolIsComplete /\ FoundInv /\ TurnInv
    BY TypeParts DEF IndInv
  <2>3. PlanInv'
    BY <2>1, <2>2, StepPlan
  <2>4. Mutexes'
    BY <2>1, <2>2, StepMutexes
  <2>5. ClientInv' /\ OneClient' /\ NoConnectionLeak'
    BY <1>1, <2>1, <2>2, StepClients
  <2>6. LoadInv'
    BY <2>1, <2>2, StepLoad
  <2>7. PoolIsComplete'
    BY <2>1, <2>2, StepPools
  <2>8. FoundInv'
    BY <2>1, <2>2, StepFound
  <2>9. TurnInv'
    BY <2>1, <2>2, StepTurn
  <2>10. TypeOK'
    BY <2>1, <2>4, TypePartsNext
  <2> QED BY <2>3, <2>5, <2>6, <2>7, <2>8, <2>9, <2>10 DEF IndInv
<1>2. CASE up /\ Exit
  BY <1>2, ExitIndInv
<1>3. CASE UNCHANGED vars
  <2>1. UNCHANGED <<rq, clients, open, mgrMu, batMu, pools, servers, queues, cursor, up>>
    BY <1>3 DEF vars, net, keys, line
  <2>2. TypeOK'
    BY <2>1 DEF IndInv, TypeOK
  <2>3. PlanInv' /\ ClientInv' /\ OneClient' /\ NoConnectionLeak'
    BY <2>1 DEF IndInv, PlanInv, ClientInv, OneClient, NoConnectionLeak
  <2>4. LoadInv' /\ PoolIsComplete' /\ FoundInv' /\ TurnInv'
    BY <2>1 DEF IndInv, LoadInv, PoolIsComplete, FoundInv, TurnInv
  <2> QED BY <2>2, <2>3, <2>4 DEF IndInv
<1> QED BY <1>1, <1>2, <1>3 DEF Next, Serve

LEMMA Invariant == Spec => []IndInv
<1>1. Init => IndInv
  BY InitIndInv
<1>2. IndInv /\ [Next]_vars => IndInv'
  BY NextIndInv
<1> QED BY <1>1, <1>2, PTL DEF Spec

\* Requests, caches and mutexes keep their types, and Manager.mu and Batcher.mu
\* are held by the request inside the section and by nobody else.
THEOREM TypeCorrect == Spec => []TypeOK
<1>1. IndInv => TypeOK
  BY DEF IndInv
<1> QED BY <1>1, Invariant, PTL

\* However many requests dial at once, those of a chain work with one client,
\* and it is open as long as the process is up.
THEOREM OneClientHolds == Spec => []OneClient
<1>1. IndInv => OneClient
  BY DEF IndInv
<1> QED BY <1>1, Invariant, PTL

\* No connection stays open that is neither cached nor just dialled, after the
\* process has ended too.
THEOREM NoConnectionLeakHolds == Spec => []NoConnectionLeak
<1>1. IndInv => NoConnectionLeak
  BY DEF IndInv
<1> QED BY <1>1, Invariant, PTL

\* A pool is cached whole and in order or not at all, whichever loads fail, and
\* the queue of a chain works with that pool.
THEOREM PoolIsCompleteHolds == Spec => []PoolIsComplete
<1>1. IndInv => PoolIsComplete
  BY DEF IndInv
<1> QED BY <1>1, Invariant, PTL

\* As many turns in a row as the pool has wallets draw different wallets.
THEOREM RoundRobinHolds == Spec => []RoundRobin
<1>1. ASSUME IndInv, NEW r \in Requests, NEW s \in Requests,
             rq[r].turn # 0, rq[s].turn # 0, rq[s].chain = rq[r].chain,
             rq[r].turn < rq[s].turn,
             rq[s].turn < rq[r].turn + Len(queues[rq[r].chain])
      PROVE  rq[r].wallet # rq[s].wallet
  <2> DEFINE c == rq[r].chain
             q == queues[c]
             n == Len(q)
             i == NextIndex(rq[r].turn, n)
             j == NextIndex(rq[s].turn, n)
  <2>0. Types /\ TurnInv /\ PoolIsComplete
    BY <1>1, TypeParts DEF IndInv
  <2>1. /\ c \in Chains /\ n > 1
        /\ rq[r].wallet = q[i + 1] /\ rq[s].wallet = q[j + 1]
    BY <1>1, <2>0 DEF TurnInv
  <2>2. q \in Seq(Keys) /\ n \in Nat \ {0} /\ q # <<>>
    BY <2>0, <2>1 DEF Types, KeySeq
  <2>3. rq[r].turn \in Nat /\ rq[s].turn \in Nat
    BY <2>0, LocalsFields DEF Types
  <2>4. q \in Candidates(c)
    BY <2>0, <2>1, <2>2 DEF PoolIsComplete
  <2>5. \A k, l \in 1 .. n : k # l => q[k] # q[l]
    BY <2>4, CandidateFacts
  <2>6. i # j
    BY <1>1, <2>2, <2>3, NextIndexDiffers
  <2>7. i \in 0 .. n - 1 /\ j \in 0 .. n - 1
    BY <2>2, <2>3, NextIndexFacts
  <2> HIDE DEF n, i, j, q
  <2>8. i + 1 \in 1 .. n /\ j + 1 \in 1 .. n /\ i + 1 # j + 1
    BY <2>2, <2>6, <2>7
  <2> QED BY <2>1, <2>5, <2>8
<1>2. IndInv => RoundRobin
  BY <1>1 DEF RoundRobin
<1> QED BY <1>2, Invariant, PTL
=============================================================================
