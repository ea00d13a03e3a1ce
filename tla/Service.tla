------------------------------ MODULE Service ------------------------------
(***************************************************************************)
(* One process of the bundler from a request to the point where it sends:  *)
(* the handlers, the chain registry, the cache of RPC clients, the signer  *)
(* manager with its keystore, the start of a chain's queue, the round-     *)
(* robin cursor, and the shutdown.  The sections that send are the         *)
(* business of NonceLine, Split, Withdrawal and Batcher.                   *)
(*                                                                         *)
(* A chain is the sequence of the digits of its id.  A wallet is the row   *)
(* of the keystore its key comes from, [chain, idx] for the name           *)
(* bundler_key_<chain>_<idx>.                                              *)
(***************************************************************************)
EXTENDS Naturals, Sequences, FiniteSets

CONSTANTS
    Requests,   \* the requests
    Kinds,      \* Kinds[r]: the handlers that request r may be sent to
    Chains,     \* the chains a request may name
    Default,    \* DEFAULT_CHAIN_ID, <<>> if it is not set
    Rows,       \* the rows bundler_key_<chain>_<idx> of the keystore
    EnvKey,     \* whether OWNER_KEY or BUNDLER_PRIVATE_KEY is set
    OwnerRow,   \* whether the keystore has a row owner_key
    None        \* no request, no client, no wallet

\* The handlers a request can be sent to.
Handlers == {"deploy", "entrypoint", "wallet", "account", "split", "userop"}

ASSUME ServiceAssumption ==
    /\ Kinds \in [Requests -> SUBSET Handlers]
    /\ IsFiniteSet(Rows)
    /\ {EnvKey, OwnerRow} \subseteq BOOLEAN
    /\ Default \in Chains \cup {<<>>}
    /\ None \notin Requests

VARIABLES
    rq,         \* rq[r]: where request r is, see TypeOK
    clients,    \* clients[c]: the request that dialled the client of chain c
    open,       \* the requests whose connection is open
    mgrMu,      \* the request that holds Manager.mu
    batMu,      \* the request that holds Batcher.mu
    pools,      \* Manager.pools
    servers,    \* the server keys that are loaded
    queues,     \* queues[c]: the pool of the queue of chain c
    cursor,     \* cursor[c]: walletcursor:<c> in Redis
    up          \* whether the process has not ended

net == <<clients, open>>
keys == <<mgrMu, pools, servers>>
line == <<batMu, queues, cursor>>
vars == <<rq, net, keys, line, up>>

(***************************************************************************)
(* What each handler fetches, in order, before it can send                 *)
(***************************************************************************)
\* PrimaryBundler, computeAddress over the client, then SendManagedTx.
Deploy == <<"pool", "client", "client">>

\* PrimaryBundler, then SendManagedTx.
EntryPointTransfer == <<"pool", "client">>

\* resolveSourceWallet, then the client.
SendFromWallet == <<"server_key1", "server_key2", "client">>

SendViaAccount == <<"client", "server_key1", "server_key2", "queue">>

\* relayer takes either key, then both signers and the client.
ExecuteSplit(relayer) == <<relayer, "server_key1", "server_key2", "client">>

HandleSendUserOp == <<"queue">>

Plans(kind) ==
    CASE kind = "deploy" -> {Deploy}
      [] kind = "entrypoint" -> {EntryPointTransfer}
      [] kind = "wallet" -> {SendFromWallet}
      [] kind = "account" -> {SendViaAccount}
      [] kind = "split" -> {ExecuteSplit("server_key1"), ExecuteSplit("server_key2")}
      [] kind = "userop" -> {HandleSendUserOp}

Queued == {"account", "userop"}

\* ResolveChainID: the candidate, or the default; <<>> is an error.
ResolveChainID(candidate) == IF candidate # <<>> THEN candidate ELSE Default

\* The body, or the third parameter of the call, before the path of the URL.
ChainOf(param, path) == ResolveChainID(IF param # <<>> THEN param ELSE path)

(***************************************************************************)
(* The keystore and the pool                                               *)
(***************************************************************************)
\* Name LIKE 'bundler_key_<c>_%': the underscore after the digits of c stands
\* for any character, so it also matches a further digit.
Matches(c, row) ==
    /\ Len(c) <= Len(row.chain)
    /\ SubSeq(row.chain, 1, Len(c)) = c

\* A key that is not one of a pool's rows.
Single(name) == [chain |-> <<name>>, idx |-> 0]

\* sortByTrailingIndex: by number; names with the same index in any order.
Sorted(S) ==
    {s \in [1 .. Cardinality(S) -> S] :
        \A i, j \in DOMAIN s : i < j => s[i] # s[j] /\ s[i].idx <= s[j].idx}

\* The lists buildPool may load: the key of the environment, or the chain's
\* rows, or owner_key, or nothing.
Candidates(c) ==
    LET S == {row \in Rows : Matches(c, row)} IN
    IF EnvKey THEN {<<Single("OWNER_KEY")>>}
    ELSE IF S # {} THEN Sorted(S)
    ELSE IF OwnerRow THEN {<<Single("owner_key")>>}
    ELSE {}

-----------------------------------------------------------------------------
New == [pc |-> "new", kind |-> "none", chain |-> <<>>, todo |-> <<>>,
        names |-> <<>>, pool |-> <<>>, client |-> None, turn |-> 0,
        wallet |-> None]

Init ==
    /\ rq = [r \in Requests |-> New]
    /\ clients = [c \in Chains |-> None]
    /\ open = {}
    /\ mgrMu = None
    /\ batMu = None
    /\ pools = [c \in Chains |-> <<>>]
    /\ servers = {}
    /\ queues = [c \in Chains |-> <<>>]
    /\ cursor = [c \in Chains |-> 0]
    /\ up = TRUE

\* Request r has come to the point where it fetches what.
Needs(r, what) ==
    /\ rq[r].pc = "fetch"
    /\ rq[r].todo # <<>>
    /\ Head(rq[r].todo) = what

\* What r is after has been fetched.
Fetched(r) == [rq[r] EXCEPT !.pc = "fetch", !.todo = Tail(@), !.names = <<>>,
                            !.pool = <<>>]

Proceed(r) == rq' = [rq EXCEPT ![r] = Fetched(r)]

\* The request is answered with an error; its deferred unlocks run.
Fail(r) ==
    /\ rq' = [rq EXCEPT ![r] = [New EXCEPT !.pc = "failed"]]
    /\ mgrMu' = IF mgrMu = r THEN None ELSE mgrMu
    /\ batMu' = IF batMu = r THEN None ELSE batMu
    /\ UNCHANGED <<net, pools, servers, queues, cursor>>

\* The handler is called while the server listens, and its checks pass.  Only
\* the JSON-RPC endpoint has a path with a chain.
Accept(r) ==
    /\ rq[r].pc = "new"
    /\ \E kind \in Kinds[r], param, path \in Chains \cup {<<>>} :
          LET c == ChainOf(param, path) IN
          /\ kind # "userop" => path = <<>>
          /\ c \in Chains
          /\ \E plan \in Plans(kind) :
                rq' = [rq EXCEPT ![r] = [@ EXCEPT !.pc = "fetch", !.kind = kind,
                                                  !.chain = c, !.todo = plan]]
    /\ UNCHANGED <<net, keys, line>>

\* There is no chain, or a check of the handler fails: 400, or -32602.
Reject(r) ==
    /\ rq[r].pc = "new"
    /\ rq' = [rq EXCEPT ![r].pc = "rejected"]
    /\ UNCHANGED <<net, keys, line>>

(***************************************************************************)
(* ethclient.Provider                                                      *)
(***************************************************************************)
\* The cache has a client, or the mutex is given back before the dial.
Client(r) ==
    LET c == rq[r].chain IN
    /\ Needs(r, "client")
    /\ IF clients[c] # None
       THEN rq' = [rq EXCEPT ![r] = [Fetched(r) EXCEPT !.client = clients[c]]]
       ELSE rq' = [rq EXCEPT ![r].pc = "dial"]
    /\ UNCHANGED <<net, keys, line>>

Dial(r) ==
    /\ rq[r].pc = "dial"
    /\ rq' = [rq EXCEPT ![r].pc = "dialled"]
    /\ open' = open \cup {r}
    /\ UNCHANGED <<clients, keys, line>>

\* No RPC_URL for the chain, or it cannot be dialled.
DialFails(r) == rq[r].pc = "dial" /\ Fail(r)

\* A mutant: the client that comes second stays open.
InstallLeaks(r) ==
    LET c == rq[r].chain
        winner == IF clients[c] = None THEN r ELSE clients[c]
    IN
    /\ rq[r].pc = "dialled"
    /\ clients' = [clients EXCEPT ![c] = winner]
    /\ rq' = [rq EXCEPT ![r] = [Fetched(r) EXCEPT !.client = winner]]
    /\ UNCHANGED <<open, keys, line>>

\* A mutant: the client that comes second replaces the first.
InstallReplaces(r) ==
    /\ rq[r].pc = "dialled"
    /\ clients' = [clients EXCEPT ![rq[r].chain] = r]
    /\ rq' = [rq EXCEPT ![r] = [Fetched(r) EXCEPT !.client = r]]
    /\ open' = open \ {clients[rq[r].chain]}
    /\ UNCHANGED <<keys, line>>

\* The client that comes first is kept, the other one closed.
Install(r) ==
    LET c == rq[r].chain
        winner == IF clients[c] = None THEN r ELSE clients[c]
    IN
    /\ rq[r].pc = "dialled"
    /\ clients' = [clients EXCEPT ![c] = winner]
    /\ open' = IF winner = r THEN open ELSE open \ {r}
    /\ rq' = [rq EXCEPT ![r] = [Fetched(r) EXCEPT !.client = winner]]
    /\ UNCHANGED <<keys, line>>

\* from is neither server key, or the permit is not valid; or the call of
\* computeAddress fails.
Refuse(r) ==
    /\ Needs(r, "client")
    /\ \/ rq[r].kind \in {"wallet", "split"}
       \/ rq[r].kind = "deploy" /\ Len(rq[r].todo) = 1
    /\ Fail(r)

(***************************************************************************)
(* signer.Manager: Manager.mu is held while keys are loaded                *)
(***************************************************************************)
Wants(r) == IF Needs(r, "pool") THEN {"pool"}
            ELSE {k \in {"server_key1", "server_key2"} : Needs(r, k)}

\* The pool or the server key is cached.
HasKeys(r) ==
    /\ mgrMu = None
    /\ \E k \in Wants(r) :
          IF k = "pool" THEN pools[rq[r].chain] # <<>> ELSE k \in servers
    /\ Proceed(r)
    /\ UNCHANGED <<net, keys, line>>

\* It is not: its names are listed, to be loaded one after the other.
ListNames(r) ==
    /\ mgrMu = None
    /\ \E k \in Wants(r) :
          \E names \in IF k = "pool" THEN Candidates(rq[r].chain)
                                     ELSE {<<Single(k)>>} :
             /\ IF k = "pool" THEN pools[rq[r].chain] = <<>> ELSE k \notin servers
             /\ rq' = [rq EXCEPT ![r].pc = "load", ![r].names = names]
    /\ mgrMu' = r
    /\ UNCHANGED <<net, pools, servers, line>>

\* The keystore cannot be read, or no key is configured.
ListFails(r) ==
    /\ mgrMu = None
    /\ Needs(r, "pool")
    /\ pools[rq[r].chain] = <<>>
    /\ Fail(r)

\* LoadHexKey: one row is looked up and decrypted by the KMS.
LoadKey(r) ==
    /\ rq[r].pc = "load"
    /\ rq[r].names # <<>>
    /\ rq' = [rq EXCEPT ![r].names = Tail(@),
                        ![r].pool = Append(@, Head(rq[r].names))]
    /\ UNCHANGED <<net, keys, line>>

\* A mutant: a key that cannot be loaded is left out of the pool.
LoadFailsSkips(r) ==
    /\ rq[r].pc = "load"
    /\ rq[r].names # <<>>
    /\ rq' = [rq EXCEPT ![r].names = Tail(@)]
    /\ UNCHANGED <<net, keys, line>>

\* A mutant: the mutex is not given back on an error.
LoadFailsLocked(r) ==
    /\ rq[r].pc = "load"
    /\ rq[r].names # <<>>
    /\ rq' = [rq EXCEPT ![r] = [New EXCEPT !.pc = "failed"]]
    /\ UNCHANGED <<net, keys, line>>

\* The row, the KMS or the key itself is bad: nothing is kept.
LoadFails(r) ==
    /\ rq[r].pc = "load"
    /\ rq[r].names # <<>>
    /\ Fail(r)

\* All keys are there: they are cached and the mutex is given back.
KeepKeys(r) ==
    /\ rq[r].pc = "load"
    /\ rq[r].names = <<>>
    /\ IF Head(rq[r].todo) = "pool"
       THEN /\ pools' = [pools EXCEPT ![rq[r].chain] = rq[r].pool]
            /\ UNCHANGED servers
       ELSE /\ servers' = servers \cup {Head(rq[r].todo)}
            /\ UNCHANGED pools
    /\ mgrMu' = None
    /\ Proceed(r)
    /\ UNCHANGED <<net, line>>

(***************************************************************************)
(* Batcher.queueFor and the cursor                                         *)
(***************************************************************************)
\* A mutant: Batcher.mu is not waited for.
QueueForUnlocked(r) ==
    /\ Needs(r, "queue")
    /\ IF queues[rq[r].chain] # <<>>
       THEN Proceed(r) /\ UNCHANGED batMu
       ELSE /\ rq' = [rq EXCEPT ![r].todo = <<"pool", "start">>]
            /\ batMu' = r
    /\ UNCHANGED <<net, keys, queues, cursor>>

\* The queue is there, or Batcher.mu is kept while the pool is fetched.
QueueFor(r) ==
    /\ Needs(r, "queue")
    /\ batMu = None
    /\ IF queues[rq[r].chain] # <<>>
       THEN Proceed(r) /\ UNCHANGED batMu
       ELSE /\ rq' = [rq EXCEPT ![r].todo = <<"pool", "start">>]
            /\ batMu' = r
    /\ UNCHANGED <<net, keys, queues, cursor>>

StartQueue(r) ==
    /\ Needs(r, "start")
    /\ queues' = [queues EXCEPT ![rq[r].chain] = pools[rq[r].chain]]
    /\ batMu' = None
    /\ Proceed(r)
    /\ UNCHANGED <<net, keys, cursor>>

\* A mutant: the cursor is not reduced by the size of the pool.
NextIndexCapped(v, n) == IF v < n THEN v ELSE n - 1

\* ((v % n) + n) % n for the value v that INCR returned.
NextIndex(v, n) == ((v % n) + n) % n

\* The request sends.  A deploy and an entry point transfer use pool[0].  For
\* an op the dispatcher of the chain draws a wallet of the queue's pool; with
\* one wallet, or when Redis fails, it is the first.
Send(r) ==
    LET c == rq[r].chain
        v == cursor[c] + 1
        n == Len(queues[c])
        Sent(turn, wallet) ==
            rq' = [rq EXCEPT ![r] = [@ EXCEPT !.pc = "sent", !.turn = turn,
                                              !.wallet = wallet]]
    IN
    /\ rq[r].pc = "fetch" /\ rq[r].todo = <<>>
    /\ \/ /\ rq[r].kind \in Queued
          /\ n > 1
          /\ cursor' = [cursor EXCEPT ![c] = v]
          /\ Sent(v, queues[c][NextIndex(v, n) + 1])
       \/ /\ rq[r].kind \in Queued
          /\ Sent(0, queues[c][1])
          /\ UNCHANGED cursor
       \/ /\ rq[r].kind \in {"deploy", "entrypoint"}
          /\ Sent(0, pools[c][1])
          /\ UNCHANGED cursor
       \/ /\ rq[r].kind \in {"wallet", "split"}
          /\ Sent(0, None)
          /\ UNCHANGED cursor
    /\ UNCHANGED <<net, keys, batMu, queues>>

(***************************************************************************)
(* The process                                                             *)
(***************************************************************************)
\* A signal: the server stops to listen, Shutdown returns when every request
\* is answered or after 10 s, main closes the clients and the process ends.
Exit ==
    /\ up' = FALSE
    /\ open' = open \ {clients[c] : c \in Chains}
    /\ clients' = [c \in Chains |-> None]
    /\ UNCHANGED <<rq, keys, line>>

Step(r) ==
    \/ Client(r) \/ Dial(r) \/ DialFails(r) \/ Install(r) \/ Refuse(r)
    \/ HasKeys(r) \/ ListNames(r) \/ ListFails(r)
    \/ LoadKey(r) \/ LoadFails(r) \/ KeepKeys(r)
    \/ QueueFor(r) \/ StartQueue(r) \/ Send(r)

\* A step of a request that the process serves.
Serve(r) == up /\ Step(r) /\ UNCHANGED up

Next ==
    \/ \E r \in Requests :
          \/ up /\ (Accept(r) \/ Reject(r)) /\ UNCHANGED up
          \/ Serve(r)
    \/ up /\ Exit

\* A goroutine that can run does, and so does one that waits for a mutex that
\* is free; the KMS client has a timeout of 10 s and a dial the request's
\* context.
Fairness == \A r \in Requests : WF_vars(Serve(r))

Spec == Init /\ [][Next]_vars
FairSpec == Spec /\ Fairness

-----------------------------------------------------------------------------
(***************************************************************************)
(* Properties                                                              *)
(***************************************************************************)
Keys == Rows \cup {Single(k) : k \in {"OWNER_KEY", "owner_key", "server_key1",
                                      "server_key2"}}

\* Requests, caches and mutexes have their types, and a mutex is held by the
\* request that is inside the section it guards and by nobody else.
TypeOK ==
    /\ rq \in [Requests ->
          [pc     : {"new", "fetch", "dial", "dialled", "load", "sent", "failed",
                     "rejected"},
           kind   : Handlers \cup {"none"},
           chain  : Chains \cup {<<>>},
           todo   : Seq({"pool", "client", "queue", "start", "server_key1",
                         "server_key2"}),
           names  : Seq(Keys),
           pool   : Seq(Keys),
           client : Requests \cup {None},
           turn   : Nat,
           wallet : Keys \cup {None}]]
    /\ \A r \in Requests :
          /\ mgrMu = r <=> rq[r].pc = "load"
          /\ batMu = r <=> /\ rq[r].pc \in {"fetch", "load"}
                           /\ rq[r].todo # <<>>
                           /\ rq[r].todo[Len(rq[r].todo)] = "start"
    /\ clients \in [Chains -> Requests \cup {None}]
    /\ open \subseteq Requests
    /\ {mgrMu, batMu} \subseteq Requests \cup {None}
    /\ pools \in [Chains -> Seq(Keys)]
    /\ servers \subseteq {"server_key1", "server_key2"}
    /\ queues \in [Chains -> Seq(Keys)]
    /\ cursor \in [Chains -> Nat]
    /\ up \in BOOLEAN

\* All requests of a chain work with one client, and until the process ends
\* its connection is open, however their dials overlap (ethclient.go: the
\* client that comes first is kept).
OneClient ==
    \A r \in Requests :
        rq[r].client # None /\ up =>
            /\ rq[r].client = clients[rq[r].chain]
            /\ rq[r].client \in open

\* The open connections are the cached ones and those just dialled: the client
\* that loses the race is closed, and Close closes what is cached.
NoConnectionLeak ==
    open = {r \in Requests : rq[r].pc = "dialled"}
              \cup ({clients[c] : c \in Chains} \ {None})

\* A pool is cached whole or not at all, in the order of the indexes, though
\* its keys are loaded one by one and each of the loads may fail; the queue of
\* a chain works with that same pool (BundlerPool, queueFor).
PoolIsComplete ==
    \A c \in Chains :
        /\ pools[c] # <<>> => pools[c] \in Candidates(c)
        /\ queues[c] # <<>> => queues[c] = pools[c]

\* Of as many turns in a row as the pool has wallets, each has another wallet:
\* two batches share one only when the pool has gone round (NextIndex).
RoundRobin ==
    \A r, s \in Requests :
        LET c == rq[r].chain IN
        /\ rq[r].turn # 0 /\ rq[s].turn # 0
        /\ rq[s].chain = c
        /\ rq[r].turn < rq[s].turn
        /\ rq[s].turn < rq[r].turn + Len(queues[c])
        => rq[r].wallet # rq[s].wallet

\* A request that was accepted is sent or fails, unless the process ends:
\* nobody waits for ever for Batcher.mu or Manager.mu, also when the load that
\* is made under them fails.
EveryRequestAnswered ==
    \A r \in Requests :
        rq[r].pc = "fetch" ~> rq[r].pc \in {"sent", "failed"} \/ ~up

\* What ListByPrefix says of itself and the pool relies on: the names start
\* with bundler_key_<c>_, so that the wallets of a chain's pool are its own.
PoolIsOfChain ==
    \A c \in Chains :
        \A i \in DOMAIN pools[c] :
            pools[c][i] \in Rows => pools[c][i].chain = c
=============================================================================
