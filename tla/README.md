# Verification of the stablecoin bundler

TLA+ models of `src/` (a Go ERC-4337 style bundler), checked with TLC on small
instances, with TLAPS proofs of what matters most for all instances.

## The system

A bundler process serves an HTTP API: JSON-RPC `eth_sendUserOperation`,
transfers, Create2 deployments, entry point deposits and withdrawals, and funded
splits. It signs Ethereum transactions with hot wallets. Several processes may run
side by side, sharing wallets, Redis and the chain. Everything below the API
comes down to one problem: a wallet's transactions must carry distinct,
consecutive nonces although several goroutines and processes send with it.

| Part | State it keeps | Operations | Interacts with |
|---|---|---|---|
| Nonce lock, `platform/redis` | mutex per key in the process, token with TTL per key in Redis | `WithNonceLock` | called by every sender |
| Round-robin cursor, `platform/redis` | counter in Redis or in the process | `NextIndex` | batcher, signer pool |
| Managed transactions, `core/tx.go` | none of its own | `SendManagedTx` | nonce lock, chain; used by deploy and entry point |
| UserOp batcher, `userop/batcher.go` | channel, dispatcher, semaphore, flushes, result channels per chain | `Enqueue`, `queueFor`, `dispatch`, `flush`, `sendUnderLock`, `onchainSubmit` | requests, cursor, nonce lock, chain |
| Wallet transfers, `transfer/send.go` | none of its own | `SendNative`, `SendErc20` | nonce lock, chain |
| Account withdrawals, `transfer/send.go` | account nonce on the chain | `sendViaAccount` | nonce lock (account key), batcher |
| Funded split, `split/exec.go` | payer nonce and allowance on the chain | `Execute`, `ensureAllowance`, `buildAndSend` | nonce lock, chain |
| Signer pool, `signer`, and keystore, `platform/kms` | cached pools and accounts | `BundlerPool`, `SelectBundler`, `PrimaryBundler`, `ServerKey1/2`, `ListByPrefix` | KMS, SQLite |
| Error contract, `platform/txerror` | none | `Normalize` | every handler |
| RPC client cache, `platform/ethclient` | client per chain | `Client`, `Close` | every sender |
| Handlers: `userop/rpc.go`, `deploy`, `entrypoint`, `transfer`, `split` | none | validation, dispatch to the parts above | HTTP |

What is hard here: callbacks of several processes under a lease that runs out by
itself; replies of Redis and of the node that get lost after the request took
effect; waits that time out while the transaction is still pending, followed by
another attempt; requests that are cancelled while their op is on its way; a
dispatcher, a bounded channel and a bounded set of flushes that wait for each
other; processes that die between two steps. `PROJECT.json` lists these hazards
at their lines, with the properties that cover them.

What makes the parts correct, in short: no two live callbacks on a key; no nonce
used twice or skipped; an answered hash stands for a transaction that is there;
every queued op is settled exactly once; an op's failure stays its own; nothing
blocks for ever.

## Modules

| Module | Models |
|---|---|
| `LeaseLock` | the promise of the nonce lock: at most one live callback per key, and zombies, callbacks that outlived their reservation |
| `NonceLock` | `WithNonceLock` step by step; shown to implement `LeaseLock` |
| `EvmAccount` | external: slots of nonces per wallet, pending nonce, admission, mining |
| `NonceLine` | the callbacks under the lock (`SendManagedTx`, `onchainSubmit`, `SendNative`, `SendErc20`), composed of `LeaseLock` and `EvmAccount` |
| `OpQueue` | the promise of `Batcher.Enqueue` to its callers |
| `Batcher` | the batcher of one chain with its requests, dispatcher, flushes and the wallets' pending transactions; shown to implement `OpQueue` |
| `Split` | `split.Service.Execute` with `ensureAllowance`, composed of `LeaseLock` and `EvmAccount` |
| `TxError` | `txerror.Normalize` as an operator on the marks an error carries |
| `Fees` | `FeeFromProvider`, the floors and `userOpMaxFeeFields` as operators |
| `Withdrawal` | `Transfer` with source account and `sendViaAccount`, composed of `LeaseLock`, `OpQueue`, `TxError` and `Fees`, with the adapter that repeats requests |
| `Service` | one process: what each handler fetches before it sends, the client cache, the signer manager over the keystore, the start of queues, the cursor, the shutdown |
| `NonceLockProofs`, `NonceLineProofs`, `BatcherProofs`, `SplitProofs`, `FeesProofs`, `WithdrawalProofs`, `ServiceProofs` | theorems and proofs |
| `MCNonceLock`, `MCNonceLine`, `MCBatcher`, `MCSplit`, `MCWithdrawal`, `MCService` | instances for TLC |

**NonceLock.** One member of `Calls` is one invocation, which also stands for its
random token. `pc[c]` is its place in the code; `mutex[p][k]` is the keyed mutex of
a process, `lease[k]` the token under `lock:`+k, `attempts[c]` the loop variable.
`SetNX`, `SetNXTaken`, `SetNXLostReply` and `SetNXError` are the outcomes of one
round of the loop: the third is a reply lost inside the Redis client, whose own
second try then finds the key taken, and in the fourth the token may or may not be
stored; neither defers the release. `Release` is the script (compare, then delete),
`ReleaseFails` its dropped error. `Crash(p)` ends all calls of a process, forgets its
mutexes and leaves Redis alone; calls of the process not yet made belong to the
restarted one. Time enters only as `MayLapse`: the lease of a running callback can
expire iff `LockTTL <= FnBound`. `lapsed` records that it did.

**NonceLine.** `live` and `zombies` are the state of the lock as `LeaseLock` gives it;
`Enter`, `Lapse` and `Return` are joint steps with it. A callback reads the pending
nonce, signs and broadcasts; those in `Waits` keep the lock until the receipt or a
timeout. The node may accept and lose the reply, refuse a used nonce, or replace a
pending transaction; transactions can revert when mined.

**Batcher.** `req[o]` follows `Enqueue`; `mu` is held while the pool is loaded. `ch`,
`disp` and `flush` are channel, dispatcher and flush goroutines; the semaphore is
the number of flushes in flight. `Settle` is what `flush` does with the outcome of
`sendUnderLock`: retry op by op after a failed batch, otherwise answer. The wallet's
mutex admits one flush at a time (`LocalExclusion` of `NonceLock`). On the chain,
`handleOps` reverts as a whole if an op no longer validates; gas estimation sees
that before the broadcast, `Mine` after it, and `Spoil` is what happens between.
A second request for the same op appears to the first as `Spoil`.

**OpQueue** is what the rest of the program needs to know of the batcher. An op that
was taken is `out` until it is executed or settled; a hash is answered when it is no
longer out; an error when it is neither out nor executed, unless the batcher gave up
on a transaction that holds it (`unsure`); a caller that leaves takes nothing back.
`Batcher!Refinement` maps `out` to the ops in the channel, in the gathered batch, in
pending transactions and still to be sent by a flush.

**Split.** `call[c].pc` walks through `Execute`: the payer nonce, the EOA nonce, the
allowance, `approve`, `reset` and `again` (the three transactions of
`ensureAllowance`, with `waits` while `WaitReceipt` polls), `send`, and after a nonce
error `fresh` and `resend`. `SignAndSend` is the broadcast with its outcomes; a gas
estimate that fails is replaced by a constant in the code, so a transaction that is
bound to revert goes out. `Block` (external) is what the token and the router do:
a `Strict` token refuses to change a non-zero allowance into another, the router
takes a split only with the current payer nonce and enough allowance; a transaction
may also revert for its balance, permit, signer epoch or gas (`sound`, recorded in
`spoiled`), about which no property says anything. EFS024 is the router's complaint
about a payer nonce. The router is not in the repository, and `isNonceErr` expects
that text from `buildAndSend`, where only the view `hashTypedDataPayerSplit` can
give it: a failed gas estimate is swallowed. So the view may refuse a payer nonce
that is no longer current (`ViewRefuses`), or let it pass. The second attempt then
takes the next nonce of the EOA although the first one used none; `skipped` records
the calls this happens to. `stale` records that a call read payer
nonce or allowance while a transaction of another call of the payer was pending that
changes it: a split, or for the allowance also an approval, left pending when
`WaitReceipt` gave up. The approvals were missing at first, and a run with two calls
cannot tell: the call that is left behind, one that spends its allowance and one that
reads in between make three. The proof of `RevertsOnlyIfStale` failed on that case.

**Withdrawal.** A withdrawal `<<p, k>>` is the k-th attempt of payment p. `Post` is the
adapter, which repeats an attempt that was answered as retryable or whose answer it
did not get (`lost`, by `Disconnect`: a timeout, a broken connection or the end of the
process, at any point, also after a success was written). No idempotency key tells
the repetition from a new payment. The
lock of the account is a `LeaseLock`; `Enqueue`, `Succeeds`, `Fails` and `HangsUp` are
joint steps with `OpQueue`. `Execute`, `Settle` and `GiveUp` are the batcher and the
chain behind that promise; `EstimateReverts` is a refused gas estimate of the op alone,
which the node computes on top of what is mined (`Reverts`) or also of what is pending
(`Clashes`, as `EstimateReverts` of `Batcher`). `ForeignOp` and `ForeignMined` are an op of
the account that came over JSON-RPC, which takes no account lock; `RunsDry` takes away
the account's money. An error about funds is about the bundler wallet's gas: it is
answered 422 whether the payment can be made or not, and `RevertIsDeserved` leaves it
out.
`Loose` are the attempts whose op outlives their section: the adapter hung up, the
batcher gave up, or the lease ran out. `NonceNotShared` and `RevertIsDeserved` hold up to
these; `PaidOnce` up to a lost answer or an op the batcher gave up on. Each needs its
exception.

**TxError, Fees.** `Normalize` takes the first rule whose mark is in the error, in the
order of the code's tests; `CALL_EXCEPTION` stands for every revert code. The fee
operators are the integer arithmetic of the code with `Gwei` as a parameter;
a market is what the node quotes, 0 where it fails. `FeeFromProvider` always returns
a fee, so the last fallback of `userOpMaxFeeFields` cannot be reached.

**Service.** `rq[r].todo` is what the handler of request r still has to fetch, in the
order of its code (`Deploy`, `EntryPointTransfer`, `SendFromWallet`,
`SendViaAccount`, `ExecuteSplit`, `HandleSendUserOp`). `Client`, `Dial`, `Install` are
the three parts of `Provider.Client`, which gives its mutex back before it dials.
`ListNames`, `LoadKey` and `KeepKeys` are a load under `Manager.mu`, one key per step;
`QueueFor` keeps `Batcher.mu` while the pool is fetched. An error runs the deferred
unlocks (`Fail`). A chain is the sequence of its id's digits because the keystore is
asked with `LIKE`, whose `_` also matches a digit (`Matches`). `Send` ends the part of
a request modelled here: what it does then is in the other modules. `Exit` is the
signal, the drain of at most 10 s and `Close`, in one step with the end of the
process, so a request that installs a client in between is not seen. The flush asks
`Provider.Client` as well (batcher.go:192), on the path every request takes, and is
not a request of its own here. `RoundRobin` speaks of the turns Redis gave out; when
Redis fails the code falls back to wallet 0.

## Runs

| Run | Instance | Shows |
|---|---|---|
| `nonce_lock` | three calls on a key, two of them in one process, two attempts each, 30 s lease, 75 s callbacks | exclusion unless lapsed, exclusion inside a process, return of every call, recovery of every key, refinement of `LeaseLock` |
| `nonce_lock_default_ttl` | two processes, default lease | *violated*: exclusion across processes |
| `nonce_line` | three callbacks on one wallet, one of which does not wait | unique nonces unless lapsed, no hole, answered transactions stand, the line moves |
| `nonce_line_revert` | the same | *violated*: a revert is answered as an error |
| `batcher` | three ops, two wallets, batches of two, channel of two | ops in one place, answers never block, isolated failures, resends and false errors only after a given-up transaction |
| `batcher_live` | two ops, one wallet, channel of one | every op settled, every request answered, refinement of `OpQueue` |
| `split` | two calls of one payer, each needs two tokens, any allowance from 0 to 4, a strict token | no call pays twice, no hole but the one after EFS024, an answered split reverts only on stale reads, every call ends |
| `split_reset` | the same without lapses | *violated*: the reset after a refused approve has a usable nonce |
| `split_gap` | the same without lapses | *violated*: the second attempt has a nonce with nothing missing before it |
| `withdrawal` | one payment asked for twice, two lost answers, two ops of others, five fee settings, 27 quotes | account nonces not shared, no double payment and no undeserved revert, but for lost answers and ops left behind; fee fields fit |
| `service` | three requests (an op, an op or a withdrawal, anything), two chains, a pool of two and one of one | one client per chain, no leaked connection, whole pools, round robin, every request answered |
| `pool_prefix` | two requests, keys of chains 1 and 13 | *violated*: a pool holds the chain's own keys |

That a lease above the longest callback excludes across processes is theorem
`MutualExclusionHolds`, and follows on the instance from `ExclusionUnlessLapsed` of
`nonce_lock`, so it has no run of its own; nor has the mode without Redis, which the
same theorem covers: there the keyed mutex alone excludes. That a batch which
reverts when mined is answered as a success is the case `onchainSubmit` of
`nonce_line_revert`.

Bounds. Three calls are the fewest with which a late release can free the key of a
second call for a third; two attempts (of 10) reach both exits of the loop. Three
ops fill a batch and leave one over; with two wallets two flushes meet on one of
them. Channel capacities of one or two (of 100) and batches of two (of 50) make the
full and the empty case frequent. In `batcher_live` an offer meets a full channel
and the dispatcher a taken slot, though not both at once: that takes three ops, for
which `EveryOpAnswered` holds too with batches of one (299,825 states), but too
slowly to be kept as a run. `MaxNonce` never stops an execution: in `NonceLine` it
is the number of callbacks; in `Split` it is 7, and no call gets beyond nonce 6. Two
splits are enough for one to read what the other is about to change (what three can
do is left to the proof, see `Split` above). Two attempts of one payment give a
repetition after an error, after a success and beside the attempt whose answer was
lost, which is then a competitor for the account's nonce like any other; more
withdrawals are left to the proofs. `Gwei = 1` makes the floors 500 and 50, and the
quotes (0, 1, 20, 600) lie on both sides of both. Three requests suffice for a race
of two and a third that finds its result; the pool of two makes the cursor go round.
Deadlock is not checked: when all calls have returned the models stop; that nobody
waits for ever is what the liveness properties say.

Fairness. `NonceLock`: weak fairness for every call's next step (goroutines are
scheduled; callbacks have deadlines: a context of 75 s in the batcher, a wait of
90 s in `SendManagedTx`, and before it node requests that answer, fail or end with
the HTTP request) and for expiry. `NonceLine`: the same, and for mining. `Batcher`:
goroutines and flushes only; nothing is assumed of the chain, of clients, or of
requests being made. `Split`: the next step of every call (each wait has a
deadline, each node request answers or fails); none for the chain. `Service`: the
next step of every accepted request. A mutex that is free is taken in the end since
each request holds each mutex a bounded number of times; a key load ends because the
KMS client has a timeout of 10 s and SQLite is local, a dial because it has the
request's context. `Withdrawal` has safety properties only.

### Disagreements with the documentation

* `nonce_lock_default_ttl`: batcher.go:175 says the lock serialises a wallet
  globally; the lease of 30 s (env.go:26) is shorter than the 75 s and 90 s its
  holders may take and is not renewed.
* `nonce_line_revert`: README.md:83 says a revert is answered 422; `SendManagedTx`
  does not look at the receipt's status.
  The batcher drops the receipt in the same way (batcher.go:224).
* `split_reset`: exec.go:320 says a failed approve is followed by approve(0) and a
  second approve, for tokens like USDT. The refused approve is broadcast all the
  same, is mined with status 0 and uses up the nonce the reset is then sent with, so
  for such tokens the reset cannot succeed.
* `split_gap`: README.md:57 says the nonce is never cached but read from the chain
  every time. The second attempt of `Execute` (exec.go:203) adds one to the nonce
  read before the first. After "nonce too low" that nonce was used; after EFS024
  from the view (exec.go:246, admitted by exec.go:110) it was not, and the split waits
  behind an empty nonce until a later call for the same payer fills it. It takes
  two calls: the second reads the payer nonce while the split of the first is pending
  and is refused by the view once that is mined.
* `pool_prefix`: keystore_sqlite.go:53 says `ListByPrefix` returns the names that
  start with the prefix. `_` is a wildcard of `LIKE`, so the pool of chain 1 takes in
  the keys of chains 10, 13, 137 and so on; sorted by their index, a foreign key may
  even come first and become the primary wallet.

## Proofs

`NonceLockProofs`, for every set of calls, processes and keys, every retry count,
lease time and callback time: `TypeCorrect`, `LocalExclusionHolds`,
`ExclusionUnlessLapsedHolds`, `MutualExclusionHolds` (when `~MayLapse`) and
`RefinementHolds`. Assumed: calls have a process and a key, and without Redis there
is one process. Exclusion alone is not inductive; the invariant adds that a call
past `lockLocal` owns its mutex (`MutexHeld`), that a running callback has its token
in Redis or is recorded as lapsed (`LeaseHeld`, which needs the token check of the
release), that attempts are left in the loop, and that a lapse happens only to a
started callback. The refinement maps `live` to the callbacks that have not lapsed
and `zombies` to those that have.

`NonceLineProofs`, for every set of transactions and wallets: `TypeCorrect`,
`UniqueNonceHolds`, `NoHoleHolds` and `AnsweredTxStandsHolds`. The invariant adds who
is under the lock (`LockInv`), that slots are filled once and for all by
transactions signed for them (`PlaceInv`), that everything below a nonce that was
read is filled (`FilledInv`), and the heart of it, that the nonce a callback has read
stays its own except for lapsed callbacks (`FreshInv`).

`FeesProofs` and `WithdrawalProofs`, for every quote of the node, every setting, every
`Gwei` and any set of payments and accounts: `UserOpFeesFit`, `TypeCorrect` and
`FeeFieldsFitHolds`. The fees are followed through the code: the rise by 180 per cent
never lowers (`Bump180Raises`), the cap of `FeeFromProvider` covers the priority fee
(`MaxFeeCovers`), and the floors keep a fitting pair fitting because what they halve is
at least 500 gwei (`FloorFits`). Assumed: settings and quotes are natural numbers.
`FeeFieldsFit` is inductive together with the types; those need that `Normalize` has a
rule for every error and that only the rules for a revert and for missing funds are
final (`VerdictType`).

The other three properties of `WithdrawalProofs`, `NonceNotSharedHolds`,
`PaidOnceHolds` and `RevertIsDeservedHolds`, hold for any number of payments,
attempts and accounts. The invariant ties the request to the lock (`LockInv`), says
what the queue may still do with an op after its request was answered (`StageInv`:
nothing, unless the op is `unsure`) and why an attempt followed another
(`AttemptInv`: an error, or a lost answer), that executed ops of an account have
distinct nonces below the account's and, but for foreign ops, all of them
(`NonceInv`), and that the nonce a section has read is used by nobody else but ops
left behind (`FreshInv`), and that an op whose estimate reverted has its reason, for
good (`RevertInv`). `LockInv` and `FreshInv` are the argument of the code's comment
on `sendViaAccount`; `NonceInv` is needed to find, when an op is refused, the
withdrawal that took its nonce. `PaidOnce` rests on `AttemptInv` and `StageInv`: an
earlier attempt that was answered by an error is executed only if the batcher gave
up on it.

`BatcherProofs`, for every set of ops, every pool, every batch size and channel
capacity: `TypeCorrect`, `OpInOnePlaceHolds`, `AnswerNeverBlocksHolds`,
`FailureIsIsolatedHolds`, `ResentOnlyIfUnsureHolds` and `ErrorIsFinalHolds`. Assumed:
ops and wallets are finite sets and the two sizes are positive. Counting places is
not inductive; the invariant says that channel, gathered batch and all batches ever
started hold no op twice and are disjoint (`PlaceInv`), what each stage of a flush
means for its batch (`ShapeInv`: above all that a failure of a whole batch is answered
only for a batch of one), what a request can tell from where its op is (`ReqInv`), how
many transactions hold an op depending on its turn in the flush, and when one more
would be the second (`SendInv`), that pending and executed ops were sent (`TxInv`), and
that an error, written or about to be, has its reason (`ErrInv`: the op is bad, met an
outage or is unsure, and is unsure if it was ever sent). Each action is first shown to
be one of a few kinds of step (`NextClasses`), and each part of the invariant is then
kept by every kind (`StepShape` to `StepErr`).

`SplitProofs`, for any number of calls and payers, any amount and both kinds of token:
`TypeCorrect`, `NoHoleHolds`, `PaysOnceHolds` and `RevertsOnlyIfStaleHolds`. Assumed:
the relayers are wallets and their transactions are transactions of the chain model.
The invariant adds whose transaction a slot holds (`PlaceInv`), that everything below
a nonce a call works with is filled, but for the one nonce a second attempt after
EFS024 skips (`FilledInv`), that a call has one split out at most and none before it
ends (`SplitInv`), and the lock (`LockInv`). As long as no lease has lapsed: beyond the
nonce of a call there are only splits that skipped one, and EFS024 comes only to
calls with a stale read; for the others, the nonce is the end of the line but for
their own approval and there is no second attempt (`LineInv`), and what they read
still holds when they send (`ReadInv`) and until their split is mined (`SentInv`).

`ServiceProofs`, for every set of requests, chains and rows of the keystore, with and
without environment keys: `TypeCorrect`, `OneClientHolds`, `NoConnectionLeakHolds`,
`PoolIsCompleteHolds` and `RoundRobinHolds`. Assumed: finitely many rows. The
invariant says which rest of its handler's plan a request can have (`PlanInv`), that
the cached client is of the chain of the request that dialled it, which does not dial
again (`ClientInv`), that loaded and listed keys make up a whole list while `Manager.mu`
is held (`LoadInv`), that a later step of a plan finds what an earlier one cached
(`FoundInv`), and that a turn belongs to a wallet of the queue (`TurnInv`). `RoundRobin`
then rests on two facts: a listed pool names no key twice, and two turns less than
the pool's size apart differ modulo that size.

Every inductive invariant was also checked by TLC on the instances above, with a
bounded range for the one quantifier over all naturals (in `NonceInv`). Only
model-checked: the liveness properties (the prover has no fairness) and the
refinement of `OpQueue` by `Batcher`. The five violated properties have
counterexamples instead of proofs.

## Plan

1. Done: the models and runs of all parts; every invariant of a passing run as a
   theorem; the refinement of `LeaseLock`.
2. Next: the refinement of `OpQueue` by `Batcher`, from the invariant of `BatcherProofs`
   and the fact that an op leaves `Outstanding` only by being executed or settled.

## Not modelled

Logging, HTTP and JSON plumbing, ABI packing, hashing and signatures, KMS over HTTP,
gas limits and the parsing of amounts: conversions and I/O without state of their own.
`SelectBundler`: only its test calls it. JSON-RPC methods other than
`eth_sendUserOperation`: they answer constants. The environment lookups of the chain
registry other than the ones a property depends on. Mempool eviction and
reorganisations: the code has no handling for them. Lagging nodes behind one RPC
URL: the code reads from and sends to one client. A restart of the batcher: its
queue is in memory and its requests end with the process. `PROJECT.json` names every
part with its status.
