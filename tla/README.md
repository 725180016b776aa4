# A TLA+ model of the JPYC x402 facilitator

The facilitator takes signed EIP-3009 authorizations over HTTP and pays them
from a relayer wallet: it verifies the authorization against the chain, sends
`transferWithAuthorization`, waits for the receipt and tells the caller
`success` or a reason. Money moves, nothing can be rolled back, and between the
HTTP request and the block lie request authentication, a cache, a rate limit,
a balance gate, several RPC reads, a lock, a mempool, and a process that can stop
at any moment. This directory models that path from the paying client to the
chain, checks it with TLC and proves its main properties with TLAPS.

1. [The system](#1-the-system)
2. [The modules](#2-the-modules)
3. [What the runs check](#3-what-the-runs-check)
4. [What is proved](#4-what-is-proved)
5. [Where code and documents disagree](#5-where-code-and-documents-disagree)
6. [What is not modelled, and the plan](#6-what-is-not-modelled-and-the-plan)

## 1. The system

Two hosts run the same Hono application (`packages/facilitator/src/app.ts`):
Cloudflare Workers (`apps/worker`) and one Node process (`apps/server`).

| component | source | state | operations |
|---|---|---|---|
| HTTP handlers | `facilitator/src/app.ts` | none | `/settle`, `/settle-status`, `/verify`, `/supported`, `/discovery/resources`, `/health` |
| NonceCache | `facilitator/src/nonce-cache.ts` | (chain, payer, nonce) -> success and hash, for 300 s | `get`, `remember` |
| RateLimiter | `facilitator/src/rate-limit.ts` | per payer: window start, count, JPYC spent | `consume` |
| BalanceCache | `facilitator/src/balance-cache.ts` | per chain: native balance of the relayer, critical or not | `refreshAll`, `isCritical` |
| HmacAuthenticator | `facilitator/src/auth.ts` | used request nonces and their expiry | `authenticate` |
| Verification | `evm/src/verify.ts`, `evm/src/revert.ts` | none; reads the chain | window, `authorizationState`, `balanceOf`, simulation |
| Node runner | `facilitator/src/settle-runner.ts`, `evm/src/settle.ts` | per chain a chain of promises (the mutex) | `settle` = verify, broadcast, wait, all in the mutex |
| Worker runner | `apps/worker/src/worker-settle-runner.ts` | none | verify, then the Durable Object, then the receipt wait |
| RelayerSignerDO | `apps/worker/src/relayer-signer-do.ts` | broadcast records in durable storage, prune time | `broadcast`, `getSettleRecord` |
| Node process | `apps/server/src/main.ts` | up, shutting down | boot, SIGTERM, exit |
| Worker isolates | `apps/worker/src/index.ts` | the in-memory state above, per isolate | creation, eviction, `scheduled` |
| Client SDK, MCP | `client/src`, `mcp/src` | none across calls | sign, pay, retry |
| chain, mempool, JPYC contract | outside the repository | nonces, balances, consumed authorizations | mine, drop, reorganise |

A settle touches them in this order:

    request -> authenticate -> NonceCache.get -> RateLimiter.consume -> BalanceCache.isCritical
       Node:   mutex( verify -> time check -> writeContract -> receipt )
       Worker: verify -> DO lane( record? -> time check -> writeContract -> put ) -> receipt
    -> NonceCache.remember (on success) -> response

What makes it hard:

* **Reads before awaits.** The cache is read before the queue, verification runs
  before the lane (Worker), viem reads the account nonce in one RPC call and
  sends in a later one. Everything read can be stale when it is used.
* **Outcomes nobody sees.** A node can accept a raw transaction although its
  answer is lost; a receipt wait ends after 120 s although the transaction is
  mined later; a put can fail after the send.
* **Things that go away.** An isolate or the Node process stops with requests in
  flight; the Durable Object is reset after 30 s of `blockConcurrencyWhile`; the
  mempool loses transactions, the chain reorganises.
* **Several clocks.** Signers, the facilitator and the chain each have one; a
  request's timestamp, an authorization's window, a cache entry and a used nonce
  are measured with different ones, in seconds and in milliseconds.
* **Overlapping refreshes.** Balances are read by calls that may outlast the
  interval of the timer, and on Workers by one isolate for all.
* **Retries.** Callers repeat a settle with the same authorization, in another
  isolate or after a restart, while an earlier attempt is queued, pending,
  reverted or mined.

What makes it correct: no two transactions of the wallet use one account nonce;
an authorization is not sent again without need; `success` is told only of a
payment in a block with the terms that were asked for; a failure tells the
caller truthfully whether something may be out; a recorded hash is genuine,
stable and found again; a signed request is not accepted twice; the balance gate
follows the balance; a client's report of a payment is true and only what was
signed is sent; every request is answered.

`PROJECT.json` lists every component with its status and every hazard with its
source line and the properties aimed at it.

## 2. The modules

    JpycChain          the chain, the mempool and the contract (external)
      Verification     what a host learns by asking it
        RelayerSigner        the Durable Object's lane and record store
          WorkerSettle       POST /settle on Workers  --implements--> Settlement
        NodeSettle           POST /settle on Node     --implements--> Settlement
    Settlement         what /settle promises, without saying how
    TimeWindow         checkTimeWindow, which four places of the code share
      PaymentChecks    what verification decides from the request alone
    NonceCache, RateLimiter    the in-memory state of a process, against the clock
      Gates            /settle as these two and TimeWindow see it
    HmacAuth           authentication of a request that is delivered several times
    BalanceCache       the refreshes behind the balance gate, on both hosts
    PayingClient       signer, client and MCP tools; EXTENDS Settlement, PaymentChecks
    ChainProofs, RelayerSignerProofs, WorkerSettleProofs, NodeSettleProofs,
    GatesProofs, HmacAuthProofs, BalanceProofs, PayingClientProofs
    MCRelayerSigner, MCWorkerSettle, MCNodeSettle, MCGates, MCHmacAuth,
    MCBalanceCache, MCPayingClient                          instances for TLC

**JpycChain** is not code of the repository. It is what `src/` reads of the chain
(`authorizationState`, `balanceOf`, the simulation, the pending transaction count,
receipts) and what the docs say can happen to it. A transaction is its account nonce,
the authorization it carries and the fees it offers, which together stand for its
hash: an authorization that is sent again may have another hash although it takes the
same nonce. `Fees` are the fees viem may find; only whether two of them differ
matters. The mempool holds at most one transaction per account nonce and blocks take
nonces in order. `Executes` is the contract's own condition; a transaction that is
mined when it does not hold is in `reverted`. `ReceiptsOf` is what
`waitForTransactionReceipt` may bring: the receipt of the transaction itself, or that
of the one that took its account nonce after the mempool lost it, which viem takes
for a replacement. The hosts then check the Transfer event of that receipt, which
shows payer, recipient and value and not the EIP-3009 nonce, and answer with the hash
they sent. The window of an authorization is one of four phases: `early`, `open`,
`closing` (the last `BLOCK_TIME_GRACE_SECONDS`, refused by the facilitator and still
accepted by the contract) and `closed`. The constant `Faults` says which disturbances
an instance contains, so that a run states exactly what it tolerates and a theorem
states what it excludes.

Two assumptions are made about RPC. A node takes a raw transaction before the call
that hands it over ends, or never; delivery after the call has ended is not
modelled. And the pending transaction count sees what was handed over before.
Both clients of `evm/src/rpc.ts` use a `fallback` transport over several URLs with
one retry: the same raw transaction may be handed to a second endpoint after the
first one took it and failed to answer, which is one source of the model's
`ambiguous` sends; an endpoint that lags behind another one is not modelled.

**Verification** has the chain-reading half of `verifyExactPayment` and the
gas estimate `writeContract` makes, as *sets of outcomes*: `ok`, or a reason. A
failed read of `authorizationState` counts as `ok`, a failed `balanceOf` as
`unexpected_verify_error`, and any failed simulation as
`invalid_transaction_state`, as the three catch blocks do. `RevertCode` is the
classification in `revert.ts` of the revert the contract would give.

**RelayerSigner** is `RelayerSignerDO.broadcast`. `blockConcurrencyWhile` is the
variable `lane`; a call goes from `queued` through the record gate and the time
check (one atomic step: between them there is no await the lane does not cover)
to `preparing` (viem reads the nonce and estimates gas), `sending`,
`recording` (the put) and a reply. Refusals come from each of the code's catch
paths. `Reset` is the 30 s limit or a crash: the holder throws, the storage stays.
`Prune` removes records past `SETTLE_RECORD_TTL_MS` and runs beside later calls.

| code | model |
|---|---|
| `blockConcurrencyWhile` | `lane`, `AtGate` |
| `storage.get` hit, line 170-183 | `EnterReplays` |
| `checkTimeWindow`, line 185-195 | `EnterRefuses`, `EnterProceeds` |
| `writeContract`, line 211-228 | `Prepare`, `PrepareFails`, `Send`, `SendAmbiguous`, `SendRefused` |
| `storage.put` and its catch, line 230-265 | `Record` |
| `pruneSettleRecords`, line 141-153 | `PruneComesDue`, `Prune`, `RecordAges` |

**WorkerSettle** EXTENDS it with the `/settle` handler: requests run in isolates
with a cache each, `Arrive` is everything up to the first await (cache, rate
limit, balance gate), then three reads, the call to the lane, the receipt
wait, `remember` and the answer. The rate limiter and the balance gate may refuse
any request; their own state is not needed for what is claimed here. An isolate
may be evicted with requests in flight. A call in the lane goes on without it.
`SettleStatus` is the answer of `/settle-status`: the isolate's cache, else the
durable record, which `getSettleRecord` reads when no call is in the lane.

**NodeSettle** is the same handler under `InProcessSettleRunner`. The chain of
promises is the sequence `line`; its head holds the mutex and runs verification,
the time check, `writeContract` and the receipt wait before the next one starts.
Releasing the mutex and answering is one step: between the `finally` and the
response run only microtasks that touch the cache, and a request that arrives
between them arrives equally well before. `Terminate` is SIGTERM (no new
requests), `Exit` is the clean exit, the forced one after 10 s, or a kill;
`Restart` boots with an empty cache. Nothing else survives: the Node host has no
records.

**NonceCache** and **RateLimiter** are the two maps of a process with their methods,
which take the time of the call: `Get`, `Hit` and `Remember` with the time to
live and the collection, `Refuse` and `Consume` with the windows, the limits and
the pruning. **Gates** EXTENDS both and has what the other two models leave to
chance: the clock, in ticks of `1/Resolution` s, and `CheckTimeWindow` in full, in
verification (bounded by the requirements' `maxTimeoutSeconds`) and again before
the broadcast (without a bound), on the clock's whole seconds. The chain and the
queues are left out: a payment that was sent succeeds or fails at any later
time. The history `admitted` and `spent`, per payer and window, is what the
buckets are compared with. The clock is assumed not to go back.

**Settlement** is the promise both hosts make, and all that the paying side may
rely on: each key is paid at most once, never unpaid, and only if a request for it
was sent; each caller is told one thing once: `success` only of a paid key,
`refused` only if this request was not sent and never will be, `unclear`
otherwise. `WorkerSettle` and `NodeSettle` implement it with
`paid <- {Key(t) : t \in mined}`, `sent` from the transactions issued and `told`
from the answer: a failure that names a transaction is unclear, and so are
`unexpected_settle_error` and `invalid_payload`. History variables (`issued`,
`broadcasts`, `forgets`, `abandoned`) record what the properties speak of and no
action reads them.

**PaymentChecks** is `ExactEvmFacilitator.verify` and `verifyExactPayment` up to the
first chain read, as one operator that names the first reason to refuse. An amount
is kept as it is written, with its leading zeros, since the code compares amounts
as strings in two places and as numbers in a third. A signature is who made it,
over which typed data, and whether its `s` is in the lower half.

**PayingClient** is the other end. An agent signs payments (`signPaymentPayload`, with
its own clock) and settles them by `settle_jpyc_payment`,
`create_and_settle_jpyc_payment` or through a resource server by
`fetchWithPayment`. A call may be given up (20 s timer, lost connection, a body of
another shape) while the facilitator is still at it, and answers of 500 and above
are thrown. The facilitator is `Settlement`, restricted to requests that
`PaymentChecks` lets pass. The agent is not code of the repository: it wants to
pay once, signs anew only when every call has returned and none reported success,
and no longer hands in the earlier payments then. `Canonical` is what the signer
produces, `{TRUE}` for viem.

**HmacAuth** is `authenticate()`. `Arrive` reads the clock and makes every check
before the first await; after the awaits `RefuseMismatch`, `RefuseReplay` or
`Accept` use the reading made before, collect the used nonces by it and look up
and set the entry in one continuation. Deliveries of one request may be repeated,
late, damaged, and overlap. They may arrive at any time, before or after the
timestamp they carry: signers have clocks of their own. `Span` says how long an
`authenticate()` may take.

**BalanceCache** has the refreshes of both hosts: `refreshAll` starts a call for each
chain, the endpoint looks at the balance (`Read`), the entry is set (`Store`) or
the call fails (`Fails`). A call may outlast the interval, so that refreshes
overlap and an older one may write last. `NodeSpec` is `main.ts`: the first refresh
is awaited, then the timer. `WorkerSpec` is `index.ts`: each isolate has a cache,
starts to serve without a refresh, and each cron trigger reaches one of them.

## 3. What the runs check

| run | instance | states | shows |
|---|---|---|---|
| `worker_faults` | 2 requests, 1 isolate, 1 authorization; reorgs, failing RPC and storage, ambiguous sends, resets, a second host with the wallet | 0.4 M | the record store's invariant, the meaning of a refusal, rebroadcasts bounded, `/settle-status` complete, records stable; calls return, requests are answered |
| `worker_safety` | 2 requests, 2 isolates, 2 authorizations, 2 fees; lost transactions, ambiguous sends, resets, evictions | 1.3 M | implements Settlement; a success is a transfer that a block shows; hashes told are genuine; empty failures sent nothing; nonces unique; `/settle-status` truthful |
| `node_safety` | 3 requests, 2 authorizations, 2 fees; ambiguous sends, lost transactions, termination and restart | 1.3 M | the same for Node, where a success names the transaction that paid, with rebroadcasts bounded by unseen outcomes and receipts that are one's own |
| `node_live` | 3 requests, 1 authorization; spending payers, failing RPC, ambiguous sends | 0.6 M | everybody in the mutex's line is answered or lost with the process |
| `gates_safety` | 4 requests, 3 authorizations, 2 payers, 3 rate windows; both maps collected at 2 entries | 1.0 M | settled and live is cached, its retries are free, budgets are kept and refusals deserved |
| `auth_safety` | 4 requests of 3 keys, 6 deliveries, one damaged; skew of 2 s, clock of 9 s | 2.7 M | remembered for the skew, accepted again only afterwards, replays were accepted, entries are forgotten |
| `balance_node` | 2 chains, one failing; calls of up to 2 periods | 1.5 M | the gate follows the balance |
| `client` | 2 payments, 2 calls, 3 kinds of requirements on 2 chains; clock ahead or behind by 1 s | 1.3 M | reports are true, a second payment needs doubt, honest payments verify, only what was signed is sent |
| `replaced_receipt`, `reverted_record`, `auth_ahead`, `balance_isolates` | small | - | violations, section 5 |

**Bounds.** Two requests are enough for a retry against its original, and three (or
two and two authorizations) for a third that meets both: in the lane, one call holds,
one waits, one comes late. Two authorizations of one payer with different keys let
records, caches and nonces be mixed up; in the Worker and Node runs they also have
different recipients, except in `replaced_receipt`, where the two payments look
alike. Two fees, where transactions are lost and sent again, are enough for a hash
that differs from the one before. Failing storage is in `worker_faults`; in
`worker_safety` it would double the states, and the theorems about the Worker do not
exclude it. In all runs a key has one set of terms. `MaxBalance` 1 or 2 lets the
second payment fail for want of funds. `MaxNonce` bounds the transactions of the
wallet to 3 or 4: as many as there are calls, plus what a foreign host sends. A call
that would need a larger nonce waits in the model; no safety property is about that,
and in `worker_faults`, where a foreign host may use up the nonces, the call goes on
because its gas estimate may also fail. The windows of the authorizations move
independently. The safety runs of the hosts take the requests, the isolates, the
fees, and the authorizations with their keys and recipients (which have the same
names) as symmetric, since no definition distinguishes them; the liveness runs use no
symmetry.

In `gates_safety` a second has two ticks, so that readings are truncated; the clock
runs over 10 ticks, which is more than two rate windows, the time to live of an
entry, and the life of each authorization. One is at first too long to pass
verification, and one is allowed more time (5 s) than an entry is kept (3 s), so that
its entry may expire while it lives: for its key the properties of the cache say
nothing, for the others they must hold beside it. The limits let a payer have two
requests or a value of 3 in a window, so that each limit is met alone.

In `auth_safety` the skew is 2 s, `Span` is 1, and the clock runs past the life of
the entries; timestamps are 1, 2 and 4 on a clock that starts at 0, so that a
delivery can be read ahead of, at and behind each of them; a request of another
caller has the same nonce, and a later request's authentication collects while older
deliveries are in their awaits. In `balance_node` a call may take twice the period,
so that up to three refreshes of a host overlap; balances are counted as steady up to
`MaxAge`, the age a reading can have when it is used, and no further. In `client` the
quotes differ in amount, in lifetime, in the chain and in how the amount is written;
the clock runs for 3 s, which is past the lifetime of the shorter one less the grace
(1 s); requests and keys are symmetric. Two calls are one for each payment, or two
for one.

`CHECK_DEADLOCK` stays on except in `client`, where an agent that has made its calls
may stop for good once the clock is at `Horizon`. `Over` lets the gates stutter when
all requests and the clock have come to their end. `Finished` and `Served` let the
signer and the Worker stutter only when every request has come to its end and nothing
is in flight; Node can always restart.

**Fairness.** Weak fairness of each handler that has started, and of each step of
the lane: the JavaScript runtime runs continuations that are ready, the RPC
transports have timeouts, the receipt wait has 120 s, `blockConcurrencyWhile` and
`finally` free the locks. Nothing is assumed of the chain: a transaction need
never be mined, a window never moves, a request need never arrive, an evicted
isolate or a dead process need never come back. Weak fairness suffices because
the lane is handed over by the steps of its holder; a queued call cannot be passed
for ever, as there are finitely many.

**Mutants.** For every property there is a definition of the model and a
plausible bug in its code (`\* Mutation:` definitions in the modules) under which
TLC finds that property violated: a lock not taken, the `latest` instead of the
`pending` count, a put left out when a prune is due, a receipt whose status is not
looked at, and so on.

## 4. What is proved

For every value of the constants that the named assumptions of the modules
(`ChainAssumption`, `RequestAssumption`, `GraceAssumption`, `ChecksAssumption`,
`AuthAssumption`, ...) allow, tlapm checks:

| theorem | says | excludes |
|---|---|---|
| `TypeCorrect`, `WorkerTypeCorrect`, `NodeTypeCorrect` | types | nothing |
| `StoreCorrect` | `[]StoreInv` | nothing |
| `BoundedRebroadcasts` | n lost records allow n + 1 broadcasts | nothing |
| `StatusComplete`, `HashesGenuine`, `RecordsAreStable` | the record store | nothing |
| `RefusalsSentNothing` | a definite refusal of the lane has sent nothing | nothing |
| `StatusIsTruthful` | `/settle-status` names only what was issued and denies only what lost its record | nothing |
| `NonceSafety`, `NodeNonceSafety` | account nonces are unique | a second host with the wallet |
| `ImplementsSigner` | `WorkerSpec => Spec` | nothing |
| `NoncesAreDense` | account nonces have no gap, so that no transaction is stuck behind one that was never sent | lost transactions, reorgs |
| `NodeNoncesAreDense` | the same on Node | lost transactions, reorgs |
| `NothingSentIsLost` | what a call has sent is in the mempool or a block | lost transactions, reorgs, a second host with the wallet |
| `OwnReceipts` | on Node a request is brought its own receipt, never a replacement's | a second host with the wallet |
| `LineHoldsInFlight` | the line of the Node mutex is the requests in flight, each once | nothing |
| `NamesIssued`, `HonestEmptyFailure`, `NodeHonestFailure` | what answers and failures name | nothing |
| `NodeBoundedRebroadcasts` | n unseen outcomes allow n + 1 broadcasts | reorgs, a second host with the wallet |
| `SuccessSafety` | success on Workers is paid, by the transaction it names | lost transactions, reorgs, a second host with the wallet; needs `KeyDeterminesTerms` |
| `NodeSuccessSafety` | success on Node is paid | reorgs, a second host with the wallet; needs `KeyDeterminesTerms` |
| `AgreementOnHash` | all who are told success for a key are told one hash, on Workers | lost transactions, reorgs, a second host with the wallet |
| `NodeAgreementOnHash` | the same on Node, across restarts | reorgs, a second host with the wallet |
| `SuccessShowsTransfer` | at the account nonce that a success on Workers names, a block shows a transfer with the terms asked for, and it is the transaction named unless that one was lost | reorgs, a second host with the wallet; needs `KeyDeterminesTerms` |
| `RefusedIsNotCharged`, `NodeRefusedIsNotCharged` | what may still be mined was asked for by a caller who was not refused | a second host with the wallet |
| `WorkerKeepsPromise` | the refinement to Settlement | reorgs, a second host with the wallet; needs `TermsTellKeys` or that no transaction is lost |
| `NodeHostKeepsPromise` | the refinement to Settlement | reorgs, a second host with the wallet |
| `GatesTypeCorrect` | types | nothing |
| `BucketsAreHistory`, `BudgetHolds`, `RefusalsAreDeserved` | the rate limiter, per window | a clock that goes back |
| `EntriesAlwaysCover`, `CacheCovers`, `RetriesAreFree` | the cache against the time window, for each payment whose requests all keep to `TimeoutsWithinTtl` | a clock that goes back |
| `AuthTypeCorrect`, `ReplaysWereAccepted` | types; a replay was accepted before | a clock that goes back |
| `AcceptancesAreApart` | a signed request is accepted again only by a reading a whole skew later, less the time `authenticate()` takes | a clock that goes back |
| `SecondAcceptanceNeedsEarly` | and only if one of its deliveries was read ahead of its timestamp, or within `Span` after it | a clock that goes back |
| `RemembersWindow` | an accepted request is remembered for the skew after its reading; if that was not ahead of its timestamp, for all of its window | a clock that goes back |
| `StoreIsBounded` | entries are forgotten | needs `Span <= Skew` |
| `BalanceTypeCorrect`, `FlagsFollowBalances` | types; the balance gate of Node | nothing |
| `ClientTypeCorrect`, `ReportsTrue`, `SentWasSigned`, `DoubtBeforeSecondPayment` | the paying side, whatever the facilitator does within its promise | nothing |
| `HonestPaymentsVerify` | signer and verification agree on the window | skew beyond the grace |

`TimeoutsWithinTtl(k)` says that no request for payment `k` allows it more time than
the cache keeps an entry; it is part of the three properties, so one payer's long
timeout takes nothing from another's. `KeyDeterminesTerms` says that a payer signs
one set of terms per nonce. `TermsTellKeys` says that two payments of the same
payer, recipient and value are one payment. Both are conditions on callers, not on the
code, and both are needed: two alike payments with two nonces are legal, and with them
a lost transaction can be replaced by another one of the wallet whose receipt looks
right (`replaced_receipt`). On Node the mutex spans the receipt wait, nobody can take
the nonce meanwhile, and `TermsTellKeys` is not needed.

No condition on callers saves the *hash* on Workers once transactions are lost. When a
put failed, the mempool lost the transaction and a retry sent the same authorization
at the same nonce with other fees, a first request that still waits is brought the
receipt of the second transaction: it answers with the hash it sent, the retry with
the new one. `SuccessesAgree` is therefore proved without lost transactions only
(TLC finds it violated on the instance of `worker_safety`), and what is proved and
checked in spite of them is `SuccessIsSeen`.

Nothing is assumed of the clocks of those who sign HTTP requests. A nonce is kept for
`Skew + 1` seconds from the reading and not from the timestamp, so what can be proved
of it is a distance between readings: `AcceptancesApart`. A second
acceptance thus needs a first one that was read before its timestamp, or less than
`Span` after it (`SecondAcceptanceNeedsEarly`). Requests that are read later than that
are protected in the whole window of their timestamp. Those that are read within
`Span` may meet a collected entry only in the last moments of the window, by a delivery
that is in its awaits just then; those that are read ahead of their timestamp may meet
it as many seconds before the end of the window as the signer's clock is ahead
(`auth_ahead`).

The refinement excludes a second host because what that host sends for a key was
sent by none of the requests that the promise speaks of.

The arguments:

* **Record store.** `BoundedRebroadcasts` is not inductive. `BroadcastsAccounted` is:
  every broadcast of a key is either recorded, about to be recorded by the holder of
  the lane, or counted as forgotten. It needs `GateHolds` (nobody wrote a record
  since the holder passed the gate), which needs `LaneHeld` (the lane is a lock), and
  `HashesAreIssued` needs `RecordingIssued` and `NothingYet`.
* **Nonces.** Between the read and the send the chosen nonce must stay free
  (`PickedIsFree`). Only a holder of the lock adds a transaction, so the lock and
  `PickedIsFree` together are inductive. A reorg or a drop removes transactions and
  cannot hurt; a foreign sender can, and is excluded. Gaps are another matter: a
  holder that was given the next nonce must find all below it taken when it sends
  (`PickedIsNext`), which is so as long as nothing is lost. A foreign sender takes
  the next nonce itself (`ChainAddsNext`) and makes no gap.
* **Receipts.** `ReceiptsAreOwn` and `ReceiptsAreOfKey` say whose receipt can pass
  the check of its Transfer event: the hash's own, by `NothingSentIsLost` and the
  unique nonces, or one for the same key, because the terms tell the key. On Node
  `OwnReceipts` needs neither: whoever waits for a receipt is the only one past the
  queue, so nothing with its nonce can be added.
* **Worker.** Every step of the handler is a step of the signer or leaves it alone,
  so the signer's theorems carry over by `ImplementsSigner`. `PaidInv` says of cache
  entries what `SuccessIsPaid` says of answers, `KeyPaidInv` only that the key was
  paid, which is enough for the refinement, and `TransferInv` only that a transfer
  with these terms was made at the nonce that is named, which survives every
  replacement; with the unique nonces it gives `SuccessIsSeen`. With `PaidOnce`, that
  the contract pays a key once (`ChainPaysOnce`), `PaidInv` makes all successes of a
  key agree. `HandlerFollowsStage` ties the handler to its call in the lane for the
  empty failures; with `LiveIsIssued` and `AnsweredOnce` it gives `LiveIsNotRefused`.
* **Node.** `MutexHeld`: past the queue only the head of the line. `LineIsExact`: a
  request joins the line when it is queued and leaves it with its answer, whichever
  way it fails, so the head is never one that has gone; this is the safety half of
  `NodeRequestsAnswered`. `Watched`: a broadcast that was not abandoned is being
  watched by the holder, or its key is consumed on chain; and a holder about to send
  has no broadcast of its key that is not abandoned, because the estimate that let it
  pass saw the key unconsumed and nobody else can be waiting. This is where the mutex
  replaces the Durable Object's record, and why reorgs are excluded.
* **Gates.** `BucketsCount`: the bucket a payer counts in is the history of the
  current window, and nothing was admitted in later ones; when the clock enters a new
  window the old bucket no longer counts, and pruning removes only buckets that do
  not count. `EntriesCover`: an entry was made when its authorization had at most
  `Ttl + Grace` seconds left, so when the entry expires (measured in milliseconds)
  the authorization has run out (measured in whole seconds, with the grace on both
  sides); this is `ExpiredHasRunOut`, by the bounds of the integer division.

* **Authentication.** `Readings`: a reading of the clock in flight is at most `Span`
  old. `EntryHolds`: until the end of the time its entry was given, an accepted
  request has an entry that lives as long. A second delivery is looked up `Span` after
  its reading at the latest; if that is within the time of the entry it meets it, so
  readings of two acceptances are a skew apart, less `Span`. As both readings lie at
  most a skew from the timestamp, the first one is less than `Span` past the
  timestamp. `EntryWasAccepted` gives the converse, that a replay is one.
* **Balances.** `CallsHonest`: a call brings back what the account had since it
  started. `OneRefresh` and `BootFresh`: while a host boots, its one refresh is under way
  or has stored the balance. `ServingFresh`: in any refresh period some refresh is
  under way or was stored right, unless the balance crossed the threshold since;
  the age of a call is bounded by `CallLimit`, which gives the delay of the gate.
* **The paying side.** The reports follow from `Settlement`: what was told stays
  true, `refused` means unsent for good, and a call that ended in another way has
  no report. `ClientInv` has one part per place that knows of a payment: what was
  signed, what was posted, what the server has, what the call was told. For the
  second payment the part that carries the proof is `CallInv`: the calls of a payment
  that was given up have come back, and without success. `SentWasSigned` follows
  from the order of the checks in `Checked`.

Liveness (`RequestsAnswered`, `CallsReturn`, `NodeRequestsAnswered`) is only
model-checked: fairness and ENABLED are beyond the prover. So are the violation
runs, by their nature. Every safety property of a passing run has a theorem. The
theorems `NoncesAreDense`, `NodeNoncesAreDense`, `NothingSentIsLost`,
`LineHoldsInFlight`, `SuccessSafety`, `AgreementOnHash`, `RefusedIsNotCharged`,
`SecondAcceptanceNeedsEarly` and the Node counterparts state properties that no passing
run lists; TLC was asked about
each of them on the instances above, without the excluded faults, before it was proved.

## 5. Where code and documents disagree

Four disagreements have a run that shows them, with the lines quoted in
`PROJECT.json`:

* `replaced_receipt`: `docs/threat-model.md:52-53` says that the Transfer event of the
  receipt is verified before success is declared. The event carries no authorization
  nonce and the receipt's hash is not looked at: when the mempool loses a transaction
  and the payer's next payment of the same terms takes its account nonce, both callers
  are told success, the first one with a hash that is in no block. What holds in that
  case too is `SuccessIsSeen`; on Node `ReceiptIsOwn` keeps it from happening. With
  payments that do not look alike the first caller's own payment is made, but a retry
  that sent it again with other fees still leaves it with the lost hash.
* `reverted_record`: `app.ts:277` invites a retry after the balance was fixed,
  but the Durable Object replays the record of the reverted transaction for 72
  hours. The re-broadcast after a reorg of `docs/threat-model.md:54` meets the
  same record.
* `auth_ahead`: `auth.ts:26-28`, `:193-196` and `:271` and
  `docs/threat-model.md:41-43` say that a used nonce is refused while the request's
  timestamp is in the window. The window is symmetric (`Math.abs`, `auth.ts:242`) and
  admits timestamps up to the skew (300 s) ahead of the facilitator's clock, while the
  nonce expires `Skew + 1` s after the reading (`auth.ts:272`). For a signer whose
  clock is k seconds ahead, k >= 1, the nonce may be forgotten k seconds before the
  window is over, and a second delivery is accepted then, even if `authenticate()`
  takes no time (`Span` is 0 in the run). An expiry counted from the later of reading
  and timestamp would do what the comments say. On chain a second settle is harmless,
  since the authorization has its own nonce.
* `balance_isolates`: `docs/runbook.md:28` says that the next refresh clears the
  critical flag after a top-up. On Workers a refresh reaches one isolate.

Noted while modelling, without a run:

* The comment at `relayer-signer-do.ts:230-232` says that no retry can find "no
  record" after a broadcast. It can, if the RPC call that sent the transaction ended
  in an error, the put failed, or the object was reset before it.
  `RebroadcastBounded` says what remains: each such loss allows one more broadcast.
* `docs/runbook.md:59` says a replay that misses the cache hits the record and
  succeeds. Verification runs first and answers `authorization_already_used` once
  the payment is mined. `/settle-status` is what finds the record then
  (`StatusTruthful`).
* The cache answers another authorization with the same payer and nonce by
  `success`, with the new request's amount and the old one's hash
  (`docs/threat-model.md:51-53` says the Transfer event is verified first).
  `SuccessIsPaid` fails where `KeyDeterminesTerms` does.
* `nonce-cache.ts:10-12` says that an entry outlives the authorization that produced
  it. The life of an authorization is bounded by the `maxTimeoutSeconds` of the
  request's own requirements, any positive integer (`schemas.ts:72`), and the hosts
  keep entries for 300 s (the comment says 600). `CacheOutlivesAuthorization` says
  nothing of a payment for which `TimeoutsWithinTtl` does not hold.
* `schemas.ts:35-37` admits amounts with leading zeros, `signPaymentPayload` writes
  the value without them, and `verify.ts:180` compares the strings: such a payment,
  which `tools.ts:80` calls "ready for /verify or /settle", is refused with
  `value_mismatch`. `HonestPaymentVerifies` is stated of plain amounts.
* With `maxTimeoutSeconds` of 6 s or less the grace takes the whole life of a payment
  and `signPaymentPayload` makes none that verifies.
* `FacilitatorClient` sends no `Authorization` header, so a facilitator with HMAC keys
  answers it 401 with a body that the schemas reject: each call throws.
* The 503 of the balance gate is thrown by `readJson` although its body is a plain
  refusal: the agent is left in doubt without need.
* `index.ts:74` fixes the thresholds of the Worker's `BalanceCache`; the configured
  `relayerBalance` is used on Node only. `balance-cache.ts:8` promises a lazy
  first read that `isCritical` does not make.
* `settle-runner.ts:28-29` and `:96-97` say that receipts are waited for outside the
  lock; `InProcessSettleRunner.settle` holds it throughout, as the comment at
  `:109` admits. `NodeSettle` follows the code.
* Failure answers of `app.ts:282` carry a hash when there is one, while
  `schemas.ts:135` and `docs/openapi.yaml` describe an empty string.
* With a reorg `SuccessIsPaid` and the refinement fail, as for any system that
  answers after one confirmation.
* The rate limiter's windows are fixed and aligned to the epoch;
  `docs/threat-model.md:32` and `.env.example:56` call them rolling. What holds is
  `WindowBudget`, per aligned window, and so up to two budgets in a span of the
  window's length that crosses a boundary.
* `.env.example:34-36` says that broadcasts of several processes with one relayer
  wallet "serialise cleanly through the RPC mempool". The pending count is read in
  one call and used in a later one, so `NonceUnique` needs the wallet to have one
  host per chain (`NonceSafety` assumes it). `worker_faults` has a second host and
  shows that the record store stays sound.

## 6. What is not modelled, and the plan

| part | why |
|---|---|
| the lower bound of `checkTimeWindow` against the contract's strict inequality, block time | the chain under the hosts has phases of a window, not seconds; `PayingClient` has the contract's own bounds but not its revert |
| repricing of a transaction that is still in the mempool (`docs/runbook.md`) | done by hand; no code in `src/` names a nonce, and the mempool of the model holds one transaction for each. What is lost and sent again at its nonce, with the same or other fees or for another authorization, is modelled (`Fees`, `ReceiptsOf`) |
| an RPC endpoint whose pending count lags behind another's (`rpc.ts:83`) | the pending count of the model is exact; it would be another fault of `JpycChain` |
| rate limiter and balance gate inside the two hosts | a free choice there, modelled with their state in `Gates` and `BalanceCache` |
| `/supported`, `/discovery/resources`, `/health`, `facilitator_supported` | read configuration, no state |
| search of revert texts (`revert.ts`), base64url, schemas, builders, viem chains, ABI | encodings and data |
| configuration, RPC and signer construction, MCP wiring | run once, or pure I/O |
| HMAC over several isolates | each has its own used nonces (`auth.ts:198`); the properties are per process |

What could come next: `PayingClient` with `/settle-status` as the way out of doubt,
composed with `StatusTruthful`; seconds for the blocks of `JpycChain`; lagging
endpoints. `BalanceCache` would profit from a statement for Workers: what holds
there is `FlagFollowsBalance` of the isolate that was refreshed last.

To repeat a run: `tlc -config NodeSafety.cfg MCNodeSettle`; a proof:
`tlapm NodeSettleProofs.tla`.
