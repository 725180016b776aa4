----------------------------- MODULE NodeSettle -----------------------------
(***************************************************************************)
(* POST /settle on the Node host: the handler in                           *)
(* packages/facilitator/src/app.ts, run by InProcessSettleRunner           *)
(* (settle-runner.ts) in the one process that apps/server/src/main.ts      *)
(* starts.  The runner's mutex is a chain of promises, here the line of    *)
(* requests; its holder verifies, sends and waits for the receipt before   *)
(* the next one starts.  Nothing outlives the process.                     *)
(***************************************************************************)
EXTENDS Verification, Sequences

CONSTANT Requests

VARIABLES
    process,    \* "up", "draining" after SIGTERM, or "down"
    want,       \* the authorization each request carries
    handler,    \* the await at which the request's handler is
    line,       \* the requests in runSerialised, the holder first
    picked,     \* the account nonce and fees viem found for it
    cache,      \* the NonceCache
    answer,     \* the outcome the caller is sent
    answerTx,   \* the "transaction" of that response, NoTx for ""
    issued,     \* history: the transaction the request put into the mempool
    broadcasts, \* history: how often a key's authorization was broadcast
    abandoned   \* history: how often the outcome of such a broadcast was not
                \* seen to be a payment

hostVars == <<process, want, handler, line, picked, cache, answer, answerTx>>
historyVars == <<issued, broadcasts, abandoned>>
nodeVars == <<chainVars, hostVars, historyVars>>

Working == {"balance", "simulate", "preparing", "sending", "receipt"}
InFlight == {"queued"} \cup Working
HandlerSteps == {"new", "answered", "lost"} \cup InFlight

AnswerCodes ==
    Codes \cup {"success", "facilitator_rate_limited",
                "authorization_already_used", "unexpected_verify_error",
                "receipt wait failed", "tx reverted on-chain",
                "Transfer event in receipt did not match"}

KeyWanted(r) == KeyOf[want[r]]

OwnTx(r) == [nonce |-> picked[r].nonce, auth |-> want[r], fee |-> picked[r].fee]

NodeInit ==
    /\ ChainInit
    /\ process = "up"
    /\ want \in [Requests -> Auths]
    /\ handler = [r \in Requests |-> "new"]
    /\ line = <<>>
    /\ picked = [r \in Requests |-> [nonce |-> 0, fee |-> NoFee]]
    /\ cache = [k \in Keys |-> NoTx]
    /\ answer = [r \in Requests |-> "none"]
    /\ answerTx = [r \in Requests |-> NoTx]
    /\ issued = [r \in Requests |-> NoTx]
    /\ broadcasts = [k \in Keys |-> 0]
    /\ abandoned = [k \in Keys |-> 0]

------------------------------------------------------------------------------

Answer(r, result, tx) ==
    /\ handler' = [handler EXCEPT ![r] = "answered"]
    /\ answer' = [answer EXCEPT ![r] = result]
    /\ answerTx' = [answerTx EXCEPT ![r] = tx]
    /\ UNCHANGED <<process, want, picked>>

\* The runner releases the mutex and the handler answers.
Release(r, result, tx) == Answer(r, result, tx) /\ line' = Tail(line)

Refuse(r, reason) ==
    /\ Release(r, reason, NoTx)
    /\ UNCHANGED <<chainVars, cache, historyVars>>

Goto(r, step) ==
    /\ handler' = [handler EXCEPT ![r] = step]
    /\ UNCHANGED <<process, want, line, cache, answer, answerTx>>

\* A step of verification ended: on to the next one, or the answer.
Proceed(r, outcome, step) ==
    \/ /\ outcome = "ok"
       /\ Goto(r, step)
       /\ UNCHANGED <<chainVars, picked, historyVars>>
    \/ outcome # "ok" /\ Refuse(r, outcome)

\* From parsing to runSerialised: cache, rate limit, balance gate.
Arrive(r) ==
    /\ process = "up"
    /\ handler[r] = "new"
    /\ \/ /\ cache[KeyWanted(r)] # NoTx
          /\ Answer(r, "success", cache[KeyWanted(r)])
          /\ UNCHANGED line
       \/ /\ cache[KeyWanted(r)] = NoTx
          /\ \E refusal \in {"facilitator_rate_limited",
                              "facilitator_insufficient_native_balance"} :
                 Answer(r, refusal, NoTx)
          /\ UNCHANGED line
       \/ /\ cache[KeyWanted(r)] = NoTx
          /\ handler' = [handler EXCEPT ![r] = "queued"]
          /\ line' = Append(line, r)
          /\ UNCHANGED <<process, want, picked, answer, answerTx>>
    /\ UNCHANGED <<chainVars, cache, historyVars>>

\* Mutation: nobody waits for the previous promise.
MutexIgnored(r) == line # <<>>

\* "await previous" has returned.
HasMutex(r) == line # <<>> /\ Head(line) = r

ReadUsed(r) ==
    /\ handler[r] = "queued"
    /\ HasMutex(r)
    /\ \E outcome \in UsedRead(want[r]) : Proceed(r, outcome, "balance")

ReadBalance(r) ==
    /\ handler[r] = "balance"
    /\ \E outcome \in BalanceRead(want[r]) : Proceed(r, outcome, "simulate")

\* simulateContract, and settleExactPayment checks the time window again.
Simulate(r) ==
    /\ handler[r] = "simulate"
    /\ \E outcome \in Simulation(want[r]) :
           IF outcome = "ok" /\ TimeError(want[r]) # "none"
           THEN Refuse(r, TimeError(want[r]))
           ELSE Proceed(r, outcome, "preparing")

\* Mutation: the nonce is the "latest" transaction count.
PrepareLatest(r, n) ==
    /\ handler[r] = "preparing"
    /\ n \notin UsedNonces(InBlock) /\ 0 .. (n - 1) \subseteq UsedNonces(InBlock)
    /\ "ok" \in Estimate(want[r])
    /\ \E f \in Fees : picked' = [picked EXCEPT ![r] = [nonce |-> n, fee |-> f]]
    /\ Goto(r, "sending")
    /\ UNCHANGED <<chainVars, historyVars>>

\* writeContract reads the pending transaction count and the fees, and
\* estimates gas.
Prepare(r, n) ==
    /\ handler[r] = "preparing"
    /\ IsPendingCount(n)
    /\ "ok" \in Estimate(want[r])
    /\ \E f \in Fees : picked' = [picked EXCEPT ![r] = [nonce |-> n, fee |-> f]]
    /\ Goto(r, "sending")
    /\ UNCHANGED <<chainVars, historyVars>>

PrepareFails(r) ==
    /\ handler[r] = "preparing"
    /\ \E reason \in Estimate(want[r]) \ {"ok"} : Refuse(r, reason)

\* A node takes the raw transaction.
Broadcast(r) ==
    /\ handler[r] = "sending"
    /\ Accepts(OwnTx(r))
    /\ pending' = pending \cup {OwnTx(r)}
    /\ issued' = [issued EXCEPT ![r] = OwnTx(r)]
    /\ broadcasts' = [broadcasts EXCEPT ![KeyWanted(r)] = @ + 1]
    /\ UNCHANGED <<mined, reverted, balance, window>>

Send(r) ==
    /\ Broadcast(r)
    /\ Goto(r, "receipt")
    /\ UNCHANGED <<picked, abandoned>>

Abandon(r) == abandoned' = [abandoned EXCEPT ![KeyWanted(r)] = @ + 1]

\* The transaction is out and the RPC call ends in an error all the same.
SendAmbiguous(r) ==
    /\ "ambiguous" \in Faults
    /\ Broadcast(r)
    /\ Release(r, "unexpected_settle_error", NoTx)
    /\ Abandon(r)
    /\ UNCHANGED cache

SendRefused(r) ==
    /\ handler[r] = "sending"
    /\ "rpc" \in Faults \/ ~ Accepts(OwnTx(r))
    /\ \E reason \in {"facilitator_insufficient_native_balance",
                       "unexpected_settle_error"} : Refuse(r, reason)

\* Mutation: receipt.status is not looked at.
ReceiptExists(r) ==
    /\ handler[r] = "receipt"
    /\ ReceiptsOf(OwnTx(r)) # {}
    /\ Release(r, "success", OwnTx(r))
    /\ cache' = [cache EXCEPT ![KeyWanted(r)] = OwnTx(r)]
    /\ UNCHANGED <<chainVars, historyVars>>

\* Mutation: the receipt is not waited for.
ReceiptUnread(r) ==
    /\ handler[r] = "receipt"
    /\ Release(r, "success", OwnTx(r))
    /\ cache' = [cache EXCEPT ![KeyWanted(r)] = OwnTx(r)]
    /\ UNCHANGED <<chainVars, historyVars>>

\* A receipt with the Transfer event that was asked for.
ReceiptMatches(r) ==
    /\ handler[r] = "receipt"
    /\ \E t \in ReceiptsOf(OwnTx(r)) \cap mined : SameTerms(t.auth, want[r])
    /\ Release(r, "success", OwnTx(r))
    /\ cache' = [cache EXCEPT ![KeyWanted(r)] = OwnTx(r)]
    /\ UNCHANGED <<chainVars, historyVars>>

\* Mutation: a receipt wait that times out answers without the hash.
ReceiptFailsEmpty(r) ==
    /\ handler[r] = "receipt"
    /\ Release(r, "receipt wait failed", NoTx)
    /\ Abandon(r)
    /\ UNCHANGED <<chainVars, cache, issued, broadcasts>>

\* Mutation: no receiptTimeoutMs.
ReceiptFailsLate(r) ==
    /\ handler[r] = "receipt"
    /\ ReceiptsOf(OwnTx(r)) \cap reverted # {}
    /\ Release(r, "tx reverted on-chain", OwnTx(r))
    /\ Abandon(r)
    /\ UNCHANGED <<chainVars, cache, issued, broadcasts>>

\* A receipt of another kind, or none within receiptTimeoutMs.
ReceiptFails(r) ==
    /\ handler[r] = "receipt"
    /\ \/ /\ ReceiptsOf(OwnTx(r)) \cap reverted # {}
          /\ Release(r, "tx reverted on-chain", OwnTx(r))
       \/ /\ \E t \in ReceiptsOf(OwnTx(r)) \cap mined : ~ SameTerms(t.auth, want[r])
          /\ Release(r, "Transfer event in receipt did not match", OwnTx(r))
       \/ Release(r, "receipt wait failed", OwnTx(r))
    /\ Abandon(r)
    /\ UNCHANGED <<chainVars, cache, issued, broadcasts>>

Handle(r) ==
    \/ Arrive(r) \/ ReadUsed(r) \/ ReadBalance(r) \/ Simulate(r)
    \/ (\E n \in 0 .. MaxNonce : Prepare(r, n)) \/ PrepareFails(r)
    \/ Send(r) \/ SendAmbiguous(r) \/ SendRefused(r)
    \/ ReceiptMatches(r) \/ ReceiptFails(r)

\* An entry of the NonceCache outlives its ttl.
CacheExpires(k) ==
    /\ cache[k] # NoTx
    /\ cache' = [cache EXCEPT ![k] = NoTx]
    /\ UNCHANGED <<chainVars, process, want, handler, line, picked, answer,
                   answerTx, historyVars>>

\* SIGTERM: the server takes no more requests.
Terminate ==
    /\ process = "up"
    /\ process' = "draining"
    /\ UNCHANGED <<chainVars, want, handler, line, picked, cache, answer,
                   answerTx, historyVars>>

Waiting(k) == \E r \in Requests : handler[r] = "receipt" /\ KeyWanted(r) = k

\* All requests were drained, or 10 s are over, or the process is killed.
Exit ==
    /\ process = "draining" \/ (process = "up" /\ "evict" \in Faults)
    /\ process' = "down"
    /\ handler' = [r \in Requests |->
                      IF handler[r] \in InFlight THEN "lost" ELSE handler[r]]
    /\ line' = <<>>
    /\ cache' = [k \in Keys |-> NoTx]
    /\ abandoned' = [k \in Keys |-> IF Waiting(k) THEN abandoned[k] + 1
                                                  ELSE abandoned[k]]
    /\ UNCHANGED <<chainVars, want, picked, answer, answerTx, issued, broadcasts>>

Restart ==
    /\ process = "down"
    /\ process' = "up"
    /\ UNCHANGED <<chainVars, want, handler, line, picked, cache, answer,
                   answerTx, historyVars>>

ChainMoves == ChainStep /\ UNCHANGED <<hostVars, historyVars>>

NodeNext ==
    \/ \E r \in Requests : Handle(r)
    \/ \E k \in Keys : CacheExpires(k)
    \/ Terminate \/ Exit \/ Restart
    \/ ChainMoves

NodeSpec == NodeInit /\ [][NodeNext]_nodeVars

(***************************************************************************)
(* The JavaScript runtime runs every continuation that is ready, and every *)
(* await of the handler ends: RPC calls and the receipt wait have          *)
(* timeouts, and the mutex is released by a finally clause.                *)
(***************************************************************************)
NodeFairness ==
    \A r \in Requests : WF_nodeVars(handler[r] # "new" /\ Handle(r))

NodeFairSpec == NodeSpec /\ NodeFairness

------------------------------------------------------------------------------

NodeTypeOK ==
    /\ ChainTypeOK
    /\ process \in {"up", "draining", "down"}
    /\ want \in [Requests -> Auths]
    /\ handler \in [Requests -> HandlerSteps]
    /\ line \in Seq(Requests)
    /\ picked \in [Requests -> [nonce : 0 .. MaxNonce, fee : Fees \cup {NoFee}]]
    /\ cache \in [Keys -> Txs \cup {NoTx}]
    /\ answer \in [Requests -> AnswerCodes]
    /\ answerTx \in [Requests -> Txs \cup {NoTx}]
    /\ issued \in [Requests -> Txs \cup {NoTx}]
    /\ broadcasts \in [Keys -> Nat]
    /\ abandoned \in [Keys -> Nat]

(***************************************************************************)
(* No two live transactions of the relayer wallet have the same account    *)
(* nonce, across restarts of the process too (settle-runner.ts:28-31:      *)
(* serialised per chain for nonce safety).                                 *)
(***************************************************************************)
NodeNonceUnique == \A t, u \in Live : t.nonce = u.nonce => t = u

(***************************************************************************)
(* Without any record an authorization is broadcast again only if the      *)
(* outcome of an earlier broadcast was not seen, or was a revert: the      *)
(* mutex spans verification and the receipt wait, and verification sees    *)
(* what was mined.                                                         *)
(***************************************************************************)
NodeRebroadcastBounded == \A k \in Keys : broadcasts[k] <= abandoned[k] + 1

(***************************************************************************)
(* A caller told "success" was told the hash of a transaction in a block   *)
(* that moved the funds its authorization promised.                        *)
(***************************************************************************)
NodeSuccessIsPaid ==
    \A r \in Requests :
        answer[r] = "success" =>
            /\ answerTx[r] \in mined
            /\ Key(answerTx[r]) = KeyWanted(r)
            /\ SameTerms(answerTx[r].auth, want[r])

(***************************************************************************)
(* A request that waits for a receipt is brought its own: no transaction   *)
(* of another request can have taken its account nonce, not even after the *)
(* mempool lost it, because the mutex spans the receipt wait.              *)
(***************************************************************************)
ReceiptIsOwn ==
    \A r \in Requests, t \in Live :
        handler[r] = "receipt" /\ t.nonce = picked[r].nonce => t = OwnTx(r)

(***************************************************************************)
(* A failure without a hash, and other than unexpected_settle_error, tells *)
(* the caller that this request put nothing into the mempool; one with a   *)
(* hash names the transaction this very request sent, never that of an     *)
(* earlier attempt (app.ts:277: the caller may retry).                     *)
(***************************************************************************)
NodeFailureIsOwn ==
    \A r \in Requests :
        handler[r] = "answered" /\ answer[r] # "success" =>
            \/ answer[r] = "unexpected_settle_error" /\ answerTx[r] = NoTx
            \/ answerTx[r] = issued[r]

(***************************************************************************)
(* Every request that waits for the mutex is answered, or lost with the    *)
(* process, although the holder's transaction may never be mined.          *)
(***************************************************************************)
NodeRequestsAnswered ==
    \A r \in Requests :
        handler[r] = "queued" ~> handler[r] \in {"answered", "lost"}

(***************************************************************************)
(* The /settle handler keeps the promises of Settlement.  The reason that  *)
(* does not say whether a transaction is out, and any failure that names   *)
(* one, leave the caller in doubt; every other failure refuses.            *)
(***************************************************************************)
Told(r) ==
    IF answer[r] \in {"none", "success"}
    THEN IF answer[r] = "none" THEN "nothing" ELSE "success"
    ELSE IF answer[r] = "unexpected_settle_error" \/ answerTx[r] # NoTx THEN "unclear" ELSE "refused"

Sent == {r \in Requests : issued[r] # NoTx}

Promise == INSTANCE Settlement
    WITH asks <- [r \in Requests |-> KeyWanted(r)],
         sent <- Sent,
         paid <- {Key(t) : t \in mined},
         told <- [r \in Requests |-> Told(r)]

NodeKeepsPromise == Promise!Spec

(***************************************************************************)
(* Callers told "success" for one (payer, nonce) were told the same hash,  *)
(* from the cache or by a receipt, before and after a restart.             *)
(***************************************************************************)
SuccessesAgree ==
    \A q, r \in Requests :
        answer[q] = "success" /\ answer[r] = "success" /\ KeyWanted(q) = KeyWanted(r)
            => answerTx[q] = answerTx[r]

(***************************************************************************)
(* What is in the mempool or in a block was put there by a request whose   *)
(* caller was not refused: a caller refused by every call it made for an   *)
(* authorization will not be charged for it later.                         *)
(***************************************************************************)
LiveIsNotRefused ==
    \A t \in Live :
        \E r \in Requests : issued[r] = t /\ want[r] = t.auth /\ Told(r) # "refused"

------------------------------------------------------------------------------
(***************************************************************************)
(* The inductive invariants behind the properties above.                   *)
(***************************************************************************)

\* Only the holder of the mutex is past the queue.
MutexHeld == \A r \in Requests : handler[r] \in Working => HasMutex(r)

\* The nonce viem read is still free when the transaction is sent.
PickedIsFree ==
    \A r \in Requests : handler[r] = "sending" => picked[r].nonce \notin UsedNonces(Live)

NodeNonceInv == PickedIsFree /\ NodeNonceUnique

\* A broadcast that was not abandoned is being watched, or it was mined.
Watched ==
    /\ \A k \in Keys :
           \/ broadcasts[k] <= abandoned[k]
           \/ broadcasts[k] = abandoned[k] + 1 /\ (Waiting(k) \/ Consumed(k))
    /\ \A r \in Requests :
           handler[r] = "sending" => broadcasts[KeyWanted(r)] <= abandoned[KeyWanted(r)]

AnsweredOnce == \A r \in Requests : handler[r] # "answered" => answer[r] = "none"

\* Successes and cache entries name transactions that moved the key's funds.
NodePaidInv ==
    /\ \A r \in Requests :
           answer[r] = "success" =>
               answerTx[r] \in mined /\ Key(answerTx[r]) = KeyWanted(r)
    /\ \A k \in Keys : cache[k] # NoTx => cache[k] \in mined /\ Key(cache[k]) = k
    /\ AnsweredOnce

\* What the request has put into the mempool, by where its handler is.
IssuedFollowsHandler ==
    \A r \in Requests :
        /\ handler[r] \in {"new", "queued"} \cup (Working \ {"receipt"})
               => issued[r] = NoTx
        /\ handler[r] = "receipt" => issued[r] = OwnTx(r)

\* While the chain loses nothing: no live transaction, and not the next one,
\* waits behind an account nonce that nobody has used.
NoncesDense == \A t \in Live : 0 .. (t.nonce - 1) \subseteq UsedNonces(Live)

PickedIsNext ==
    \A r \in Requests :
        handler[r] = "sending" => 0 .. (picked[r].nonce - 1) \subseteq UsedNonces(Live)

DenseInv == NoncesDense /\ PickedIsNext

\* The line holds each request that is in flight once, and no other.
LineIsExact ==
    /\ \A i, j \in 1 .. Len(line) : line[i] = line[j] => i = j
    /\ \A r \in Requests :
           handler[r] \in InFlight <=> \E i \in 1 .. Len(line) : line[i] = r

\* Whatever may be mined was put into the mempool by a request for it.
LiveIsIssued ==
    \A t \in Live : \E r \in Requests : issued[r] = t /\ want[r] = t.auth
==============================================================================
