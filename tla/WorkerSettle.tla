----------------------------- MODULE WorkerSettle -----------------------------
(***************************************************************************)
(* POST /settle on the Cloudflare Workers host: the handler in             *)
(* packages/facilitator/src/app.ts, run by WorkerSettleRunner              *)
(* (apps/worker/src/worker-settle-runner.ts).  A request runs in one       *)
(* isolate; each isolate has a NonceCache and a rate limiter of its own.   *)
(* It verifies with three chain reads, calls broadcast() of the chain's    *)
(* RelayerSignerDO, then waits for the receipt outside that lane.          *)
(***************************************************************************)
EXTENDS RelayerSigner

CONSTANT Isolates

VARIABLES
    handler,    \* the await at which the request's handler is
    isolate,    \* where the request runs
    cache,      \* the NonceCache of each isolate
    answer,     \* the outcome the caller is sent
    answerTx    \* the "transaction" of that response, NoTx for ""

handlerVars == <<handler, isolate, cache, answer, answerTx>>
workerVars == <<vars, handlerVars>>

Handling == {"used", "balance", "simulate", "lane", "receipt"}
HandlerSteps == {"new", "answered", "lost"} \cup Handling

AnswerCodes ==
    Codes \cup {"success", "facilitator_rate_limited",
                "authorization_already_used", "unexpected_verify_error",
                "invalid_payload", "receipt wait failed", "tx reverted on-chain",
                "Transfer event in receipt did not match"}

WorkerInit ==
    /\ Init
    /\ handler = [r \in Requests |-> "new"]
    /\ isolate \in [Requests -> Isolates]
    /\ cache = [i \in Isolates |-> [k \in Keys |-> NoTx]]
    /\ answer = [r \in Requests |-> "none"]
    /\ answerTx = [r \in Requests |-> NoTx]

------------------------------------------------------------------------------

\* Mutation: the cache is keyed by payer.
CachedForPayer(r) ==
    LET hits == {a \in Auths : /\ PayerOf[a] = PayerOf[want[r]]
                               /\ cache[isolate[r]][KeyOf[a]] # NoTx}
    IN  IF hits = {} THEN NoTx ELSE cache[isolate[r]][KeyOf[CHOOSE a \in hits : TRUE]]

Cached(r) == cache[isolate[r]][KeyWanted(r)]

Answer(r, result, tx) ==
    /\ handler' = [handler EXCEPT ![r] = "answered"]
    /\ answer' = [answer EXCEPT ![r] = result]
    /\ answerTx' = [answerTx EXCEPT ![r] = tx]
    /\ UNCHANGED isolate

Fail(r, result, tx) == Answer(r, result, tx) /\ UNCHANGED cache

Goto(r, step) ==
    /\ handler' = [handler EXCEPT ![r] = step]
    /\ UNCHANGED <<isolate, cache, answer, answerTx>>

\* From parsing to the first chain read: cache, rate limit, balance gate.
Arrive(r) ==
    /\ handler[r] = "new"
    /\ \/ Cached(r) # NoTx /\ Fail(r, "success", Cached(r))
       \/ /\ Cached(r) = NoTx
          /\ \/ \E refusal \in {"facilitator_rate_limited",
                                "facilitator_insufficient_native_balance"} :
                    Fail(r, refusal, NoTx)
             \/ Goto(r, "used")
    /\ UNCHANGED vars

\* A step of verification ended: on to the next one, or the answer.
Proceed(r, outcome, step) ==
    \/ outcome = "ok" /\ Goto(r, step)
    \/ outcome # "ok" /\ Fail(r, outcome, NoTx)

ReadUsed(r) ==
    /\ handler[r] = "used"
    /\ \E outcome \in UsedRead(want[r]) : Proceed(r, outcome, "balance")
    /\ UNCHANGED vars

ReadBalance(r) ==
    /\ handler[r] = "balance"
    /\ \E outcome \in BalanceRead(want[r]) : Proceed(r, outcome, "simulate")
    /\ UNCHANGED vars

\* simulateContract ends verification; then the lane is called.
Simulate(r) ==
    /\ handler[r] = "simulate"
    /\ "ok" \in Simulation(want[r])
    /\ Goto(r, "lane")
    /\ Call(r)

SimulateFails(r) ==
    /\ handler[r] = "simulate"
    /\ \E outcome \in Simulation(want[r]) \ {"ok"} : Fail(r, outcome, NoTx)
    /\ UNCHANGED vars

\* Mutation: the answer does not wait for a receipt.
LaneReturnedAnswers(r) ==
    /\ handler[r] = "lane"
    /\ \/ stage[r] = "refused" /\ Fail(r, code[r], NoTx)
       \/ stage[r] = "threw" /\ Fail(r, "invalid_payload", NoTx)
       \/ stage[r] \in {"broadcast", "replayed"} /\ Fail(r, "success", hash[r])
    /\ UNCHANGED vars

\* Mutation: the reason is not cut at its colon.
LaneReturnedInFull(r) ==
    /\ handler[r] = "lane"
    /\ stage[r] = "refused"
    /\ Fail(r, IF code[r] = "unexpected_settle_error"
               THEN "unexpected_settle_error: timeout" ELSE code[r], NoTx)
    /\ UNCHANGED vars

\* broadcast() returned or threw.
LaneReturned(r) ==
    /\ handler[r] = "lane"
    /\ \/ stage[r] = "refused" /\ Fail(r, code[r], NoTx)
       \/ stage[r] = "threw" /\ Fail(r, "invalid_payload", NoTx)
       \/ stage[r] \in {"broadcast", "replayed"} /\ Goto(r, "receipt")
    /\ UNCHANGED vars

\* Mutation: receipt.status is not looked at.
ReceiptExists(r) ==
    /\ handler[r] = "receipt"
    /\ ReceiptsOf(hash[r]) # {}
    /\ Answer(r, "success", hash[r])
    /\ cache' = [cache EXCEPT ![isolate[r]][KeyWanted(r)] = hash[r]]
    /\ UNCHANGED vars

\* A receipt with the Transfer event that was asked for.
ReceiptMatches(r) ==
    /\ handler[r] = "receipt"
    /\ \E t \in ReceiptsOf(hash[r]) \cap mined : SameTerms(t.auth, want[r])
    /\ Answer(r, "success", hash[r])
    /\ cache' = [cache EXCEPT ![isolate[r]][KeyWanted(r)] = hash[r]]
    /\ UNCHANGED vars

\* Mutation: a receipt wait that times out answers without the hash.
ReceiptFailsEmpty(r) ==
    /\ handler[r] = "receipt"
    /\ Fail(r, "receipt wait failed", NoTx)
    /\ UNCHANGED vars

\* Mutation: no receiptTimeoutMs.
ReceiptFailsLate(r) ==
    /\ handler[r] = "receipt"
    /\ ReceiptsOf(hash[r]) \cap reverted # {}
    /\ Fail(r, "tx reverted on-chain", hash[r])
    /\ UNCHANGED vars

\* A receipt of another kind, or none within receiptTimeoutMs.
ReceiptFails(r) ==
    /\ handler[r] = "receipt"
    /\ \/ /\ ReceiptsOf(hash[r]) \cap reverted # {}
          /\ Fail(r, "tx reverted on-chain", hash[r])
       \/ /\ \E t \in ReceiptsOf(hash[r]) \cap mined : ~ SameTerms(t.auth, want[r])
          /\ Fail(r, "Transfer event in receipt did not match", hash[r])
       \/ Fail(r, "receipt wait failed", hash[r])
    /\ UNCHANGED vars

Handle(r) ==
    \/ Arrive(r) \/ ReadUsed(r) \/ ReadBalance(r) \/ Simulate(r)
    \/ SimulateFails(r) \/ LaneReturned(r) \/ ReceiptMatches(r) \/ ReceiptFails(r)

\* An entry of a NonceCache outlives its ttl.
CacheExpires(i, k) ==
    /\ cache[i][k] # NoTx
    /\ cache' = [cache EXCEPT ![i][k] = NoTx]
    /\ UNCHANGED <<vars, handler, isolate, answer, answerTx>>

\* The isolate goes away; its callers get no answer, its lane calls go on.
Evict(i) ==
    /\ "evict" \in Faults
    /\ \E r \in Requests : isolate[r] = i /\ handler[r] \in Handling
    /\ handler' = [r \in Requests |->
                      IF isolate[r] = i /\ handler[r] \in Handling
                      THEN "lost" ELSE handler[r]]
    /\ cache' = [cache EXCEPT ![i] = [k \in Keys |-> NoTx]]
    /\ UNCHANGED <<vars, isolate, answer, answerTx>>

SignerMoves ==
    /\ \/ \E r \in Requests : Lane(r)
       \/ Upkeep
       \/ ChainMoves
    /\ UNCHANGED handlerVars

Served ==
    /\ \A r \in Requests : handler[r] \in {"answered", "lost"}
    /\ \A r \in Requests : stage[r] \in {"idle"} \cup Returned
    /\ UNCHANGED workerVars

WorkerNext ==
    \/ \E r \in Requests : Handle(r)
    \/ \E i \in Isolates : Evict(i)
    \/ \E i \in Isolates, k \in Keys : CacheExpires(i, k)
    \/ SignerMoves
    \/ Served

WorkerSpec == WorkerInit /\ [][WorkerNext]_workerVars

(***************************************************************************)
(* The JavaScript runtime runs every continuation that is ready, and every *)
(* await of the handler and of the lane ends: RPC calls and the receipt    *)
(* wait have timeouts.                                                     *)
(***************************************************************************)
WorkerFairness ==
    \A r \in Requests :
        /\ WF_workerVars(handler[r] # "new" /\ Handle(r))
        /\ WF_workerVars(Lane(r) /\ UNCHANGED handlerVars)

WorkerFairSpec == WorkerSpec /\ WorkerFairness

------------------------------------------------------------------------------

WorkerTypeOK ==
    /\ TypeOK
    /\ handler \in [Requests -> HandlerSteps]
    /\ isolate \in [Requests -> Isolates]
    /\ cache \in [Isolates -> [Keys -> Txs \cup {NoTx}]]
    /\ answer \in [Requests -> AnswerCodes]
    /\ answerTx \in [Requests -> Txs \cup {NoTx}]

(***************************************************************************)
(* A caller told "success" was told the hash of a transaction in a block   *)
(* that moved the funds its authorization promised, whether the answer     *)
(* came from a receipt, from a cache, or by way of a replayed record.      *)
(***************************************************************************)
SuccessIsPaid ==
    \A r \in Requests :
        answer[r] = "success" =>
            /\ answerTx[r] \in mined
            /\ Key(answerTx[r]) = KeyWanted(r)
            /\ SameTerms(answerTx[r].auth, want[r])

(***************************************************************************)
(* Failures too name only transactions that were broadcast for the same    *)
(* (payer, nonce), and so does whatever a later retry finds in a cache.    *)
(***************************************************************************)
AnswersNameIssued ==
    /\ \A r \in Requests :
           answerTx[r] # NoTx => /\ answerTx[r] \in Issued
                                 /\ Key(answerTx[r]) = KeyWanted(r)
    /\ \A i \in Isolates, k \in Keys :
           cache[i][k] # NoTx => cache[i][k] \in Issued /\ Key(cache[i][k]) = k

\* Mutation: the durable record is not asked for, as on the Node host.
StatusFromCache(i, k) == cache[i][k]

\* The hash POST /settle-status answers in an isolate; NoTx is known: false.
\* getSettleRecord waits until no broadcast() is in the lane.
SettleStatus(i, k) == IF cache[i][k] # NoTx THEN cache[i][k] ELSE record[k]

(***************************************************************************)
(* A caller in doubt asks /settle-status, in any isolate: it names only a  *)
(* transaction that was broadcast for this (payer, nonce), and it says     *)
(* known: false only if every broadcast made so far lost its record (the   *)
(* comment at app.ts:321-331 makes just this reservation).                 *)
(***************************************************************************)
StatusTruthful ==
    \A i \in Isolates, k \in Keys :
        LET status == SettleStatus(i, k)
        IN  /\ status # NoTx => status \in Issued /\ Key(status) = k
            /\ lane = NoOne /\ status = NoTx => broadcasts[k] <= forgets[k]

\* The reasons that do not say whether a transaction is out.
Doubtful == {"unexpected_settle_error", "invalid_payload"}

(***************************************************************************)
(* A failure with a definite reason and no hash tells the caller that this *)
(* request put nothing into the mempool.  Two reasons leave that open:     *)
(* unexpected_settle_error, and invalid_payload, the answer to any thrown  *)
(* exception (in production; elsewhere it is the exception's message).     *)
(***************************************************************************)
EmptyFailureSentNothing ==
    \A r \in Requests :
        (/\ handler[r] = "answered"
         /\ answerTx[r] = NoTx
         /\ answer[r] \notin Doubtful)
            => issued[r] = NoTx

(***************************************************************************)
(* A request that a live isolate took up is answered.                      *)
(***************************************************************************)
RequestsAnswered ==
    \A r \in Requests :
        handler[r] = "used" ~> handler[r] \in {"answered", "lost"}

(***************************************************************************)
(* The /settle handler keeps the promises of Settlement.  The two reasons  *)
(* that do not say whether a transaction is out, and any failure that      *)
(* names one, leave the caller in doubt; every other failure refuses.      *)
(***************************************************************************)
Told(r) ==
    IF answer[r] \in {"none", "success"}
    THEN IF answer[r] = "none" THEN "nothing" ELSE "success"
    ELSE IF answer[r] \in Doubtful \/ answerTx[r] # NoTx THEN "unclear" ELSE "refused"

Sent == {r \in Requests : issued[r] # NoTx}

Promise == INSTANCE Settlement
    WITH asks <- [r \in Requests |-> KeyWanted(r)],
         sent <- Sent,
         paid <- {Key(t) : t \in mined},
         told <- [r \in Requests |-> Told(r)]

KeepsPromise == Promise!Spec

(***************************************************************************)
(* Callers told "success" for one (payer, nonce) were told the same hash,  *)
(* whichever isolate answered, from its cache, by way of the record or by  *)
(* a receipt of its own.                                                   *)
(***************************************************************************)
SuccessesAgree ==
    \A q, r \in Requests :
        answer[q] = "success" /\ answer[r] = "success" /\ KeyWanted(q) = KeyWanted(r)
            => answerTx[q] = answerTx[r]

(***************************************************************************)
(* Whatever replaced a lost transaction, a caller told "success" was told  *)
(* the hash of one at whose account nonce a block shows a transfer with    *)
(* the terms it asked for; and that transfer is the one it was told,       *)
(* unless the mempool lost that one.                                       *)
(***************************************************************************)
SuccessIsSeen ==
    \A r \in Requests :
        answer[r] = "success" =>
            \E t \in mined : /\ t.nonce = answerTx[r].nonce
                             /\ SameTerms(t.auth, want[r])
                             /\ answerTx[r] \in Live => t = answerTx[r]

(***************************************************************************)
(* What is in the mempool or in a block was put there by a request whose   *)
(* caller was not refused: a caller refused by every call it made for an   *)
(* authorization will not be charged for it later.                         *)
(***************************************************************************)
LiveIsNotRefused ==
    \A t \in Live :
        \E r \in Requests : issued[r] = t /\ want[r] = t.auth /\ Told(r) # "refused"

------------------------------------------------------------------------------
(***************************************************************************)
(* The inductive invariants behind SuccessIsPaid, AnswersNameIssued and    *)
(* EmptyFailureSentNothing.                                                *)
(***************************************************************************)

\* A receipt brought for a request's hash that shows the request's terms is
\* that of the hash, or at least that of a transaction for the request's key.
ReceiptsAreOwn ==
    \A r \in Requests, t \in mined :
        t \in ReceiptsOf(hash[r]) /\ SameTerms(t.auth, want[r]) => t = hash[r]

ReceiptsAreOfKey ==
    \A r \in Requests, t \in mined :
        t \in ReceiptsOf(hash[r]) /\ SameTerms(t.auth, want[r])
            => Key(t) = KeyWanted(r)

AnsweredOnce == \A r \in Requests : handler[r] # "answered" => answer[r] = "none"

\* Successes and cache entries name transactions that moved the key's funds.
PaidInv ==
    /\ \A r \in Requests :
           answer[r] = "success" =>
               answerTx[r] \in mined /\ Key(answerTx[r]) = KeyWanted(r)
    /\ \A i \in Isolates, k \in Keys :
           cache[i][k] # NoTx => cache[i][k] \in mined /\ Key(cache[i][k]) = k

\* The key was paid, if perhaps not by the transaction that is named.
KeyPaidInv ==
    /\ \A r \in Requests : answer[r] = "success" => Consumed(KeyWanted(r))
    /\ \A i \in Isolates, k \in Keys : cache[i][k] # NoTx => Consumed(k)

\* A block shows, at the account nonce that is named, a transfer with the terms
\* of each success and cache entry.
TransferInv ==
    /\ \A r \in Requests :
           answer[r] = "success" =>
               \E t \in mined : /\ t.nonce = answerTx[r].nonce
                                /\ SameTerms(t.auth, want[r])
    /\ \A i \in Isolates, a \in Auths :
           cache[i][KeyOf[a]] # NoTx =>
               \E t \in mined : /\ t.nonce = cache[i][KeyOf[a]].nonce
                                /\ SameTerms(t.auth, a)

\* Where a request's broadcast() call can be, by where its handler is.
HandlerFollowsStage ==
    \A r \in Requests :
        /\ handler[r] \in {"new", "used", "balance", "simulate"} => stage[r] = "idle"
        /\ handler[r] = "receipt" => stage[r] \in {"broadcast", "replayed"}
        /\ handler[r] = "answered" =>
               \/ stage[r] = "idle"
               \/ stage[r] = "refused" /\ answer[r] = code[r]
               \/ stage[r] = "threw" /\ answer[r] = "invalid_payload"
               \/ stage[r] \in {"broadcast", "replayed"} /\ answerTx[r] # NoTx

EmptyInv == HandlerFollowsStage /\ RefusalSentNothing

\* Whatever may be mined was put into the mempool by a request for it.
LiveIsIssued ==
    \A t \in Live : \E r \in Requests : issued[r] = t /\ want[r] = t.auth
==============================================================================
