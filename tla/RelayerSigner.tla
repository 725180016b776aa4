---------------------------- MODULE RelayerSigner ----------------------------
(***************************************************************************)
(* RelayerSignerDO, apps/worker/src/relayer-signer-do.ts: the Durable      *)
(* Object that owns the relayer wallet on one chain.  Its broadcast()      *)
(* method runs inside blockConcurrencyWhile, here the lane: at most one    *)
(* call is between entering and replying.  A call looks for the broadcast  *)
(* record of its (payer, nonce), checks the time window again, lets viem   *)
(* read the account nonce and estimate gas, sends the transaction, stores  *)
(* the record, and replies.  The receipt is the caller's business.         *)
(***************************************************************************)
EXTENDS Verification

CONSTANTS Requests, NoOne

ASSUME RequestAssumption == NoOne \notin Requests

VARIABLES
    want,       \* the authorization each request carries
    stage,      \* how far the request's broadcast() call has come
    picked,     \* the account nonce and fees viem found for it
    hash,       \* the txHash of its reply
    code,       \* the reason of its refusal
    lane,       \* the call inside blockConcurrencyWhile
    record,     \* storage: (payer, nonce) -> the transaction broadcast for it
    aged,       \* records older than SETTLE_RECORD_TTL_MS
    pruneDue,   \* lastPruneAt is more than PRUNE_INTERVAL_MS ago
    pruning,    \* a prune was handed to waitUntil and has not run
    issued,     \* history: the transaction the request put into the mempool
    broadcasts, \* history: how often a key's authorization was broadcast
    forgets     \* history: how often such a broadcast went unrecorded

callVars == <<want, stage, picked, hash, code, lane>>
storeVars == <<record, aged, pruneDue, pruning>>
historyVars == <<issued, broadcasts, forgets>>
signerVars == <<callVars, storeVars, historyVars>>
vars == <<chainVars, signerVars>>

InLane == {"preparing", "sending", "recording"}
Returned == {"broadcast", "replayed", "refused", "threw"}
Stages == {"idle", "queued"} \cup InLane \cup Returned

KeyWanted(r) == KeyOf[want[r]]

OwnTx(r) == [nonce |-> picked[r].nonce, auth |-> want[r], fee |-> picked[r].fee]

SignerInit ==
    /\ want \in [Requests -> Auths]
    /\ stage = [r \in Requests |-> "idle"]
    /\ picked = [r \in Requests |-> [nonce |-> 0, fee |-> NoFee]]
    /\ hash = [r \in Requests |-> NoTx]
    /\ code = [r \in Requests |-> "none"]
    /\ lane = NoOne
    /\ record = [k \in Keys |-> NoTx]
    /\ aged = {}
    /\ pruneDue = TRUE
    /\ pruning = FALSE
    /\ issued = [r \in Requests |-> NoTx]
    /\ broadcasts = [k \in Keys |-> 0]
    /\ forgets = [k \in Keys |-> 0]

Init == ChainInit /\ SignerInit

------------------------------------------------------------------------------

\* The callback returns { ok: false, reason } and the lane is free again.
Refuse(r, reason) ==
    /\ stage' = [stage EXCEPT ![r] = "refused"]
    /\ code' = [code EXCEPT ![r] = reason]
    /\ lane' = NoOne
    /\ UNCHANGED <<want, picked, hash>>

Call(r) ==
    /\ stage[r] = "idle"
    /\ stage' = [stage EXCEPT ![r] = "queued"]
    /\ UNCHANGED <<chainVars, want, picked, hash, code, lane, storeVars,
                   historyVars>>

\* Mutation: the gate runs outside blockConcurrencyWhile.
AtGateUnlocked(r) == stage[r] = "queued"

\* The call has the lock: the record gate and the time check are next.
AtGate(r) == stage[r] = "queued" /\ lane = NoOne

EnterReplays(r) ==
    /\ AtGate(r)
    /\ record[KeyWanted(r)] # NoTx
    /\ stage' = [stage EXCEPT ![r] = "replayed"]
    /\ hash' = [hash EXCEPT ![r] = record[KeyWanted(r)]]
    /\ UNCHANGED <<chainVars, want, picked, code, lane, storeVars, historyVars>>

EnterRefuses(r) ==
    /\ AtGate(r)
    /\ \/ /\ record[KeyWanted(r)] = NoTx
          /\ TimeError(want[r]) # "none"
          /\ Refuse(r, TimeError(want[r]))
       \/ /\ "storage" \in Faults
          /\ Refuse(r, "unexpected_settle_error")
    /\ UNCHANGED <<chainVars, storeVars, historyVars>>

\* Mutation: no record gate.
EnterUnrecorded(r) ==
    /\ AtGate(r)
    /\ TimeError(want[r]) = "none"
    /\ lane' = r
    /\ stage' = [stage EXCEPT ![r] = "preparing"]
    /\ UNCHANGED <<chainVars, want, picked, hash, code, storeVars, historyVars>>

EnterProceeds(r) ==
    /\ AtGate(r)
    /\ record[KeyWanted(r)] = NoTx
    /\ TimeError(want[r]) = "none"
    /\ lane' = r
    /\ stage' = [stage EXCEPT ![r] = "preparing"]
    /\ UNCHANGED <<chainVars, want, picked, hash, code, storeVars, historyVars>>

\* writeContract reads the pending transaction count and the fees, and
\* estimates gas.
Prepare(r, n) ==
    /\ stage[r] = "preparing"
    /\ IsPendingCount(n)
    /\ "ok" \in Estimate(want[r])
    /\ \E f \in Fees : picked' = [picked EXCEPT ![r] = [nonce |-> n, fee |-> f]]
    /\ stage' = [stage EXCEPT ![r] = "sending"]
    /\ UNCHANGED <<chainVars, want, hash, code, lane, storeVars, historyVars>>

PrepareFails(r) ==
    /\ stage[r] = "preparing"
    /\ \E reason \in Estimate(want[r]) \ {"ok"} : Refuse(r, reason)
    /\ UNCHANGED <<chainVars, storeVars, historyVars>>

\* A node takes the raw transaction.
Broadcast(r) ==
    /\ stage[r] = "sending"
    /\ Accepts(OwnTx(r))
    /\ pending' = pending \cup {OwnTx(r)}
    /\ issued' = [issued EXCEPT ![r] = OwnTx(r)]
    /\ broadcasts' = [broadcasts EXCEPT ![KeyWanted(r)] = @ + 1]
    /\ UNCHANGED <<mined, reverted, balance, window, storeVars>>

Send(r) ==
    /\ Broadcast(r)
    /\ stage' = [stage EXCEPT ![r] = "recording"]
    /\ UNCHANGED <<want, picked, hash, code, lane, forgets>>

\* Mutation: any failed send counts as a relayer without gas.
SendAmbiguousAsGas(r) ==
    /\ "ambiguous" \in Faults
    /\ Broadcast(r)
    /\ Refuse(r, "facilitator_insufficient_native_balance")
    /\ forgets' = [forgets EXCEPT ![KeyWanted(r)] = @ + 1]

\* The transaction is out and the RPC call ends in an error all the same.
SendAmbiguous(r) ==
    /\ "ambiguous" \in Faults
    /\ Broadcast(r)
    /\ Refuse(r, "unexpected_settle_error")
    /\ forgets' = [forgets EXCEPT ![KeyWanted(r)] = @ + 1]

SendRefused(r) ==
    /\ stage[r] = "sending"
    /\ "rpc" \in Faults \/ ~ Accepts(OwnTx(r))
    /\ \E reason \in {"facilitator_insufficient_native_balance",
                       "unexpected_settle_error"} : Refuse(r, reason)
    /\ UNCHANGED <<chainVars, storeVars, historyVars>>

\* The reply of a broadcast, and the prune it hands to waitUntil.
ReplyBroadcast(r) ==
    /\ pruning' = (pruning \/ pruneDue)
    /\ pruneDue' = FALSE
    /\ stage' = [stage EXCEPT ![r] = "broadcast"]
    /\ hash' = [hash EXCEPT ![r] = OwnTx(r)]
    /\ UNCHANGED <<chainVars, want, picked, code, aged, issued, broadcasts>>

Put(r) == record' = [record EXCEPT ![KeyWanted(r)] = OwnTx(r)]

Forget(r) == forgets' = [forgets EXCEPT ![KeyWanted(r)] = @ + 1]

\* Mutation: the call that prunes returns before its put.
RecordUnlessPruning(r) ==
    /\ stage[r] = "recording"
    /\ IF pruneDue THEN UNCHANGED record ELSE Put(r)
    /\ lane' = NoOne
    /\ ReplyBroadcast(r)
    /\ UNCHANGED forgets

\* Mutation: the lock is kept.
RecordKeepsLane(r) ==
    /\ stage[r] = "recording"
    /\ Put(r)
    /\ ReplyBroadcast(r)
    /\ UNCHANGED <<lane, forgets>>

\* storage.put, whose failure is logged only, then the opportunistic prune.
Record(r) ==
    /\ stage[r] = "recording"
    /\ \/ Put(r) /\ UNCHANGED forgets
       \/ "storage" \in Faults /\ Forget(r) /\ UNCHANGED record
    /\ ReplyBroadcast(r)
    /\ lane' = NoOne

------------------------------------------------------------------------------

\* Mutation: the prune does not compare ages.
PruneAll ==
    /\ pruning
    /\ pruning' = FALSE
    /\ record' = [k \in Keys |-> NoTx]
    /\ forgets' = [k \in Keys |-> IF record[k] # NoTx THEN forgets[k] + 1
                                                    ELSE forgets[k]]
    /\ aged' = {}
    /\ UNCHANGED <<chainVars, callVars, pruneDue, issued, broadcasts>>

\* pruneSettleRecords.  That it lists and deletes in two awaits can be one step:
\* until it is deleted, no broadcast() passes the gate to replace a record.
Prune ==
    /\ pruning
    /\ pruning' = FALSE
    /\ \/ /\ record' = [k \in Keys |-> IF k \in aged THEN NoTx ELSE record[k]]
          /\ forgets' = [k \in Keys |-> IF k \in aged THEN forgets[k] + 1
                                                      ELSE forgets[k]]
          /\ aged' = {}
       \/ /\ "storage" \in Faults
          /\ UNCHANGED <<record, forgets, aged>>
    /\ UNCHANGED <<chainVars, callVars, pruneDue, issued, broadcasts>>

\* A record becomes 72 hours old.
RecordAges(k) ==
    /\ record[k] # NoTx
    /\ k \notin aged
    /\ aged' = aged \cup {k}
    /\ UNCHANGED <<chainVars, callVars, record, pruneDue, pruning, historyVars>>

\* Six hours since the last prune, or an idle object was evicted and lost
\* lastPruneAt with its memory.
PruneComesDue ==
    /\ ~ pruneDue
    /\ pruneDue' = TRUE
    /\ UNCHANGED <<chainVars, callVars, record, aged, pruning, historyVars>>

\* Mutation: the interrupted call is run again by itself.
ResetRetries ==
    /\ "reset" \in Faults
    /\ lane # NoOne
    /\ stage' = [stage EXCEPT ![lane] = "queued"]
    /\ lane' = NoOne
    /\ pruneDue' = TRUE
    /\ pruning' = FALSE
    /\ IF stage[lane] = "recording" THEN Forget(lane) ELSE UNCHANGED forgets
    /\ UNCHANGED <<chainVars, want, picked, hash, code, record, aged, issued,
                   broadcasts>>

\* The 30 s limit of blockConcurrencyWhile, or a crash: every call in flight
\* throws in its caller.  Storage stays; a put under way is kept or lost.
Reset ==
    /\ "reset" \in Faults
    /\ lane # NoOne
    /\ stage' = [r \in Requests |->
                    IF stage[r] \in {"queued"} \cup InLane THEN "threw" ELSE stage[r]]
    /\ lane' = NoOne
    /\ pruneDue' = TRUE
    /\ pruning' = FALSE
    /\ \/ stage[lane] = "recording" /\ Put(lane) /\ UNCHANGED forgets
       \/ stage[lane] = "recording" /\ Forget(lane) /\ UNCHANGED record
       \/ stage[lane] # "recording" /\ UNCHANGED <<record, forgets>>
    /\ UNCHANGED <<chainVars, want, picked, hash, code, aged, issued, broadcasts>>

------------------------------------------------------------------------------

Lane(r) ==
    \/ EnterReplays(r) \/ EnterRefuses(r) \/ EnterProceeds(r)
    \/ (\E n \in 0 .. MaxNonce : Prepare(r, n)) \/ PrepareFails(r)
    \/ Send(r) \/ SendAmbiguous(r) \/ SendRefused(r)
    \/ Record(r)

Upkeep == Prune \/ PruneComesDue \/ Reset \/ (\E k \in Keys : RecordAges(k))

ChainMoves == ChainStep /\ UNCHANGED signerVars

\* The requests are finite: once all are served nothing more has to happen.
Finished ==
    /\ \A r \in Requests : stage[r] \in Returned
    /\ UNCHANGED vars

Next ==
    \/ \E r \in Requests : Call(r) \/ Lane(r)
    \/ Upkeep
    \/ ChainMoves
    \/ Finished

Spec == Init /\ [][Next]_vars

------------------------------------------------------------------------------

TypeOK ==
    /\ ChainTypeOK
    /\ want \in [Requests -> Auths]
    /\ stage \in [Requests -> Stages]
    /\ picked \in [Requests -> [nonce : 0 .. MaxNonce, fee : Fees \cup {NoFee}]]
    /\ hash \in [Requests -> Txs \cup {NoTx}]
    /\ code \in [Requests -> Codes]
    /\ lane \in Requests \cup {NoOne}
    /\ record \in [Keys -> Txs \cup {NoTx}]
    /\ aged \subseteq Keys
    /\ pruneDue \in BOOLEAN /\ pruning \in BOOLEAN
    /\ issued \in [Requests -> Txs \cup {NoTx}]
    /\ broadcasts \in [Keys -> Nat]
    /\ forgets \in [Keys -> Nat]

(***************************************************************************)
(* The lane is a lock: a call that is between entering and replying is     *)
(* the one that holds it.                                                  *)
(***************************************************************************)
LaneHeld == \A r \in Requests : stage[r] \in InLane <=> lane = r

(***************************************************************************)
(* No two live transactions of the relayer wallet have the same account    *)
(* nonce, although the nonce is read in one step and used in a later one   *)
(* (apps/worker/README.md:17: two parallel settles never grab the same).   *)
(***************************************************************************)
NonceUnique == \A t, u \in Live : t.nonce = u.nonce => t = u

(***************************************************************************)
(* What the record store is for: an authorization is broadcast again only  *)
(* if an earlier broadcast of it went unrecorded, or its record was        *)
(* pruned; n losses allow at most n + 1 broadcasts.                        *)
(***************************************************************************)
RebroadcastBounded == \A k \in Keys : broadcasts[k] <= forgets[k] + 1

(***************************************************************************)
(* A hash is never made up or mixed up: a record and a reply name a        *)
(* transaction that some request put into the mempool for that same        *)
(* (payer, nonce), which /settle-status and waitAndVerifyTransfer rely on. *)
(***************************************************************************)
Issued == {issued[r] : r \in Requests} \ {NoTx}

HashesAreIssued ==
    /\ \A k \in Keys : record[k] # NoTx => record[k] \in Issued /\ Key(record[k]) = k
    /\ \A r \in Requests :
           hash[r] # NoTx => hash[r] \in Issued /\ Key(hash[r]) = KeyWanted(r)

(***************************************************************************)
(* getSettleRecord runs between lane holders.  If more broadcasts of a key *)
(* were made than forgotten it finds a record: a caller whose /settle      *)
(* timed out learns the hash from /settle-status.                          *)
(***************************************************************************)
StatusFindsBroadcast ==
    \A k \in Keys :
        lane = NoOne /\ broadcasts[k] > forgets[k] => record[k] # NoTx

(***************************************************************************)
(* A refusal with a definite reason tells the caller that this call has    *)
(* put nothing into the mempool; only unexpected_settle_error leaves that  *)
(* open.  A failed storage.put, after the send, must not refuse at all.    *)
(***************************************************************************)
RefusalSentNothing ==
    \A r \in Requests :
        stage[r] = "refused" /\ code[r] # "unexpected_settle_error"
            => issued[r] = NoTx

(***************************************************************************)
(* A record is never replaced, and is only ever removed when it is more    *)
(* than 72 hours old.                                                      *)
(***************************************************************************)
RecordStable ==
    [][\A k \in Keys : record[k] # NoTx /\ record'[k] # record[k]
                           => k \in aged /\ record'[k] = NoTx]_vars

(***************************************************************************)
(* Every broadcast() call that reached the object returns or throws.       *)
(***************************************************************************)
CallsReturn ==
    \A r \in Requests : stage[r] = "queued" ~> stage[r] \in Returned

(***************************************************************************)
(* app.ts:277 and docs/threat-model.md:54-55 expect that a failed settle   *)
(* may be retried after the balance was fixed, and that an authorization   *)
(* can be broadcast again after a reorg: then a reply never replays a      *)
(* transaction that was reverted or that the chain has lost.               *)
(***************************************************************************)
ReplayMayStillPay ==
    [][\A r \in Requests :
           stage[r] = "queued" /\ stage'[r] = "replayed"
               => hash'[r] \in pending \cup mined]_vars

------------------------------------------------------------------------------
(***************************************************************************)
(* The inductive invariant behind NonceUnique, RebroadcastBounded,         *)
(* HashesAreIssued and StatusFindsBroadcast.                               *)
(***************************************************************************)

\* The nonce viem read is still free when the transaction is sent.
PickedIsFree ==
    \A r \in Requests : stage[r] = "sending" => picked[r].nonce \notin UsedNonces(Live)

\* The gate was passed without a record and nobody wrote one since.
GateHolds ==
    \A r \in Requests : stage[r] \in InLane => record[KeyWanted(r)] = NoTx

\* Until the send, the request has issued nothing and has no reply.
NothingYet ==
    \A r \in Requests :
        stage[r] \in {"idle", "queued", "preparing", "sending"}
            => issued[r] = NoTx /\ hash[r] = NoTx

RecordingIssued ==
    \A r \in Requests : stage[r] = "recording" => issued[r] = OwnTx(r)

RepliesHaveHash ==
    \A r \in Requests : stage[r] \in {"broadcast", "replayed"} => hash[r] # NoTx

AgedAreRecords == \A k \in aged : record[k] # NoTx

Recording(k) == \E r \in Requests : stage[r] = "recording" /\ KeyWanted(r) = k

\* Every broadcast of a key is recorded, about to be recorded, or forgotten.
BroadcastsAccounted ==
    \A k \in Keys :
        broadcasts[k] = forgets[k] + (IF record[k] # NoTx THEN 1 ELSE 0)
                                   + (IF Recording(k) THEN 1 ELSE 0)

StoreInv ==
    /\ LaneHeld
    /\ GateHolds
    /\ NothingYet
    /\ RecordingIssued
    /\ RepliesHaveHash
    /\ AgedAreRecords
    /\ BroadcastsAccounted
    /\ HashesAreIssued

NonceInv == LaneHeld /\ PickedIsFree /\ NonceUnique

(***************************************************************************)
(* What holds while the chain loses nothing: neither "drop" nor "reorg".   *)
(***************************************************************************)

\* No live transaction waits behind an account nonce that nobody has used.
NoncesDense == \A t \in Live : 0 .. (t.nonce - 1) \subseteq UsedNonces(Live)

\* Nor will the one that is about to be sent.
PickedIsNext ==
    \A r \in Requests :
        stage[r] = "sending" => 0 .. (picked[r].nonce - 1) \subseteq UsedNonces(Live)

DenseInv == NoncesDense /\ PickedIsNext

\* Whatever a request has put into the mempool is there, or in a block.
IssuedIsLive == Issued \subseteq Live
==============================================================================
