------------------------------ MODULE JpycChain ------------------------------
(***************************************************************************)
(* One EVM chain as the facilitator uses it: the JPYC contract's EIP-3009  *)
(* transferWithAuthorization, the relayer's transactions on their way into *)
(* blocks, payer balances, and the passing of each authorization's window. *)
(* None of it is under src/; everything here is what src/ reads from it    *)
(* (authorizationState, balanceOf, simulate, pending transaction count,    *)
(* receipts) and what src/ says can happen to it (docs/threat-model.md     *)
(* "Stale RPC / chain reorgs", docs/runbook.md "Stuck transactions").      *)
(***************************************************************************)
EXTENDS Integers, FiniteSets

CONSTANTS
    Auths,      \* the signed authorizations that callers hold
    Keys,       \* the (payer, nonce) pairs the contract consumes
    Payers,     \* accounts that sign authorizations
    Payees,     \* accounts that are paid
    KeyOf,      \* the (payer, nonce) of an authorization
    PayerOf,    \* its payer
    PayeeOf,    \* its recipient, payTo
    ValueOf,    \* its value in atomic units
    MaxBalance, \* bound: the largest JPYC balance a payer is given
    MaxNonce,   \* bound: the largest transaction nonce of the relayer wallet
    Fees,       \* the transaction fees that viem may find
    Faults      \* which disturbances this instance contains

(***************************************************************************)
(* "spend":     payers also move JPYC outside the facilitator              *)
(* "drop":      the mempool may lose a pending transaction                 *)
(* "reorg":     the newest block may be undone, its transaction even lost  *)
(* "rpc":       a read or a gas estimate may fail                          *)
(* "ambiguous": a broadcast may be accepted and yet end in an error        *)
(* "storage":   a Durable Object storage operation may fail                *)
(* "reset":     the Durable Object may be reset while it works             *)
(* "shared":    another host broadcasts with the same relayer wallet       *)
(* "evict":     a Worker isolate, or the Node process, may go away with    *)
(*              requests in flight                                         *)
(***************************************************************************)
AllFaults ==
    {"spend", "drop", "reorg", "rpc", "ambiguous", "storage", "reset", "shared",
     "evict"}

ASSUME ChainAssumption ==
    /\ KeyOf \in [Auths -> Keys]
    /\ PayerOf \in [Auths -> Payers]
    /\ PayeeOf \in [Auths -> Payees]
    /\ ValueOf \in [Auths -> Nat]
    /\ \A a, b \in Auths : KeyOf[a] = KeyOf[b] => PayerOf[a] = PayerOf[b]
    /\ MaxBalance \in Nat
    /\ MaxNonce \in Nat
    /\ Faults \subseteq AllFaults

VARIABLES
    pending,    \* transactions in the mempool
    mined,      \* transactions in a block that moved the funds
    reverted,   \* transactions in a block that the contract reverted
    balance,    \* JPYC held by each payer
    window      \* where now lies against each [validAfter, validBefore)

chainVars == <<pending, mined, reverted, balance, window>>

(***************************************************************************)
(* A relayer transaction is its account nonce, the authorization it        *)
(* carries and the fees it offers, which viem asks the chain for before    *)
(* each send; together they stand for the transaction hash.  An attempt    *)
(* that repeats all three is the same transaction, as it is on chain.  Of  *)
(* fees it matters only whether they differ.                               *)
(***************************************************************************)
NoFee == "none"

Txs == [nonce : 0 .. MaxNonce, auth : Auths, fee : Fees \cup {NoFee}]

NoTx == [nonce |-> -1, auth |-> "none", fee |-> NoFee]

(***************************************************************************)
(* "early": before validAfter.  "open": checkTimeWindow accepts.           *)
(* "closing": less than BLOCK_TIME_GRACE_SECONDS before validBefore, which *)
(* the facilitator refuses and the contract still accepts.  "closed".      *)
(***************************************************************************)
Windows == {"early", "open", "closing", "closed"}

Advance(w) == CASE w = "early" -> "open"
                [] w = "open" -> "closing"
                [] OTHER -> "closed"

Key(t) == KeyOf[t.auth]

SameTerms(a, b) == /\ PayerOf[a] = PayerOf[b]
                   /\ PayeeOf[a] = PayeeOf[b]
                   /\ ValueOf[a] = ValueOf[b]

InBlock == mined \cup reverted

Live == pending \cup InBlock

UsedNonces(S) == {t.nonce : t \in S}

\* eth_getTransactionCount(relayer, "pending")
IsPendingCount(n) == /\ n \notin UsedNonces(Live)
                     /\ 0 .. (n - 1) \subseteq UsedNonces(Live)

\* The transactions whose receipt waitForTransactionReceipt(t) may bring: t's
\* own, or that of the one that took its account nonce when t was lost (viem
\* takes it for a replacement; whether it had seen t before is left open).
ReceiptsOf(t) == {u \in InBlock : u.nonce = t.nonce}

\* authorizationState(payer, nonce)
Consumed(k) == \E t \in mined : Key(t) = k

\* transferWithAuthorization runs once for each (payer, nonce).
PaidOnce == \A t, u \in mined : Key(t) = Key(u) => t = u

Funded(a) == balance[PayerOf[a]] >= ValueOf[a]

\* what transferWithAuthorization does if it is run now
Executes(a) == /\ window[a] \in {"open", "closing"}
               /\ ~ Consumed(KeyOf[a])
               /\ Funded(a)

ChainInit ==
    /\ pending = {} /\ mined = {} /\ reverted = {}
    /\ balance = [p \in Payers |-> MaxBalance]
    /\ window \in [Auths -> {"early", "open"}]

\* A node takes a raw transaction into its mempool unless a block already
\* holds one with that account nonce.
Accepts(t) == t.nonce \notin UsedNonces(InBlock)

\* The next transaction of the relayer account enters a block.
Mine(t) ==
    /\ t \in pending
    /\ Accepts(t)
    /\ 0 .. (t.nonce - 1) \subseteq UsedNonces(InBlock)
    /\ pending' = pending \ {t}
    /\ \/ /\ Executes(t.auth)
          /\ mined' = mined \cup {t}
          /\ balance' = [balance EXCEPT ![PayerOf[t.auth]] = @ - ValueOf[t.auth]]
          /\ UNCHANGED reverted
       \/ /\ ~ Executes(t.auth)
          /\ reverted' = reverted \cup {t}
          /\ UNCHANGED <<mined, balance>>
    /\ UNCHANGED window

\* The mempool loses a transaction: evicted, or its nonce was mined.
Drop(t) ==
    /\ t \in pending
    /\ "drop" \in Faults \/ ~ Accepts(t)
    /\ pending' = pending \ {t}
    /\ UNCHANGED <<mined, reverted, balance, window>>

\* The newest block is undone; its transaction is pending again, or lost.
Reorg(t) ==
    /\ "reorg" \in Faults
    /\ t \in InBlock
    /\ \A u \in InBlock : u.nonce <= t.nonce
    /\ \E back \in SUBSET {t} : pending' = pending \cup back
    /\ mined' = mined \ {t}
    /\ reverted' = reverted \ {t}
    /\ balance' = IF t \in mined
                  THEN [balance EXCEPT ![PayerOf[t.auth]] = @ + ValueOf[t.auth]]
                  ELSE balance
    /\ UNCHANGED window

\* Time passes for one authorization.
WindowMoves(a) ==
    /\ window[a] # "closed"
    /\ window' = [window EXCEPT ![a] = Advance(@)]
    /\ UNCHANGED <<pending, mined, reverted, balance>>

\* A payer receives JPYC, or spends it elsewhere.
PayerMoves(p, v) ==
    /\ "spend" \in Faults
    /\ v # balance[p]
    /\ balance' = [balance EXCEPT ![p] = v]
    /\ UNCHANGED <<pending, mined, reverted, window>>

\* Another host that was given the same wallet broadcasts for itself.
ForeignSend(n, a, f) ==
    /\ "shared" \in Faults
    /\ IsPendingCount(n)
    /\ pending' = pending \cup {[nonce |-> n, auth |-> a, fee |-> f]}
    /\ UNCHANGED <<mined, reverted, balance, window>>

ChainStep ==
    \/ \E t \in pending : Mine(t)
    \/ \E t \in pending : Drop(t)
    \/ \E t \in InBlock : Reorg(t)
    \/ \E a \in Auths : WindowMoves(a)
    \/ \E p \in Payers, v \in 0 .. MaxBalance : PayerMoves(p, v)
    \/ \E n \in 0 .. MaxNonce, a \in Auths, f \in Fees : ForeignSend(n, a, f)

ChainTypeOK ==
    /\ pending \subseteq Txs
    /\ mined \subseteq Txs
    /\ reverted \subseteq Txs
    /\ balance \in [Payers -> Nat]
    /\ window \in [Auths -> Windows]
==============================================================================
