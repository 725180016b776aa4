----------------------------- MODULE ChainProofs -----------------------------
(***************************************************************************)
(* Lemmas about the chain and about the outcomes of reading it, which the  *)
(* theorems about both hosts rest on.                                      *)
(***************************************************************************)
EXTENDS Verification, TLAPS

USE ChainAssumption

(***************************************************************************)
(* Every step of the chain keeps the types of the chain's variables.       *)
(***************************************************************************)
LEMMA ChainStepTypes ==
    ASSUME ChainTypeOK, ChainStep
    PROVE  ChainTypeOK'
<1> USE DEF ChainTypeOK
<1>1. ASSUME NEW t \in pending, Mine(t) PROVE ChainTypeOK'
  <2>1. t \in Txs /\ t.auth \in Auths
    BY <1>1 DEF Txs
  <2>2. CASE Executes(t.auth)
    <3>1. balance[PayerOf[t.auth]] - ValueOf[t.auth] \in Nat
      BY <2>1, <2>2 DEF Executes, Funded
    <3>2. QED
      BY <1>1, <2>1, <2>2, <3>1 DEF Mine
  <2>3. CASE ~ Executes(t.auth)
    BY <1>1, <2>1, <2>3 DEF Mine
  <2>4. QED
    BY <2>2, <2>3
<1>2. ASSUME NEW t \in pending, Drop(t) PROVE ChainTypeOK'
  BY <1>2 DEF Drop
<1>3. ASSUME NEW t \in InBlock, Reorg(t) PROVE ChainTypeOK'
  <2>1. t \in Txs /\ t.auth \in Auths
    BY <1>3 DEF InBlock, Txs
  <2>2. balance' \in [Payers -> Nat]
    BY <1>3, <2>1 DEF Reorg
  <2>3. QED
    BY <1>3, <2>1, <2>2 DEF Reorg
<1>4. ASSUME NEW a \in Auths, WindowMoves(a) PROVE ChainTypeOK'
  BY <1>4 DEF WindowMoves, Windows, Advance
<1>5. ASSUME NEW p \in Payers, NEW v \in 0 .. MaxBalance, PayerMoves(p, v)
      PROVE  ChainTypeOK'
  BY <1>5 DEF PayerMoves
<1>6. ASSUME NEW n \in 0 .. MaxNonce, NEW a \in Auths, NEW f \in Fees,
             ForeignSend(n, a, f)
      PROVE  ChainTypeOK'
  BY <1>6 DEF ForeignSend, Txs
<1>7. QED
  BY <1>1, <1>2, <1>3, <1>4, <1>5, <1>6 DEF ChainStep

(***************************************************************************)
(* No step of the chain makes a taken nonce of a live transaction free for *)
(* a second one, or takes a free one, unless another host has the wallet.  *)
(***************************************************************************)
LEMMA ChainAddsNoTx ==
    ASSUME "shared" \notin Faults, ChainStep
    PROVE  Live' \subseteq Live
<1> USE DEF Live, InBlock
<1>1. ASSUME NEW t \in pending, Mine(t) PROVE Live' \subseteq Live
  BY <1>1 DEF Mine
<1>2. ASSUME NEW t \in pending, Drop(t) PROVE Live' \subseteq Live
  BY <1>2 DEF Drop
<1>3. ASSUME NEW t \in InBlock, Reorg(t) PROVE Live' \subseteq Live
  BY <1>3 DEF Reorg
<1>4. ASSUME NEW a \in Auths, WindowMoves(a) PROVE Live' \subseteq Live
  BY <1>4 DEF WindowMoves
<1>5. ASSUME NEW p \in Payers, NEW v \in 0 .. MaxBalance, PayerMoves(p, v)
      PROVE  Live' \subseteq Live
  BY <1>5 DEF PayerMoves
<1>6. QED
  BY <1>1, <1>2, <1>3, <1>4, <1>5 DEF ChainStep, ForeignSend

(***************************************************************************)
(* Without reorgs a mined transaction stays mined.                         *)
(***************************************************************************)
LEMMA ChainKeepsMined ==
    ASSUME "reorg" \notin Faults, ChainStep
    PROVE  mined \subseteq mined'
  BY DEF ChainStep, Mine, Drop, Reorg, WindowMoves, PayerMoves, ForeignSend

(***************************************************************************)
(* While the chain loses nothing, an account nonce once used stays used;   *)
(* and if no two live transactions share one, each of them stays live.     *)
(***************************************************************************)
LEMMA ChainKeepsNonces ==
    ASSUME "drop" \notin Faults, "reorg" \notin Faults, ChainStep
    PROVE  UsedNonces(Live) \subseteq UsedNonces(Live)'
<1> USE DEF UsedNonces, Live, InBlock
<1>1. ASSUME NEW t \in pending, Mine(t) PROVE Live \subseteq Live'
  BY <1>1 DEF Mine
<1>2. ASSUME NEW t \in pending, Drop(t)
      PROVE  UsedNonces(Live) \subseteq UsedNonces(Live)'
  <2>1. PICK u \in InBlock : u.nonce = t.nonce
    BY <1>2 DEF Drop, Accepts
  <2>2. u \in Live' /\ Live \ {t} \subseteq Live'
    BY <1>2, <2>1 DEF Drop
  <2>3. QED
    BY <2>1, <2>2
<1>3. CASE \/ \E a \in Auths : WindowMoves(a)
           \/ \E p \in Payers, v \in 0 .. MaxBalance : PayerMoves(p, v)
           \/ \E n \in 0 .. MaxNonce, a \in Auths, f \in Fees : ForeignSend(n, a, f)
  BY <1>3 DEF WindowMoves, PayerMoves, ForeignSend
<1>4. QED
  BY <1>1, <1>2, <1>3 DEF ChainStep, Reorg

LEMMA ChainLosesNothing ==
    ASSUME "drop" \notin Faults, "reorg" \notin Faults,
           \A t, u \in Live : t.nonce = u.nonce => t = u, ChainStep
    PROVE  Live \subseteq Live'
<1> USE DEF Live, InBlock
<1>1. ASSUME NEW t \in pending, Mine(t) PROVE Live \subseteq Live'
  BY <1>1 DEF Mine
<1>2. ASSUME NEW t \in pending, Drop(t) PROVE Live \subseteq Live'
  <2>1. PICK u \in InBlock : u.nonce = t.nonce
    BY <1>2 DEF Drop, Accepts, UsedNonces
  <2>2. t \in InBlock
    BY <2>1
  <2>3. QED
    BY <1>2, <2>2 DEF Drop
<1>3. CASE \/ \E a \in Auths : WindowMoves(a)
           \/ \E p \in Payers, v \in 0 .. MaxBalance : PayerMoves(p, v)
           \/ \E n \in 0 .. MaxNonce, a \in Auths, f \in Fees : ForeignSend(n, a, f)
  BY <1>3 DEF WindowMoves, PayerMoves, ForeignSend
<1>4. QED
  BY <1>1, <1>2, <1>3 DEF ChainStep, Reorg

(***************************************************************************)
(* What another host adds takes the next account nonce.                    *)
(***************************************************************************)
LEMMA ChainAddsNext ==
    ASSUME ChainStep
    PROVE  \A t \in Live' : t \in Live \/ 0 .. (t.nonce - 1) \subseteq UsedNonces(Live)
<1>1. CASE \E n \in 0 .. MaxNonce, a \in Auths, f \in Fees : ForeignSend(n, a, f)
  <2>1. PICK n \in 0 .. MaxNonce, a \in Auths, f \in Fees : ForeignSend(n, a, f)
    BY <1>1
  <2>2. Live' = Live \cup {[nonce |-> n, auth |-> a, fee |-> f]}
    BY <2>1 DEF ForeignSend, Live, InBlock
  <2>3. 0 .. (n - 1) \subseteq UsedNonces(Live)
    BY <2>1 DEF ForeignSend, IsPendingCount
  <2>4. QED
    BY <2>2, <2>3
<1>2. CASE ~ \E n \in 0 .. MaxNonce, a \in Auths, f \in Fees : ForeignSend(n, a, f)
  BY <1>2 DEF ChainStep, Mine, Drop, Reorg, WindowMoves, PayerMoves, Live, InBlock
<1>3. QED
  BY <1>1, <1>2

(***************************************************************************)
(* However the chain moves, a (payer, nonce) has one transaction that      *)
(* moved its funds: a second one is reverted until the first is undone.    *)
(***************************************************************************)
LEMMA ChainPaysOnce ==
    ASSUME PaidOnce, ChainStep
    PROVE  PaidOnce'
<1> USE DEF PaidOnce, Key
<1>1. ASSUME NEW t \in pending, Mine(t) PROVE PaidOnce'
  <2>1. CASE Executes(t.auth)
    BY <1>1, <2>1 DEF Mine, Executes, Consumed
  <2>2. CASE ~ Executes(t.auth)
    BY <1>1, <2>2 DEF Mine
  <2>3. QED
    BY <2>1, <2>2
<1>2. CASE ~ \E t \in pending : Mine(t)
  <2>1. mined' \subseteq mined
    BY <1>2 DEF ChainStep, Drop, Reorg, WindowMoves, PayerMoves, ForeignSend
  <2>2. QED
    BY <2>1
<1>3. QED
  BY <1>1, <1>2

(***************************************************************************)
(* Every outcome of a step of verification, of the gas estimate, of the    *)
(* time check and of the revert parser is one the hosts know.              *)
(***************************************************************************)
LEMMA CodesAreCodes ==
    ASSUME NEW a
    PROVE  /\ TimeError(a) \in Codes /\ RevertCode(a) \in Codes
           /\ Estimate(a) \subseteq Codes \cup {"ok"}
           /\ Simulation(a) \subseteq Codes \cup {"ok"}
           /\ UsedRead(a) \subseteq Codes \cup {"ok", "authorization_already_used"}
           /\ BalanceRead(a) \subseteq Codes \cup {"ok", "unexpected_verify_error"}
<1>1. TimeError(a) \in Codes /\ RevertCode(a) \in Codes
  BY DEF TimeError, RevertCode, Codes
<1>2. QED
  BY <1>1 DEF Estimate, Simulation, UsedRead, BalanceRead, OnRpcFault, Codes

\* None of them is the "success" that only a receipt or a cache entry gives.
LEMMA NoReadSucceeds ==
    ASSUME NEW a
    PROVE  /\ "success" \notin UsedRead(a) \cup BalanceRead(a)
           /\ "success" \notin Simulation(a) \cup Estimate(a)
  BY CodesAreCodes DEF Codes

\* An EIP-3009 signature binds the terms to (payer, nonce): a payer who never
\* signs two transfers with one nonce gives every key its one set of terms.
KeyDeterminesTerms ==
    \A a, b \in Auths : KeyOf[a] = KeyOf[b] => SameTerms(a, b)
==============================================================================
