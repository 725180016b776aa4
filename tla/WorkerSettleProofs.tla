-------------------------- MODULE WorkerSettleProofs --------------------------
(***************************************************************************)
(* Theorems about WorkerSettle, for any set of requests, isolates and      *)
(* authorizations.  They rest on those of RelayerSigner: a step of the     *)
(* whole is a step of the relayer signer or leaves it alone.               *)
(***************************************************************************)
EXTENDS WorkerSettle, RelayerSignerProofs

USE ChainAssumption, RequestAssumption

(***************************************************************************)
(* The handler never touches the chain, the lane or the record store but   *)
(* by calling broadcast().                                                 *)
(***************************************************************************)
LEMMA HandlerLeavesSigner ==
    ASSUME NEW r \in Requests, Handle(r), ~ Simulate(r)
    PROVE  UNCHANGED vars
  BY DEF Handle, Arrive, ReadUsed, ReadBalance, SimulateFails, LaneReturned,
         ReceiptMatches, ReceiptFails

LEMMA WorkerStepIsSignerStep == [WorkerNext]_workerVars => [Next]_vars
<1> SUFFICES ASSUME [WorkerNext]_workerVars PROVE [Next]_vars
  OBVIOUS
<1>1. ASSUME NEW r \in Requests, Handle(r) PROVE [Next]_vars
  <2>1. CASE Simulate(r)
    BY <2>1 DEF Simulate, Next
  <2>2. CASE ~ Simulate(r)
    BY <1>1, <2>2, HandlerLeavesSigner
  <2>3. QED
    BY <2>1, <2>2
<1>2. CASE SignerMoves
  BY <1>2 DEF SignerMoves, Next
<1>3. CASE \/ \E i \in Isolates : Evict(i)
           \/ \E i \in Isolates, k \in Keys : CacheExpires(i, k)
           \/ Served \/ UNCHANGED workerVars
  BY <1>3 DEF Evict, CacheExpires, Served, workerVars
<1>4. QED
  BY <1>1, <1>2, <1>3 DEF WorkerNext

(***************************************************************************)
(* The Worker's use of the relayer signer is one that RelayerSigner        *)
(* describes, so every theorem about it holds of the Worker.               *)
(***************************************************************************)
THEOREM ImplementsSigner == WorkerSpec => Spec
<1>1. WorkerInit => Init
  BY DEF WorkerInit
<1>2. QED
  BY <1>1, WorkerStepIsSignerStep, PTL DEF WorkerSpec, Spec

(***************************************************************************)
(* Type correctness of the Worker host.                                    *)
(***************************************************************************)
THEOREM WorkerTypeCorrect == WorkerSpec => []WorkerTypeOK
<1>1. WorkerInit /\ TypeOK => WorkerTypeOK
  BY DEF WorkerInit, WorkerTypeOK, HandlerSteps, AnswerCodes, Codes
<1>2. WorkerTypeOK /\ TypeOK' /\ [WorkerNext]_workerVars => WorkerTypeOK'
  <2> SUFFICES ASSUME WorkerTypeOK, TypeOK', [WorkerNext]_workerVars
               PROVE  WorkerTypeOK'
    OBVIOUS
  <2> USE DEF WorkerTypeOK
  <2>1. ASSUME NEW r \in Requests, Handle(r) PROVE WorkerTypeOK'
    <3> USE DEF HandlerSteps, Handling, Goto, Fail, Answer
    <3>0. /\ KeyWanted(r) \in Keys
          /\ hash[r] \in Txs \cup {NoTx}
          /\ code[r] \in AnswerCodes
          /\ Codes \subseteq AnswerCodes
      <4>1. KeyWanted(r) \in Keys
        BY DEF KeyWanted, TypeOK
      <4>2. hash[r] \in Txs \cup {NoTx} /\ code[r] \in Codes
        BY DEF TypeOK
      <4>3. QED
        BY <4>1, <4>2 DEF AnswerCodes
    <3>01. Cached(r) \in Txs \cup {NoTx}
      BY <3>0 DEF Cached
    <3>02. ASSUME NEW result \in AnswerCodes, NEW tx \in Txs \cup {NoTx},
                  Fail(r, result, tx)
           PROVE  WorkerTypeOK'
      BY <3>02
    <3>03. ASSUME NEW step \in HandlerSteps, Goto(r, step) PROVE WorkerTypeOK'
      BY <3>03
    <3>04. {"used", "balance", "simulate", "lane", "receipt"} \subseteq HandlerSteps
      OBVIOUS
    <3> HIDE DEF Goto, Fail, HandlerSteps, WorkerTypeOK
    <3>1. CASE Arrive(r)
      BY <3>01, <3>02, <3>03, <3>04, <3>1 DEF Arrive, AnswerCodes, Codes
    <3>2. CASE ReadUsed(r)
      BY <3>02, <3>03, <3>04, <3>2, CodesAreCodes DEF ReadUsed, Proceed,
                                                      AnswerCodes
    <3>3. CASE ReadBalance(r)
      BY <3>02, <3>03, <3>04, <3>3, CodesAreCodes DEF ReadBalance, Proceed,
                                                      AnswerCodes
    <3>4. CASE Simulate(r)
      BY <3>03, <3>04, <3>4 DEF Simulate
    <3>5. CASE SimulateFails(r)
      BY <3>02, <3>5, CodesAreCodes DEF SimulateFails, AnswerCodes
    <3>6. CASE LaneReturned(r)
      BY <3>0, <3>02, <3>03, <3>04, <3>6 DEF LaneReturned, AnswerCodes
    <3>7. CASE ReceiptMatches(r)
      BY <3>0, <3>7 DEF ReceiptMatches, AnswerCodes, WorkerTypeOK, HandlerSteps
    <3>8. CASE ReceiptFails(r)
      BY <3>0, <3>02, <3>8 DEF ReceiptFails, AnswerCodes
    <3>9. QED
      BY <2>1, <3>1, <3>2, <3>3, <3>4, <3>5, <3>6, <3>7, <3>8 DEF Handle
  <2>2. ASSUME NEW i \in Isolates, Evict(i) PROVE WorkerTypeOK'
    BY <2>2 DEF Evict, HandlerSteps
  <2>3. ASSUME NEW i \in Isolates, NEW k \in Keys, CacheExpires(i, k)
        PROVE  WorkerTypeOK'
    BY <2>3 DEF CacheExpires
  <2>4. CASE SignerMoves \/ Served \/ UNCHANGED workerVars
    BY <2>4 DEF SignerMoves, Served, workerVars, handlerVars
  <2>5. QED
    BY <2>1, <2>2, <2>3, <2>4 DEF WorkerNext
<1>3. QED
  BY <1>1, <1>2, ImplementsSigner, TypeCorrect, PTL DEF WorkerSpec

------------------------------------------------------------------------------
(***************************************************************************)
(* Success is told only of payments that were made.                        *)
(***************************************************************************)

\* Without reorgs a mined transaction stays mined.
LEMMA MinedStays ==
    ASSUME "reorg" \notin Faults, [WorkerNext]_workerVars
    PROVE  mined \subseteq mined'
<1>1. CASE \E r \in Requests : Handle(r)
  BY <1>1, HandlerLeavesSigner DEF Simulate, Call, vars, chainVars
<1>2. CASE SignerMoves
  <2>1. CASE \E r \in Requests : Lane(r)
    BY <2>1 DEF Lane, EnterReplays, EnterRefuses, EnterProceeds, Prepare,
                PrepareFails, Send, SendAmbiguous, SendRefused, Record,
                ReplyBroadcast, Put, Forget, Broadcast,
                chainVars
  <2>2. CASE Upkeep
    BY <2>2 DEF Upkeep, Prune, PruneComesDue, Reset, Put, Forget, RecordAges,
                chainVars
  <2>3. CASE ChainMoves
    BY <2>3, ChainKeepsMined DEF ChainMoves
  <2>4. QED
    BY <1>2, <2>1, <2>2, <2>3 DEF SignerMoves
<1>3. CASE \/ \E i \in Isolates : Evict(i)
           \/ \E i \in Isolates, k \in Keys : CacheExpires(i, k)
           \/ Served \/ UNCHANGED workerVars
  BY <1>3 DEF Evict, CacheExpires, Served, workerVars, vars, chainVars
<1>4. QED
  BY <1>1, <1>2, <1>3 DEF WorkerNext

LEMMA WantStays ==
    ASSUME [WorkerNext]_workerVars PROVE want' = want
<1>1. [Next]_vars
  BY WorkerStepIsSignerStep
<1>2. CASE \E r \in Requests : Call(r) \/ Lane(r)
  BY <1>2 DEF Call, Lane, EnterReplays, EnterRefuses, EnterProceeds, Prepare,
              PrepareFails, Send, SendAmbiguous, SendRefused, Record,
              ReplyBroadcast, Put, Forget, Refuse
<1>3. CASE Upkeep \/ ChainMoves \/ Finished \/ UNCHANGED vars
  BY <1>3 DEF Upkeep, Prune, PruneComesDue, Reset, Put, Forget, RecordAges,
              ChainMoves, Finished,
              vars, signerVars, callVars
<1>4. QED
  BY <1>1, <1>2, <1>3 DEF Next

\* The four things a step of the handler can do to what callers are told.
TellsNothing(r) ==
    /\ UNCHANGED <<answer, answerTx, cache>>
    /\ handler'[r] # "answered"

TellsFailure(r) ==
    /\ cache' = cache
    /\ \E reason, tx : reason # "success" /\ Answer(r, reason, tx)

TellsCached(r) ==
    /\ cache' = cache
    /\ Cached(r) # NoTx
    /\ Answer(r, "success", Cached(r))

LEMMA HandleTells ==
    ASSUME WorkerTypeOK, NEW r \in Requests, Handle(r)
    PROVE  /\ handler[r] # "answered"
           /\ \A q \in Requests : q # r => handler'[q] = handler[q]
           /\ \/ TellsNothing(r) \/ TellsFailure(r) \/ TellsCached(r)
              \/ ReceiptMatches(r)
<1> USE DEF Goto, Fail, Answer, WorkerTypeOK
<1>0. /\ "success" \notin UsedRead(want[r]) \cup BalanceRead(want[r])
      /\ "success" \notin Simulation(want[r])
      /\ code[r] # "success"
  <2>1. code[r] # "success"
    BY DEF TypeOK, Codes
  <2>2. QED
    BY <2>1, NoReadSucceeds
<1>1. CASE Arrive(r)
  BY <1>1 DEF Arrive, TellsNothing, TellsFailure, TellsCached
<1>2. CASE ReadUsed(r) \/ ReadBalance(r)
  BY <1>0, <1>2 DEF ReadUsed, ReadBalance, Proceed, TellsNothing, TellsFailure
<1>3. CASE Simulate(r) \/ SimulateFails(r)
  BY <1>0, <1>3 DEF Simulate, SimulateFails, TellsNothing, TellsFailure
<1>4. CASE LaneReturned(r)
  BY <1>0, <1>4 DEF LaneReturned, TellsNothing, TellsFailure
<1>5. CASE ReceiptFails(r)
  BY <1>5 DEF ReceiptFails, TellsFailure
<1>6. CASE ReceiptMatches(r)
  BY <1>6 DEF ReceiptMatches
<1>7. QED
  BY <1>1, <1>2, <1>3, <1>4, <1>5, <1>6 DEF Handle

\* What a success leaves in the caches.
LEMMA CacheUpdated ==
    ASSUME WorkerTypeOK, NEW r \in Requests, NEW tx,
           \/ cache' = cache
           \/ cache' = [cache EXCEPT ![isolate[r]][KeyWanted(r)] = tx]
    PROVE  \A i \in Isolates, k \in Keys :
               \/ cache'[i][k] = cache[i][k]
               \/ k = KeyWanted(r) /\ cache'[i][k] = tx
<1>1. cache \in [Isolates -> [Keys -> Txs \cup {NoTx}]] /\ isolate[r] \in Isolates
  BY DEF WorkerTypeOK
<1>2. SUFFICES ASSUME NEW i \in Isolates, NEW k \in Keys,
                      cache' = [cache EXCEPT ![isolate[r]][KeyWanted(r)] = tx]
               PROVE  \/ cache'[i][k] = cache[i][k]
                      \/ k = KeyWanted(r) /\ cache'[i][k] = tx
  OBVIOUS
<1>3. cache'[i] = IF i = isolate[r] THEN [cache[i] EXCEPT ![KeyWanted(r)] = tx]
                                    ELSE cache[i]
  BY <1>1, <1>2
<1>4. cache[i] \in [Keys -> Txs \cup {NoTx}]
  BY <1>1
<1>5. QED
  BY <1>3, <1>4

\* Whatever else moves tells nobody anything and puts nothing into a cache.
LEMMA OthersTellNothing ==
    ASSUME WorkerTypeOK,
           \/ \E i \in Isolates : Evict(i)
           \/ \E i \in Isolates, k \in Keys : CacheExpires(i, k)
           \/ SignerMoves \/ Served \/ UNCHANGED workerVars
    PROVE  /\ UNCHANGED <<answer, answerTx>>
           /\ \A q \in Requests : handler'[q] # "answered" => handler[q] # "answered"
           /\ \A i \in Isolates, k \in Keys : cache'[i][k] \in {NoTx, cache[i][k]}
<1>1. CASE \E i \in Isolates : Evict(i)
  BY <1>1 DEF Evict, Handling, WorkerTypeOK
<1>2. CASE \E i \in Isolates, k \in Keys : CacheExpires(i, k)
  BY <1>2 DEF CacheExpires, WorkerTypeOK
<1>3. CASE SignerMoves \/ Served \/ UNCHANGED workerVars
  BY <1>3 DEF SignerMoves, Served, workerVars, handlerVars
<1>4. QED
  BY <1>1, <1>2, <1>3

LEMMA AnsweredOnceCorrect == WorkerSpec => []AnsweredOnce
<1>1. WorkerInit => AnsweredOnce
  BY DEF WorkerInit, AnsweredOnce
<1>2. WorkerTypeOK /\ AnsweredOnce /\ [WorkerNext]_workerVars => AnsweredOnce'
  <2> SUFFICES ASSUME WorkerTypeOK, AnsweredOnce, [WorkerNext]_workerVars
               PROVE  AnsweredOnce'
    OBVIOUS
  <2>1. ASSUME NEW r \in Requests, Handle(r) PROVE AnsweredOnce'
    BY <2>1, HandleTells
       DEF TellsNothing, TellsFailure, TellsCached, ReceiptMatches, Answer,
           AnsweredOnce, WorkerTypeOK
  <2>2. QED
    BY <2>1, OthersTellNothing DEF WorkerNext, AnsweredOnce
<1>3. QED
  BY <1>1, <1>2, WorkerTypeCorrect, PTL DEF WorkerSpec

------------------------------------------------------------------------------
(***************************************************************************)
(* Whose receipt a request is brought.  While the chain loses nothing and  *)
(* nobody else has the wallet, a hash has no other transaction with its    *)
(* account nonce; otherwise the receipt may be that of a replacement, and  *)
(* only its terms can tell the two apart.                                  *)
(***************************************************************************)

\* No two payments are alike: of the same value, from and to the same account.
TermsTellKeys == \A a, b \in Auths : SameTerms(a, b) => KeyOf[a] = KeyOf[b]

LEMMA NoReplacements ==
    ASSUME "drop" \notin Faults, "reorg" \notin Faults, "shared" \notin Faults,
           HashesAreIssued, IssuedIsLive, NonceUnique,
           NEW r \in Requests, hash[r] # NoTx
    PROVE  ReceiptsOf(hash[r]) \subseteq {hash[r]}
<1>1. hash[r] \in Live
  BY DEF HashesAreIssued, IssuedIsLive
<1>2. QED
  BY <1>1 DEF ReceiptsOf, Live, NonceUnique

\* A transaction in a block has a nonce, so a hash with a receipt is one.
LEMMA ReceiptHasHash ==
    ASSUME TypeOK, NEW r \in Requests, NEW t \in mined, t \in ReceiptsOf(hash[r])
    PROVE  hash[r] # NoTx /\ t \in Txs /\ hash[r] \in Txs
  BY DEF ReceiptsOf, TypeOK, ChainTypeOK, Txs, NoTx

LEMMA ReceiptsOwnCorrect ==
    ASSUME "drop" \notin Faults, "reorg" \notin Faults, "shared" \notin Faults
    PROVE  WorkerSpec => []ReceiptsAreOwn
<1>1. TypeOK /\ HashesAreIssued /\ IssuedIsLive /\ NonceUnique => ReceiptsAreOwn
  BY NoReplacements, ReceiptHasHash DEF ReceiptsAreOwn
<1>2. QED
  BY <1>1, ImplementsSigner, TypeCorrect, HashesGenuine, NothingSentIsLost,
     NonceSafety, PTL

LEMMA ReceiptsOfKeyCorrect ==
    ASSUME \/ "drop" \notin Faults /\ "reorg" \notin Faults /\ "shared" \notin Faults
           \/ TermsTellKeys
    PROVE  WorkerSpec => []ReceiptsAreOfKey
<1>1. ASSUME "drop" \notin Faults, "reorg" \notin Faults, "shared" \notin Faults
      PROVE  WorkerSpec => []ReceiptsAreOfKey
  <2>1. TypeOK /\ HashesAreIssued /\ ReceiptsAreOwn => ReceiptsAreOfKey
    BY ReceiptHasHash DEF ReceiptsAreOwn, ReceiptsAreOfKey, HashesAreIssued
  <2>2. WorkerSpec => []ReceiptsAreOwn
    BY <1>1, ReceiptsOwnCorrect
  <2>3. QED
    BY <2>1, <2>2, ImplementsSigner, TypeCorrect, HashesGenuine, PTL
<1>2. ASSUME TermsTellKeys PROVE WorkerSpec => []ReceiptsAreOfKey
  <2>1. TypeOK => ReceiptsAreOfKey
    BY <1>2, ReceiptHasHash
       DEF ReceiptsAreOfKey, TermsTellKeys, Key, KeyWanted, TypeOK, Txs
  <2>2. QED
    BY <2>1, ImplementsSigner, TypeCorrect, PTL
<1>3. QED
  BY <1>1, <1>2

LEMMA PaidCorrect ==
    ASSUME "drop" \notin Faults, "reorg" \notin Faults, "shared" \notin Faults
    PROVE  WorkerSpec => []PaidInv
<1>1. WorkerInit => PaidInv
  BY DEF WorkerInit, PaidInv
<1>2. /\ WorkerTypeOK /\ HashesAreIssued /\ ReceiptsAreOwn /\ PaidInv
      /\ [WorkerNext]_workerVars
      => PaidInv'
  <2> SUFFICES ASSUME WorkerTypeOK, HashesAreIssued, ReceiptsAreOwn, PaidInv,
                      [WorkerNext]_workerVars
               PROVE  PaidInv'
    OBVIOUS
  <2>0. mined \subseteq mined' /\ \A q \in Requests : KeyWanted(q)' = KeyWanted(q)
    BY MinedStays, WantStays DEF KeyWanted
  <2>1. ASSUME NEW r \in Requests, Handle(r) PROVE PaidInv'
    <3>1. CASE TellsNothing(r) \/ TellsFailure(r)
      <4>1. /\ cache' = cache
            /\ \A q \in Requests : answer'[q] = "success" =>
                   answer[q] = "success" /\ answerTx'[q] = answerTx[q]
        BY <3>1 DEF TellsNothing, TellsFailure, Answer, WorkerTypeOK
      <4>2. QED
        BY <2>0, <4>1 DEF PaidInv, Key
    <3>2. ASSUME NEW tx, tx \in mined, Key(tx) = KeyWanted(r),
                 Answer(r, "success", tx),
                 \/ cache' = cache
                 \/ cache' = [cache EXCEPT ![isolate[r]][KeyWanted(r)] = tx]
          PROVE  PaidInv'
      <4>1. \A q \in Requests : answer'[q] = "success" =>
                \/ q = r /\ answerTx'[q] = tx
                \/ answer[q] = "success" /\ answerTx'[q] = answerTx[q]
        BY <3>2 DEF Answer, WorkerTypeOK
      <4>2. \A i \in Isolates, k \in Keys :
                \/ cache'[i][k] = cache[i][k]
                \/ k = KeyWanted(r) /\ cache'[i][k] = tx
        <5>1. \/ cache' = cache
              \/ cache' = [cache EXCEPT ![isolate[r]][KeyWanted(r)] = tx]
          BY <3>2
        <5>2. QED
          BY <5>1, CacheUpdated
      <4>3. QED
        BY <2>0, <3>2, <4>1, <4>2 DEF PaidInv, Key
    <3>3. CASE TellsCached(r)
      <4>1. KeyWanted(r) \in Keys /\ isolate[r] \in Isolates
        BY DEF KeyWanted, WorkerTypeOK, TypeOK
      <4>2. QED
        BY <3>2, <3>3, <4>1 DEF TellsCached, Cached, PaidInv
    <3>4. CASE ReceiptMatches(r)
      <4>1. hash[r] \in mined /\ Key(hash[r]) = KeyWanted(r)
        BY <3>4, ReceiptHasHash
           DEF ReceiptMatches, ReceiptsAreOwn, HashesAreIssued, WorkerTypeOK
      <4>2. QED
        BY <3>2, <3>4, <4>1 DEF ReceiptMatches
    <3>5. QED
      BY <2>1, <3>1, <3>3, <3>4, HandleTells
  <2>2. CASE UNCHANGED <<answer, answerTx>> /\
             \A i \in Isolates, k \in Keys : cache'[i][k] \in {NoTx, cache[i][k]}
    BY <2>0, <2>2 DEF PaidInv, Key
  <2>3. QED
    BY <2>1, <2>2, OthersTellNothing DEF WorkerNext
<1>3. QED
  BY <1>1, <1>2, WorkerTypeCorrect, ImplementsSigner, HashesGenuine,
     ReceiptsOwnCorrect, PTL DEF WorkerSpec

LEMMA KeyPaidCorrect ==
    ASSUME "reorg" \notin Faults,
           ("drop" \notin Faults /\ "shared" \notin Faults) \/ TermsTellKeys
    PROVE  WorkerSpec => []KeyPaidInv
<1>1. WorkerInit => KeyPaidInv
  BY DEF WorkerInit, KeyPaidInv
<1>2. WorkerTypeOK /\ ReceiptsAreOfKey /\ KeyPaidInv /\ [WorkerNext]_workerVars
      => KeyPaidInv'
  <2> SUFFICES ASSUME WorkerTypeOK, ReceiptsAreOfKey, KeyPaidInv,
                      [WorkerNext]_workerVars
               PROVE  KeyPaidInv'
    OBVIOUS
  <2>0. /\ \A k \in Keys : Consumed(k) => Consumed(k)'
        /\ \A q \in Requests : KeyWanted(q)' = KeyWanted(q) /\ KeyWanted(q) \in Keys
    BY MinedStays, WantStays DEF Consumed, Key, KeyWanted, WorkerTypeOK, TypeOK
  <2>1. ASSUME NEW r \in Requests, Handle(r) PROVE KeyPaidInv'
    <3>1. CASE TellsNothing(r) \/ TellsFailure(r)
      BY <2>0, <3>1 DEF TellsNothing, TellsFailure, Answer, KeyPaidInv, WorkerTypeOK
    <3>2. ASSUME NEW tx, Consumed(KeyWanted(r)), Answer(r, "success", tx),
                 \/ cache' = cache
                 \/ cache' = [cache EXCEPT ![isolate[r]][KeyWanted(r)] = tx]
          PROVE  KeyPaidInv'
      <4>1. \A q \in Requests : answer'[q] = "success" => q = r \/ answer[q] = "success"
        BY <3>2 DEF Answer, WorkerTypeOK
      <4>2. \A i \in Isolates, k \in Keys :
                cache'[i][k] = cache[i][k] \/ k = KeyWanted(r)
        BY <3>2, CacheUpdated
      <4>3. QED
        BY <2>0, <3>2, <4>1, <4>2 DEF KeyPaidInv
    <3>3. CASE TellsCached(r)
      BY <2>0, <3>2, <3>3 DEF TellsCached, Cached, KeyPaidInv, WorkerTypeOK
    <3>4. CASE ReceiptMatches(r)
      <4>1. Consumed(KeyWanted(r))
        BY <3>4 DEF ReceiptMatches, ReceiptsAreOfKey, Consumed
      <4>2. QED
        BY <3>2, <3>4, <4>1 DEF ReceiptMatches
    <3>5. QED
      BY <2>1, <3>1, <3>3, <3>4, HandleTells
  <2>2. CASE UNCHANGED <<answer, answerTx>> /\
             \A i \in Isolates, k \in Keys : cache'[i][k] \in {NoTx, cache[i][k]}
    BY <2>0, <2>2 DEF KeyPaidInv
  <2>3. QED
    BY <2>1, <2>2, OthersTellNothing DEF WorkerNext
<1>3. QED
  BY <1>1, <1>2, WorkerTypeCorrect, ReceiptsOfKeyCorrect, PTL DEF WorkerSpec

(***************************************************************************)
(* A caller told "success" was told the hash of the transaction that paid, *)
(* provided a payer never signs two different payments with one nonce and  *)
(* no transaction is ever lost and replaced by another one of the wallet.  *)
(* Neither holds everywhere; what is left without the second one is        *)
(* SuccessShowsTransfer.                                                   *)
(***************************************************************************)
THEOREM SuccessSafety ==
    ASSUME KeyDeterminesTerms, "drop" \notin Faults, "reorg" \notin Faults,
           "shared" \notin Faults
    PROVE  WorkerSpec => []SuccessIsPaid
<1>1. WorkerTypeOK /\ PaidInv => SuccessIsPaid
  BY DEF PaidInv, SuccessIsPaid, KeyDeterminesTerms, Key, KeyWanted, WorkerTypeOK,
         TypeOK, ChainTypeOK, Txs
<1>2. QED
  BY <1>1, WorkerTypeCorrect, PaidCorrect, PTL

(***************************************************************************)
(* A transfer runs once for each key.                                      *)
(***************************************************************************)
LEMMA PaidOnceCorrect == WorkerSpec => []PaidOnce
<1>1. WorkerInit => PaidOnce
  BY DEF WorkerInit, Init, ChainInit, PaidOnce
<1>2. PaidOnce /\ [WorkerNext]_workerVars => PaidOnce'
  <2> SUFFICES ASSUME PaidOnce, [WorkerNext]_workerVars PROVE PaidOnce'
    OBVIOUS
  <2>1. [Next]_vars
    BY WorkerStepIsSignerStep
  <2>2. CASE ChainMoves
    BY <2>2, ChainPaysOnce DEF ChainMoves
  <2>3. CASE ~ ChainMoves
    <3>1. mined' = mined
      <4>1. CASE \E r \in Requests : Call(r) \/ Lane(r)
        BY <4>1 DEF Call, Lane, EnterReplays, EnterRefuses, EnterProceeds, Prepare,
                    PrepareFails, Send, SendAmbiguous, SendRefused, Record,
                    ReplyBroadcast, Broadcast, chainVars
      <4>2. CASE Upkeep \/ Finished \/ UNCHANGED vars
        BY <4>2 DEF Upkeep, Prune, PruneComesDue, Reset, RecordAges, Finished, vars,
                    chainVars
      <4>3. QED
        BY <2>1, <2>3, <4>1, <4>2 DEF Next
    <3>2. QED
      BY <3>1 DEF PaidOnce, Key
  <2>4. QED
    BY <2>2, <2>3
<1>3. QED
  BY <1>1, <1>2, PTL DEF WorkerSpec

(***************************************************************************)
(* While the chain loses nothing and nobody else has the wallet, all who   *)
(* are told that one (payer, nonce) was paid are told one hash, even if    *)
(* the payer signed two payments with that nonce.  A transaction that the  *)
(* mempool loses and a retry sends again with other fees ends this: one    *)
(* caller keeps the hash that was lost, the other is told the new one.     *)
(***************************************************************************)
THEOREM AgreementOnHash ==
    ASSUME "drop" \notin Faults, "reorg" \notin Faults, "shared" \notin Faults
    PROVE  WorkerSpec => []SuccessesAgree
<1>1. PaidInv /\ PaidOnce => SuccessesAgree
  BY DEF PaidInv, PaidOnce, SuccessesAgree
<1>2. QED
  BY <1>1, PaidCorrect, PaidOnceCorrect, PTL

(***************************************************************************)
(* Whatever transactions are lost and replaced: at the account nonce of    *)
(* the hash that a success names, a block shows a transfer of the value    *)
(* and between the accounts asked for.                                     *)
(***************************************************************************)
LEMMA TransferCorrect ==
    ASSUME KeyDeterminesTerms, "reorg" \notin Faults
    PROVE  WorkerSpec => []TransferInv
<1> DEFINE Seen(n, a) == \E t \in mined : t.nonce = n /\ SameTerms(t.auth, a)
<1>1. WorkerInit => TransferInv
  BY DEF WorkerInit, TransferInv, ChainAssumption
<1>2. WorkerTypeOK /\ TransferInv /\ [WorkerNext]_workerVars => TransferInv'
  <2> SUFFICES ASSUME WorkerTypeOK, TransferInv, [WorkerNext]_workerVars
               PROVE  TransferInv'
    OBVIOUS
  <2>0. /\ \A n, a : Seen(n, a) => Seen(n, a)'
        /\ \A q \in Requests : want'[q] = want[q] /\ want[q] \in Auths
    BY MinedStays, WantStays DEF WorkerTypeOK, TypeOK, SameTerms
  <2>01. /\ \A q \in Requests :
                answer[q] = "success" => Seen(answerTx[q].nonce, want[q])
         /\ \A i \in Isolates, a \in Auths :
                cache[i][KeyOf[a]] # NoTx => Seen(cache[i][KeyOf[a]].nonce, a)
    BY DEF TransferInv
  <2>02. ASSUME \A q \in Requests :
                   answer'[q] = "success" => Seen(answerTx'[q].nonce, want[q]),
                \A i \in Isolates, a \in Auths :
                   cache'[i][KeyOf[a]] # NoTx => Seen(cache'[i][KeyOf[a]].nonce, a)
         PROVE  TransferInv'
    <3>1. \A q \in Requests :
             answer'[q] = "success" => Seen(answerTx[q].nonce, want[q])'
      BY <2>0, <2>02
    <3>2. \A i \in Isolates, a \in Auths :
             cache'[i][KeyOf[a]] # NoTx => Seen(cache[i][KeyOf[a]].nonce, a)'
      BY <2>0, <2>02
    <3>3. QED
      BY <3>1, <3>2 DEF TransferInv
  <2> HIDE DEF Seen
  <2>1. ASSUME NEW r \in Requests, Handle(r) PROVE TransferInv'
    <3>1. CASE TellsNothing(r) \/ TellsFailure(r)
      <4>1. /\ cache' = cache
            /\ \A q \in Requests : answer'[q] = "success" =>
                   answer[q] = "success" /\ answerTx'[q] = answerTx[q]
        BY <3>1 DEF TellsNothing, TellsFailure, Answer, WorkerTypeOK
      <4>2. QED
        BY <2>01, <2>02, <4>1
    <3>2. ASSUME NEW tx, Seen(tx.nonce, want[r]), Answer(r, "success", tx),
                 \/ cache' = cache
                 \/ cache' = [cache EXCEPT ![isolate[r]][KeyWanted(r)] = tx]
          PROVE  TransferInv'
      <4>1. \A q \in Requests : answer'[q] = "success" =>
                \/ q = r /\ answerTx'[q] = tx
                \/ answer[q] = "success" /\ answerTx'[q] = answerTx[q]
        BY <3>2 DEF Answer, WorkerTypeOK
      <4>2. \A i \in Isolates, k \in Keys :
                \/ cache'[i][k] = cache[i][k]
                \/ k = KeyWanted(r) /\ cache'[i][k] = tx
        <5>1. \/ cache' = cache
              \/ cache' = [cache EXCEPT ![isolate[r]][KeyWanted(r)] = tx]
          BY <3>2
        <5>2. QED
          BY <5>1, CacheUpdated
      <4>3. \A a \in Auths : KeyOf[a] = KeyWanted(r) => Seen(tx.nonce, a)
        BY <2>0, <3>2 DEF Seen, KeyDeterminesTerms, KeyWanted, SameTerms
      <4>4. \A i \in Isolates, a \in Auths :
               cache'[i][KeyOf[a]] # NoTx => Seen(cache'[i][KeyOf[a]].nonce, a)
        <5>1. \A a \in Auths : KeyOf[a] \in Keys
          BY DEF ChainAssumption
        <5>2. QED
          BY <2>01, <4>2, <4>3, <5>1
      <4>5. \A q \in Requests :
               answer'[q] = "success" => Seen(answerTx'[q].nonce, want[q])
        BY <2>01, <3>2, <4>1
      <4>6. QED
        BY <2>02, <4>4, <4>5
    <3>3. CASE TellsCached(r)
      <4>1. isolate[r] \in Isolates
        BY DEF WorkerTypeOK
      <4>2. Seen(Cached(r).nonce, want[r])
        BY <2>0, <2>01, <3>3, <4>1 DEF TellsCached, Cached, KeyWanted
      <4>3. QED
        BY <3>2, <3>3, <4>2 DEF TellsCached
    <3>4. CASE ReceiptMatches(r)
      <4>1. Seen(hash[r].nonce, want[r])
        BY <3>4 DEF Seen, ReceiptMatches, ReceiptsOf
      <4>2. QED
        BY <3>2, <3>4, <4>1 DEF ReceiptMatches
    <3>5. QED
      BY <2>1, <3>1, <3>3, <3>4, HandleTells
  <2>2. CASE UNCHANGED <<answer, answerTx>> /\
             \A i \in Isolates, k \in Keys : cache'[i][k] \in {NoTx, cache[i][k]}
    <3>1. \A a \in Auths : KeyOf[a] \in Keys
      BY DEF ChainAssumption
    <3>2. QED
      BY <2>01, <2>02, <2>2, <3>1
  <2>3. QED
    BY <2>1, <2>2, OthersTellNothing DEF WorkerNext
<1>3. QED
  BY <1>1, <1>2, WorkerTypeCorrect, PTL DEF WorkerSpec

(***************************************************************************)
(* A caller told "success" was told the hash of a transaction at whose     *)
(* account nonce a block shows the transfer that was asked for, and of     *)
(* that very transaction unless the mempool lost it: for transactions      *)
(* lost, repriced and sent again, in any number of isolates, provided a    *)
(* payer never signs two different payments with one nonce, mined          *)
(* transactions stay mined and no other host has the wallet.               *)
(***************************************************************************)
THEOREM SuccessShowsTransfer ==
    ASSUME KeyDeterminesTerms, "reorg" \notin Faults, "shared" \notin Faults
    PROVE  WorkerSpec => []SuccessIsSeen
<1>1. TransferInv /\ NonceUnique => SuccessIsSeen
  BY DEF TransferInv, NonceUnique, SuccessIsSeen, Live, InBlock
<1>2. QED
  BY <1>1, TransferCorrect, ImplementsSigner, NonceSafety, PTL

------------------------------------------------------------------------------
(***************************************************************************)
(* Every hash in an answer or in a cache was broadcast for its key.        *)
(***************************************************************************)

\* What a request has put into the mempool is never forgotten or replaced.
LEMMA IssuedStays ==
    ASSUME StoreInv, TypeOK, [WorkerNext]_workerVars
    PROVE  \A r \in Requests : issued[r] # NoTx => issued'[r] = issued[r]
<1>1. [Next]_vars
  BY WorkerStepIsSignerStep
<1>2. CASE \E r \in Requests : Send(r) \/ SendAmbiguous(r)
  BY <1>2 DEF Send, SendAmbiguous, Broadcast, StoreInv, NothingYet, TypeOK
<1>3. CASE \E r \in Requests : Call(r) \/ (Lane(r) /\ ~ Send(r) /\ ~ SendAmbiguous(r))
  BY <1>3 DEF Call, Lane, EnterReplays, EnterRefuses, EnterProceeds, Prepare,
              PrepareFails, SendRefused, Record, ReplyBroadcast, Put, Forget,
              historyVars
<1>4. CASE Upkeep \/ ChainMoves \/ Finished \/ UNCHANGED vars
  BY <1>4 DEF Upkeep, Prune, PruneComesDue, Reset, Put, Forget, RecordAges,
              ChainMoves, Finished,
              vars, signerVars, historyVars
<1>5. QED
  BY <1>1, <1>2, <1>3, <1>4 DEF Next

(***************************************************************************)
(* No assumption on the environment is needed: whatever fails, a hash that *)
(* a caller is given is one this facilitator broadcast for its key.        *)
(***************************************************************************)
THEOREM NamesIssued == WorkerSpec => []AnswersNameIssued
<1>1. WorkerInit => AnswersNameIssued
  BY DEF WorkerInit, AnswersNameIssued
<1>2. /\ WorkerTypeOK /\ StoreInv /\ AnswersNameIssued /\ [WorkerNext]_workerVars
      => AnswersNameIssued'
  <2> SUFFICES ASSUME WorkerTypeOK, StoreInv, AnswersNameIssued,
                      [WorkerNext]_workerVars
               PROVE  AnswersNameIssued'
    OBVIOUS
  <2> USE DEF WorkerTypeOK
  <2>0. Issued \subseteq Issued' /\ want' = want
    BY IssuedStays, WantStays DEF Issued
  <2>1. ASSUME NEW r \in Requests, Handle(r) PROVE AnswersNameIssued'
    <3>1. KeyWanted(r) \in Keys /\ KeyWanted(r)' = KeyWanted(r)
      BY <2>0 DEF KeyWanted, TypeOK
    <3>2. \A tx \in {NoTx, Cached(r), hash[r]} :
              tx # NoTx => tx \in Issued /\ Key(tx) = KeyWanted(r)
      BY <3>1 DEF AnswersNameIssued, StoreInv, HashesAreIssued, Cached
    <3>3. /\ \A q \in Requests : q # r => answerTx'[q] = answerTx[q]
          /\ answerTx'[r] \in {answerTx[r], NoTx, Cached(r), hash[r]}
          /\ \A i \in Isolates, k \in Keys :
                 cache'[i][k] # cache[i][k] => k = KeyWanted(r) /\ cache'[i][k] = hash[r]
      <4> USE DEF Goto, Fail, Answer
      <4>1. CASE Arrive(r)
        BY <4>1 DEF Arrive
      <4>2. CASE ReadUsed(r) \/ ReadBalance(r) \/ Simulate(r) \/ SimulateFails(r)
        BY <4>2 DEF ReadUsed, ReadBalance, Proceed, Simulate, SimulateFails
      <4>3. CASE LaneReturned(r) \/ ReceiptFails(r)
        BY <4>3 DEF LaneReturned, ReceiptFails
      <4>4. CASE ReceiptMatches(r)
        BY <4>4 DEF ReceiptMatches
      <4>5. QED
        BY <2>1, <4>1, <4>2, <4>3, <4>4 DEF Handle
    <3>4. \A q \in Requests : KeyWanted(q)' = KeyWanted(q)
      BY <2>0 DEF KeyWanted
    <3>5. \A q \in Requests :
              answerTx'[q] # NoTx => /\ answerTx'[q] \in Issued'
                                     /\ Key(answerTx'[q]) = KeyWanted(q)
      BY <2>0, <3>2, <3>3 DEF AnswersNameIssued
    <3>6. \A i \in Isolates, k \in Keys :
              cache'[i][k] # NoTx => cache'[i][k] \in Issued' /\ Key(cache'[i][k]) = k
      BY <2>0, <3>2, <3>3 DEF AnswersNameIssued
    <3>7. QED
      BY <3>4, <3>5, <3>6 DEF AnswersNameIssued, Key
  <2>2. ASSUME NEW i \in Isolates, Evict(i) PROVE AnswersNameIssued'
    BY <2>0, <2>2 DEF Evict, AnswersNameIssued, KeyWanted, Key
  <2>3. ASSUME NEW i \in Isolates, NEW k \in Keys, CacheExpires(i, k)
        PROVE  AnswersNameIssued'
    BY <2>0, <2>3 DEF CacheExpires, AnswersNameIssued, KeyWanted, Key
  <2>4. CASE SignerMoves \/ Served \/ UNCHANGED workerVars
    BY <2>0, <2>4 DEF SignerMoves, Served, workerVars, handlerVars,
                      AnswersNameIssued, KeyWanted, Key
  <2>5. QED
    BY <2>1, <2>2, <2>3, <2>4 DEF WorkerNext
<1>3. QED
  BY <1>1, <1>2, WorkerTypeCorrect, ImplementsSigner, StoreCorrect, PTL
     DEF WorkerSpec

(***************************************************************************)
(* So /settle-status names only what was broadcast for the key, and knows  *)
(* of every broadcast whose record was not lost, in whichever isolate and  *)
(* whatever fails.                                                         *)
(***************************************************************************)
THEOREM StatusIsTruthful == WorkerSpec => []StatusTruthful
<1>1. /\ TypeOK /\ StoreInv /\ StatusFindsBroadcast /\ AnswersNameIssued
      => StatusTruthful
  <2> SUFFICES ASSUME TypeOK, StoreInv, StatusFindsBroadcast, AnswersNameIssued,
                      NEW i \in Isolates, NEW k \in Keys
               PROVE  LET status == SettleStatus(i, k)
                      IN  /\ status # NoTx => status \in Issued /\ Key(status) = k
                          /\ lane = NoOne /\ status = NoTx
                                 => broadcasts[k] <= forgets[k]
    BY DEF StatusTruthful
  <2>1. cache[i][k] # NoTx => cache[i][k] \in Issued /\ Key(cache[i][k]) = k
    BY DEF AnswersNameIssued
  <2>2. record[k] # NoTx => record[k] \in Issued /\ Key(record[k]) = k
    BY DEF StoreInv, HashesAreIssued
  <2>3. broadcasts[k] \in Nat /\ forgets[k] \in Nat
    BY DEF TypeOK
  <2>4. lane = NoOne /\ record[k] = NoTx => broadcasts[k] <= forgets[k]
    BY <2>3 DEF StatusFindsBroadcast
  <2>5. QED
    BY <2>1, <2>2, <2>4 DEF SettleStatus
<1>2. QED
  BY <1>1, TypeCorrect, StoreCorrect, StatusComplete, NamesIssued, ImplementsSigner, PTL

------------------------------------------------------------------------------
(***************************************************************************)
(* A failure without a hash.                                               *)
(***************************************************************************)

LEMMA EmptyCorrect == WorkerSpec => []EmptyInv
<1>1. WorkerInit => EmptyInv
  BY DEF WorkerInit, Init, SignerInit, EmptyInv, HandlerFollowsStage,
         RefusalSentNothing
<1>2. /\ WorkerTypeOK /\ StoreInv /\ EmptyInv /\ [WorkerNext]_workerVars
      => EmptyInv'
  <2> SUFFICES ASSUME WorkerTypeOK, StoreInv, EmptyInv, [WorkerNext]_workerVars
               PROVE  EmptyInv'
    OBVIOUS
  <2> USE DEF WorkerTypeOK, EmptyInv
  <2>1. ASSUME NEW r \in Requests, Handle(r) PROVE EmptyInv'
    <3> USE DEF HandlerFollowsStage, Goto, Fail, Answer
    <3>1. CASE Simulate(r)
      BY <3>1 DEF Simulate, Call, RefusalSentNothing, historyVars, TypeOK
    <3>2. CASE ~ Simulate(r)
      <4>1. UNCHANGED <<stage, issued, code>>
        BY <2>1, <3>2, HandlerLeavesSigner DEF vars, signerVars, callVars,
                                               historyVars
      <4>2. CASE Arrive(r)
        BY <4>1, <4>2 DEF Arrive, RefusalSentNothing
      <4>3. CASE ReadUsed(r)
        BY <4>1, <4>3 DEF ReadUsed, Proceed, RefusalSentNothing
      <4>4. CASE ReadBalance(r)
        BY <4>1, <4>4 DEF ReadBalance, Proceed, RefusalSentNothing
      <4>5. CASE SimulateFails(r)
        BY <4>1, <4>5 DEF SimulateFails, RefusalSentNothing
      <4>6. CASE LaneReturned(r)
        BY <4>1, <4>6 DEF LaneReturned, RefusalSentNothing
      <4>7. CASE ReceiptMatches(r) \/ ReceiptFails(r)
        <5>1. hash[r] # NoTx
          BY <4>7 DEF ReceiptMatches, ReceiptFails, StoreInv, RepliesHaveHash
        <5>2. QED
          BY <4>1, <4>7, <5>1 DEF ReceiptMatches, ReceiptFails,
                                  RefusalSentNothing
      <4>8. QED
        BY <2>1, <3>2, <4>2, <4>3, <4>4, <4>5, <4>6, <4>7 DEF Handle
    <3>3. QED
      BY <3>1, <3>2
  <2>2. CASE SignerMoves
    <3>1. CASE ChainMoves
      BY <2>2, <3>1 DEF SignerMoves, ChainMoves, signerVars, callVars,
                        historyVars,
                        handlerVars, HandlerFollowsStage, RefusalSentNothing
    <3>2. CASE (\E r \in Requests : Lane(r)) \/ Upkeep
      BY <2>2, <3>2, LaneMovesStages DEF SignerMoves, handlerVars,
                                         HandlerFollowsStage, Returned
    <3>3. QED
      BY <2>2, <3>1, <3>2 DEF SignerMoves
  <2>3. CASE \/ \E i \in Isolates : Evict(i)
             \/ \E i \in Isolates, k \in Keys : CacheExpires(i, k)
    BY <2>3 DEF Evict, CacheExpires, Handling, HandlerFollowsStage,
                RefusalSentNothing, vars, signerVars, callVars, historyVars
  <2>4. CASE Served \/ UNCHANGED workerVars
    BY <2>4 DEF Served, workerVars, handlerVars, HandlerFollowsStage,
                RefusalSentNothing, vars, signerVars, callVars, historyVars
  <2>5. QED
    BY <2>1, <2>2, <2>3, <2>4 DEF WorkerNext
<1>3. QED
  BY <1>1, <1>2, WorkerTypeCorrect, ImplementsSigner, StoreCorrect, PTL
     DEF WorkerSpec
LEMMA EmptyFailuresByInv == StoreInv /\ EmptyInv => EmptyFailureSentNothing
  BY DEF StoreInv, NothingYet, EmptyInv, HandlerFollowsStage,
         RefusalSentNothing, EmptyFailureSentNothing, Doubtful

(***************************************************************************)
(* Under every disturbance, a failure with a definite reason and no hash   *)
(* means that its request has broadcast nothing.                           *)
(***************************************************************************)
THEOREM HonestEmptyFailure == WorkerSpec => []EmptyFailureSentNothing
  BY EmptyFailuresByInv, EmptyCorrect, ImplementsSigner, StoreCorrect, PTL

------------------------------------------------------------------------------
(***************************************************************************)
(* The refinement to Settlement.                                           *)
(***************************************************************************)

\* Nothing but Send and SendAmbiguous of a request adds to what is live.
LEMMA LiveCorrect ==
    ASSUME "shared" \notin Faults
    PROVE  WorkerSpec => []LiveIsIssued
<1>1. WorkerInit => LiveIsIssued
  BY DEF WorkerInit, Init, ChainInit, LiveIsIssued, Live, InBlock
<1>2. /\ WorkerTypeOK /\ StoreInv /\ LiveIsIssued /\ [WorkerNext]_workerVars
      => LiveIsIssued'
  <2> SUFFICES ASSUME WorkerTypeOK, StoreInv, LiveIsIssued, [WorkerNext]_workerVars
               PROVE  LiveIsIssued'
    OBVIOUS
  <2> USE DEF WorkerTypeOK
  <2>0. /\ want' = want
        /\ \A r \in Requests : issued[r] # NoTx => issued'[r] = issued[r]
    BY IssuedStays, WantStays
  <2>1. Live' \subseteq Live => LiveIsIssued'
    <3>1. \A t \in Live : t # NoTx
      BY DEF Live, InBlock, TypeOK, ChainTypeOK, Txs, NoTx
    <3>2. QED
      BY <2>0, <3>1 DEF LiveIsIssued
  <2>2. ASSUME NEW r \in Requests, Broadcast(r) PROVE LiveIsIssued'
    <3>1. Live' = Live \cup {OwnTx(r)}
      BY <2>2 DEF Broadcast, Live, InBlock
    <3>2. issued'[r] = OwnTx(r) /\ want[r] = OwnTx(r).auth
      BY <2>2 DEF Broadcast, OwnTx, TypeOK
    <3>3. \A t \in Live : t # NoTx
      BY DEF Live, InBlock, TypeOK, ChainTypeOK, Txs, NoTx
    <3>4. QED
      BY <2>0, <3>1, <3>2, <3>3 DEF LiveIsIssued
  <2>3. [Next]_vars
    BY WorkerStepIsSignerStep
  <2>4. CASE \E r \in Requests : Send(r) \/ SendAmbiguous(r)
    BY <2>2, <2>4 DEF Send, SendAmbiguous
  <2>5. CASE \E r \in Requests : Call(r) \/ (Lane(r) /\ ~ Send(r) /\ ~ SendAmbiguous(r))
    <3>1. UNCHANGED chainVars
      BY <2>5 DEF Call, Lane, EnterReplays, EnterRefuses, EnterProceeds, Prepare,
                  PrepareFails, SendRefused, Record, ReplyBroadcast
    <3>2. QED
      BY <2>1, <3>1 DEF chainVars, Live, InBlock
  <2>6. CASE Upkeep \/ Finished \/ UNCHANGED vars
    <3>1. UNCHANGED chainVars
      BY <2>6 DEF Upkeep, Prune, PruneComesDue, Reset, RecordAges, Finished, vars
    <3>2. QED
      BY <2>1, <3>1 DEF chainVars, Live, InBlock
  <2>7. CASE ChainMoves
    <3>1. Live' \subseteq Live
      BY <2>7 DEF ChainMoves, ChainStep, Mine, Drop, Reorg, WindowMoves, PayerMoves,
                  ForeignSend, Live, InBlock
    <3>2. QED
      BY <2>1, <3>1
  <2>8. QED
    BY <2>3, <2>4, <2>5, <2>6, <2>7 DEF Next
<1>3. QED
  BY <1>1, <1>2, WorkerTypeCorrect, ImplementsSigner, StoreCorrect, PTL
     DEF WorkerSpec

(***************************************************************************)
(* While nobody else has the wallet, whatever a block may still hold was   *)
(* asked for by a caller who has not been refused.                         *)
(***************************************************************************)
THEOREM RefusedIsNotCharged ==
    ASSUME "shared" \notin Faults
    PROVE  WorkerSpec => []LiveIsNotRefused
<1>1. /\ WorkerTypeOK /\ LiveIsIssued /\ AnsweredOnce /\ EmptyFailureSentNothing
      => LiveIsNotRefused
  <2> SUFFICES ASSUME WorkerTypeOK, LiveIsIssued, AnsweredOnce,
                      EmptyFailureSentNothing, NEW t \in Live,
                      NEW r \in Requests, issued[r] = t, want[r] = t.auth
               PROVE  Told(r) # "refused"
    BY DEF LiveIsIssued, LiveIsNotRefused
  <2>1. t # NoTx
    BY DEF Live, InBlock, WorkerTypeOK, TypeOK, ChainTypeOK, Txs, NoTx
  <2>2. QED
    BY <2>1 DEF Told, EmptyFailureSentNothing, AnsweredOnce
<1>2. QED
  BY <1>1, WorkerTypeCorrect, LiveCorrect, AnsweredOnceCorrect, HonestEmptyFailure, PTL

(***************************************************************************)
(* Without reorganisations, without another host on the same wallet, and   *)
(* if no transaction is lost or no two payments look alike, the Worker     *)
(* host implements Settlement: every step sends one request's transaction, *)
(* pays one unpaid key that was sent, tells one request one thing that is  *)
(* true, or changes nothing a caller could see.  Nothing is asked of the   *)
(* payers: they may sign two transfers with one nonce.                     *)
(***************************************************************************)
THEOREM WorkerKeepsPromise ==
    ASSUME "reorg" \notin Faults, "shared" \notin Faults,
           "drop" \notin Faults \/ TermsTellKeys
    PROVE  WorkerSpec => KeepsPromise
<1> DEFINE Asks == [r \in Requests |-> KeyWanted(r)]
           Paid == {Key(t) : t \in mined}
           Tells == [r \in Requests |-> Told(r)]
           Inv == /\ WorkerTypeOK /\ StoreInv /\ KeyPaidInv /\ AnsweredOnce
                  /\ EmptyInv /\ LiveIsIssued
<1>1. WorkerInit => Promise!Init
  BY DEF WorkerInit, Init, ChainInit, SignerInit, Promise!Init, Told, KeyWanted, Sent
<1>2. Inv /\ Inv' /\ [WorkerNext]_workerVars => [Promise!Next]_(Promise!vars)
  <2> SUFFICES ASSUME Inv, Inv', [WorkerNext]_workerVars
               PROVE  Promise!Next \/ UNCHANGED <<Asks, Sent, Paid, Tells>>
    BY DEF Promise!vars
  <2>0. Asks' = Asks
    BY WantStays DEF KeyWanted
  <2>1. ASSUME NEW r \in Requests, Handle(r)
        PROVE  Promise!Next \/ UNCHANGED <<Asks, Sent, Paid, Tells>>
    <3>1. mined' = mined /\ issued' = issued
      BY <2>1, HandlerLeavesSigner
         DEF Simulate, Call, vars, chainVars, signerVars, historyVars
    <3>2. Paid' = Paid /\ Sent' = Sent
      BY <3>1 DEF Key, Sent
    <3>3. \/ UNCHANGED <<answer, answerTx>>
          \/ /\ handler[r] # "answered"
             /\ \E result, tx : Answer(r, result, tx)
      <4> USE DEF Goto, Fail
      <4>1. CASE Arrive(r) \/ ReadUsed(r)
        BY <4>1 DEF Arrive, ReadUsed, Proceed
      <4>2. CASE ReadBalance(r) \/ Simulate(r) \/ SimulateFails(r)
        BY <4>2 DEF ReadBalance, Proceed, Simulate, SimulateFails
      <4>3. CASE LaneReturned(r) \/ ReceiptMatches(r) \/ ReceiptFails(r)
        BY <4>3 DEF LaneReturned, ReceiptMatches, ReceiptFails
      <4>4. QED
        BY <2>1, <4>1, <4>2, <4>3 DEF Handle
    <3>4. CASE UNCHANGED <<answer, answerTx>>
      BY <2>0, <3>2, <3>4 DEF Told
    <3>5. CASE handler[r] # "answered" /\ \E result, tx : Answer(r, result, tx)
      <4>1. Tells[r] = "nothing"
        BY <3>5 DEF AnsweredOnce, Told
      <4>2. /\ handler'[r] = "answered"
            /\ \A q \in Requests :
                   q # r => answer'[q] = answer[q] /\ answerTx'[q] = answerTx[q]
        BY <3>5 DEF Answer, WorkerTypeOK
      <4>3. Tells' = [Tells EXCEPT ![r] = Told(r)']
        BY <4>2 DEF Told
      <4>4. CASE Told(r)' = "success"
        <5>1. answer'[r] = "success"
          BY <4>4 DEF Told
        <5>2. Asks[r] \in Paid
          BY <2>0, <3>1, <5>1 DEF KeyPaidInv, Consumed, KeyWanted, Key
        <5>3. Promise!TellSuccess(r)
          BY <2>0, <3>2, <4>1, <4>3, <4>4, <5>2 DEF Promise!TellSuccess, Promise!Tell
        <5>4. QED
          BY <5>3 DEF Promise!Next
      <4>5. CASE Told(r)' = "refused"
        <5>1. EmptyFailureSentNothing'
          BY DEF StoreInv, NothingYet, EmptyInv, HandlerFollowsStage,
                 RefusalSentNothing, EmptyFailureSentNothing, Doubtful
        <5>2. answerTx'[r] = NoTx /\ answer'[r] \notin Doubtful
          BY <4>5 DEF Told
        <5>3. r \notin Sent
          BY <3>1, <4>2, <5>1, <5>2 DEF EmptyFailureSentNothing, Sent
        <5>4. Promise!TellRefused(r)
          BY <2>0, <3>2, <4>1, <4>3, <4>5, <5>3 DEF Promise!TellRefused, Promise!Tell
        <5>5. QED
          BY <5>4 DEF Promise!Next
      <4>6. CASE Told(r)' = "unclear"
        <5>1. Promise!TellUnclear(r)
          BY <2>0, <3>2, <4>1, <4>3, <4>6 DEF Promise!TellUnclear, Promise!Tell
        <5>2. QED
          BY <5>1 DEF Promise!Next
      <4>7. CASE Told(r)' = "nothing"
        BY <2>0, <3>2, <4>1, <4>3, <4>7
      <4>8. QED
        BY <4>4, <4>5, <4>6, <4>7 DEF Told
    <3>6. QED
      BY <3>3, <3>4, <3>5
  <2>2. CASE SignerMoves
    <3>1. Tells' = Tells
      BY <2>2 DEF SignerMoves, handlerVars, Told
    <3>2. CASE ChainMoves
      <4>0. Sent' = Sent
        BY <3>2 DEF ChainMoves, signerVars, historyVars, Sent
      <4>1. ASSUME NEW t \in pending, Mine(t), Executes(t.auth)
            PROVE  Promise!Next
        <5>1. Key(t) \in Keys /\ Key(t) \notin Paid
          BY <4>1 DEF Executes, Consumed, Key, WorkerTypeOK, TypeOK,
                      ChainTypeOK, Txs
        <5>2. Paid' = Paid \cup {Key(t)}
          BY <4>1 DEF Mine, Key
        <5>3. t # NoTx
          BY DEF WorkerTypeOK, TypeOK, ChainTypeOK, Txs, NoTx
        <5>4. \E r \in Sent : Asks[r] = Key(t)
          BY <5>3 DEF LiveIsIssued, Live, Sent, KeyWanted, Key
        <5>5. Promise!Pay(Key(t))
          BY <2>0, <3>1, <4>0, <5>1, <5>2, <5>4 DEF Promise!Pay
        <5>6. QED
          BY <5>1, <5>5 DEF Promise!Next
      <4>2. ASSUME NEW t \in pending, Mine(t), ~ Executes(t.auth)
            PROVE  mined' = mined
        BY <4>2 DEF Mine
      <4>3. ASSUME \/ \E t \in pending : Drop(t)
                   \/ \E t \in InBlock : Reorg(t)
                   \/ \E a \in Auths : WindowMoves(a)
                   \/ \E p \in Payers, v \in 0 .. MaxBalance : PayerMoves(p, v)
                   \/ \E n \in 0 .. MaxNonce, a \in Auths, f \in Fees : ForeignSend(n, a, f)
            PROVE  mined' = mined
        BY <4>3 DEF Drop, Reorg, WindowMoves, PayerMoves, ForeignSend
      <4>4. mined' = mined \/ Promise!Next
        BY <3>2, <4>1, <4>2, <4>3 DEF ChainMoves, ChainStep
      <4>5. mined' = mined => Paid' = Paid
        BY DEF Key
      <4>6. QED
        BY <2>0, <3>1, <4>0, <4>4, <4>5
    <3>3. CASE (\E r \in Requests : Lane(r)) \/ Upkeep
      <4>1. mined' = mined
        BY <3>3 DEF Lane, EnterReplays, EnterRefuses, EnterProceeds, Prepare,
                    PrepareFails, Send, SendAmbiguous, SendRefused, Record,
                    ReplyBroadcast, Broadcast, Upkeep, Prune, PruneComesDue,
                    Reset, RecordAges, chainVars
      <4>2. Paid' = Paid
        BY <4>1 DEF Key
      <4>3. ASSUME NEW r \in Requests, Send(r) \/ SendAmbiguous(r)
            PROVE  Promise!Next
        <5>1. stage[r] = "sending" /\ issued' = [issued EXCEPT ![r] = OwnTx(r)]
          BY <4>3 DEF Send, SendAmbiguous, Broadcast
        <5>2. r \notin Sent /\ OwnTx(r) # NoTx
          BY <5>1 DEF StoreInv, NothingYet, Sent, OwnTx, NoTx, WorkerTypeOK, TypeOK
        <5>3. Sent' = Sent \cup {r}
          BY <5>1, <5>2 DEF Sent, WorkerTypeOK, TypeOK
        <5>4. Tells[r] = "nothing"
          BY <5>1 DEF EmptyInv, HandlerFollowsStage, AnsweredOnce, Told
        <5>5. Promise!Send(r)
          BY <2>0, <3>1, <4>2, <5>2, <5>3, <5>4 DEF Promise!Send
        <5>6. QED
          BY <5>5 DEF Promise!Next
      <4>4. CASE \E r \in Requests : Lane(r) /\ ~ Send(r) /\ ~ SendAmbiguous(r)
        <5>1. issued' = issued
          BY <4>4 DEF Lane, EnterReplays, EnterRefuses, EnterProceeds, Prepare,
                      PrepareFails, SendRefused, Record, ReplyBroadcast, historyVars
        <5>2. QED
          BY <2>0, <3>1, <4>2, <5>1 DEF Sent
      <4>5. CASE Upkeep
        <5>1. issued' = issued
          BY <4>5 DEF Upkeep, Prune, PruneComesDue, Reset, RecordAges, historyVars
        <5>2. QED
          BY <2>0, <3>1, <4>2, <5>1 DEF Sent
      <4>6. QED
        BY <3>3, <4>3, <4>4, <4>5
    <3>4. QED
      BY <2>2, <3>2, <3>3 DEF SignerMoves
  <2>3. CASE \/ \E i \in Isolates : Evict(i)
             \/ \E i \in Isolates, k \in Keys : CacheExpires(i, k)
             \/ Served \/ UNCHANGED workerVars
    <3>1. UNCHANGED <<mined, issued, answer, answerTx>>
      BY <2>3 DEF Evict, CacheExpires, Served, workerVars, handlerVars, vars,
                  chainVars, signerVars, historyVars
    <3>2. QED
      BY <2>0, <3>1 DEF Key, Told, Sent
  <2>4. QED
    BY <2>1, <2>2, <2>3 DEF WorkerNext
<1>3. QED
  BY <1>1, <1>2, WorkerTypeCorrect, ImplementsSigner, StoreCorrect, KeyPaidCorrect,
     AnsweredOnceCorrect, EmptyCorrect, LiveCorrect, PTL
     DEF WorkerSpec, KeepsPromise, Promise!Spec
==============================================================================
