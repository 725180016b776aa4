--------------------------- MODULE NodeSettleProofs ---------------------------
(***************************************************************************)
(* Theorems about NodeSettle, for any set of requests, authorizations and  *)
(* faults.                                                                 *)
(***************************************************************************)
EXTENDS NodeSettle, ChainProofs

USE ChainAssumption

(***************************************************************************)
(* The transaction of a request is a transaction for its key.              *)
(***************************************************************************)
LEMMA OwnTxIsTx ==
    ASSUME NodeTypeOK, NEW r \in Requests
    PROVE  /\ OwnTx(r) \in Txs /\ OwnTx(r) # NoTx
           /\ Key(OwnTx(r)) = KeyWanted(r) /\ KeyWanted(r) \in Keys
  BY DEF NodeTypeOK, OwnTx, Txs, NoTx, Key, KeyWanted

(***************************************************************************)
(* Types.  A handler past the queue holds the mutex, so the line it leaves *)
(* is not empty.                                                           *)
(***************************************************************************)

\* The line after one more request has joined it.
LEMMA JoinLine ==
    ASSUME line \in Seq(Requests), NEW r \in Requests, line' = Append(line, r)
    PROVE  /\ line' \in Seq(Requests)
           /\ \A q \in Requests : HasMutex(q) => HasMutex(q)'
  BY DEF HasMutex

\* The line after its holder has left it.
LEMMA LeaveLine ==
    ASSUME line \in Seq(Requests), line # <<>>, line' = Tail(line)
    PROVE  line' \in Seq(Requests)
  OBVIOUS

\* A step that only answers, with one of the known codes.
LEMMA AnswerTypes ==
    ASSUME NodeTypeOK, NEW r \in Requests,
           NEW result \in AnswerCodes, NEW tx \in Txs \cup {NoTx},
           Answer(r, result, tx)
    PROVE  /\ process' = process /\ want' = want /\ picked' = picked
           /\ handler' \in [Requests -> HandlerSteps]
           /\ answer' \in [Requests -> AnswerCodes]
           /\ answerTx' \in [Requests -> Txs \cup {NoTx}]
  BY DEF NodeTypeOK, Answer, HandlerSteps

LEMMA RefuseTypes ==
    ASSUME NodeTypeOK, NEW r \in Requests, line # <<>>,
           NEW reason \in AnswerCodes, Refuse(r, reason)
    PROVE  NodeTypeOK'
<1>1. Answer(r, reason, NoTx) /\ line' = Tail(line)
  BY DEF Refuse, Release
<1>2. line' \in Seq(Requests)
  BY <1>1, LeaveLine DEF NodeTypeOK
<1>3. QED
  BY <1>1, <1>2, AnswerTypes DEF Refuse, NodeTypeOK, ChainTypeOK, chainVars,
                                 historyVars

LEMMA ProceedTypes ==
    ASSUME NodeTypeOK, NEW r \in Requests, line # <<>>,
           NEW outcome \in AnswerCodes \cup {"ok"}, NEW step \in HandlerSteps,
           Proceed(r, outcome, step)
    PROVE  NodeTypeOK'
<1>1. CASE outcome = "ok" /\ Goto(r, step) /\ UNCHANGED <<chainVars, picked, historyVars>>
  BY <1>1 DEF Goto, NodeTypeOK, ChainTypeOK, chainVars, historyVars
<1>2. CASE outcome # "ok" /\ Refuse(r, outcome)
  BY <1>2, RefuseTypes
<1>3. QED
  BY <1>1, <1>2 DEF Proceed

LEMMA BroadcastTypes ==
    ASSUME NodeTypeOK, NEW r \in Requests, Broadcast(r)
    PROVE  /\ ChainTypeOK'
           /\ issued' \in [Requests -> Txs \cup {NoTx}]
           /\ broadcasts' \in [Keys -> Nat]
<1>1. OwnTx(r) \in Txs /\ KeyWanted(r) \in Keys
  BY OwnTxIsTx
<1>2. QED
  BY <1>1 DEF Broadcast, NodeTypeOK, ChainTypeOK

LEMMA AbandonTypes ==
    ASSUME NodeTypeOK, NEW r \in Requests, Abandon(r)
    PROVE  abandoned' \in [Keys -> Nat]
<1>1. KeyWanted(r) \in Keys /\ abandoned \in [Keys -> Nat]
  BY OwnTxIsTx DEF NodeTypeOK
<1>2. QED
  BY <1>1 DEF Abandon

LEMMA HandleTypes ==
    ASSUME NodeTypeOK, MutexHeld, NEW r \in Requests, Handle(r)
    PROVE  NodeTypeOK'
<1>0. Codes \subseteq AnswerCodes /\ {"authorization_already_used", "unexpected_verify_error"} \subseteq AnswerCodes
  BY DEF AnswerCodes
<1>01. handler[r] \in Working => line # <<>>
  BY DEF MutexHeld, HasMutex
<1>02. OwnTx(r) \in Txs /\ KeyWanted(r) \in Keys
  BY OwnTxIsTx
<1>03. {"balance", "simulate", "preparing", "sending", "receipt"} \subseteq HandlerSteps
  BY DEF HandlerSteps, InFlight, Working
<1>1. CASE Arrive(r)
  <2>1. ASSUME NEW result \in AnswerCodes, NEW tx \in Txs \cup {NoTx},
               Answer(r, result, tx), UNCHANGED line,
               UNCHANGED <<chainVars, cache, historyVars>>
        PROVE  NodeTypeOK'
    BY <2>1, AnswerTypes DEF NodeTypeOK, ChainTypeOK, chainVars, historyVars
  <2>2. cache[KeyWanted(r)] \in Txs \cup {NoTx}
    BY <1>02 DEF NodeTypeOK
  <2>3. CASE handler' = [handler EXCEPT ![r] = "queued"] /\ line' = Append(line, r)
    BY <1>1, <2>3, JoinLine DEF Arrive, NodeTypeOK, ChainTypeOK, chainVars,
                                historyVars, HandlerSteps, InFlight
  <2>4. QED
    BY <1>1, <2>1, <2>2, <2>3 DEF Arrive, AnswerCodes, Codes
<1>2. CASE ReadUsed(r)
  BY <1>0, <1>03, <1>2, ProceedTypes, CodesAreCodes DEF ReadUsed, HasMutex
<1>3. CASE ReadBalance(r)
  BY <1>0, <1>01, <1>03, <1>3, ProceedTypes, CodesAreCodes DEF ReadBalance, Working
<1>4. CASE Simulate(r)
  BY <1>0, <1>01, <1>03, <1>4, ProceedTypes, RefuseTypes, CodesAreCodes
     DEF Simulate, Working
<1>5. ASSUME NEW n \in 0 .. MaxNonce, Prepare(r, n) PROVE NodeTypeOK'
  BY <1>03, <1>5 DEF Prepare, Goto, NodeTypeOK, ChainTypeOK, chainVars, historyVars
<1>6. CASE PrepareFails(r)
  BY <1>0, <1>01, <1>6, RefuseTypes, CodesAreCodes DEF PrepareFails, Working
<1>7. CASE Send(r)
  <2>1. Broadcast(r) /\ Goto(r, "receipt") /\ UNCHANGED <<picked, abandoned>>
    BY <1>7 DEF Send
  <2>2. /\ ChainTypeOK'
        /\ issued' \in [Requests -> Txs \cup {NoTx}]
        /\ broadcasts' \in [Keys -> Nat]
    BY <2>1, BroadcastTypes
  <2>3. QED
    BY <1>03, <2>1, <2>2 DEF Goto, NodeTypeOK
<1>8. CASE SendAmbiguous(r)
  <2>1. /\ Answer(r, "unexpected_settle_error", NoTx) /\ line' = Tail(line)
        /\ "unexpected_settle_error" \in AnswerCodes
        /\ line # <<>>
    BY <1>01, <1>8 DEF SendAmbiguous, Release, AnswerCodes, Codes, Broadcast, Working
  <2>2. line' \in Seq(Requests)
    BY <2>1, LeaveLine DEF NodeTypeOK
  <2>3. Broadcast(r) /\ Abandon(r) /\ UNCHANGED cache
    BY <1>8 DEF SendAmbiguous
  <2>4. /\ ChainTypeOK'
        /\ issued' \in [Requests -> Txs \cup {NoTx}]
        /\ broadcasts' \in [Keys -> Nat]
    BY <2>3, BroadcastTypes
  <2>5. /\ process' = process /\ want' = want /\ picked' = picked
        /\ handler' \in [Requests -> HandlerSteps]
        /\ answer' \in [Requests -> AnswerCodes]
        /\ answerTx' \in [Requests -> Txs \cup {NoTx}]
    BY <2>1, AnswerTypes
  <2>6. abandoned' \in [Keys -> Nat]
    BY <2>3, AbandonTypes
  <2>7. QED
    BY <2>2, <2>3, <2>4, <2>5, <2>6 DEF NodeTypeOK
<1>9. CASE SendRefused(r)
  BY <1>0, <1>01, <1>9, RefuseTypes DEF SendRefused, Working, Codes
<1>10. CASE ReceiptMatches(r) \/ ReceiptFails(r)
  <2>1. PICK result \in AnswerCodes : Answer(r, result, OwnTx(r)) /\ line' = Tail(line)
    BY <1>10 DEF ReceiptMatches, ReceiptFails, Release, AnswerCodes
  <2>2. line' \in Seq(Requests)
    BY <1>01, <1>10, <2>1, LeaveLine DEF ReceiptMatches, ReceiptFails, NodeTypeOK, Working
  <2>3. /\ process' = process /\ want' = want /\ picked' = picked
        /\ handler' \in [Requests -> HandlerSteps]
        /\ answer' \in [Requests -> AnswerCodes]
        /\ answerTx' \in [Requests -> Txs \cup {NoTx}]
    BY <1>02, <2>1, AnswerTypes
  <2>4. cache' \in [Keys -> Txs \cup {NoTx}]
    BY <1>02, <1>10 DEF ReceiptMatches, ReceiptFails, NodeTypeOK
  <2>5. abandoned' \in [Keys -> Nat]
    BY <1>10, AbandonTypes DEF ReceiptMatches, ReceiptFails, NodeTypeOK, historyVars
  <2>6. UNCHANGED <<chainVars, issued, broadcasts>>
    BY <1>10 DEF ReceiptMatches, ReceiptFails, historyVars
  <2>7. QED
    BY <2>2, <2>3, <2>4, <2>5, <2>6 DEF NodeTypeOK, ChainTypeOK, chainVars
<1>11. QED
  BY <1>1, <1>2, <1>3, <1>4, <1>5, <1>6, <1>7, <1>8, <1>9, <1>10 DEF Handle

(***************************************************************************)
(* The mutex: one request at a time is past the queue.                     *)
(***************************************************************************)

\* A request moves past the queue only with the mutex, and it leaves the
\* line only when it is answered.
LEMMA HandleMovesLine ==
    ASSUME NodeTypeOK, NEW r \in Requests, Handle(r)
    PROVE  /\ \A q \in Requests : q # r => handler'[q] = handler[q]
           /\ \/ line' = line
              \/ line' = Append(line, r) /\ handler'[r] = "queued"
              \/ line' = Tail(line) /\ handler'[r] = "answered"
           /\ handler'[r] \in Working => handler[r] \in Working \/ HasMutex(r)
           /\ line' = Tail(line) /\ handler'[r] = "answered"
                  => handler[r] \in Working \/ HasMutex(r) \/ line' = line
<1> USE DEF NodeTypeOK, Answer, Release, Refuse, Goto, Working
<1>1. CASE Arrive(r)
  BY <1>1 DEF Arrive
<1>2. CASE ReadUsed(r)
  BY <1>2 DEF ReadUsed, Proceed
<1>3. CASE ReadBalance(r)
  BY <1>3 DEF ReadBalance, Proceed
<1>4. CASE Simulate(r)
  BY <1>4 DEF Simulate, Proceed
<1>5. CASE (\E n \in 0 .. MaxNonce : Prepare(r, n)) \/ PrepareFails(r)
  BY <1>5 DEF Prepare, PrepareFails
<1>6. CASE Send(r) \/ SendAmbiguous(r) \/ SendRefused(r)
  BY <1>6 DEF Send, SendAmbiguous, SendRefused, Broadcast
<1>7. CASE ReceiptMatches(r) \/ ReceiptFails(r)
  BY <1>7 DEF ReceiptMatches, ReceiptFails
<1>8. QED
  BY <1>1, <1>2, <1>3, <1>4, <1>5, <1>6, <1>7 DEF Handle

LEMMA HandleKeepsMutex ==
    ASSUME NodeTypeOK, MutexHeld, NEW r \in Requests, Handle(r)
    PROVE  MutexHeld'
<1> SUFFICES ASSUME NEW q \in Requests, handler'[q] \in Working
             PROVE  HasMutex(q)'
  BY DEF MutexHeld
<1>1. HasMutex(q)
  BY HandleMovesLine DEF MutexHeld
<1>2. CASE line' = line
  BY <1>1, <1>2 DEF HasMutex
<1>3. CASE line' = Append(line, r)
  BY <1>1, <1>3, JoinLine DEF NodeTypeOK
<1>4. CASE line' = Tail(line) /\ line' # line /\ handler'[r] = "answered"
  <2>1. HasMutex(r)
    BY <1>4, HandleMovesLine DEF MutexHeld
  <2>2. q # r
    BY <1>4 DEF Working
  <2>3. QED
    BY <1>1, <2>1, <2>2 DEF HasMutex
<1>5. QED
  BY <1>2, <1>3, <1>4, HandleMovesLine

\* The steps of the process itself and of the chain touch no type.
LEMMA OtherStepTypes ==
    ASSUME NodeTypeOK, MutexHeld,
           \/ \E k \in Keys : CacheExpires(k)
           \/ Terminate \/ Exit \/ Restart \/ ChainMoves \/ UNCHANGED nodeVars
    PROVE  NodeTypeOK' /\ MutexHeld'
<1> USE DEF NodeTypeOK, MutexHeld
<1>1. CASE \E k \in Keys : CacheExpires(k)
  BY <1>1 DEF CacheExpires, historyVars, chainVars, ChainTypeOK, HasMutex
<1>2. CASE Terminate \/ Restart
  BY <1>2 DEF Terminate, Restart, historyVars, chainVars, ChainTypeOK, HasMutex
<1>3. CASE Exit
  <2>1. /\ handler' \in [Requests -> HandlerSteps]
        /\ \A r \in Requests : handler'[r] \notin Working
    BY <1>3 DEF Exit, HandlerSteps, InFlight, Working
  <2>2. /\ cache' \in [Keys -> Txs \cup {NoTx}]
        /\ abandoned' \in [Keys -> Nat]
    BY <1>3 DEF Exit
  <2>3. line' \in Seq(Requests)
    BY <1>3 DEF Exit
  <2>4. QED
    BY <1>3, <2>1, <2>2, <2>3 DEF Exit, chainVars, ChainTypeOK
<1>4. CASE ChainMoves
  BY <1>4, ChainStepTypes DEF ChainMoves, hostVars, historyVars, HasMutex
<1>5. CASE UNCHANGED nodeVars
  BY <1>5 DEF nodeVars, chainVars, hostVars, historyVars, ChainTypeOK, HasMutex
<1>6. QED
  BY <1>1, <1>2, <1>3, <1>4, <1>5

(***************************************************************************)
(* The Node host keeps its types, and its mutex is one: a request that is  *)
(* past the queue is at the head of the line.                              *)
(***************************************************************************)
THEOREM NodeTypeCorrect == NodeSpec => [](NodeTypeOK /\ MutexHeld)
<1>1. NodeInit => NodeTypeOK /\ MutexHeld
  BY DEF NodeInit, ChainInit, NodeTypeOK, ChainTypeOK, MutexHeld, Windows,
         HandlerSteps, AnswerCodes, Codes, Working
<1>2. NodeTypeOK /\ MutexHeld /\ [NodeNext]_nodeVars => NodeTypeOK' /\ MutexHeld'
  BY HandleTypes, HandleKeepsMutex, OtherStepTypes DEF NodeNext
<1>3. QED
  BY <1>1, <1>2, PTL DEF NodeSpec

------------------------------------------------------------------------------
(***************************************************************************)
(* The mutex is handed on: the line is the requests that are in flight.    *)
(***************************************************************************)

\* A request joins the line when its flight starts, and leaves it from its
\* head when the flight ends.
LEMMA HandleFollowsLine ==
    ASSUME NodeTypeOK, MutexHeld, NEW r \in Requests, Handle(r)
    PROVE  /\ \A q \in Requests : q # r => handler'[q] = handler[q]
           /\ \/ line' = line /\ (handler'[r] \in InFlight <=> handler[r] \in InFlight)
              \/ /\ line' = Append(line, r)
                 /\ handler[r] \notin InFlight /\ handler'[r] \in InFlight
              \/ /\ line' = Tail(line) /\ HasMutex(r)
                 /\ handler'[r] \notin InFlight
<1> USE DEF NodeTypeOK, InFlight, Working, Answer, Release, Refuse, Goto
<1>1. CASE Arrive(r)
  BY <1>1 DEF Arrive
<1>2. CASE ReadUsed(r)
  BY <1>2 DEF ReadUsed, Proceed
<1>3. ASSUME handler[r] \in Working PROVE HasMutex(r)
  BY <1>3 DEF MutexHeld
<1>4. CASE ReadBalance(r) \/ Simulate(r)
  BY <1>3, <1>4 DEF ReadBalance, Simulate, Proceed
<1>5. CASE (\E n \in 0 .. MaxNonce : Prepare(r, n)) \/ PrepareFails(r)
  BY <1>3, <1>5 DEF Prepare, PrepareFails
<1>6. CASE Send(r) \/ SendAmbiguous(r) \/ SendRefused(r)
  BY <1>3, <1>6 DEF Send, SendAmbiguous, SendRefused, Broadcast
<1>7. CASE ReceiptMatches(r) \/ ReceiptFails(r)
  BY <1>3, <1>7 DEF ReceiptMatches, ReceiptFails
<1>8. QED
  BY <1>1, <1>2, <1>4, <1>5, <1>6, <1>7 DEF Handle

(***************************************************************************)
(* However requests fail, and across restarts: nobody is in the line twice *)
(* or after its answer, so the one at its head always has a step to take,  *)
(* and whoever is in flight will come to its head.                         *)
(***************************************************************************)
THEOREM LineHoldsInFlight == NodeSpec => []LineIsExact
<1>1. NodeInit => LineIsExact
  BY DEF NodeInit, LineIsExact, InFlight, Working
<1>2. NodeTypeOK /\ MutexHeld /\ LineIsExact /\ [NodeNext]_nodeVars => LineIsExact'
  <2> SUFFICES ASSUME NodeTypeOK, MutexHeld, LineIsExact, [NodeNext]_nodeVars
               PROVE  LineIsExact'
    OBVIOUS
  <2>0. line \in Seq(Requests)
    BY DEF NodeTypeOK
  <2>1. ASSUME NEW r \in Requests, Handle(r) PROVE LineIsExact'
    <3>1. CASE line' = line /\ (handler'[r] \in InFlight <=> handler[r] \in InFlight)
      BY <2>1, <3>1, HandleFollowsLine DEF LineIsExact
    <3>2. CASE /\ line' = Append(line, r)
               /\ handler[r] \notin InFlight /\ handler'[r] \in InFlight
      <4>1. /\ Len(line') = Len(line) + 1 /\ line'[Len(line) + 1] = r
            /\ \A i \in 1 .. Len(line) : line'[i] = line[i]
        BY <2>0, <3>2
      <4>2. \A i \in 1 .. Len(line) : line[i] # r
        BY <3>2 DEF LineIsExact
      <4>02. /\ Len(line) \in Nat
             /\ 1 .. Len(line') = 1 .. Len(line) \cup {Len(line) + 1}
        BY <2>0, <4>1
      <4>3. \A i, j \in 1 .. Len(line') : line'[i] = line'[j] => i = j
        BY <4>1, <4>2, <4>02 DEF LineIsExact
      <4>4. ASSUME NEW q \in Requests
            PROVE  (\E i \in 1 .. Len(line') : line'[i] = q)
                       <=> (q = r \/ \E i \in 1 .. Len(line) : line[i] = q)
        <5>1. ASSUME NEW i \in 1 .. Len(line'), line'[i] = q
              PROVE  q = r \/ \E j \in 1 .. Len(line) : line[j] = q
          BY <4>1, <4>02, <5>1
        <5>2. Len(line) + 1 \in 1 .. Len(line')
          BY <4>02
        <5>3. 1 .. Len(line) \subseteq 1 .. Len(line')
          BY <4>02
        <5>4. QED
          BY <4>1, <5>1, <5>2, <5>3
      <4>5. ASSUME NEW q \in Requests
            PROVE  handler'[q] \in InFlight <=> \E i \in 1 .. Len(line') : line'[i] = q
        <5>1. q # r => handler'[q] = handler[q]
          BY <2>1, HandleFollowsLine
        <5>2. handler[q] \in InFlight <=> \E i \in 1 .. Len(line) : line[i] = q
          BY DEF LineIsExact
        <5>3. QED
          BY <3>2, <4>4, <5>1, <5>2
      <4>6. QED
        BY <4>3, <4>5 DEF LineIsExact
    <3>3. CASE line' = Tail(line) /\ HasMutex(r) /\ handler'[r] \notin InFlight
      <4>1. line # <<>> /\ line[1] = r /\ Len(line) \in Nat \ {0}
        BY <2>0, <3>3 DEF HasMutex
      <4>2. /\ Len(line') = Len(line) - 1
            /\ \A i \in 1 .. Len(line') : line'[i] = line[i + 1]
        BY <2>0, <3>3, <4>1
      <4>3. ASSUME NEW i \in 1 .. Len(line'), NEW j \in 1 .. Len(line'),
                   line'[i] = line'[j]
            PROVE  i = j
        <5>1. i + 1 \in 1 .. Len(line) /\ j + 1 \in 1 .. Len(line)
          BY <4>1, <4>2
        <5>2. line[i + 1] = line[j + 1]
          BY <4>2, <4>3
        <5>3. i + 1 = j + 1
          BY <5>1, <5>2 DEF LineIsExact
        <5>4. QED
          BY <5>3
      <4>4. \A i \in 1 .. Len(line') : line'[i] # r
        <5>1. ASSUME NEW i \in 1 .. Len(line') PROVE line'[i] # r
          <6>1. i + 1 \in 1 .. Len(line) /\ 1 \in 1 .. Len(line) /\ i + 1 # 1
            BY <4>1, <4>2
          <6>2. line[i + 1] # line[1]
            BY <6>1 DEF LineIsExact
          <6>3. QED
            BY <4>1, <4>2, <6>2
        <5>2. QED
          BY <5>1
      <4>5. ASSUME NEW q \in Requests, q # r
            PROVE  (\E i \in 1 .. Len(line') : line'[i] = q)
                       <=> \E i \in 1 .. Len(line) : line[i] = q
        <5>1. ASSUME NEW i \in 1 .. Len(line), line[i] = q
              PROVE  i - 1 \in 1 .. Len(line') /\ line'[i - 1] = q
          <6>1. i # 1
            BY <4>1, <4>5, <5>1
          <6>2. i - 1 \in 1 .. Len(line') /\ (i - 1) + 1 = i
            BY <4>1, <4>2, <6>1
          <6>3. QED
            BY <4>2, <5>1, <6>2
        <5>2. ASSUME NEW i \in 1 .. Len(line'), line'[i] = q
              PROVE  i + 1 \in 1 .. Len(line) /\ line[i + 1] = q
          BY <4>1, <4>2, <5>2
        <5>3. QED
          BY <5>1, <5>2
      <4>6. ASSUME NEW q \in Requests
            PROVE  handler'[q] \in InFlight <=> \E i \in 1 .. Len(line') : line'[i] = q
        <5>1. CASE q = r
          BY <3>3, <4>4, <5>1
        <5>2. CASE q # r
          <6>1. handler'[q] = handler[q]
            BY <2>1, <5>2, HandleFollowsLine
          <6>2. handler[q] \in InFlight <=> \E i \in 1 .. Len(line) : line[i] = q
            BY DEF LineIsExact
          <6>3. QED
            BY <4>5, <5>2, <6>1, <6>2
        <5>3. QED
          BY <5>1, <5>2
      <4>7. QED
        BY <4>3, <4>6 DEF LineIsExact
    <3>4. QED
      BY <2>1, <3>1, <3>2, <3>3, HandleFollowsLine
  <2>2. CASE Exit
    BY <2>2 DEF Exit, LineIsExact, NodeTypeOK, InFlight, Working
  <2>3. CASE \/ \E k \in Keys : CacheExpires(k)
             \/ Terminate \/ Restart \/ ChainMoves \/ UNCHANGED nodeVars
    BY <2>3 DEF CacheExpires, Terminate, Restart, ChainMoves, nodeVars, hostVars,
                LineIsExact
  <2>4. QED
    BY <2>1, <2>2, <2>3 DEF NodeNext
<1>3. QED
  BY <1>1, <1>2, NodeTypeCorrect, PTL DEF NodeSpec

------------------------------------------------------------------------------
(***************************************************************************)
(* The account nonce, if the wallet is not shared.                         *)
(***************************************************************************)
LEMMA OthersIdle ==
    ASSUME MutexHeld, NEW r \in Requests, handler[r] \in Working,
           NEW q \in Requests, q # r
    PROVE  handler[q] \notin Working
  BY DEF MutexHeld, HasMutex

LEMMA HandleKeepsNonces ==
    ASSUME NodeTypeOK, MutexHeld, NodeNonceInv, NEW r \in Requests, Handle(r)
    PROVE  NodeNonceInv'
<1> USE DEF NodeNonceInv, PickedIsFree, NodeNonceUnique
<1>0. \A q \in Requests : q # r => handler'[q] = handler[q]
  BY HandleMovesLine
<1>1. CASE \E n \in 0 .. MaxNonce : Prepare(r, n)
  <2>1. Live' = Live
    BY <1>1 DEF Prepare, chainVars, Live, InBlock
  <2>2. handler[r] \in Working
    BY <1>1 DEF Prepare, Working
  <2>3. \A q \in Requests : handler'[q] = "sending" => q = r
    BY <1>0, <2>2, OthersIdle DEF Working
  <2>4. handler'[r] = "sending" => picked'[r].nonce \notin UsedNonces(Live)
    BY <1>1 DEF Prepare, IsPendingCount, NodeTypeOK
  <2>5. QED
    BY <2>1, <2>3, <2>4 DEF UsedNonces
<1>2. CASE Send(r) \/ SendAmbiguous(r)
  <2>1. Broadcast(r)
    BY <1>2 DEF Send, SendAmbiguous
  <2>2. Live' = Live \cup {OwnTx(r)}
    BY <2>1 DEF Broadcast, Live, InBlock
  <2>3. \A t \in Live : t.nonce # OwnTx(r).nonce
    BY <2>1 DEF Broadcast, OwnTx, UsedNonces
  <2>4. NodeNonceUnique'
    BY <2>2, <2>3
  <2>5. handler[r] \in Working
    BY <2>1 DEF Broadcast, Working
  <2>6. handler'[r] # "sending"
    BY <1>2 DEF Send, SendAmbiguous, Goto, Release, Answer, NodeTypeOK
  <2>7. \A q \in Requests : handler'[q] # "sending"
    BY <1>0, <2>5, <2>6, OthersIdle DEF Working
  <2>8. QED
    BY <2>4, <2>7
<1>3. CASE \/ Arrive(r) \/ ReadUsed(r) \/ ReadBalance(r) \/ Simulate(r)
           \/ PrepareFails(r) \/ SendRefused(r)
           \/ ReceiptMatches(r) \/ ReceiptFails(r)
  <2> USE DEF Arrive, ReadUsed, ReadBalance, Simulate, PrepareFails, SendRefused,
              ReceiptMatches, ReceiptFails, Proceed, Refuse, Release, Answer, Goto
  <2>1. Live' = Live
    BY <1>3 DEF chainVars, Live, InBlock
  <2>2. handler'[r] # "sending"
    BY <1>3 DEF NodeTypeOK
  <2>3. picked' = picked
    BY <1>3
  <2>4. QED
    BY <1>0, <2>1, <2>2, <2>3 DEF UsedNonces
<1>4. QED
  BY <1>1, <1>2, <1>3 DEF Handle

LEMMA NodeNonceStep ==
    ASSUME "shared" \notin Faults, NodeTypeOK, MutexHeld, NodeNonceInv,
           [NodeNext]_nodeVars
    PROVE  NodeNonceInv'
<1>1. CASE \/ \E k \in Keys : CacheExpires(k)
           \/ Terminate \/ Exit \/ Restart \/ ChainMoves \/ UNCHANGED nodeVars
  <2>1. Live' \subseteq Live
    BY <1>1, ChainAddsNoTx DEF CacheExpires, Terminate, Exit, Restart, ChainMoves,
                               nodeVars, chainVars, Live, InBlock
  <2>2. \A q \in Requests : handler'[q] = "sending" =>
            handler[q] = "sending" /\ picked'[q] = picked[q]
    BY <1>1 DEF CacheExpires, Terminate, Exit, Restart, ChainMoves, nodeVars,
                hostVars, InFlight, Working, NodeTypeOK
  <2>3. QED
    BY <2>1, <2>2 DEF NodeNonceInv, PickedIsFree, NodeNonceUnique, UsedNonces
<1>2. QED
  BY <1>1, HandleKeepsNonces DEF NodeNext

(***************************************************************************)
(* No two live transactions of the relayer wallet share an account nonce,  *)
(* across restarts and for every fault but a shared wallet.                *)
(***************************************************************************)
THEOREM NodeNonceSafety == ASSUME "shared" \notin Faults
                           PROVE  NodeSpec => []NodeNonceUnique
<1>1. NodeInit => NodeNonceInv
  BY DEF NodeInit, ChainInit, NodeNonceInv, PickedIsFree, NodeNonceUnique, Live, InBlock
<1>2. NodeTypeOK /\ MutexHeld /\ NodeNonceInv /\ [NodeNext]_nodeVars => NodeNonceInv'
  BY NodeNonceStep
<1>3. NodeNonceInv => NodeNonceUnique
  BY DEF NodeNonceInv
<1>4. QED
  BY <1>1, <1>2, <1>3, NodeTypeCorrect, PTL DEF NodeSpec

LEMMA HandleKeepsMined ==
    ASSUME NEW r \in Requests, Handle(r)
    PROVE  mined' = mined /\ want' = want
<1> USE DEF Proceed, Refuse, Release, Answer, Goto, chainVars
<1>1. CASE Arrive(r) \/ ReadUsed(r) \/ ReadBalance(r) \/ Simulate(r)
  BY <1>1 DEF Arrive, ReadUsed, ReadBalance, Simulate
<1>2. CASE (\E n \in 0 .. MaxNonce : Prepare(r, n)) \/ PrepareFails(r)
  BY <1>2 DEF Prepare, PrepareFails
<1>3. CASE Send(r) \/ SendAmbiguous(r) \/ SendRefused(r)
  BY <1>3 DEF Send, SendAmbiguous, SendRefused, Broadcast
<1>4. CASE ReceiptMatches(r) \/ ReceiptFails(r)
  BY <1>4 DEF ReceiptMatches, ReceiptFails
<1>5. QED
  BY <1>1, <1>2, <1>3, <1>4 DEF Handle

\* A step of the handler puts at most the request's own transaction out.
LEMMA HandleKeepsIssuedOrSends ==
    ASSUME NEW r \in Requests, Handle(r), ~ Send(r), ~ SendAmbiguous(r)
    PROVE  issued' = issued /\ UNCHANGED chainVars
<1> USE DEF Proceed, Refuse, Release, Goto, historyVars, chainVars
<1>1. CASE Arrive(r) \/ ReadUsed(r) \/ ReadBalance(r) \/ Simulate(r)
  BY <1>1 DEF Arrive, ReadUsed, ReadBalance, Simulate
<1>2. CASE (\E n \in 0 .. MaxNonce : Prepare(r, n)) \/ PrepareFails(r) \/ SendRefused(r)
  BY <1>2 DEF Prepare, PrepareFails, SendRefused
<1>3. CASE ReceiptMatches(r) \/ ReceiptFails(r)
  BY <1>3 DEF ReceiptMatches, ReceiptFails
<1>4. QED
  BY <1>1, <1>2, <1>3 DEF Handle

\* Only a request that has sent starts to wait for a receipt.
LEMMA OnlySendWaits ==
    ASSUME NodeTypeOK, NEW r \in Requests, Handle(r), ~ Send(r), ~ SendAmbiguous(r)
    PROVE  handler'[r] # "receipt"
<1> USE DEF NodeTypeOK, Answer, Release, Refuse, Goto, Proceed
<1>1. CASE Arrive(r) \/ ReadUsed(r)
  BY <1>1 DEF Arrive, ReadUsed
<1>2. CASE ReadBalance(r) \/ Simulate(r)
  BY <1>2 DEF ReadBalance, Simulate
<1>3. CASE (\E n \in 0 .. MaxNonce : Prepare(r, n)) \/ PrepareFails(r) \/ SendRefused(r)
  BY <1>3 DEF Prepare, PrepareFails, SendRefused
<1>4. CASE ReceiptMatches(r) \/ ReceiptFails(r)
  BY <1>4 DEF ReceiptMatches, ReceiptFails
<1>5. QED
  BY <1>1, <1>2, <1>3, <1>4 DEF Handle

\* Only the preparation of a transaction reads an account nonce.
LEMMA OnlyPreparePicks ==
    ASSUME NEW r \in Requests, Handle(r), ~ \E n \in 0 .. MaxNonce : Prepare(r, n)
    PROVE  picked' = picked
<1> USE DEF Answer, Release, Refuse, Goto, Proceed
<1>1. CASE Arrive(r) \/ ReadUsed(r)
  BY <1>1 DEF Arrive, ReadUsed
<1>2. CASE ReadBalance(r) \/ Simulate(r)
  BY <1>2 DEF ReadBalance, Simulate
<1>3. CASE PrepareFails(r) \/ SendRefused(r)
  BY <1>3 DEF PrepareFails, SendRefused
<1>4. CASE Send(r) \/ SendAmbiguous(r)
  BY <1>4 DEF Send, SendAmbiguous
<1>5. CASE ReceiptMatches(r) \/ ReceiptFails(r)
  BY <1>5 DEF ReceiptMatches, ReceiptFails
<1>6. QED
  BY <1>1, <1>2, <1>3, <1>4, <1>5 DEF Handle

\* Only a request whose transaction is prepared is about to send.
LEMMA OnlyPrepareSends ==
    ASSUME NodeTypeOK, NEW r \in Requests, Handle(r),
           ~ \E n \in 0 .. MaxNonce : Prepare(r, n)
    PROVE  handler'[r] # "sending"
<1> USE DEF NodeTypeOK, Answer, Release, Refuse, Goto, Proceed
<1>1. CASE Arrive(r) \/ ReadUsed(r)
  BY <1>1 DEF Arrive, ReadUsed
<1>2. CASE ReadBalance(r) \/ Simulate(r)
  BY <1>2 DEF ReadBalance, Simulate
<1>3. CASE PrepareFails(r) \/ SendRefused(r)
  BY <1>3 DEF PrepareFails, SendRefused
<1>4. CASE Send(r) \/ SendAmbiguous(r)
  BY <1>4 DEF Send, SendAmbiguous
<1>5. CASE ReceiptMatches(r) \/ ReceiptFails(r)
  BY <1>5 DEF ReceiptMatches, ReceiptFails
<1>6. QED
  BY <1>1, <1>2, <1>3, <1>4, <1>5 DEF Handle

(***************************************************************************)
(* For every fault but a shared wallet, also when transactions are lost    *)
(* and blocks undone, no replacement's receipt can reach a request.        *)
(***************************************************************************)
THEOREM OwnReceipts == ASSUME "shared" \notin Faults
                       PROVE  NodeSpec => []ReceiptIsOwn
<1>1. NodeInit => NodeNonceInv /\ ReceiptIsOwn
  BY DEF NodeInit, ChainInit, NodeNonceInv, PickedIsFree, NodeNonceUnique,
         ReceiptIsOwn, Live, InBlock
<1>2. /\ NodeTypeOK /\ MutexHeld /\ NodeNonceInv /\ ReceiptIsOwn
      /\ [NodeNext]_nodeVars
      => NodeNonceInv' /\ ReceiptIsOwn'
  <2> SUFFICES ASSUME NodeTypeOK, MutexHeld, NodeNonceInv, ReceiptIsOwn,
                      [NodeNext]_nodeVars
               PROVE  NodeNonceInv' /\ ReceiptIsOwn'
    OBVIOUS
  <2>1. NodeNonceInv'
    BY NodeNonceStep
  <2>2. ASSUME NEW r \in Requests, Send(r) \/ SendAmbiguous(r) PROVE ReceiptIsOwn'
    <3>1. /\ handler[r] = "sending" /\ Live' = Live \cup {OwnTx(r)}
          /\ UNCHANGED <<picked, want>>
      BY <2>2 DEF Send, SendAmbiguous, Broadcast, Goto, Release, Answer, Live, InBlock
    <3>2. \A q \in Requests : handler'[q] = "receipt" => q = r
      BY <2>2, <3>1, OthersIdle, HandleMovesLine DEF Handle, Working
    <3>3. \A t \in Live : t.nonce # picked[r].nonce
      BY <3>1 DEF NodeNonceInv, PickedIsFree, UsedNonces
    <3>4. QED
      BY <3>1, <3>2, <3>3 DEF ReceiptIsOwn, OwnTx
  <2>3. ASSUME NEW r \in Requests, Handle(r), ~ Send(r), ~ SendAmbiguous(r)
        PROVE  ReceiptIsOwn'
    <3>1. Live' = Live /\ want' = want
      BY <2>3, HandleKeepsIssuedOrSends, HandleKeepsMined DEF chainVars, Live, InBlock
    <3>2. ASSUME NEW q \in Requests, handler'[q] = "receipt"
          PROVE  handler[q] = "receipt" /\ picked'[q] = picked[q]
      <4>1. q # r
        BY <2>3, <3>2, OnlySendWaits
      <4>2. handler[q] = "receipt"
        BY <2>3, <3>2, <4>1, HandleMovesLine
      <4>3. CASE \E n \in 0 .. MaxNonce : Prepare(r, n)
        BY <4>1, <4>2, <4>3, OthersIdle DEF Prepare, Working
      <4>4. CASE ~ \E n \in 0 .. MaxNonce : Prepare(r, n)
        BY <2>3, <4>2, <4>4, OnlyPreparePicks
      <4>5. QED
        BY <4>2, <4>3, <4>4
    <3>3. QED
      BY <3>1, <3>2 DEF ReceiptIsOwn, OwnTx
  <2>4. ASSUME \/ \E k \in Keys : CacheExpires(k)
               \/ Terminate \/ Exit \/ Restart \/ ChainMoves \/ UNCHANGED nodeVars
        PROVE  ReceiptIsOwn'
    <3>1. Live' \subseteq Live /\ UNCHANGED <<picked, want>>
      BY <2>4, ChainAddsNoTx DEF CacheExpires, Terminate, Exit, Restart, ChainMoves,
                                 nodeVars, hostVars, chainVars, Live, InBlock
    <3>2. \A q \in Requests : handler'[q] = "receipt" => handler[q] = "receipt"
      BY <2>4 DEF CacheExpires, Terminate, Exit, Restart, ChainMoves, nodeVars,
                  hostVars, NodeTypeOK
    <3>3. \A q \in Requests : OwnTx(q)' = OwnTx(q)
      BY <3>1 DEF OwnTx
    <3>4. QED
      BY <3>1, <3>2, <3>3 DEF ReceiptIsOwn
  <2>5. QED
    BY <2>1, <2>2, <2>3, <2>4 DEF NodeNext
<1>3. QED
  BY <1>1, <1>2, NodeTypeCorrect, PTL DEF NodeSpec

\* So a receipt that a request is brought is for the transaction it sent.
LEMMA ReceiptFound ==
    ASSUME ReceiptIsOwn, NEW r \in Requests, ReceiptMatches(r)
    PROVE  OwnTx(r) \in mined
  BY DEF ReceiptIsOwn, ReceiptMatches, ReceiptsOf, OwnTx, Live, InBlock

(***************************************************************************)
(* Whatever the handlers do and whoever else uses the wallet, the nonces   *)
(* of the live transactions have no gap, also across restarts: no settle   *)
(* is stuck behind a transaction that was never sent.                      *)
(***************************************************************************)
THEOREM NodeNoncesAreDense ==
    ASSUME "drop" \notin Faults, "reorg" \notin Faults
    PROVE  NodeSpec => []NoncesDense
<1>1. NodeInit => DenseInv
  BY DEF NodeInit, ChainInit, DenseInv, NoncesDense, PickedIsNext, Live, InBlock
<1>2. NodeTypeOK /\ DenseInv /\ [NodeNext]_nodeVars => DenseInv'
  <2> SUFFICES ASSUME NodeTypeOK, DenseInv, [NodeNext]_nodeVars PROVE DenseInv'
    OBVIOUS
  <2> USE DEF DenseInv, NoncesDense, PickedIsNext
  <2>0. ASSUME UsedNonces(Live) \subseteq UsedNonces(Live)',
               \A t \in Live' :
                   t \in Live \/ 0 .. (t.nonce - 1) \subseteq UsedNonces(Live),
               \A q \in Requests : handler'[q] = "sending" =>
                   0 .. (picked'[q].nonce - 1) \subseteq UsedNonces(Live)
        PROVE  DenseInv'
    BY <2>0
  <2>1. ASSUME NEW r \in Requests, Send(r) \/ SendAmbiguous(r) PROVE DenseInv'
    <3>1. /\ handler[r] = "sending" /\ Live' = Live \cup {OwnTx(r)}
          /\ picked' = picked
      BY <2>1 DEF Send, SendAmbiguous, Broadcast, Release, Answer, Live, InBlock
    <3>2. OwnTx(r).nonce = picked[r].nonce
      BY DEF OwnTx
    <3>3. \A q \in Requests : handler'[q] = "sending" => handler[q] = "sending"
      BY <2>1 DEF Send, SendAmbiguous, Goto, Release, Answer, NodeTypeOK
    <3>4. UsedNonces(Live) \subseteq UsedNonces(Live)'
      BY <3>1 DEF UsedNonces
    <3>5. QED
      BY <2>0, <3>1, <3>2, <3>3, <3>4
  <2>2. ASSUME NEW r \in Requests, NEW n \in 0 .. MaxNonce, Prepare(r, n)
        PROVE  DenseInv'
    <3>1. Live' = Live /\ 0 .. (n - 1) \subseteq UsedNonces(Live)
      BY <2>2 DEF Prepare, IsPendingCount, chainVars, Live, InBlock
    <3>2. \A q \in Requests : \/ picked'[q].nonce = n
                              \/ handler'[q] = handler[q] /\ picked'[q] = picked[q]
      BY <2>2 DEF Prepare, Goto, NodeTypeOK
    <3>3. QED
      BY <2>0, <3>1, <3>2 DEF UsedNonces
  <2>3. ASSUME NEW r \in Requests, Handle(r), ~ Send(r), ~ SendAmbiguous(r),
               ~ \E n \in 0 .. MaxNonce : Prepare(r, n)
        PROVE  DenseInv'
    <3>1. Live' = Live /\ picked' = picked
      BY <2>3, HandleKeepsIssuedOrSends, OnlyPreparePicks DEF chainVars, Live, InBlock
    <3>2. handler'[r] # "sending"
      BY <2>3, OnlyPrepareSends
    <3>3. \A q \in Requests : handler'[q] = "sending" => handler[q] = "sending"
      BY <2>3, <3>2, HandleMovesLine
    <3>4. QED
      BY <2>0, <3>1, <3>3 DEF UsedNonces
  <2>4. CASE \/ \E k \in Keys : CacheExpires(k)
             \/ Terminate \/ Exit \/ Restart \/ UNCHANGED nodeVars
    <3>1. Live' = Live /\ picked' = picked
      BY <2>4 DEF CacheExpires, Terminate, Exit, Restart, nodeVars, hostVars,
                  chainVars, Live, InBlock
    <3>2. \A q \in Requests : handler'[q] = "sending" => handler[q] = "sending"
      BY <2>4 DEF CacheExpires, Terminate, Exit, Restart, nodeVars, hostVars, NodeTypeOK
    <3>3. QED
      BY <2>0, <3>1, <3>2 DEF UsedNonces
  <2>5. CASE ChainMoves
    BY <2>0, <2>5, ChainKeepsNonces, ChainAddsNext DEF ChainMoves, hostVars
  <2>6. QED
    BY <2>1, <2>2, <2>3, <2>4, <2>5 DEF NodeNext
<1>3. DenseInv => NoncesDense
  BY DEF DenseInv
<1>4. QED
  BY <1>1, <1>2, <1>3, NodeTypeCorrect, PTL DEF NodeSpec

------------------------------------------------------------------------------
(***************************************************************************)
(* How often an authorization is broadcast, where mined stays mined.       *)
(***************************************************************************)

\* A request that holds the mutex and waits for no receipt: nobody does.
LEMMA NobodyWaits ==
    ASSUME MutexHeld, NEW r \in Requests, handler[r] \in Working,
           handler[r] # "receipt"
    PROVE  \A k \in Keys : ~ Waiting(k)
  BY OthersIdle DEF Waiting, Working

\* Steps before the send, and refusals, change no count and no receipt wait.
LEMMA QuietKeepsWatched ==
    ASSUME NodeTypeOK, MutexHeld, Watched, NEW r \in Requests,
           UNCHANGED <<mined, want, broadcasts, abandoned>>,
           \A q \in Requests : q # r => handler'[q] = handler[q],
           handler[r] # "receipt", handler'[r] \notin {"receipt", "sending"}
    PROVE  Watched'
<1>1. \A k \in Keys : Waiting(k) => Waiting(k)'
  BY DEF Waiting, KeyWanted
<1>2. \A k \in Keys : Consumed(k)' = Consumed(k)
  BY DEF Consumed, Key
<1>3. QED
  BY <1>1, <1>2 DEF Watched, KeyWanted

LEMMA HandleKeepsWatched ==
    ASSUME NodeTypeOK, MutexHeld, ReceiptIsOwn, Watched, NEW r \in Requests, Handle(r)
    PROVE  Watched'
<1>0. \A q \in Requests : q # r => handler'[q] = handler[q]
  BY HandleMovesLine
<1>01. KeyWanted(r) \in Keys /\ broadcasts \in [Keys -> Nat] /\ abandoned \in [Keys -> Nat]
  BY OwnTxIsTx DEF NodeTypeOK
<1>1. CASE \E n \in 0 .. MaxNonce : Prepare(r, n)
  <2>1. handler[r] \in Working /\ handler[r] # "receipt" /\ want' = want
        /\ UNCHANGED <<mined, broadcasts, abandoned>>
    BY <1>1 DEF Prepare, Working, Goto, chainVars, historyVars
  <2>2. \A k \in Keys : ~ Waiting(k)
    BY <2>1, NobodyWaits
  <2>3. ~ Consumed(KeyWanted(r))
    BY <1>1 DEF Prepare, Estimate, OnRpcFault, Executes, RevertCode, KeyWanted
  <2>4. broadcasts[KeyWanted(r)] <= abandoned[KeyWanted(r)]
    BY <1>01, <2>2, <2>3 DEF Watched
  <2>5. \A q \in Requests : handler'[q] = "sending" => q = r
    BY <1>0, <2>1, OthersIdle DEF Working
  <2>6. \A k \in Keys : Consumed(k)' = Consumed(k)
    BY <2>1 DEF Consumed, Key
  <2>7. QED
    BY <2>1, <2>2, <2>4, <2>5, <2>6 DEF Watched, KeyWanted
<1>2. CASE Send(r) \/ SendAmbiguous(r)
  <2>1. Broadcast(r) /\ want' = want
    BY <1>2 DEF Send, SendAmbiguous, Goto, Release, Answer
  <2>2. handler[r] \in Working /\ handler[r] # "receipt" /\ handler[r] = "sending"
    BY <2>1 DEF Broadcast, Working
  <2>3. /\ broadcasts[KeyWanted(r)] <= abandoned[KeyWanted(r)]
        /\ broadcasts' = [broadcasts EXCEPT ![KeyWanted(r)] = @ + 1]
    BY <2>1, <2>2 DEF Broadcast, Watched
  <2>4. \A k \in Keys : ~ Waiting(k)
    BY <2>2, NobodyWaits
  <2>5. \A k \in Keys : Consumed(k)' = Consumed(k)
    BY <2>1 DEF Consumed, Key, Broadcast
  <2>6. handler'[r] # "sending"
    BY <1>2 DEF Send, SendAmbiguous, Goto, Release, Answer, NodeTypeOK
  <2>7. \A q \in Requests : handler'[q] # "sending"
    BY <1>0, <2>2, <2>6, OthersIdle DEF Working
  <2>8. CASE Send(r)
    <3>1. Waiting(KeyWanted(r))' /\ abandoned' = abandoned
      BY <2>1, <2>8 DEF Send, Goto, Waiting, KeyWanted, NodeTypeOK
    <3>2. QED
      BY <1>01, <2>1, <2>3, <2>4, <2>5, <2>7, <3>1 DEF Watched, KeyWanted
  <2>9. CASE SendAmbiguous(r)
    <3>1. abandoned' = [abandoned EXCEPT ![KeyWanted(r)] = @ + 1]
      BY <2>9 DEF SendAmbiguous, Abandon
    <3>2. QED
      BY <1>01, <2>1, <2>3, <2>4, <2>5, <2>7, <3>1 DEF Watched, KeyWanted
  <2>10. QED
    BY <1>2, <2>8, <2>9
<1>3. CASE \/ Arrive(r) \/ ReadUsed(r) \/ ReadBalance(r) \/ Simulate(r)
           \/ PrepareFails(r) \/ SendRefused(r)
  <2> USE DEF Arrive, ReadUsed, ReadBalance, Simulate, PrepareFails, SendRefused,
              Proceed, Refuse, Release, Answer, Goto
  <2>1. UNCHANGED <<mined, want, broadcasts, abandoned>>
    BY <1>3 DEF chainVars, historyVars
  <2>2. handler[r] # "receipt" /\ handler'[r] \notin {"receipt", "sending"}
    BY <1>3 DEF NodeTypeOK
  <2> HIDE DEF Arrive, ReadUsed, ReadBalance, Simulate, PrepareFails, SendRefused
  <2>3. QED
    BY <1>0, <2>1, <2>2, QuietKeepsWatched
<1>4. CASE ReceiptMatches(r) \/ ReceiptFails(r)
  <2>1. /\ handler[r] = "receipt" /\ handler'[r] = "answered"
        /\ UNCHANGED <<mined, want, broadcasts>>
    BY <1>4 DEF ReceiptMatches, ReceiptFails, Release, Answer, NodeTypeOK,
                chainVars, historyVars
  <2>2. \A q \in Requests : handler'[q] # "sending"
    BY <1>0, <2>1, OthersIdle DEF Working
  <2>3. \A k \in Keys : Consumed(k)' = Consumed(k)
    BY <2>1 DEF Consumed, Key
  <2>4. \A k \in Keys : Waiting(k) => k = KeyWanted(r)
    BY <2>1, OthersIdle DEF Waiting, Working
  <2>5. CASE ReceiptMatches(r)
    <3>1. Consumed(KeyWanted(r)) /\ abandoned' = abandoned
      BY <2>5, OwnTxIsTx, ReceiptFound DEF ReceiptMatches, Consumed, historyVars
    <3>2. QED
      BY <2>1, <2>2, <2>3, <2>4, <3>1 DEF Watched
  <2>6. CASE ReceiptFails(r)
    <3>1. abandoned' = [abandoned EXCEPT ![KeyWanted(r)] = @ + 1]
      BY <2>6 DEF ReceiptFails, Abandon
    <3>2. QED
      BY <1>01, <2>1, <2>2, <2>3, <2>4, <3>1 DEF Watched
  <2>7. QED
    BY <1>4, <2>5, <2>6
<1>5. QED
  BY <1>1, <1>2, <1>3, <1>4 DEF Handle

(***************************************************************************)
(* n abandoned outcomes allow at most n + 1 broadcasts of an authorization *)
(* although the Node host keeps no record of what it sent.                 *)
(***************************************************************************)
THEOREM NodeBoundedRebroadcasts ==
    ASSUME "reorg" \notin Faults, "shared" \notin Faults
    PROVE  NodeSpec => []NodeRebroadcastBounded
<1>1. NodeInit => Watched
  BY DEF NodeInit, Watched
<1>2. /\ NodeTypeOK /\ MutexHeld /\ ReceiptIsOwn /\ Watched /\ [NodeNext]_nodeVars
      => Watched'
  <2> SUFFICES ASSUME NodeTypeOK, MutexHeld, ReceiptIsOwn, Watched,
                      [NodeNext]_nodeVars
               PROVE  Watched'
    OBVIOUS
  <2>1. CASE Exit
    <3>1. /\ \A q \in Requests : handler'[q] # "sending"
          /\ UNCHANGED <<mined, want, broadcasts>>
      BY <2>1 DEF Exit, InFlight, Working, NodeTypeOK, chainVars
    <3>2. \A k \in Keys :
              abandoned'[k] = IF Waiting(k) THEN abandoned[k] + 1 ELSE abandoned[k]
      BY <2>1 DEF Exit
    <3>3. \A k \in Keys : Consumed(k)' = Consumed(k)
      BY <3>1 DEF Consumed, Key
    <3>4. ASSUME NEW k \in Keys
          PROVE  \/ broadcasts'[k] <= abandoned'[k]
                 \/ broadcasts'[k] = abandoned'[k] + 1 /\ Consumed(k)'
      <4>1. broadcasts[k] \in Nat /\ abandoned[k] \in Nat /\ broadcasts'[k] = broadcasts[k]
        BY <3>1 DEF NodeTypeOK
      <4>2. CASE Waiting(k)
        BY <3>2, <4>1, <4>2 DEF Watched
      <4>3. CASE ~ Waiting(k)
        BY <3>2, <3>3, <4>1, <4>3 DEF Watched
      <4>4. QED
        BY <4>2, <4>3
    <3>5. QED
      BY <3>1, <3>4 DEF Watched
  <2>2. CASE \/ \E k \in Keys : CacheExpires(k)
             \/ Terminate \/ Restart \/ ChainMoves \/ UNCHANGED nodeVars
    <3>1. mined \subseteq mined'
      BY <2>2, ChainKeepsMined DEF CacheExpires, Terminate, Restart, ChainMoves,
                                   nodeVars, chainVars
    <3>2. UNCHANGED <<handler, want, broadcasts, abandoned>>
      BY <2>2 DEF CacheExpires, Terminate, Restart, ChainMoves, nodeVars,
                  hostVars, historyVars
    <3>3. \A k \in Keys : (Consumed(k) => Consumed(k)') /\ Waiting(k)' = Waiting(k)
      BY <3>1, <3>2 DEF Consumed, Key, Waiting, KeyWanted
    <3>4. QED
      BY <3>2, <3>3 DEF Watched, KeyWanted
  <2>3. QED
    BY <2>1, <2>2, HandleKeepsWatched DEF NodeNext
<1>3. NodeTypeOK /\ Watched => NodeRebroadcastBounded
  <2> SUFFICES ASSUME NodeTypeOK, Watched, NEW k \in Keys
               PROVE  broadcasts[k] <= abandoned[k] + 1
    BY DEF NodeRebroadcastBounded
  <2>1. broadcasts[k] \in Nat /\ abandoned[k] \in Nat
    BY DEF NodeTypeOK
  <2>2. QED
    BY <2>1 DEF Watched
<1>4. QED
  BY <1>1, <1>2, <1>3, NodeTypeCorrect, OwnReceipts, PTL DEF NodeSpec

------------------------------------------------------------------------------
(***************************************************************************)
(* What callers are told.                                                  *)
(***************************************************************************)
LEMMA NodeMinedStays ==
    ASSUME [NodeNext]_nodeVars
    PROVE  /\ want' = want
           /\ "reorg" \notin Faults => mined \subseteq mined'
<1>1. CASE \/ \E k \in Keys : CacheExpires(k)
           \/ Terminate \/ Exit \/ Restart \/ ChainMoves \/ UNCHANGED nodeVars
  BY <1>1, ChainKeepsMined DEF CacheExpires, Terminate, Exit, Restart, ChainMoves,
                               nodeVars, chainVars, hostVars
<1>2. QED
  BY <1>1, HandleKeepsMined DEF NodeNext

\* The four things a handler step can do to what callers are told.
TellsNothing(r) == UNCHANGED <<answer, answerTx, cache>> /\ handler'[r] # "answered"

TellsFailure(r) ==
    /\ cache' = cache
    /\ \E reason, tx : reason \notin {"none", "success"} /\ Answer(r, reason, tx)

TellsCached(r) ==
    /\ cache' = cache
    /\ cache[KeyWanted(r)] # NoTx
    /\ Answer(r, "success", cache[KeyWanted(r)])

LEMMA HandleTells ==
    ASSUME NodeTypeOK, NEW r \in Requests, Handle(r)
    PROVE  /\ handler[r] # "answered"
           /\ \/ TellsNothing(r) \/ TellsFailure(r) \/ TellsCached(r)
              \/ ReceiptMatches(r)
<1>0. "none" \notin UsedRead(want[r]) \cup BalanceRead(want[r])
      /\ "none" \notin Simulation(want[r]) \cup Estimate(want[r])
  BY DEF UsedRead, BalanceRead, Simulation, Estimate, OnRpcFault, TimeError, RevertCode
<1>01. /\ "success" \notin UsedRead(want[r]) \cup BalanceRead(want[r])
       /\ "success" \notin Simulation(want[r]) \cup Estimate(want[r])
  BY NoReadSucceeds
<1>02. ASSUME NEW reason, Refuse(r, reason), reason \notin {"none", "success"}
       PROVE  TellsFailure(r)
  BY <1>02 DEF Refuse, Release, TellsFailure
<1>03. ASSUME NEW step, Goto(r, step), step # "answered" PROVE TellsNothing(r)
  BY <1>03 DEF Goto, TellsNothing, NodeTypeOK
<1>04. ASSUME NEW outcome, NEW step, Proceed(r, outcome, step), step # "answered",
              outcome \notin {"none", "success"}
       PROVE  TellsNothing(r) \/ TellsFailure(r)
  BY <1>02, <1>03, <1>04 DEF Proceed
<1>1. CASE Arrive(r)
  <2>1. CASE \E refusal \in {"facilitator_rate_limited",
                             "facilitator_insufficient_native_balance"} :
                 Answer(r, refusal, NoTx)
    BY <1>1, <2>1 DEF Arrive, TellsFailure
  <2>2. CASE Answer(r, "success", cache[KeyWanted(r)]) /\ cache[KeyWanted(r)] # NoTx
    BY <1>1, <2>2 DEF Arrive, TellsCached
  <2>3. CASE handler' = [handler EXCEPT ![r] = "queued"] /\ UNCHANGED <<answer, answerTx>>
    BY <1>1, <2>3 DEF Arrive, TellsNothing, NodeTypeOK
  <2>4. QED
    BY <1>1, <2>1, <2>2, <2>3 DEF Arrive
<1>2. CASE ReadUsed(r)
  BY <1>0, <1>01, <1>04, <1>2 DEF ReadUsed
<1>3. CASE ReadBalance(r)
  BY <1>0, <1>01, <1>04, <1>3 DEF ReadBalance
<1>4. CASE Simulate(r)
  <2>1. TimeError(want[r]) # "none" => TimeError(want[r]) \notin {"none", "success"}
    BY DEF TimeError
  <2>2. QED
    BY <1>0, <1>01, <1>02, <1>04, <1>4, <2>1 DEF Simulate
<1>5. CASE \E n \in 0 .. MaxNonce : Prepare(r, n)
  BY <1>03, <1>5 DEF Prepare
<1>6. CASE PrepareFails(r)
  BY <1>0, <1>01, <1>02, <1>6 DEF PrepareFails
<1>7. CASE Send(r)
  BY <1>03, <1>7 DEF Send, Broadcast
<1>8. CASE SendAmbiguous(r)
  BY <1>8 DEF SendAmbiguous, Broadcast, Release, TellsFailure
<1>9. CASE SendRefused(r)
  BY <1>02, <1>9 DEF SendRefused
<1>10. CASE ReceiptFails(r)
  BY <1>10 DEF ReceiptFails, Release, TellsFailure
<1>11. CASE ReceiptMatches(r)
  BY <1>11 DEF ReceiptMatches
<1>12. QED
  BY <1>1, <1>2, <1>3, <1>4, <1>5, <1>6, <1>7, <1>8, <1>9, <1>10, <1>11 DEF Handle

LEMMA NodePaidCorrect ==
    ASSUME "reorg" \notin Faults, "shared" \notin Faults
    PROVE  NodeSpec => []NodePaidInv
<1>1. NodeInit => NodePaidInv
  BY DEF NodeInit, NodePaidInv, AnsweredOnce
<1>2. NodeTypeOK /\ ReceiptIsOwn /\ NodePaidInv /\ [NodeNext]_nodeVars => NodePaidInv'
  <2> SUFFICES ASSUME NodeTypeOK, ReceiptIsOwn, NodePaidInv, [NodeNext]_nodeVars
               PROVE  NodePaidInv'
    OBVIOUS
  <2>0. mined \subseteq mined' /\ \A q \in Requests : KeyWanted(q)' = KeyWanted(q)
    BY NodeMinedStays DEF KeyWanted
  <2>1. ASSUME NEW r \in Requests, Handle(r) PROVE NodePaidInv'
    <3>0. \A q \in Requests : q # r => handler'[q] = handler[q]
      BY <2>1, HandleMovesLine
    <3>1. CASE TellsNothing(r)
      BY <2>0, <2>1, <3>0, <3>1, HandleTells
         DEF TellsNothing, NodePaidInv, AnsweredOnce, Key
    <3>2. CASE TellsFailure(r)
      <4>1. PICK reason, tx : reason # "success" /\ Answer(r, reason, tx)
        BY <3>2 DEF TellsFailure
      <4>2. /\ cache' = cache
            /\ \A q \in Requests : answer'[q] = "success" =>
                   answer[q] = "success" /\ answerTx'[q] = answerTx[q]
            /\ \A q \in Requests :
                   handler'[q] = "answered" \/ (q # r /\ answer'[q] = answer[q])
        BY <3>2, <4>1 DEF TellsFailure, Answer, NodeTypeOK
      <4>3. QED
        BY <2>0, <3>0, <4>2 DEF NodePaidInv, AnsweredOnce, Key
    <3>3. ASSUME NEW tx, tx \in mined, Key(tx) = KeyWanted(r), Answer(r, "success", tx),
                 cache' = cache \/ cache' = [cache EXCEPT ![KeyWanted(r)] = tx]
          PROVE  NodePaidInv'
      <4>1. /\ \A q \in Requests : q # r => /\ answer'[q] = answer[q]
                                            /\ answerTx'[q] = answerTx[q]
            /\ answerTx'[r] = tx /\ handler'[r] = "answered"
        BY <3>3 DEF Answer, NodeTypeOK
      <4>2. \A k \in Keys : cache'[k] = cache[k] \/ (k = KeyWanted(r) /\ cache'[k] = tx)
        BY <3>3 DEF NodeTypeOK
      <4>3. AnsweredOnce'
        BY <3>0, <4>1 DEF NodePaidInv, AnsweredOnce
      <4>4. QED
        BY <2>0, <3>3, <4>1, <4>2, <4>3 DEF NodePaidInv, Key
    <3>4. CASE TellsCached(r)
      BY <3>3, <3>4, OwnTxIsTx DEF TellsCached, NodePaidInv
    <3>5. CASE ReceiptMatches(r)
      BY <3>3, <3>5, OwnTxIsTx, ReceiptFound DEF ReceiptMatches, Release
    <3>6. QED
      BY <2>1, <3>1, <3>2, <3>4, <3>5, HandleTells
  <2>2. CASE \/ \E k \in Keys : CacheExpires(k)
             \/ Terminate \/ Exit \/ Restart \/ ChainMoves \/ UNCHANGED nodeVars
    <3>1. /\ UNCHANGED <<answer, answerTx>>
          /\ \A q \in Requests : handler'[q] # "answered" => handler[q] # "answered"
      BY <2>2 DEF CacheExpires, Terminate, Exit, Restart, ChainMoves, nodeVars,
                  hostVars, InFlight, Working
    <3>2. \A k \in Keys : cache'[k] \in {NoTx, cache[k]}
      BY <2>2 DEF CacheExpires, Terminate, Exit, Restart, ChainMoves, nodeVars,
                  hostVars, NodeTypeOK
    <3>3. QED
      BY <2>0, <3>1, <3>2 DEF NodePaidInv, AnsweredOnce, Key
  <2>3. QED
    BY <2>1, <2>2 DEF NodeNext
<1>3. QED
  BY <1>1, <1>2, NodeTypeCorrect, OwnReceipts, PTL DEF NodeSpec

(***************************************************************************)
(* Without reorganisations and without another host on the same wallet,    *)
(* and for payers who sign one transfer per nonce, "success" on the Node   *)
(* host means that the transfer was made.  Unlike on Workers, a lost       *)
(* transaction that is replaced makes no difference.                       *)
(***************************************************************************)
THEOREM NodeSuccessSafety ==
    ASSUME KeyDeterminesTerms, "reorg" \notin Faults, "shared" \notin Faults
    PROVE  NodeSpec => []NodeSuccessIsPaid
<1>1. NodeTypeOK /\ NodePaidInv => NodeSuccessIsPaid
  BY DEF NodePaidInv, NodeSuccessIsPaid, KeyDeterminesTerms, Key, KeyWanted,
         NodeTypeOK, ChainTypeOK, Txs
<1>2. QED
  BY <1>1, NodeTypeCorrect, NodePaidCorrect, PTL

(***************************************************************************)
(* A transfer runs once for each key.                                      *)
(***************************************************************************)
LEMMA NodePaidOnceCorrect == NodeSpec => []PaidOnce
<1>1. NodeInit => PaidOnce
  BY DEF NodeInit, ChainInit, PaidOnce
<1>2. PaidOnce /\ [NodeNext]_nodeVars => PaidOnce'
  <2> SUFFICES ASSUME PaidOnce, [NodeNext]_nodeVars PROVE PaidOnce'
    OBVIOUS
  <2>1. CASE ChainMoves
    BY <2>1, ChainPaysOnce DEF ChainMoves
  <2>2. CASE ~ ChainMoves
    <3>1. mined' = mined
      BY <2>2, HandleKeepsMined DEF NodeNext, CacheExpires, Terminate, Exit, Restart,
                                    nodeVars, chainVars
    <3>2. QED
      BY <3>1 DEF PaidOnce, Key
  <2>3. QED
    BY <2>1, <2>2
<1>3. QED
  BY <1>1, <1>2, PTL DEF NodeSpec

(***************************************************************************)
(* Without reorganisations and without another host on the same wallet all *)
(* who are told that a key was paid are told one hash, even if its payer   *)
(* signed two payments with it, and whether or not the process restarted   *)
(* in between.                                                             *)
(***************************************************************************)
THEOREM NodeAgreementOnHash ==
    ASSUME "reorg" \notin Faults, "shared" \notin Faults
    PROVE  NodeSpec => []SuccessesAgree
<1>1. NodePaidInv /\ PaidOnce => SuccessesAgree
  BY DEF NodePaidInv, PaidOnce, SuccessesAgree
<1>2. QED
  BY <1>1, NodePaidCorrect, NodePaidOnceCorrect, PTL

------------------------------------------------------------------------------
(***************************************************************************)
(* What a failure says.                                                    *)
(***************************************************************************)

IssuedOf(r) ==
    /\ handler[r] \in {"new", "queued"} \cup (Working \ {"receipt"})
           => issued[r] = NoTx
    /\ handler[r] = "receipt" => issued[r] = OwnTx(r)
    /\ handler[r] = "answered" /\ answer[r] # "success" =>
           \/ answer[r] = "unexpected_settle_error" /\ answerTx[r] = NoTx
           \/ answerTx[r] = issued[r]

\* A step of request r touches no other request.
Alone(r) ==
    /\ want' = want
    /\ \A q \in Requests :
           q # r => /\ handler'[q] = handler[q] /\ picked'[q] = picked[q]
                    /\ answer'[q] = answer[q] /\ answerTx'[q] = answerTx[q]
                    /\ issued'[q] = issued[q]

LEMMA HandleKeepsIssued ==
    ASSUME NodeTypeOK, IssuedFollowsHandler, NodeFailureIsOwn,
           NEW r \in Requests, Handle(r)
    PROVE  (IssuedFollowsHandler /\ NodeFailureIsOwn)'
<1> SUFFICES Alone(r) /\ IssuedOf(r)'
  BY DEF Alone, IssuedOf, IssuedFollowsHandler, NodeFailureIsOwn, OwnTx
<1>0. IssuedOf(r)
  BY DEF IssuedOf, IssuedFollowsHandler, NodeFailureIsOwn
<1>01. /\ handler \in [Requests -> HandlerSteps]
       /\ picked \in [Requests -> [nonce : 0 .. MaxNonce, fee : Fees \cup {NoFee}]]
       /\ answer \in [Requests -> AnswerCodes]
       /\ answerTx \in [Requests -> Txs \cup {NoTx}]
       /\ issued \in [Requests -> Txs \cup {NoTx}]
  BY DEF NodeTypeOK
<1>1. ASSUME NEW reason, NEW tx, Answer(r, reason, tx), issued' = issued,
             tx = issued[r] \/ reason = "success"
      PROVE  Alone(r) /\ IssuedOf(r)'
  BY <1>01, <1>1 DEF Answer, Alone, IssuedOf, Working
<1>2. ASSUME NEW reason, Refuse(r, reason), issued[r] = NoTx
      PROVE  Alone(r) /\ IssuedOf(r)'
  BY <1>1, <1>2 DEF Refuse, Release, historyVars
<1>3. ASSUME NEW step \in Working \ {"receipt"}, Goto(r, step), issued' = issued,
             issued[r] = NoTx, \A q \in Requests : q # r => picked'[q] = picked[q]
      PROVE  Alone(r) /\ IssuedOf(r)'
  BY <1>01, <1>3 DEF Goto, Alone, IssuedOf, Working
<1>4. ASSUME NEW outcome, NEW step \in Working \ {"receipt"},
             Proceed(r, outcome, step), issued[r] = NoTx
      PROVE  Alone(r) /\ IssuedOf(r)'
  BY <1>2, <1>3, <1>4 DEF Proceed, historyVars
<1>5. CASE Arrive(r)
  <2>1. issued' = issued /\ issued[r] = NoTx
    BY <1>0, <1>5 DEF Arrive, IssuedOf, historyVars
  <2>2. CASE \E reason, tx : Answer(r, reason, tx) /\ (tx = NoTx \/ reason = "success")
    BY <1>1, <2>1, <2>2
  <2>3. CASE /\ handler' = [handler EXCEPT ![r] = "queued"]
             /\ UNCHANGED <<want, picked, answer, answerTx>>
    BY <1>01, <2>1, <2>3 DEF Alone, IssuedOf, Working
  <2>4. QED
    BY <1>5, <2>2, <2>3 DEF Arrive
<1>6. CASE ReadUsed(r) \/ ReadBalance(r) \/ Simulate(r)
  <2>1. issued[r] = NoTx
    BY <1>0, <1>6 DEF ReadUsed, ReadBalance, Simulate, IssuedOf, Working
  <2>2. {"balance", "simulate", "preparing"} \subseteq Working \ {"receipt"}
    BY DEF Working
  <2>3. CASE ReadUsed(r)
    BY <1>4, <2>1, <2>2, <2>3 DEF ReadUsed
  <2>4. CASE ReadBalance(r)
    BY <1>4, <2>1, <2>2, <2>4 DEF ReadBalance
  <2>5. CASE Simulate(r)
    BY <1>2, <1>4, <2>1, <2>2, <2>5 DEF Simulate
  <2>6. QED
    BY <1>6, <2>3, <2>4, <2>5
<1>7. CASE (\E n \in 0 .. MaxNonce : Prepare(r, n)) \/ PrepareFails(r) \/ SendRefused(r)
  <2>1. issued[r] = NoTx
    BY <1>0, <1>7 DEF Prepare, PrepareFails, SendRefused, IssuedOf, Working
  <2>2. CASE \E n \in 0 .. MaxNonce : Prepare(r, n)
    <3>1. /\ Goto(r, "sending") /\ issued' = issued /\ "sending" \in Working \ {"receipt"}
          /\ \A q \in Requests : q # r => picked'[q] = picked[q]
      BY <1>01, <2>2 DEF Prepare, historyVars, Working
    <3>2. QED
      BY <1>3, <2>1, <3>1
  <2>3. CASE PrepareFails(r) \/ SendRefused(r)
    BY <1>2, <2>1, <2>3 DEF PrepareFails, SendRefused
  <2>4. QED
    BY <1>7, <2>2, <2>3
<1>8. CASE Send(r)
  <2>1. /\ handler' = [handler EXCEPT ![r] = "receipt"]
        /\ issued' = [issued EXCEPT ![r] = OwnTx(r)]
        /\ UNCHANGED <<want, picked, answer, answerTx>>
    BY <1>8 DEF Send, Broadcast, Goto
  <2>2. QED
    BY <1>01, <2>1 DEF Alone, IssuedOf, Working, OwnTx
<1>9. CASE SendAmbiguous(r)
  <2>1. /\ Answer(r, "unexpected_settle_error", NoTx)
        /\ issued' = [issued EXCEPT ![r] = OwnTx(r)]
    BY <1>9 DEF SendAmbiguous, Broadcast, Release
  <2>2. QED
    BY <1>01, <2>1 DEF Answer, Alone, IssuedOf, Working
<1>10. CASE ReceiptMatches(r)
  BY <1>1, <1>10 DEF ReceiptMatches, Release, historyVars
<1>11. CASE ReceiptFails(r)
  <2>1. issued[r] = OwnTx(r) /\ issued' = issued
    BY <1>0, <1>11 DEF ReceiptFails, IssuedOf
  <2>2. \E reason : Answer(r, reason, OwnTx(r))
    BY <1>11 DEF ReceiptFails, Release
  <2>3. QED
    BY <1>1, <2>1, <2>2
<1>12. QED
  BY <1>5, <1>6, <1>7, <1>8, <1>9, <1>10, <1>11 DEF Handle

LEMMA NodeFailureCorrect == NodeSpec => [](IssuedFollowsHandler /\ NodeFailureIsOwn)
<1> DEFINE Inv == IssuedFollowsHandler /\ NodeFailureIsOwn
<1>1. NodeInit => Inv
  BY DEF NodeInit, IssuedFollowsHandler, NodeFailureIsOwn
<1>2. NodeTypeOK /\ Inv /\ [NodeNext]_nodeVars => Inv'
  <2> SUFFICES ASSUME NodeTypeOK, Inv, [NodeNext]_nodeVars PROVE Inv'
    OBVIOUS
  <2>1. CASE Exit
    BY <2>1 DEF Exit, InFlight, Working, NodeTypeOK, IssuedFollowsHandler,
                NodeFailureIsOwn, OwnTx
  <2>2. CASE \/ \E k \in Keys : CacheExpires(k)
             \/ Terminate \/ Restart \/ ChainMoves \/ UNCHANGED nodeVars
    <3>1. UNCHANGED <<want, handler, picked, answer, answerTx, issued>>
      BY <2>2 DEF CacheExpires, Terminate, Restart, ChainMoves, hostVars,
                  historyVars, nodeVars
    <3>2. QED
      BY <3>1 DEF IssuedFollowsHandler, NodeFailureIsOwn, OwnTx
  <2>3. QED
    BY <2>1, <2>2, HandleKeepsIssued DEF NodeNext
<1>3. QED
  BY <1>1, <1>2, NodeTypeCorrect, PTL DEF NodeSpec

(***************************************************************************)
(* Whatever the chain and the RPC do, a failure names the transaction of   *)
(* its own request, or none was sent, or it is unexpected_settle_error.    *)
(***************************************************************************)
THEOREM NodeHonestFailure == NodeSpec => []NodeFailureIsOwn
  BY NodeFailureCorrect, PTL

------------------------------------------------------------------------------
(***************************************************************************)
(* The refinement to Settlement.                                           *)
(***************************************************************************)

LEMMA NodeLiveCorrect ==
    ASSUME "shared" \notin Faults
    PROVE  NodeSpec => []LiveIsIssued
<1>1. NodeInit => LiveIsIssued
  BY DEF NodeInit, ChainInit, LiveIsIssued, Live, InBlock
<1>2. NodeTypeOK /\ IssuedFollowsHandler /\ LiveIsIssued /\ [NodeNext]_nodeVars
      => LiveIsIssued'
  <2> SUFFICES ASSUME NodeTypeOK, IssuedFollowsHandler, LiveIsIssued,
                      [NodeNext]_nodeVars
               PROVE  LiveIsIssued'
    OBVIOUS
  <2>0. want' = want /\ \A t \in Live : t # NoTx
    BY NodeMinedStays DEF Live, InBlock, NodeTypeOK, ChainTypeOK, Txs, NoTx
  <2>1. Live' \subseteq Live /\ issued' = issued => LiveIsIssued'
    BY <2>0 DEF LiveIsIssued
  <2>2. ASSUME NEW r \in Requests, Send(r) \/ SendAmbiguous(r) PROVE LiveIsIssued'
    <3>1. /\ handler[r] = "sending" /\ Live' = Live \cup {OwnTx(r)}
          /\ issued' = [issued EXCEPT ![r] = OwnTx(r)]
      BY <2>2 DEF Send, SendAmbiguous, Broadcast, Live, InBlock
    <3>2. issued[r] = NoTx /\ want[r] = OwnTx(r).auth
      BY <3>1 DEF IssuedFollowsHandler, Working, OwnTx
    <3>3. issued'[r] = OwnTx(r) /\ \A q \in Requests : q # r => issued'[q] = issued[q]
      BY <3>1 DEF NodeTypeOK
    <3>4. QED
      BY <2>0, <3>1, <3>2, <3>3 DEF LiveIsIssued
  <2>3. ASSUME NEW r \in Requests, Handle(r), ~ Send(r), ~ SendAmbiguous(r)
        PROVE  LiveIsIssued'
    BY <2>1, <2>3, HandleKeepsIssuedOrSends DEF chainVars, Live, InBlock
  <2>4. CASE \/ \E k \in Keys : CacheExpires(k)
             \/ Terminate \/ Exit \/ Restart \/ UNCHANGED nodeVars
    BY <2>1, <2>4 DEF CacheExpires, Terminate, Exit, Restart, nodeVars, historyVars,
                      chainVars, Live, InBlock
  <2>5. CASE ChainMoves
    <3>1. Live' \subseteq Live /\ issued' = issued
      BY <2>5 DEF ChainMoves, historyVars, ChainStep, Mine, Drop, Reorg, WindowMoves,
                  PayerMoves, ForeignSend, Live, InBlock
    <3>2. QED
      BY <2>1, <3>1
  <2>6. QED
    BY <2>2, <2>3, <2>4, <2>5 DEF NodeNext
<1>3. QED
  BY <1>1, <1>2, NodeTypeCorrect, NodeFailureCorrect, PTL DEF NodeSpec

(***************************************************************************)
(* While nobody else has the wallet, whatever a block may still hold was   *)
(* asked for by a caller who has not been refused.                         *)
(***************************************************************************)
THEOREM NodeRefusedIsNotCharged ==
    ASSUME "shared" \notin Faults
    PROVE  NodeSpec => []LiveIsNotRefused
<1>1. NodeInit => AnsweredOnce
  BY DEF NodeInit, AnsweredOnce
<1>2. NodeTypeOK /\ AnsweredOnce /\ [NodeNext]_nodeVars => AnsweredOnce'
  <2> SUFFICES ASSUME NodeTypeOK, AnsweredOnce, [NodeNext]_nodeVars
               PROVE  AnsweredOnce'
    OBVIOUS
  <2>1. ASSUME NEW r \in Requests, Handle(r) PROVE AnsweredOnce'
    BY <2>1, HandleMovesLine, HandleTells
       DEF TellsNothing, TellsFailure, TellsCached, ReceiptMatches, Release, Answer,
           AnsweredOnce, NodeTypeOK
  <2>2. CASE \/ \E k \in Keys : CacheExpires(k)
             \/ Terminate \/ Exit \/ Restart \/ ChainMoves \/ UNCHANGED nodeVars
    BY <2>2 DEF CacheExpires, Terminate, Exit, Restart, ChainMoves, nodeVars, hostVars,
                InFlight, Working, AnsweredOnce, NodeTypeOK
  <2>3. QED
    BY <2>1, <2>2 DEF NodeNext
<1>3. /\ NodeTypeOK /\ LiveIsIssued /\ AnsweredOnce /\ NodeFailureIsOwn
      => LiveIsNotRefused
  <2> SUFFICES ASSUME NodeTypeOK, LiveIsIssued, AnsweredOnce, NodeFailureIsOwn,
                      NEW t \in Live, NEW r \in Requests,
                      issued[r] = t, want[r] = t.auth
               PROVE  Told(r) # "refused"
    BY DEF LiveIsIssued, LiveIsNotRefused
  <2>1. t # NoTx
    BY DEF Live, InBlock, NodeTypeOK, ChainTypeOK, Txs, NoTx
  <2>2. QED
    BY <2>1 DEF Told, NodeFailureIsOwn, AnsweredOnce
<1>4. QED
  BY <1>1, <1>2, <1>3, NodeTypeCorrect, NodeLiveCorrect, NodeFailureCorrect, PTL
     DEF NodeSpec

(***************************************************************************)
(* Without reorganisations and without another host on the same wallet     *)
(* the Node host implements Settlement, whatever its payers sign and       *)
(* whichever transactions are lost.                                        *)
(***************************************************************************)
THEOREM NodeHostKeepsPromise ==
    ASSUME "reorg" \notin Faults, "shared" \notin Faults
    PROVE  NodeSpec => NodeKeepsPromise
<1> DEFINE Asks == [r \in Requests |-> KeyWanted(r)]
           Paid == {Key(t) : t \in mined}
           Tells == [r \in Requests |-> Told(r)]
           Inv == /\ NodeTypeOK /\ NodePaidInv /\ LiveIsIssued
                  /\ IssuedFollowsHandler /\ NodeFailureIsOwn
<1>1. NodeInit => Promise!Init
  BY DEF NodeInit, ChainInit, Promise!Init, Told, KeyWanted, Sent
<1>2. Inv /\ Inv' /\ [NodeNext]_nodeVars => [Promise!Next]_(Promise!vars)
  <2> SUFFICES ASSUME Inv, Inv', [NodeNext]_nodeVars
               PROVE  Promise!Next \/ UNCHANGED <<Asks, Sent, Paid, Tells>>
    BY DEF Promise!vars
  <2>0. Asks' = Asks
    BY NodeMinedStays DEF KeyWanted
  <2>01. ASSUME NEW r \in Requests, Handle(r)
         PROVE  Tells[r] = "nothing"
    BY <2>01, HandleTells DEF NodePaidInv, AnsweredOnce, Told
  <2>02. ASSUME NEW r \in Requests, NEW result, NEW tx, Answer(r, result, tx)
         PROVE  handler'[r] = "answered" /\ Tells' = [Tells EXCEPT ![r] = Told(r)']
    <3>1. /\ handler'[r] = "answered"
          /\ \A q \in Requests :
                 q # r => answer'[q] = answer[q] /\ answerTx'[q] = answerTx[q]
      BY <2>02 DEF Answer, NodeTypeOK
    <3>2. QED
      BY <3>1 DEF Told
  <2>1. ASSUME NEW r \in Requests, Send(r) \/ SendAmbiguous(r)
        PROVE  Promise!Next
    <3>1. /\ handler[r] = "sending" /\ mined' = mined /\ Handle(r)
          /\ issued' = [issued EXCEPT ![r] = OwnTx(r)]
      BY <2>1 DEF Send, SendAmbiguous, Broadcast, Handle
    <3>2. issued[r] = NoTx /\ OwnTx(r) # NoTx
      BY <3>1, OwnTxIsTx DEF IssuedFollowsHandler, Working
    <3>3. r \notin Sent /\ Sent' = Sent \cup {r} /\ Paid' = Paid
      BY <3>1, <3>2 DEF Sent, NodeTypeOK, Key
    <3>4. Tells[r] = "nothing"
      BY <2>01, <3>1
    <3>5. CASE Send(r)
      <4>1. Tells' = Tells
        BY <3>5 DEF Send, Goto, Told
      <4>2. Promise!Send(r)
        BY <2>0, <3>3, <3>4, <4>1 DEF Promise!Send
      <4>3. QED
        BY <4>2 DEF Promise!Next
    <3>6. CASE SendAmbiguous(r)
      <4>1. Answer(r, "unexpected_settle_error", NoTx)
        BY <3>6 DEF SendAmbiguous, Release
      <4>2. Told(r)' = "unclear"
        BY <4>1 DEF Answer, NodeTypeOK, Told
      <4>3. Promise!Send(r)
        BY <2>0, <2>02, <3>3, <3>4, <4>1, <4>2 DEF Promise!Send, Promise!Tell
      <4>4. QED
        BY <4>3 DEF Promise!Next
    <3>7. QED
      BY <2>1, <3>5, <3>6
  <2>2. ASSUME NEW r \in Requests, Handle(r), ~ Send(r), ~ SendAmbiguous(r)
        PROVE  Promise!Next \/ UNCHANGED <<Asks, Sent, Paid, Tells>>
    <3>1. mined' = mined /\ issued' = issued
      BY <2>2, HandleKeepsMined, HandleKeepsIssuedOrSends
    <3>2. Paid' = Paid /\ Sent' = Sent
      BY <3>1 DEF Key, Sent
    <3>3. \/ UNCHANGED <<answer, answerTx>>
          \/ \E result, tx : Answer(r, result, tx)
      BY <2>2, HandleTells
         DEF TellsNothing, TellsFailure, TellsCached, ReceiptMatches, Release
    <3>4. CASE UNCHANGED <<answer, answerTx>>
      BY <2>0, <3>2, <3>4 DEF Told
    <3>5. CASE \E result, tx : Answer(r, result, tx)
      <4>1. Tells[r] = "nothing"
        BY <2>01, <2>2
      <4>2. handler'[r] = "answered" /\ Tells' = [Tells EXCEPT ![r] = Told(r)']
        BY <2>02, <3>5
      <4>3. CASE Told(r)' = "success"
        <5>1. answer'[r] = "success"
          BY <4>3 DEF Told
        <5>2. Asks[r] \in Paid
          BY <2>0, <3>1, <5>1 DEF NodePaidInv, KeyWanted, Key
        <5>3. Promise!TellSuccess(r)
          BY <2>0, <3>2, <4>1, <4>2, <4>3, <5>2 DEF Promise!TellSuccess, Promise!Tell
        <5>4. QED
          BY <5>3 DEF Promise!Next
      <4>4. CASE Told(r)' = "refused"
        <5>1. /\ answer'[r] \notin {"success", "unexpected_settle_error"}
              /\ answerTx'[r] = NoTx
          BY <4>4 DEF Told
        <5>2. issued'[r] = NoTx
          BY <4>2, <5>1 DEF NodeFailureIsOwn
        <5>3. r \notin Sent
          BY <3>1, <5>2 DEF Sent
        <5>4. Promise!TellRefused(r)
          BY <2>0, <3>2, <4>1, <4>2, <4>4, <5>3 DEF Promise!TellRefused, Promise!Tell
        <5>5. QED
          BY <5>4 DEF Promise!Next
      <4>5. CASE Told(r)' = "unclear"
        <5>1. Promise!TellUnclear(r)
          BY <2>0, <3>2, <4>1, <4>2, <4>5 DEF Promise!TellUnclear, Promise!Tell
        <5>2. QED
          BY <5>1 DEF Promise!Next
      <4>6. CASE Told(r)' = "nothing"
        BY <2>0, <3>2, <4>1, <4>2, <4>6
      <4>7. QED
        BY <4>3, <4>4, <4>5, <4>6 DEF Told
    <3>6. QED
      BY <3>3, <3>4, <3>5
  <2>3. CASE ChainMoves
    <3>1. Tells' = Tells /\ Sent' = Sent
      BY <2>3 DEF ChainMoves, hostVars, historyVars, Told, Sent
    <3>2. ASSUME NEW t \in pending, Mine(t), Executes(t.auth) PROVE Promise!Next
      <4>1. Key(t) \in Keys /\ Key(t) \notin Paid /\ t # NoTx
        BY <3>2 DEF Executes, Consumed, Key, NodeTypeOK, ChainTypeOK, Txs, NoTx
      <4>2. Paid' = Paid \cup {Key(t)}
        BY <3>2 DEF Mine, Key
      <4>3. \E r \in Sent : Asks[r] = Key(t)
        BY <4>1 DEF LiveIsIssued, Live, Sent, KeyWanted, Key
      <4>4. Promise!Pay(Key(t))
        BY <2>0, <3>1, <4>1, <4>2, <4>3 DEF Promise!Pay
      <4>5. QED
        BY <4>1, <4>4 DEF Promise!Next
    <3>3. ASSUME NEW t \in pending, Mine(t), ~ Executes(t.auth) PROVE mined' = mined
      BY <3>3 DEF Mine
    <3>4. ASSUME \/ \E t \in pending : Drop(t)
                 \/ \E t \in InBlock : Reorg(t)
                 \/ \E a \in Auths : WindowMoves(a)
                 \/ \E p \in Payers, v \in 0 .. MaxBalance : PayerMoves(p, v)
                 \/ \E n \in 0 .. MaxNonce, a \in Auths, f \in Fees : ForeignSend(n, a, f)
          PROVE  mined' = mined
      BY <3>4 DEF Drop, Reorg, WindowMoves, PayerMoves, ForeignSend
    <3>5. mined' = mined \/ Promise!Next
      BY <2>3, <3>2, <3>3, <3>4 DEF ChainMoves, ChainStep
    <3>6. mined' = mined => Paid' = Paid
      BY DEF Key
    <3>7. QED
      BY <2>0, <3>1, <3>5, <3>6
  <2>4. CASE \/ \E k \in Keys : CacheExpires(k)
             \/ Terminate \/ Exit \/ Restart \/ UNCHANGED nodeVars
    <3>1. UNCHANGED <<mined, issued, answer, answerTx>>
      BY <2>4 DEF CacheExpires, Terminate, Exit, Restart, nodeVars, hostVars,
                  historyVars, chainVars
    <3>2. QED
      BY <2>0, <3>1 DEF Key, Told, Sent
  <2>5. QED
    BY <2>1, <2>2, <2>3, <2>4 DEF NodeNext
<1>3. QED
  BY <1>1, <1>2, NodeTypeCorrect, NodePaidCorrect, NodeFailureCorrect,
     NodeLiveCorrect, PTL
     DEF NodeSpec, NodeKeepsPromise, Promise!Spec
==============================================================================
