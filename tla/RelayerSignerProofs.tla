-------------------------- MODULE RelayerSignerProofs --------------------------
(***************************************************************************)
(* Theorems about RelayerSigner, for any set of requests, authorizations   *)
(* and faults.                                                             *)
(***************************************************************************)
EXTENDS RelayerSigner, ChainProofs

USE ChainAssumption, RequestAssumption

(***************************************************************************)
(* The transaction of a request is a transaction, and no transaction is    *)
(* NoTx: a stored hash can always be told from an absent record.           *)
(***************************************************************************)
LEMMA OwnTxIsTx ==
    ASSUME TypeOK, NEW r \in Requests
    PROVE  OwnTx(r) \in Txs /\ OwnTx(r) # NoTx /\ Key(OwnTx(r)) = KeyWanted(r)
  BY DEF TypeOK, OwnTx, Txs, NoTx, Key, KeyWanted

(***************************************************************************)
(* Type correctness of the relayer signer.                                 *)
(***************************************************************************)
THEOREM TypeCorrect == Spec => []TypeOK
<1>1. Init => TypeOK
  <2> SUFFICES ASSUME Init PROVE TypeOK
    OBVIOUS
  <2>1. pruneDue \in BOOLEAN /\ pruning \in BOOLEAN
    BY Zenon DEF Init, SignerInit
  <2>2. QED
    BY <2>1 DEF Init, ChainInit, SignerInit, TypeOK, ChainTypeOK, Windows,
                Stages, Codes
<1>2. TypeOK /\ [Next]_vars => TypeOK'
  <2> SUFFICES ASSUME TypeOK, [Next]_vars PROVE TypeOK'
    OBVIOUS
  <2> USE DEF TypeOK
  <2>1. ASSUME NEW r \in Requests, Call(r) PROVE TypeOK'
    BY <2>1 DEF Call, chainVars, storeVars, historyVars, ChainTypeOK, Stages
  <2>2. ASSUME NEW r \in Requests, Lane(r) PROVE TypeOK'
    <3>0. OwnTx(r) \in Txs /\ KeyWanted(r) \in Keys
      BY OwnTxIsTx DEF KeyWanted
    <3> USE DEF chainVars, storeVars, historyVars, ChainTypeOK, Stages, InLane,
                Returned
    <3>1. CASE EnterReplays(r)
      BY <3>0, <3>1 DEF EnterReplays, AtGate
    <3>2. CASE EnterRefuses(r)
      BY <3>2, CodesAreCodes DEF EnterRefuses, Refuse, Codes
    <3>3. CASE EnterProceeds(r)
      BY <3>3 DEF EnterProceeds
    <3>4. ASSUME NEW n \in 0 .. MaxNonce, Prepare(r, n) PROVE TypeOK'
      BY <3>4 DEF Prepare
    <3>5. CASE PrepareFails(r)
      BY <3>5, CodesAreCodes DEF PrepareFails, Refuse
    <3>6. CASE Send(r)
      BY <3>0, <3>6 DEF Send, Broadcast
    <3>7. CASE SendAmbiguous(r)
      BY <3>0, <3>7 DEF SendAmbiguous, Broadcast, Refuse, Codes
    <3>8. CASE SendRefused(r)
      BY <3>8 DEF SendRefused, Refuse, Codes
    <3>9. CASE Record(r)
      <4>1. pruneDue' \in BOOLEAN /\ pruning' \in BOOLEAN
        BY <3>9, Zenon DEF Record, ReplyBroadcast, Put, Forget
      <4>2. /\ record' \in [Keys -> Txs \cup {NoTx}]
            /\ forgets' \in [Keys -> Nat]
        <5>1. CASE Put(r) /\ UNCHANGED forgets
          BY <3>0, <3>9, <5>1 DEF Record, Put
        <5>2. CASE Forget(r) /\ UNCHANGED record
          BY <3>0, <3>9, <5>2 DEF Record, Forget
        <5>3. QED
          BY <3>9, <5>1, <5>2 DEF Record
      <4>3. /\ stage' \in [Requests -> Stages]
            /\ hash' \in [Requests -> Txs \cup {NoTx}]
            /\ lane' = NoOne
        BY <3>0, <3>9 DEF Record, ReplyBroadcast
      <4>4. QED
        BY <3>9, <4>1, <4>2, <4>3 DEF Record, ReplyBroadcast
    <3>10. QED
      BY <2>2, <3>1, <3>2, <3>3, <3>4, <3>5, <3>6, <3>7, <3>8, <3>9 DEF Lane
  <2>3. CASE Upkeep
    <3> USE DEF chainVars, callVars, storeVars, historyVars, ChainTypeOK
    <3>1. CASE Prune
      <4>1. /\ record' \in [Keys -> Txs \cup {NoTx}]
            /\ forgets' \in [Keys -> Nat]
            /\ aged' \subseteq Keys
        BY <3>1 DEF Prune
      <4>2. QED
        BY <3>1, <4>1 DEF Prune
    <3>2. CASE PruneComesDue
      BY <3>2 DEF PruneComesDue
    <3>3. CASE Reset
      <4>1. /\ lane \in Requests
            /\ OwnTx(lane) \in Txs
            /\ KeyWanted(lane) \in Keys
        BY <3>3, OwnTxIsTx DEF Reset, Put, Forget, KeyWanted
      <4>2. stage' \in [Requests -> Stages]
        BY <3>3 DEF Reset, Put, Forget, Stages, Returned
      <4>3. /\ record' \in [Keys -> Txs \cup {NoTx}]
            /\ forgets' \in [Keys -> Nat]
        BY <3>3, <4>1 DEF Reset, Put, Forget
      <4>4. QED
        BY <3>3, <4>2, <4>3 DEF Reset, Put, Forget
    <3>4. ASSUME NEW k \in Keys, RecordAges(k) PROVE TypeOK'
      BY <3>4 DEF RecordAges
    <3>5. QED
      BY <2>3, <3>1, <3>2, <3>3, <3>4 DEF Upkeep
  <2>4. CASE ChainMoves
    BY <2>4, ChainStepTypes DEF ChainMoves, signerVars, callVars, storeVars,
                                historyVars
  <2>5. CASE UNCHANGED vars
    BY <2>5 DEF vars, chainVars, signerVars, callVars, storeVars, historyVars,
                ChainTypeOK
  <2>6. QED
    BY <2>1, <2>2, <2>3, <2>4, <2>5 DEF Next, Finished
<1>3. QED
  BY <1>1, <1>2, PTL DEF Spec

------------------------------------------------------------------------------
(***************************************************************************)
(* The record store.                                                       *)
(***************************************************************************)
LEMMA StoreInit == Init => StoreInv
<1> SUFFICES ASSUME Init PROVE StoreInv
  OBVIOUS
<1> USE DEF Init, SignerInit, InLane
<1>1. LaneHeld
  BY DEF LaneHeld
<1>2. GateHolds /\ NothingYet /\ RecordingIssued /\ RepliesHaveHash /\ AgedAreRecords
  BY DEF GateHolds, NothingYet, RecordingIssued, RepliesHaveHash, AgedAreRecords
<1>3. BroadcastsAccounted
  BY DEF BroadcastsAccounted, Recording
<1>4. HashesAreIssued
  BY DEF HashesAreIssued
<1>5. QED
  BY <1>1, <1>2, <1>3, <1>4 DEF StoreInv

(***************************************************************************)
(* A step that changes neither the calls' progress nor the store keeps the *)
(* invariant; the chain's own steps are of this kind.                      *)
(***************************************************************************)
LEMMA StoreUntouched ==
    ASSUME StoreInv, UNCHANGED signerVars
    PROVE  StoreInv'
  BY DEF StoreInv, signerVars, callVars, storeVars, historyVars, LaneHeld,
         GateHolds, NothingYet, RecordingIssued, RepliesHaveHash,
         AgedAreRecords,
         BroadcastsAccounted, Recording, HashesAreIssued, Issued, KeyWanted,
         OwnTx

(***************************************************************************)
(* A call that is refused before anything was broadcast for it keeps it.   *)
(***************************************************************************)
LEMMA StoreRefuse ==
    ASSUME TypeOK, StoreInv, NEW r \in Requests, NEW reason,
           stage[r] \in {"queued", "preparing", "sending"},
           lane \in {NoOne, r},
           Refuse(r, reason), UNCHANGED <<storeVars, historyVars>>
    PROVE  StoreInv'
<1> USE DEF TypeOK, StoreInv, Refuse, storeVars, historyVars, InLane, KeyWanted
<1>1. LaneHeld'
  BY DEF LaneHeld
<1>2. GateHolds' /\ NothingYet' /\ AgedAreRecords'
  BY DEF GateHolds, NothingYet, AgedAreRecords
<1>3. RecordingIssued' /\ RepliesHaveHash'
  BY DEF RecordingIssued, RepliesHaveHash, OwnTx
<1>4. BroadcastsAccounted'
  <2>1. \A k \in Keys : Recording(k)' <=> Recording(k)
    BY DEF Recording
  <2>2. QED
    BY <2>1 DEF BroadcastsAccounted
<1>5. HashesAreIssued'
  BY DEF HashesAreIssued, Issued
<1>6. QED
  BY <1>1, <1>2, <1>3, <1>4, <1>5

(***************************************************************************)
(* The same for the steps that take a call into the lane or along it       *)
(* without writing anything.                                               *)
(***************************************************************************)
LEMMA StoreAdvance ==
    ASSUME TypeOK, StoreInv, NEW r \in Requests,
           \/ Call(r) \/ EnterReplays(r) \/ EnterProceeds(r)
           \/ \E n \in 0 .. MaxNonce : Prepare(r, n)
    PROVE  StoreInv'
<1> USE DEF TypeOK, StoreInv, storeVars, historyVars, InLane, KeyWanted, Call,
            EnterReplays, EnterProceeds, Prepare, AtGate
<1>1. LaneHeld'
  BY DEF LaneHeld
<1>2. GateHolds' /\ NothingYet' /\ AgedAreRecords'
  BY DEF GateHolds, NothingYet, AgedAreRecords
<1>3. RecordingIssued' /\ RepliesHaveHash'
  BY DEF RecordingIssued, RepliesHaveHash, OwnTx
<1>4. BroadcastsAccounted'
  <2>1. \A k \in Keys : Recording(k)' <=> Recording(k)
    BY DEF Recording
  <2>2. QED
    BY <2>1 DEF BroadcastsAccounted
<1>5. HashesAreIssued'
  BY DEF HashesAreIssued, Issued
<1>6. QED
  BY <1>1, <1>2, <1>3, <1>4, <1>5

(***************************************************************************)
(* A broadcast is counted once: as under way, or at once as forgotten.     *)
(***************************************************************************)
LEMMA StoreSend ==
    ASSUME TypeOK, StoreInv, NEW r \in Requests, Send(r) \/ SendAmbiguous(r)
    PROVE  StoreInv'
<1> USE DEF TypeOK, StoreInv, storeVars, InLane, Send, SendAmbiguous, Broadcast,
            Refuse
<1>0. /\ OwnTx(r) # NoTx
      /\ KeyWanted(r) \in Keys
      /\ lane = r
      /\ \A q \in Requests : stage[q] # "recording"
  BY OwnTxIsTx DEF KeyWanted, LaneHeld
<1>1. LaneHeld'
  BY DEF LaneHeld
<1>2. GateHolds' /\ NothingYet' /\ AgedAreRecords'
  BY DEF GateHolds, NothingYet, AgedAreRecords, KeyWanted
<1>3. RecordingIssued' /\ RepliesHaveHash'
  <2>1. OwnTx(r)' = OwnTx(r) /\ issued'[r] = OwnTx(r)
    BY DEF OwnTx
  <2>2. \A q \in Requests : q # r => stage'[q] # "recording"
    BY <1>0
  <2>3. RecordingIssued'
    BY <2>1, <2>2 DEF RecordingIssued
  <2>4. RepliesHaveHash'
    BY DEF RepliesHaveHash
  <2>5. QED
    BY <2>3, <2>4
<1>4. BroadcastsAccounted'
  <2>1. \A k \in Keys : ~ Recording(k)
    BY <1>0 DEF Recording
  <2>2. record[KeyWanted(r)] = NoTx
    BY DEF GateHolds
  <2>3. CASE Send(r)
    <3>1. \A k \in Keys : Recording(k)' <=> k = KeyWanted(r)
      BY <1>0, <2>3 DEF Recording, KeyWanted
    <3>2. QED
      BY <1>0, <2>1, <2>2, <2>3, <3>1 DEF BroadcastsAccounted
  <2>4. CASE SendAmbiguous(r)
    <3>1. \A k \in Keys : ~ Recording(k)'
      BY <1>0, <2>4 DEF Recording
    <3>2. QED
      BY <1>0, <2>1, <2>2, <2>4, <3>1 DEF BroadcastsAccounted
  <2>5. QED
    BY <2>3, <2>4
<1>5. HashesAreIssued'
  <2>1. issued[r] = NoTx
    BY DEF NothingYet
  <2>2. Issued \subseteq Issued'
    BY <2>1 DEF Issued
  <2>3. QED
    BY <2>2 DEF HashesAreIssued, KeyWanted
<1>6. QED
  BY <1>1, <1>2, <1>3, <1>4, <1>5

(***************************************************************************)
(* Writing the record, or losing it, moves one broadcast from under way to *)
(* recorded or forgotten.                                                  *)
(***************************************************************************)
LEMMA StoreRecord ==
    ASSUME TypeOK, StoreInv, NEW r \in Requests, Record(r)
    PROVE  StoreInv'
<1> USE DEF TypeOK, StoreInv, InLane, Record, ReplyBroadcast, Put, Forget
<1>0. /\ OwnTx(r) # NoTx
      /\ OwnTx(r) \in Issued
      /\ Key(OwnTx(r)) = KeyWanted(r)
      /\ KeyWanted(r) \in Keys
      /\ record[KeyWanted(r)] = NoTx
      /\ lane = r
      /\ \A q \in Requests : stage[q] \in InLane => q = r
  BY OwnTxIsTx DEF KeyWanted, LaneHeld, GateHolds, RecordingIssued, Issued
<1>1. LaneHeld'
  BY DEF LaneHeld
<1>2. GateHolds' /\ NothingYet' /\ RecordingIssued' /\ RepliesHaveHash'
  BY <1>0 DEF GateHolds, NothingYet, RecordingIssued, RepliesHaveHash,
              KeyWanted, OwnTx
<1>3. AgedAreRecords'
  BY <1>0 DEF AgedAreRecords
<1>4. BroadcastsAccounted'
  <2>1. \A k \in Keys : Recording(k) <=> k = KeyWanted(r)
    BY <1>0 DEF Recording
  <2>2. \A k \in Keys : ~ Recording(k)'
    BY <1>0 DEF Recording
  <2>3. QED
    BY <1>0, <2>1, <2>2 DEF BroadcastsAccounted
<1>5. HashesAreIssued'
  BY <1>0 DEF HashesAreIssued, Issued, KeyWanted
<1>6. QED
  BY <1>1, <1>2, <1>3, <1>4, <1>5

(***************************************************************************)
(* Pruning removes old records and counts each of them as forgotten.       *)
(***************************************************************************)
LEMMA StorePrune ==
    ASSUME TypeOK, StoreInv, Prune
    PROVE  StoreInv'
<1> USE DEF TypeOK, StoreInv, callVars, InLane, Prune, KeyWanted
<1>1. LaneHeld' /\ NothingYet'
  BY DEF LaneHeld, NothingYet
<1>2. GateHolds'
  BY DEF GateHolds
<1>3. RecordingIssued' /\ RepliesHaveHash' /\ AgedAreRecords'
  BY DEF RecordingIssued, RepliesHaveHash, OwnTx, AgedAreRecords
<1>4. BroadcastsAccounted'
  <2>1. \A k \in Keys : Recording(k)' <=> Recording(k)
    BY DEF Recording
  <2>2. QED
    BY <2>1 DEF BroadcastsAccounted, AgedAreRecords
<1>5. HashesAreIssued'
  BY DEF HashesAreIssued, Issued
<1>6. QED
  BY <1>1, <1>2, <1>3, <1>4, <1>5

(***************************************************************************)
(* A reset frees the lane; the put it cut short is written or forgotten.   *)
(***************************************************************************)
LEMMA StoreReset ==
    ASSUME TypeOK, StoreInv, Reset
    PROVE  StoreInv'
<1> USE DEF TypeOK, StoreInv, InLane, Reset, Put, Forget
<1>0. /\ lane \in Requests
      /\ \A q \in Requests : stage[q] \in InLane <=> q = lane
      /\ \A q \in Requests : stage'[q] \notin InLane
      /\ record[KeyWanted(lane)] = NoTx
  BY DEF LaneHeld, GateHolds
<1>1. LaneHeld'
  BY <1>0, RequestAssumption DEF LaneHeld
<1>2. GateHolds' /\ NothingYet' /\ RecordingIssued' /\ RepliesHaveHash'
  BY <1>0 DEF GateHolds, NothingYet, RecordingIssued, RepliesHaveHash
<1>3. \A k \in Keys : ~ Recording(k)'
  BY <1>0 DEF Recording
<1>4. OwnTx(lane) # NoTx /\ Key(OwnTx(lane)) = KeyWanted(lane)
  BY <1>0, OwnTxIsTx
<1>5. CASE stage[lane] = "recording"
  <2>1. OwnTx(lane) \in Issued
    BY <1>0, <1>4, <1>5 DEF Issued, RecordingIssued
  <2>2. \A k \in Keys : Recording(k) <=> k = KeyWanted(lane)
    BY <1>0, <1>5 DEF Recording
  <2>3. AgedAreRecords'
    BY <1>0, <1>4 DEF AgedAreRecords
  <2>4. BroadcastsAccounted'
    BY <1>0, <1>3, <1>4, <1>5, <2>2 DEF BroadcastsAccounted
  <2>5. HashesAreIssued'
    BY <1>4, <2>1 DEF HashesAreIssued, Issued, KeyWanted
  <2>6. QED
    BY <1>1, <1>2, <2>3, <2>4, <2>5
<1>6. CASE stage[lane] # "recording"
  <2>1. \A k \in Keys : ~ Recording(k)
    BY <1>0, <1>6 DEF Recording
  <2>2. BroadcastsAccounted' /\ AgedAreRecords'
    BY <1>3, <1>6, <2>1 DEF BroadcastsAccounted, AgedAreRecords
  <2>3. HashesAreIssued'
    BY <1>6 DEF HashesAreIssued, Issued, KeyWanted
  <2>4. QED
    BY <1>1, <1>2, <2>2, <2>3
<1>7. QED
  BY <1>5, <1>6

LEMMA StoreAges ==
    ASSUME TypeOK, StoreInv,
           PruneComesDue \/ \E k \in Keys : RecordAges(k)
    PROVE  StoreInv'
<1> USE DEF TypeOK, StoreInv, PruneComesDue, RecordAges, callVars, historyVars
<1>1. /\ LaneHeld' /\ NothingYet' /\ GateHolds' /\ HashesAreIssued'
      /\ RecordingIssued' /\ RepliesHaveHash'
  BY DEF LaneHeld, NothingYet, GateHolds, RecordingIssued, RepliesHaveHash,
         HashesAreIssued, Issued, KeyWanted, OwnTx
<1>2. AgedAreRecords' /\ BroadcastsAccounted'
  BY DEF AgedAreRecords, BroadcastsAccounted, Recording, KeyWanted
<1>3. QED
  BY <1>1, <1>2

(***************************************************************************)
(* The store invariant holds whatever fails: it assumes nothing of Faults. *)
(***************************************************************************)
THEOREM StoreCorrect == Spec => []StoreInv
<1>1. Init => StoreInv
  BY StoreInit
<1>2. TypeOK /\ StoreInv /\ [Next]_vars => StoreInv'
  <2> SUFFICES ASSUME TypeOK, StoreInv, [Next]_vars PROVE StoreInv'
    OBVIOUS
  <2>1. ASSUME NEW r \in Requests, Call(r) PROVE StoreInv'
    BY <2>1, StoreAdvance
  <2>2. ASSUME NEW r \in Requests, Lane(r) PROVE StoreInv'
    <3>1. CASE EnterReplays(r) \/ EnterProceeds(r)
      BY <3>1, StoreAdvance
    <3>2. CASE EnterRefuses(r)
      BY <3>2, StoreRefuse DEF EnterRefuses, AtGate
    <3>3. CASE \E n \in 0 .. MaxNonce : Prepare(r, n)
      BY <3>3, StoreAdvance
    <3>4. CASE PrepareFails(r) \/ SendRefused(r)
      <4>1. stage[r] \in {"preparing", "sending"} /\ lane = r
        BY <3>4 DEF PrepareFails, SendRefused, StoreInv, LaneHeld, InLane
      <4>2. QED
        BY <3>4, <4>1, StoreRefuse DEF PrepareFails, SendRefused
    <3>5. CASE Send(r) \/ SendAmbiguous(r)
      BY <3>5, StoreSend
    <3>6. CASE Record(r)
      BY <3>6, StoreRecord
    <3>7. QED
      BY <2>2, <3>1, <3>2, <3>3, <3>4, <3>5, <3>6 DEF Lane
  <2>3. CASE Upkeep
    BY <2>3, StorePrune, StoreReset, StoreAges DEF Upkeep
  <2>4. CASE ChainMoves
    BY <2>4, StoreUntouched DEF ChainMoves
  <2>5. CASE UNCHANGED vars
    BY <2>5, StoreUntouched DEF vars
  <2>6. QED
    BY <2>1, <2>2, <2>3, <2>4, <2>5 DEF Next, Finished
<1>3. QED
  BY <1>1, <1>2, TypeCorrect, PTL DEF Spec

(***************************************************************************)
(* An authorization is broadcast at most once more often than a broadcast  *)
(* of it went unrecorded or had its record pruned.                         *)
(***************************************************************************)
THEOREM BoundedRebroadcasts == Spec => []RebroadcastBounded
<1>1. TypeOK /\ StoreInv => RebroadcastBounded
  <2> SUFFICES ASSUME TypeOK, StoreInv, NEW k \in Keys
               PROVE  broadcasts[k] <= forgets[k] + 1
    BY DEF RebroadcastBounded
  <2>1. Recording(k) => record[k] = NoTx
    BY DEF Recording, StoreInv, GateHolds, InLane
  <2>2. QED
    BY <2>1 DEF TypeOK, StoreInv, BroadcastsAccounted
<1>2. QED
  BY <1>1, TypeCorrect, StoreCorrect, PTL

(***************************************************************************)
(* Whenever no call is in the lane, a key broadcast more often than        *)
(* forgotten has a record for /settle-status to return.                    *)
(***************************************************************************)
THEOREM StatusComplete == Spec => []StatusFindsBroadcast
<1>1. TypeOK /\ StoreInv => StatusFindsBroadcast
  <2> SUFFICES ASSUME TypeOK, StoreInv, NEW k \in Keys, lane = NoOne,
                      broadcasts[k] > forgets[k]
               PROVE  record[k] # NoTx
    BY DEF StatusFindsBroadcast
  <2>1. ~ Recording(k)
    BY RequestAssumption DEF Recording, StoreInv, LaneHeld, InLane
  <2>2. QED
    BY <2>1 DEF TypeOK, StoreInv, BroadcastsAccounted
<1>2. QED
  BY <1>1, TypeCorrect, StoreCorrect, PTL

(***************************************************************************)
(* Records and replies name transactions that were really issued for the   *)
(* same key.                                                               *)
(***************************************************************************)
THEOREM HashesGenuine == Spec => []HashesAreIssued
<1>1. StoreInv => HashesAreIssued
  BY DEF StoreInv
<1>2. QED
  BY <1>1, StoreCorrect, PTL

(***************************************************************************)
(* A record is never replaced and is removed only when it is old.          *)
(***************************************************************************)
THEOREM RecordsAreStable == Spec => RecordStable
<1> DEFINE Stable == \A k \in Keys : record[k] # NoTx /\ record'[k] # record[k]
                                         => k \in aged /\ record'[k] = NoTx
<1>1. TypeOK /\ StoreInv /\ [Next]_vars => [Stable]_vars
  <2> SUFFICES ASSUME TypeOK, StoreInv, Next PROVE Stable
    OBVIOUS
  <2>1. ASSUME NEW r \in Requests, Call(r) PROVE Stable
    BY <2>1 DEF Call, storeVars
  <2>2. ASSUME NEW r \in Requests, Lane(r) PROVE Stable
    <3>1. CASE Record(r)
      <4>1. record[KeyWanted(r)] = NoTx
        BY <3>1 DEF Record, ReplyBroadcast, Put, Forget, StoreInv, GateHolds,
                    InLane
      <4>2. QED
        BY <3>1, <4>1 DEF Record, ReplyBroadcast, Put, Forget, TypeOK
    <3>2. CASE ~ Record(r)
      BY <2>2, <3>2 DEF Lane, storeVars, EnterReplays, EnterRefuses,
                        EnterProceeds, Prepare, PrepareFails, Send,
                        SendAmbiguous, SendRefused, Broadcast
    <3>3. QED
      BY <3>1, <3>2
  <2>3. CASE Upkeep
    <3>1. CASE Prune
      BY <3>1 DEF Prune, TypeOK
    <3>2. CASE Reset
      <4>1. lane \in Requests
        BY <3>2 DEF Reset, Put, Forget, TypeOK
      <4>2. stage[lane] = "recording" => record[KeyWanted(lane)] = NoTx
        BY <4>1 DEF StoreInv, GateHolds, InLane
      <4>3. QED
        BY <3>2, <4>1, <4>2 DEF Reset, Put, Forget, TypeOK
    <3>3. CASE PruneComesDue \/ \E k \in Keys : RecordAges(k)
      BY <3>3 DEF PruneComesDue, RecordAges
    <3>4. QED
      BY <2>3, <3>1, <3>2, <3>3 DEF Upkeep
  <2>4. CASE ChainMoves \/ Finished
    BY <2>4 DEF ChainMoves, Finished, vars, signerVars, storeVars
  <2>5. QED
    BY <2>1, <2>2, <2>3, <2>4 DEF Next
<1>2. QED
  BY <1>1, TypeCorrect, StoreCorrect, PTL DEF Spec, RecordStable

------------------------------------------------------------------------------
(***************************************************************************)
(* What a refusal means.                                                   *)
(***************************************************************************)

\* How a step of the lane can move the stages of the requests.
LEMMA LaneMovesStages ==
    ASSUME TypeOK, StoreInv, RefusalSentNothing,
           (\E r \in Requests : Lane(r)) \/ Upkeep
    PROVE  /\ \A q \in Requests :
                  stage[q] \in {"idle"} \cup Returned
                    => stage'[q] = stage[q] /\ code'[q] = code[q]
           /\ RefusalSentNothing'
<1> DEFINE Goal ==
        /\ \A q \in Requests :
                stage[q] \in {"idle"} \cup Returned
                        => stage'[q] = stage[q] /\ code'[q] = code[q]
        /\ RefusalSentNothing'
<1> USE DEF TypeOK, InLane, Returned, RefusalSentNothing
<1>1. ASSUME NEW r \in Requests, EnterReplays(r) \/ EnterProceeds(r)
                                 \/ \E n \in 0 .. MaxNonce : Prepare(r, n)
      PROVE  Goal
  BY <1>1 DEF EnterReplays, EnterProceeds, Prepare, AtGate, historyVars
<1>2. ASSUME NEW r \in Requests, EnterRefuses(r) \/ PrepareFails(r) \/ SendRefused(r)
      PROVE  Goal
  BY <1>2 DEF EnterRefuses, PrepareFails, SendRefused, AtGate, Refuse, StoreInv,
              NothingYet, historyVars
<1>3. ASSUME NEW r \in Requests, Send(r) \/ SendAmbiguous(r) \/ Record(r)
      PROVE  Goal
  BY <1>3 DEF Send, SendAmbiguous, Broadcast, Refuse, Record, ReplyBroadcast
<1>4. CASE Upkeep
  BY <1>4 DEF Upkeep, Prune, PruneComesDue, Reset, RecordAges, callVars,
              historyVars
<1>5. QED
  BY <1>1, <1>2, <1>3, <1>4 DEF Lane

(***************************************************************************)
(* A call refused for a definite reason has put nothing into the mempool,  *)
(* whatever fails.                                                         *)
(***************************************************************************)
THEOREM RefusalsSentNothing == Spec => []RefusalSentNothing
<1>1. Init => RefusalSentNothing
  BY DEF Init, SignerInit, RefusalSentNothing
<1>2. TypeOK /\ StoreInv /\ RefusalSentNothing /\ [Next]_vars => RefusalSentNothing'
  <2> SUFFICES ASSUME TypeOK, StoreInv, RefusalSentNothing, [Next]_vars
               PROVE  RefusalSentNothing'
    OBVIOUS
  <2>1. CASE (\E r \in Requests : Lane(r)) \/ Upkeep
    BY <2>1, LaneMovesStages
  <2>2. ASSUME NEW r \in Requests, Call(r) PROVE RefusalSentNothing'
    BY <2>2 DEF Call, historyVars, TypeOK, RefusalSentNothing
  <2>3. CASE ChainMoves \/ UNCHANGED vars
    BY <2>3 DEF ChainMoves, vars, signerVars, callVars, historyVars,
                RefusalSentNothing
  <2>4. QED
    BY <2>1, <2>2, <2>3 DEF Next, Finished
<1>3. QED
  BY <1>1, <1>2, TypeCorrect, StoreCorrect, PTL DEF Spec

------------------------------------------------------------------------------
(***************************************************************************)
(* The account nonce.  It is read from the pending count in one step and   *)
(* used in a later one; what makes that sound is that no other sender of   *)
(* the wallet exists, so it is assumed that the wallet is not shared.      *)
(***************************************************************************)

LEMMA NonceLaneStep ==
    ASSUME TypeOK, NonceInv, NEW r \in Requests, Lane(r), LaneHeld'
    PROVE  NonceInv'
<1> USE DEF TypeOK, NonceInv, NonceUnique, PickedIsFree, InLane
<1>0. \A q \in Requests : stage[q] = "sending" => lane = q
  BY DEF LaneHeld
<1>1. CASE \E n \in 0 .. MaxNonce : Prepare(r, n)
  <2>1. Live' = Live
    BY <1>1 DEF Prepare, chainVars, Live, InBlock
  <2>2. QED
    BY <1>1, <2>1 DEF Prepare, IsPendingCount, UsedNonces
<1>2. CASE Send(r) \/ SendAmbiguous(r)
  <2>1. Live' = Live \cup {OwnTx(r)}
    BY <1>2 DEF Send, SendAmbiguous, Broadcast, Live, InBlock
  <2>2. \A t \in Live : t.nonce # OwnTx(r).nonce
    BY <1>2 DEF Send, SendAmbiguous, Broadcast, OwnTx, UsedNonces
  <2>3. NonceUnique'
    BY <2>1, <2>2
  <2>4. \A q \in Requests : stage'[q] # "sending"
    BY <1>0, <1>2 DEF Send, SendAmbiguous, Broadcast, Refuse
  <2>5. QED
    BY <2>3, <2>4
<1>3. CASE \/ EnterReplays(r) \/ EnterRefuses(r) \/ EnterProceeds(r)
           \/ PrepareFails(r) \/ SendRefused(r) \/ Record(r)
  <2>1. Live' = Live
    BY <1>3 DEF EnterReplays, EnterRefuses, EnterProceeds, PrepareFails,
                SendRefused, Record, ReplyBroadcast, Put, Forget, chainVars,
                Live, InBlock
  <2>2. \A q \in Requests : stage'[q] = "sending" =>
            stage[q] = "sending" /\ picked'[q] = picked[q]
    BY <1>3 DEF EnterReplays, EnterRefuses, EnterProceeds, PrepareFails,
                SendRefused, Record, ReplyBroadcast, Put, Forget, Refuse
  <2>3. QED
    BY <2>1, <2>2 DEF UsedNonces
<1>4. QED
  BY <1>1, <1>2, <1>3 DEF Lane

(***************************************************************************)
(* No two live transactions of the relayer wallet share an account nonce,  *)
(* for every schedule of requests and every fault but a shared wallet.     *)
(***************************************************************************)
THEOREM NonceSafety == ASSUME "shared" \notin Faults
                       PROVE  Spec => []NonceUnique
<1>1. Init => NonceInv
  BY StoreInit DEF StoreInv, Init, ChainInit, SignerInit, NonceInv,
                   PickedIsFree,
                   NonceUnique, Live, InBlock
<1>2. TypeOK /\ LaneHeld' /\ NonceInv /\ [Next]_vars => NonceInv'
  <2> SUFFICES ASSUME TypeOK, LaneHeld', NonceInv, [Next]_vars PROVE NonceInv'
    OBVIOUS
  <2>1. ASSUME NEW r \in Requests, Lane(r) PROVE NonceInv'
    BY <2>1, NonceLaneStep
  <2>2. CASE \/ \E r \in Requests : Call(r)
             \/ Upkeep \/ Finished \/ UNCHANGED vars
    <3>1. Live' = Live
      BY <2>2 DEF Call, Upkeep, Prune, PruneComesDue, Reset, Put, Forget,
                  RecordAges, Finished,
                  vars, chainVars, Live, InBlock
    <3>2. \A q \in Requests : stage'[q] = "sending" =>
              stage[q] = "sending" /\ picked'[q] = picked[q]
      BY <2>2 DEF Call, Upkeep, Prune, PruneComesDue, Reset, Put, Forget,
                  RecordAges, Finished,
                  vars, signerVars, callVars, TypeOK, InLane
    <3>3. QED
      BY <3>1, <3>2 DEF NonceInv, PickedIsFree, NonceUnique, UsedNonces
  <2>3. CASE ChainMoves
    <3>1. Live' \subseteq Live
      BY <2>3, ChainAddsNoTx DEF ChainMoves
    <3>2. QED
      BY <2>3, <3>1 DEF ChainMoves, signerVars, callVars, NonceInv,
                        PickedIsFree,
                        NonceUnique, UsedNonces
  <2>4. QED
    BY <2>1, <2>2, <2>3 DEF Next
<1>3. StoreInv => LaneHeld
  BY DEF StoreInv
<1>4. NonceInv => NonceUnique
  BY DEF NonceInv
<1>5. QED
  BY <1>1, <1>2, <1>3, <1>4, TypeCorrect, StoreCorrect, PTL DEF Spec
------------------------------------------------------------------------------
(***************************************************************************)
(* While the chain loses nothing: no transaction waits for an account      *)
(* nonce that nobody uses, and none that was sent disappears.              *)
(***************************************************************************)

\* A step of the signer adds to Live only what it sends, with an own nonce.
LEMMA SignerAddsLive ==
    ASSUME TypeOK, NEW r \in Requests, Lane(r)
    PROVE  \/ Live' = Live /\ (\A q \in Requests : issued'[q] = issued[q])
           \/ /\ stage[r] = "sending"
              /\ Live' = Live \cup {OwnTx(r)}
              /\ issued' = [issued EXCEPT ![r] = OwnTx(r)]
<1>1. CASE Send(r) \/ SendAmbiguous(r)
  BY <1>1 DEF Send, SendAmbiguous, Broadcast, Live, InBlock
<1>2. CASE \/ EnterReplays(r) \/ EnterRefuses(r) \/ EnterProceeds(r)
           \/ (\E n \in 0 .. MaxNonce : Prepare(r, n))
           \/ PrepareFails(r) \/ SendRefused(r) \/ Record(r)
  BY <1>2 DEF EnterReplays, EnterRefuses, EnterProceeds, Prepare, PrepareFails,
              SendRefused, Record, ReplyBroadcast, Put, Forget, historyVars,
              chainVars, Live, InBlock
<1>3. QED
  BY <1>1, <1>2 DEF Lane

\* The other steps of the object send nothing and prepare nothing.
LEMMA UpkeepSendsNothing ==
    ASSUME TypeOK,
           \/ \E r \in Requests : Call(r)
           \/ Upkeep \/ Finished \/ UNCHANGED vars
    PROVE  /\ Live' = Live /\ issued' = issued
           /\ \A q \in Requests : stage'[q] = "sending" =>
                  stage[q] = "sending" /\ picked'[q] = picked[q]
  BY DEF Call, Upkeep, Prune, PruneComesDue, Reset, Put, Forget, RecordAges,
         Finished, vars, chainVars, signerVars, callVars, historyVars, InLane,
         Live, InBlock, TypeOK

(***************************************************************************)
(* Whatever fails in the object, and whoever else uses the wallet, the     *)
(* nonces of the live transactions have no gap: none of them is stuck      *)
(* behind a transaction that was never sent.                               *)
(***************************************************************************)
THEOREM NoncesAreDense ==
    ASSUME "drop" \notin Faults, "reorg" \notin Faults
    PROVE  Spec => []NoncesDense
<1>1. Init => DenseInv
  BY DEF Init, ChainInit, SignerInit, DenseInv, NoncesDense, PickedIsNext,
         Live, InBlock
<1>2. TypeOK /\ DenseInv /\ [Next]_vars => DenseInv'
  <2> SUFFICES ASSUME TypeOK, DenseInv, [Next]_vars PROVE DenseInv'
    OBVIOUS
  <2> USE DEF DenseInv, NoncesDense, PickedIsNext
  <2>1. ASSUME NEW r \in Requests, Lane(r) PROVE DenseInv'
    <3>1. UsedNonces(Live) \subseteq UsedNonces(Live)'
      BY <2>1, SignerAddsLive DEF UsedNonces
    <3>2. NoncesDense'
      <4>0. OwnTx(r).nonce = picked[r].nonce
        BY DEF OwnTx
      <4>1. \A t \in Live' :
                t \in Live \/ (t.nonce = picked[r].nonce /\ stage[r] = "sending")
        BY <2>1, <4>0, SignerAddsLive
      <4>2. \A t \in Live' : 0 .. (t.nonce - 1) \subseteq UsedNonces(Live)
        BY <4>1
      <4>3. QED
        BY <3>1, <4>2
    <3>3. ASSUME NEW q \in Requests, stage'[q] = "sending"
          PROVE  0 .. (picked'[q].nonce - 1) \subseteq UsedNonces(Live)'
      <4>1. CASE \E n \in 0 .. MaxNonce : Prepare(r, n)
        <5>1. PICK n \in 0 .. MaxNonce : Prepare(r, n)
          BY <4>1
        <5>2. picked'[r].nonce = n /\ 0 .. (n - 1) \subseteq UsedNonces(Live)
          BY <5>1 DEF Prepare, IsPendingCount, TypeOK
        <5>3. q # r => stage[q] = "sending" /\ picked'[q] = picked[q]
          BY <3>3, <5>1 DEF Prepare, TypeOK
        <5>4. QED
          BY <3>1, <5>2, <5>3
      <4>2. CASE ~ \E n \in 0 .. MaxNonce : Prepare(r, n)
        <5>1. stage[q] = "sending" /\ picked'[q] = picked[q]
          BY <2>1, <3>3, <4>2
             DEF Lane, EnterReplays, EnterRefuses, EnterProceeds, PrepareFails,
                 Send, SendAmbiguous, SendRefused, Broadcast, Record,
                 ReplyBroadcast, Put, Forget, Refuse, TypeOK
        <5>2. QED
          BY <3>1, <5>1
      <4>3. QED
        BY <4>1, <4>2
    <3>4. QED
      BY <3>2, <3>3
  <2>2. CASE \/ \E r \in Requests : Call(r)
             \/ Upkeep \/ Finished \/ UNCHANGED vars
    BY <2>2, UpkeepSendsNothing DEF UsedNonces
  <2>3. CASE ChainMoves
    <3>1. UsedNonces(Live) \subseteq UsedNonces(Live)'
      BY <2>3, ChainKeepsNonces DEF ChainMoves
    <3>2. \A t \in Live' : t \in Live \/ 0 .. (t.nonce - 1) \subseteq UsedNonces(Live)
      BY <2>3, ChainAddsNext DEF ChainMoves
    <3>3. UNCHANGED <<stage, picked>>
      BY <2>3 DEF ChainMoves, signerVars, callVars
    <3>4. QED
      BY <3>1, <3>2, <3>3
  <2>4. QED
    BY <2>1, <2>2, <2>3 DEF Next
<1>3. DenseInv => NoncesDense
  BY DEF DenseInv
<1>4. QED
  BY <1>1, <1>2, <1>3, TypeCorrect, PTL DEF Spec

(***************************************************************************)
(* Every transaction that a request has put into the mempool is still      *)
(* there, or in a block, whatever else fails.                              *)
(***************************************************************************)
THEOREM NothingSentIsLost ==
    ASSUME "drop" \notin Faults, "reorg" \notin Faults, "shared" \notin Faults
    PROVE  Spec => []IssuedIsLive
<1>1. Init => IssuedIsLive
  BY DEF Init, SignerInit, IssuedIsLive, Issued
<1>2. /\ TypeOK /\ NonceUnique /\ IssuedIsLive /\ [Next]_vars
      => IssuedIsLive'
  <2> SUFFICES ASSUME TypeOK, NonceUnique, IssuedIsLive, [Next]_vars
               PROVE  IssuedIsLive'
    OBVIOUS
  <2> USE DEF IssuedIsLive, Issued
  <2>1. ASSUME NEW r \in Requests, Lane(r) PROVE IssuedIsLive'
    BY <2>1, SignerAddsLive DEF TypeOK
  <2>2. CASE \/ \E r \in Requests : Call(r)
             \/ Upkeep \/ Finished \/ UNCHANGED vars
    BY <2>2, UpkeepSendsNothing
  <2>3. CASE ChainMoves
    BY <2>3, ChainLosesNothing DEF ChainMoves, signerVars, historyVars, NonceUnique
  <2>4. QED
    BY <2>1, <2>2, <2>3 DEF Next
<1>3. QED
  BY <1>1, <1>2, TypeCorrect, NonceSafety, PTL DEF Spec
==============================================================================
