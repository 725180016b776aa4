--------------------------- MODULE HmacAuthProofs ---------------------------
(***************************************************************************)
(* Proofs about HmacAuth, for any requests, deliveries, clocks and window. *)
(***************************************************************************)
EXTENDS HmacAuth, TLAPS

\* What is known of a delivery by its stage and the reading it was given.
Readings ==
    \A d \in Deliveries :
        /\ stage[d] # "away" => readAt[d] <= now
        /\ stage[d] = "digesting" => /\ now <= readAt[d] + Span
                                     /\ Damage[d] \in {"none", "content"}
                                     /\ ~ Skewed(CopyOf[d], readAt[d])
        /\ stage[d] = "accepted" => ~ Skewed(CopyOf[d], readAt[d])
        /\ detail[d] = "replayed_nonce" => stage[d] = "refused"

\* Until the end of the time its entry was given, an accepted request has an
\* entry that lives as long.
EntryHolds ==
    \A d \in Deliveries :
        stage[d] = "accepted" /\ now < Expiry(d)
            => seen[SeenKey(CopyOf[d])] >= Expiry(d)

\* Entries are made by acceptances only.
EntryWasAccepted ==
    \A k \in SeenKeys :
        seen[k] # 0 => \E e \in Deliveries : stage[e] = "accepted"
                                             /\ SeenKey(CopyOf[e]) = k

-----------------------------------------------------------------------------

LEMMA KeyIsKnown ==
    ASSUME NEW d \in Deliveries
    PROVE  /\ CopyOf[d] \in Requests
           /\ SeenKey(CopyOf[d]) \in SeenKeys
           /\ Ts[CopyOf[d]] \in Nat
BY AuthAssumption DEF AuthAssumption, SeenKeys

LEMMA DefectNamed ==
    ASSUME NEW d \in Deliveries, NEW s \in Nat
    PROVE  /\ HeaderDefect(d, s) \in Details \ {"replayed_nonce"}
           /\ HeaderDefect(d, s) = "none"
                => Damage[d] \in {"none", "content"} /\ ~ Skewed(CopyOf[d], s)
BY AuthAssumption DEF AuthAssumption, HeaderDefect, Details, Damages

LEMMA CollectedTyped ==
    ASSUME AuthTypeOK, NEW s \in Nat
    PROVE  /\ Collected(s) \in [SeenKeys -> Nat]
           /\ \A k \in SeenKeys :
                 /\ Collected(s)[k] # 0 => Collected(s)[k] = seen[k] /\ seen[k] > s
                 /\ Collected(s)[k] = 0 => seen[k] <= s
BY DEF AuthTypeOK, Collected, Expired

\* A step that refuses d.
LEMMA RefusedTyped ==
    ASSUME AuthTypeOK, NEW d \in Deliveries, NEW reason \in Details,
           Refuse(d, reason)
    PROVE  /\ stage' \in [Deliveries -> AuthStages]
           /\ detail' \in [Deliveries -> Details]
BY DEF AuthTypeOK, Refuse, AuthStages

LEMMA TypeStep ==
    ASSUME AuthTypeOK, [AuthNext]_authVars
    PROVE  AuthTypeOK'
<1>1. CASE UNCHANGED authVars
  BY <1>1 DEF AuthTypeOK, authVars
<1>2. ASSUME NEW d \in Deliveries, Arrive(d)
      PROVE  AuthTypeOK'
  <2>1. now \in Nat /\ now \in 0 .. Horizon
    BY AuthAssumption DEF AuthTypeOK, AuthAssumption
  <2>2. HeaderDefect(d, now) \in Details
    BY <2>1, DefectNamed
  <2>3. /\ stage' \in [Deliveries -> AuthStages]
        /\ detail' \in [Deliveries -> Details]
    <3>1. CASE HeaderDefect(d, now) # "none" /\ Refuse(d, HeaderDefect(d, now))
      BY <3>1, <2>2, RefusedTyped
    <3>2. CASE /\ stage' = [stage EXCEPT ![d] = "digesting"]
               /\ UNCHANGED detail
      BY <3>2 DEF AuthTypeOK, AuthStages
    <3>3. QED
      BY <1>2, <3>1, <3>2 DEF Arrive
  <2>4. QED
    BY <1>2, <2>1, <2>3 DEF AuthTypeOK, Arrive
<1>3. ASSUME NEW d \in Deliveries, RefuseMismatch(d)
      PROVE  AuthTypeOK'
  <2>1. "signature_mismatch" \in Details
    BY DEF Details
  <2>2. QED
    BY <1>3, <2>1, RefusedTyped DEF RefuseMismatch, AuthTypeOK
<1>4. ASSUME NEW d \in Deliveries, RefuseReplay(d)
      PROVE  AuthTypeOK'
  <2>1. "replayed_nonce" \in Details /\ readAt[d] \in Nat
    BY AuthAssumption DEF Details, AuthTypeOK, AuthAssumption
  <2>2. QED
    BY <1>4, <2>1, RefusedTyped, CollectedTyped DEF RefuseReplay, AuthTypeOK
<1>5. ASSUME NEW d \in Deliveries, Accept(d)
      PROVE  AuthTypeOK'
  <2>1. readAt[d] \in Nat /\ Expiry(d) \in Nat
    BY AuthAssumption DEF AuthTypeOK, AuthAssumption, Expiry
  <2>2. seen' \in [SeenKeys -> Nat]
    BY <1>5, <2>1, CollectedTyped DEF Accept
  <2>3. QED
    BY <1>5, <2>2 DEF Accept, AuthTypeOK, AuthStages
<1>6. CASE Tick
  BY <1>6, AuthAssumption DEF Tick, AuthTypeOK, AuthAssumption
<1>7. CASE Over
  BY <1>1, <1>7 DEF Over
<1>8. QED
  BY <1>1, <1>2, <1>3, <1>4, <1>5, <1>6, <1>7 DEF AuthNext

(***************************************************************************)
(* The variables of HmacAuth keep their types.                             *)
(***************************************************************************)
THEOREM AuthTypeCorrect == AuthSpec => []AuthTypeOK
<1>1. AuthInit => AuthTypeOK
  BY AuthAssumption DEF AuthInit, AuthTypeOK, AuthAssumption, AuthStages, Details
<1>2. QED
  BY <1>1, TypeStep, PTL DEF AuthSpec

-----------------------------------------------------------------------------

LEMMA ReadingsStep ==
    ASSUME AuthTypeOK, Readings, [AuthNext]_authVars
    PROVE  Readings'
<1> USE AuthAssumption DEF AuthTypeOK, AuthAssumption, Readings, Skewed
<1>1. CASE UNCHANGED authVars
  BY <1>1 DEF authVars
<1>2. ASSUME NEW d \in Deliveries, Arrive(d)
      PROVE  Readings'
  BY <1>2, KeyIsKnown, DefectNamed DEF Arrive, Refuse
<1>3. ASSUME NEW d \in Deliveries, RefuseMismatch(d)
      PROVE  Readings'
  BY <1>3, KeyIsKnown DEF RefuseMismatch, Refuse
<1>4. ASSUME NEW d \in Deliveries, RefuseReplay(d)
      PROVE  Readings'
  BY <1>4, KeyIsKnown DEF RefuseReplay, Refuse
<1>5. ASSUME NEW d \in Deliveries, Accept(d)
      PROVE  Readings'
  BY <1>5, KeyIsKnown DEF Accept
<1>6. CASE Tick
  BY <1>6, KeyIsKnown DEF Tick
<1>7. CASE Over
  BY <1>1, <1>7 DEF Over
<1>8. QED
  BY <1>1, <1>2, <1>3, <1>4, <1>5, <1>6, <1>7 DEF AuthNext

LEMMA ReadingsHold == AuthSpec => []Readings
<1>1. AuthInit => Readings
  BY DEF AuthInit, Readings
<1>2. QED
  BY <1>1, ReadingsStep, AuthTypeCorrect, PTL DEF AuthSpec

-----------------------------------------------------------------------------

LEMMA ExpiryTyped ==
    ASSUME AuthTypeOK, NEW d \in Deliveries
    PROVE  readAt[d] \in Nat /\ now \in Nat /\ Expiry(d) = readAt[d] + Skew + 1
BY AuthAssumption DEF AuthTypeOK, AuthAssumption, Expiry

\* While an accepted request's entry has time to live, no collection by a
\* reading in flight removes it.
LEMMA CollectionSpares ==
    ASSUME AuthTypeOK, Readings, EntryHolds,
           NEW d \in Deliveries, stage[d] = "digesting",
           NEW e \in Deliveries, stage[e] = "accepted", now < Expiry(e)
    PROVE  /\ Collected(readAt[d])[SeenKey(CopyOf[e])] >= Expiry(e)
           /\ Collected(readAt[d])[SeenKey(CopyOf[e])] # 0
<1> DEFINE k == SeenKey(CopyOf[e])
<1>1. seen[k] >= Expiry(e)
  BY DEF EntryHolds
<1>2. readAt[d] \in Nat /\ readAt[d] <= now /\ now \in Nat
  BY ExpiryTyped DEF Readings
<1>3. seen[k] \in Nat /\ Expiry(e) \in Nat /\ Expiry(e) > 0
  BY KeyIsKnown, ExpiryTyped, AuthAssumption DEF AuthTypeOK, AuthAssumption
<1>4. /\ Collected(readAt[d])[k] # 0 => Collected(readAt[d])[k] = seen[k]
      /\ Collected(readAt[d])[k] = 0 => seen[k] <= readAt[d]
  BY <1>2, KeyIsKnown, CollectedTyped
<1>5. QED
  BY <1>1, <1>2, <1>3, <1>4

LEMMA EntryHoldsStep ==
    ASSUME AuthTypeOK, Readings, EntryHolds, [AuthNext]_authVars
    PROVE  EntryHolds'
<1>1. CASE UNCHANGED authVars
  BY <1>1 DEF EntryHolds, authVars, Expiry, SeenKey
<1>2. ASSUME NEW d \in Deliveries, Arrive(d)
      PROVE  EntryHolds'
  <2>1. \A e \in Deliveries :
            stage'[e] = "accepted" => stage[e] = "accepted" /\ readAt'[e] = readAt[e]
    BY <1>2 DEF Arrive, Refuse, AuthTypeOK
  <2>2. QED
    BY <1>2, <2>1 DEF EntryHolds, Arrive, Expiry, SeenKey
<1>3. ASSUME NEW d \in Deliveries, RefuseMismatch(d)
      PROVE  EntryHolds'
  <2>1. \A e \in Deliveries : stage'[e] = "accepted" => stage[e] = "accepted"
    BY <1>3 DEF RefuseMismatch, Refuse, AuthTypeOK
  <2>2. QED
    BY <1>3, <2>1 DEF EntryHolds, RefuseMismatch, Expiry, SeenKey
<1>4. ASSUME NEW d \in Deliveries, RefuseReplay(d)
      PROVE  EntryHolds'
  <2>1. \A e \in Deliveries : stage'[e] = "accepted" => stage[e] = "accepted"
    BY <1>4 DEF RefuseReplay, Refuse, AuthTypeOK
  <2>2. QED
    BY <1>4, <2>1, CollectionSpares DEF EntryHolds, RefuseReplay, Expiry, SeenKey
<1>5. ASSUME NEW d \in Deliveries, Accept(d)
      PROVE  EntryHolds'
  <2>1. SUFFICES ASSUME NEW e \in Deliveries, stage'[e] = "accepted",
                        now < Expiry(e)
                 PROVE  seen'[SeenKey(CopyOf[e])] >= Expiry(e)
    BY <1>5 DEF EntryHolds, Accept, Expiry, SeenKey
  <2>2. seen' = [Collected(readAt[d]) EXCEPT ![SeenKey(CopyOf[d])] = Expiry(d)]
    BY <1>5 DEF Accept
  <2>3. Collected(readAt[d]) \in [SeenKeys -> Nat]
    BY CollectedTyped, ExpiryTyped
  <2>4. stage[d] = "digesting" /\ Collected(readAt[d])[SeenKey(CopyOf[d])] = 0
    BY <1>5 DEF Accept
  <2>5. CASE e = d
    BY <2>2, <2>3, <2>5, KeyIsKnown, ExpiryTyped, AuthAssumption DEF AuthAssumption
  <2>6. CASE e # d
    <3>1. stage[e] = "accepted"
      BY <1>5, <2>1, <2>6 DEF Accept, AuthTypeOK
    <3>2. /\ Collected(readAt[d])[SeenKey(CopyOf[e])] >= Expiry(e)
          /\ Collected(readAt[d])[SeenKey(CopyOf[e])] # 0
      BY <2>1, <2>4, <3>1, CollectionSpares
    <3>3. SeenKey(CopyOf[e]) # SeenKey(CopyOf[d])
      BY <2>4, <3>2
    <3>4. QED
      BY <2>2, <2>3, <3>2, <3>3, KeyIsKnown
  <2>7. QED
    BY <2>5, <2>6
<1>6. CASE Tick
  <2>1. /\ UNCHANGED <<seen, stage, readAt>>
        /\ now \in Int /\ now' = now + 1
    BY <1>6, AuthAssumption DEF Tick, AuthTypeOK, AuthAssumption
  <2>2. \A e \in Deliveries : now' < Expiry(e) => now < Expiry(e)
    BY <2>1, ExpiryTyped, AuthAssumption DEF AuthAssumption
  <2>3. QED
    BY <2>1, <2>2 DEF EntryHolds, Expiry, SeenKey
<1>7. CASE Over
  BY <1>1, <1>7 DEF Over
<1>8. QED
  BY <1>1, <1>2, <1>3, <1>4, <1>5, <1>6, <1>7 DEF AuthNext

LEMMA EntriesHold == AuthSpec => []EntryHolds
<1>1. AuthInit => EntryHolds
  BY DEF AuthInit, EntryHolds
<1>2. QED
  BY <1>1, EntryHoldsStep, ReadingsHold, AuthTypeCorrect, PTL DEF AuthSpec

LEMMA AcceptancesApartStep ==
    ASSUME AuthTypeOK, Readings, EntryHolds, AcceptancesApart, [AuthNext]_authVars
    PROVE  AcceptancesApart'
<1>1. CASE UNCHANGED authVars
  BY <1>1 DEF AcceptancesApart, BothAccepted, authVars
<1>2. ASSUME NEW d \in Deliveries,
             Arrive(d) \/ RefuseMismatch(d) \/ RefuseReplay(d)
      PROVE  AcceptancesApart'
  <2>1. \A e \in Deliveries :
            stage'[e] = "accepted" => stage[e] = "accepted" /\ readAt'[e] = readAt[e]
    BY <1>2 DEF Arrive, RefuseMismatch, RefuseReplay, Refuse, AuthTypeOK
  <2>2. QED
    BY <2>1 DEF AcceptancesApart, BothAccepted
<1>3. ASSUME NEW d \in Deliveries, Accept(d)
      PROVE  AcceptancesApart'
  <2>1. /\ stage[d] = "digesting" /\ readAt' = readAt
        /\ Collected(readAt[d])[SeenKey(CopyOf[d])] = 0
    BY <1>3 DEF Accept
  <2>2. \A e \in Deliveries : e # d => stage'[e] = stage[e]
    BY <1>3 DEF Accept, AuthTypeOK
  <2>3. ASSUME NEW e \in Deliveries, stage[e] = "accepted", CopyOf[e] = CopyOf[d]
        PROVE  readAt[d] + Span > readAt[e] + Skew
    <3>1. ~ (now < Expiry(e))
      BY <2>1, <2>3, CollectionSpares
    <3>2. now <= readAt[d] + Span
      BY <2>1 DEF Readings
    <3>3. QED
      BY <3>1, <3>2, ExpiryTyped, AuthAssumption DEF AuthAssumption
  <2>4. SUFFICES ASSUME NEW x \in Deliveries, NEW y \in Deliveries,
                        BothAccepted(x, y)'
                 PROVE  \/ readAt[y] + Span > readAt[x] + Skew
                        \/ readAt[x] + Span > readAt[y] + Skew
    BY <2>1 DEF AcceptancesApart
  <2>5. x # y /\ CopyOf[x] = CopyOf[y] /\ stage'[x] = "accepted" /\ stage'[y] = "accepted"
    BY <2>4 DEF BothAccepted
  <2>6. CASE x = d
    BY <2>2, <2>3, <2>5, <2>6
  <2>7. CASE y = d
    BY <2>2, <2>3, <2>5, <2>7
  <2>8. CASE x # d /\ y # d
    BY <2>2, <2>5, <2>8 DEF AcceptancesApart, BothAccepted
  <2>9. QED
    BY <2>6, <2>7, <2>8
<1>4. CASE Tick \/ Over
  BY <1>4 DEF AcceptancesApart, BothAccepted, Tick, Over, authVars
<1>5. QED
  BY <1>1, <1>2, <1>3, <1>4 DEF AuthNext

(***************************************************************************)
(* Whatever the clocks of the signers, two acceptances of one request are  *)
(* a whole Skew apart, less the time authenticate() takes.                 *)
(***************************************************************************)
THEOREM AcceptancesAreApart == AuthSpec => []AcceptancesApart
<1>1. AuthInit => AcceptancesApart
  BY DEF AuthInit, AcceptancesApart, BothAccepted
<1>2. QED
  BY <1>1, AcceptancesApartStep, EntriesHold, ReadingsHold, AuthTypeCorrect,
     PTL DEF AuthSpec

(***************************************************************************)
(* Whatever the clocks of the signers, a request is accepted twice only if *)
(* one of the two readings was ahead of its timestamp, or less than the    *)
(* time authenticate() takes past it.                                      *)
(***************************************************************************)
THEOREM SecondAcceptanceNeedsEarly == AuthSpec => []AcceptedAgainOnlyIfEarly
<1>1. ASSUME AuthTypeOK, Readings, AcceptancesApart
      PROVE  AcceptedAgainOnlyIfEarly
  <2>1. SUFFICES ASSUME NEW d \in Deliveries, NEW e \in Deliveries,
                        BothAccepted(d, e)
                 PROVE  \E x \in {d, e} : readAt[x] < Ts[CopyOf[x]] + Span
    BY DEF AcceptedAgainOnlyIfEarly
  <2>2. /\ CopyOf[d] = CopyOf[e]
        /\ ~ Skewed(CopyOf[d], readAt[d]) /\ ~ Skewed(CopyOf[e], readAt[e])
    BY <1>1, <2>1 DEF Readings, BothAccepted
  <2>3. \/ readAt[e] + Span > readAt[d] + Skew
        \/ readAt[d] + Span > readAt[e] + Skew
    BY <1>1, <2>1 DEF AcceptancesApart
  <2>4. /\ Ts[CopyOf[d]] \in Nat /\ readAt[d] \in Nat /\ readAt[e] \in Nat
        /\ Span \in Nat /\ Skew \in Nat
    BY <1>1, KeyIsKnown, ExpiryTyped, AuthAssumption DEF AuthAssumption
  <2>5. readAt[d] < Ts[CopyOf[d]] + Span \/ readAt[e] < Ts[CopyOf[e]] + Span
    BY <2>2, <2>3, <2>4 DEF Skewed
  <2>6. QED
    BY <2>5
<1>2. QED
  BY <1>1, AcceptancesAreApart, ReadingsHold, AuthTypeCorrect, PTL

(***************************************************************************)
(* Whatever the clocks of the signers, an accepted request is remembered   *)
(* for Skew seconds after the reading it was accepted by; and until it can *)
(* no longer be in the window, if it was not read ahead of its timestamp.  *)
(***************************************************************************)
THEOREM RemembersWindow == AuthSpec => [](RememberedForSkew /\ RememberedInWindow)
<1>1. ASSUME AuthTypeOK, EntryHolds
      PROVE  RememberedForSkew
  <2>1. SUFFICES ASSUME NEW d \in Deliveries, stage[d] = "accepted",
                        now <= readAt[d] + Skew
                 PROVE  seen[SeenKey(CopyOf[d])] # 0
    BY DEF RememberedForSkew
  <2>2. now < Expiry(d) /\ Expiry(d) \in Nat /\ Expiry(d) > 0
    BY <1>1, <2>1, ExpiryTyped, AuthAssumption DEF AuthAssumption
  <2>3. seen[SeenKey(CopyOf[d])] >= Expiry(d)
    BY <1>1, <2>1, <2>2 DEF EntryHolds
  <2>4. QED
    BY <2>2, <2>3
<1>2. ASSUME AuthTypeOK, RememberedForSkew
      PROVE  RememberedInWindow
  <2>1. SUFFICES ASSUME NEW d \in Deliveries, stage[d] = "accepted",
                        readAt[d] >= Ts[CopyOf[d]], ~ Skewed(CopyOf[d], now)
                 PROVE  seen[SeenKey(CopyOf[d])] # 0
    BY DEF RememberedInWindow
  <2>2. now <= readAt[d] + Skew
    BY <1>2, <2>1, KeyIsKnown, ExpiryTyped, AuthAssumption DEF Skewed, AuthAssumption
  <2>3. QED
    BY <1>2, <2>1, <2>2 DEF RememberedForSkew
<1>3. QED
  BY <1>1, <1>2, EntriesHold, AuthTypeCorrect, PTL

-----------------------------------------------------------------------------

LEMMA EntryWasAcceptedStep ==
    ASSUME AuthTypeOK, EntryWasAccepted, ReplayWasAccepted, [AuthNext]_authVars
    PROVE  EntryWasAccepted' /\ ReplayWasAccepted'
<1>1. CASE UNCHANGED authVars
  BY <1>1 DEF EntryWasAccepted, ReplayWasAccepted, authVars
<1>2. ASSUME NEW d \in Deliveries, NEW reason, reason # "replayed_nonce",
             stage[d] # "accepted", Refuse(d, reason), UNCHANGED seen
      PROVE  EntryWasAccepted' /\ ReplayWasAccepted'
  BY <1>2 DEF EntryWasAccepted, ReplayWasAccepted, Refuse, AuthTypeOK, SeenKey
<1>3. ASSUME NEW d \in Deliveries, Arrive(d)
      PROVE  EntryWasAccepted' /\ ReplayWasAccepted'
  <2>1. now \in Nat
    BY AuthAssumption DEF AuthTypeOK, AuthAssumption
  <2>2. CASE Refuse(d, HeaderDefect(d, now))
    BY <1>2, <1>3, <2>1, <2>2, DefectNamed DEF Arrive
  <2>3. CASE stage' = [stage EXCEPT ![d] = "digesting"] /\ UNCHANGED detail
    BY <1>3, <2>3 DEF Arrive, EntryWasAccepted, ReplayWasAccepted, AuthTypeOK, SeenKey
  <2>4. QED
    BY <1>3, <2>2, <2>3 DEF Arrive
<1>4. ASSUME NEW d \in Deliveries, RefuseMismatch(d)
      PROVE  EntryWasAccepted' /\ ReplayWasAccepted'
  BY <1>2, <1>4 DEF RefuseMismatch
<1>5. ASSUME NEW d \in Deliveries, RefuseReplay(d)
      PROVE  EntryWasAccepted' /\ ReplayWasAccepted'
  <2>1. \A k \in SeenKeys : seen'[k] # 0 => seen[k] # 0
    BY <1>5, CollectedTyped, AuthAssumption DEF RefuseReplay, AuthTypeOK, AuthAssumption
  <2>2. seen[SeenKey(CopyOf[d])] # 0
    BY <1>5, <2>1, KeyIsKnown DEF RefuseReplay
  <2>3. PICK e \in Deliveries : /\ stage[e] = "accepted"
                                /\ SeenKey(CopyOf[e]) = SeenKey(CopyOf[d])
    BY <2>2, KeyIsKnown DEF EntryWasAccepted
  <2>4. CopyOf[e] = CopyOf[d]
    BY <2>3, KeyIsKnown, AuthAssumption DEF AuthAssumption
  <2>5. \A x \in Deliveries : x # d => stage'[x] = stage[x] /\ detail'[x] = detail[x]
    BY <1>5 DEF RefuseReplay, Refuse, AuthTypeOK
  <2>6. stage[d] # "accepted"
    BY <1>5 DEF RefuseReplay
  <2>7. \A x \in Deliveries : stage[x] = "accepted" => stage'[x] = "accepted"
    BY <2>5, <2>6
  <2>8. EntryWasAccepted'
    BY <2>1, <2>7 DEF EntryWasAccepted, SeenKey, SeenKeys
  <2>9. ReplayWasAccepted'
    BY <2>3, <2>4, <2>5, <2>7 DEF ReplayWasAccepted
  <2>10. QED
    BY <2>8, <2>9
<1>6. ASSUME NEW d \in Deliveries, Accept(d)
      PROVE  EntryWasAccepted' /\ ReplayWasAccepted'
  <2>1. \A k \in SeenKeys : seen'[k] # 0 => seen[k] # 0 \/ k = SeenKey(CopyOf[d])
    BY <1>6, CollectedTyped, AuthAssumption DEF Accept, AuthTypeOK, AuthAssumption
  <2>2. /\ \A x \in Deliveries : stage[x] = "accepted" => stage'[x] = "accepted"
        /\ stage'[d] = "accepted"
        /\ detail' = detail
    BY <1>6 DEF Accept, AuthTypeOK
  <2>3. EntryWasAccepted'
    BY <2>1, <2>2 DEF EntryWasAccepted, SeenKey, SeenKeys
  <2>4. ReplayWasAccepted'
    BY <2>2 DEF ReplayWasAccepted
  <2>5. QED
    BY <2>3, <2>4
<1>7. CASE Tick \/ Over
  BY <1>7 DEF EntryWasAccepted, ReplayWasAccepted, Tick, Over, authVars, SeenKey
<1>8. QED
  BY <1>1, <1>3, <1>4, <1>5, <1>6, <1>7 DEF AuthNext

(***************************************************************************)
(* A delivery is refused as a replay only if its own request was accepted. *)
(***************************************************************************)
THEOREM ReplaysWereAccepted == AuthSpec => []ReplayWasAccepted
<1>1. AuthInit => EntryWasAccepted /\ ReplayWasAccepted
  BY DEF AuthInit, EntryWasAccepted, ReplayWasAccepted
<1>2. QED
  BY <1>1, EntryWasAcceptedStep, AuthTypeCorrect, PTL DEF AuthSpec

-----------------------------------------------------------------------------

LEMMA StoreForgetsStep ==
    ASSUME AuthTypeOK, Readings, StoreForgets, Span <= Skew, [AuthNext]_authVars
    PROVE  StoreForgets'
<1>1. CASE UNCHANGED authVars
  BY <1>1 DEF StoreForgets, Guarded, authVars
<1>2. ASSUME NEW d \in Deliveries, Arrive(d)
      PROVE  StoreForgets'
  <2>1. now \in Nat
    BY AuthAssumption DEF AuthTypeOK, AuthAssumption
  <2>2. \A x \in Deliveries : Guarded(x)' => x # d /\ Guarded(x) /\ readAt'[x] = readAt[x]
    BY <1>2, <2>1, DefectNamed DEF Arrive, Refuse, Guarded, AuthTypeOK, Readings
  <2>3. QED
    BY <1>2, <2>2 DEF StoreForgets, Arrive
<1>3. ASSUME NEW d \in Deliveries, RefuseMismatch(d)
      PROVE  StoreForgets'
  <2>1. \A x \in Deliveries : Guarded(x)' => Guarded(x)
    BY <1>3 DEF RefuseMismatch, Refuse, Guarded, AuthTypeOK
  <2>2. QED
    BY <1>3, <2>1 DEF StoreForgets, RefuseMismatch
<1>4. ASSUME NEW d \in Deliveries, RefuseReplay(d) \/ Accept(d),
             NEW x \in Deliveries, Guarded(x)', NEW k \in SeenKeys, seen'[k] # 0
      PROVE  seen'[k] > readAt'[x]
  <2>1. /\ readAt' = readAt
        /\ readAt[x] \in Nat /\ readAt[d] \in Nat /\ now \in Nat
        /\ stage[d] = "digesting"
    BY <1>4, AuthAssumption DEF RefuseReplay, Accept, AuthTypeOK, AuthAssumption
  <2>2. x = d \/ Guarded(x)
    BY <1>4 DEF RefuseReplay, Accept, Refuse, Guarded, AuthTypeOK
  <2>3. readAt[x] <= now
    BY <2>1, <2>2, AuthAssumption DEF Readings, Guarded, AuthAssumption
  <2>4. CASE seen'[k] = Collected(readAt[d])[k]
    <3>1. seen'[k] = seen[k] /\ seen[k] > readAt[d] /\ seen[k] # 0
      BY <1>4, <2>1, <2>4, CollectedTyped
    <3>2. QED
      BY <2>1, <2>2, <3>1 DEF StoreForgets
  <2>5. CASE seen'[k] = Expiry(d)
    <3>1. now <= readAt[d] + Span
      BY <2>1 DEF Readings
    <3>2. QED
      BY <2>1, <2>3, <2>5, <3>1, AuthAssumption DEF Expiry, AuthAssumption
  <2>6. QED
    BY <1>4, <2>1, <2>4, <2>5, CollectedTyped DEF RefuseReplay, Accept
<1>5. CASE Tick \/ Over
  BY <1>5 DEF StoreForgets, Guarded, Tick, Over, authVars
<1>6. QED
  BY <1>1, <1>2, <1>3, <1>4, <1>5 DEF AuthNext, StoreForgets, SeenKeys, SeenKey

(***************************************************************************)
(* Every entry had time to live when the latest request was authenticated, *)
(* if authenticate() takes no longer than the window.                      *)
(***************************************************************************)
THEOREM StoreIsBounded ==
    ASSUME Span <= Skew
    PROVE  AuthSpec => []StoreForgets
<1>1. AuthInit => StoreForgets
  BY DEF AuthInit, StoreForgets
<1>2. QED
  BY <1>1, StoreForgetsStep, ReadingsHold, AuthTypeCorrect, PTL DEF AuthSpec
=============================================================================
