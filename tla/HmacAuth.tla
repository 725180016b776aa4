------------------------------ MODULE HmacAuth -------------------------------
(***************************************************************************)
(* HMAC request authentication (packages/facilitator/src/auth.ts), which   *)
(* the middleware of app.ts runs before /verify, /settle, /settle-status   *)
(* and /supported.  A caller signs a request once; the network, a proxy or *)
(* the caller's HTTP library may deliver it several times, late, or        *)
(* damaged.  authenticate() reads the clock, computes two digests in       *)
(* awaits, and then consults the used nonces with the reading it made      *)
(* before.  One process (on Workers: one isolate) with keys is modelled;   *)
(* its store is gone when it stops.  Only whole seconds matter here, since *)
(* every time the code compares is one.                                    *)
(***************************************************************************)
EXTENDS Integers, FiniteSets

CONSTANTS
    Requests,       \* requests that callers signed
    Deliveries,     \* arrivals of such requests
    CopyOf,         \* delivery -> the request
    Damage,         \* delivery -> what happened to it on the way
    KeyIdOf,        \* request -> keyId
    NonceOf,        \* request -> nonce
    Ts,             \* request -> timestamp
    Configured,     \* the keyIds of FACILITATOR_HMAC_KEYS
    Skew,           \* skewSeconds
    Span,           \* bound: the seconds that authenticate() may take
    Horizon         \* bound: the last second of the clock

(***************************************************************************)
(* "none": as it was signed.  "content": the method, path, body, timestamp *)
(* or signature is another one.  The others are header defects that        *)
(* authenticate() has a name for.                                          *)
(***************************************************************************)
Damages == {"none", "content", "no_header", "malformed_header", "bad_timestamp"}

\* The replay store is keyed by keyId and nonce.
SeenKey(q) == <<KeyIdOf[q], NonceOf[q]>>

SeenKeys == {SeenKey(q) : q \in Requests}

ASSUME AuthAssumption ==
    /\ CopyOf \in [Deliveries -> Requests]
    /\ Damage \in [Deliveries -> Damages]
    /\ Ts \in [Requests -> Nat]
    /\ \A q, r \in Requests : SeenKey(q) = SeenKey(r) => q = r
    /\ Skew \in Nat
    /\ Span \in Nat
    /\ Horizon \in Nat

VARIABLES
    now,        \* nowSeconds of a reading made at this moment
    seen,       \* seenNonces: used nonce -> expiry, 0 for an absent one
    stage,      \* how far each delivery is
    readAt,     \* the nowSeconds its authenticate() read
    detail      \* the AuthFailureDetail it was refused with

authVars == <<now, seen, stage, readAt, detail>>

AuthStages == {"away", "digesting", "accepted", "refused"}
Details == {"none", "no_header", "malformed_header", "unknown_key_id",
            "bad_timestamp", "timestamp_skew", "signature_mismatch",
            "replayed_nonce"}

AuthTypeOK ==
    /\ now \in 0 .. Horizon
    /\ seen \in [SeenKeys -> Nat]
    /\ stage \in [Deliveries -> AuthStages]
    /\ readAt \in [Deliveries -> 0 .. Horizon]
    /\ detail \in [Deliveries -> Details]

AuthInit ==
    /\ now = 0
    /\ seen = [k \in SeenKeys |-> 0]
    /\ stage = [d \in Deliveries |-> "away"]
    /\ readAt = [d \in Deliveries |-> 0]
    /\ detail = [d \in Deliveries |-> "none"]

-----------------------------------------------------------------------------

\* Math.abs(nowSeconds - tsSeconds) > skewSeconds
Skewed(q, s) == s - Ts[q] > Skew \/ Ts[q] - s > Skew

\* What authenticate() finds wrong before its first await.
HeaderDefect(d, s) ==
    CASE Damage[d] \in {"no_header", "malformed_header"} -> Damage[d]
      [] KeyIdOf[CopyOf[d]] \notin Configured -> "unknown_key_id"
      [] Damage[d] = "bad_timestamp" -> "bad_timestamp"
      [] Skewed(CopyOf[d], s) -> "timestamp_skew"
      [] OTHER -> "none"

\* Mutation: the reason for the caller is taken for the detail.
RefuseCoarsely(d, reason) ==
    /\ stage' = [stage EXCEPT ![d] = "refused"]
    /\ detail' = [detail EXCEPT ![d] = "unauthorized"]

Refuse(d, reason) ==
    /\ stage' = [stage EXCEPT ![d] = "refused"]
    /\ detail' = [detail EXCEPT ![d] = reason]

\* A delivery reaches authenticate(), which reads the clock: at any time, as
\* the signer's clock may be behind or ahead of this one.
Arrive(d) ==
    LET defect == HeaderDefect(d, now) IN
    /\ stage[d] = "away"
    /\ readAt' = [readAt EXCEPT ![d] = now]
    /\ \/ defect # "none" /\ Refuse(d, defect)
       \/ /\ defect = "none"
          /\ stage' = [stage EXCEPT ![d] = "digesting"]
          /\ UNCHANGED detail
    /\ UNCHANGED <<now, seen>>

\* The digests are there and differ.
RefuseMismatch(d) ==
    /\ stage[d] = "digesting"
    /\ Damage[d] = "content"
    /\ Refuse(d, "signature_mismatch")
    /\ UNCHANGED <<now, seen, readAt>>

\* Mutation: an entry is dropped in its last second.
Outlived(expiry, s) == expiry < s

Expired(expiry, s) == expiry <= s

\* seenNonces after gcSeenNonces(s)
Collected(s) == [k \in SeenKeys |-> IF Expired(seen[k], s) THEN 0 ELSE seen[k]]

\* Mutation: no margin beyond the window.
ExpiryWithoutMargin(d) == readAt[d] + Skew

\* Mutation: an entry lives as long after the timestamp as the window.
ExpiryByTimestamp(d) == Ts[CopyOf[d]] + Skew

Expiry(d) == readAt[d] + Skew + 1

\* Mutation: the replay guard comes before the signature is compared.
RefuseReplayFirst(d) ==
    LET kept == Collected(readAt[d]) k == SeenKey(CopyOf[d]) IN
    /\ stage[d] = "digesting"
    /\ Refuse(d, IF kept[k] # 0 THEN "replayed_nonce" ELSE "signature_mismatch")
    /\ kept[k] # 0 \/ Damage[d] = "content"
    /\ seen' = [kept EXCEPT ![k] = Expiry(d)]
    /\ UNCHANGED <<now, readAt>>

\* The replay guard: collect, look, and ...
RefuseReplay(d) ==
    LET kept == Collected(readAt[d]) IN
    /\ stage[d] = "digesting"
    /\ Damage[d] = "none"
    /\ kept[SeenKey(CopyOf[d])] # 0
    /\ Refuse(d, "replayed_nonce")
    /\ seen' = kept
    /\ UNCHANGED <<now, readAt>>

\* ... remember, all in one continuation.
Accept(d) ==
    LET kept == Collected(readAt[d]) k == SeenKey(CopyOf[d]) IN
    /\ stage[d] = "digesting"
    /\ Damage[d] = "none"
    /\ kept[k] = 0
    /\ stage' = [stage EXCEPT ![d] = "accepted"]
    /\ seen' = [kept EXCEPT ![k] = Expiry(d)]
    /\ UNCHANGED <<now, readAt, detail>>

\* No call is in its awaits for more than Span seconds.
Tick ==
    /\ now < Horizon
    /\ \A d \in Deliveries : stage[d] = "digesting" => now < readAt[d] + Span
    /\ now' = now + 1
    /\ UNCHANGED <<seen, stage, readAt, detail>>

Over ==
    /\ now = Horizon
    /\ \A d \in Deliveries : stage[d] # "digesting"
    /\ UNCHANGED authVars

AuthNext ==
    \/ \E d \in Deliveries :
           Arrive(d) \/ RefuseMismatch(d) \/ RefuseReplay(d) \/ Accept(d)
    \/ Tick
    \/ Over

AuthSpec == AuthInit /\ [][AuthNext]_authVars

-----------------------------------------------------------------------------

\* Two deliveries of one request were let through.
BothAccepted(d, e) ==
    /\ d # e
    /\ CopyOf[d] = CopyOf[e]
    /\ stage[d] = "accepted" /\ stage[e] = "accepted"

(***************************************************************************)
(* What auth.ts:26-28 and docs/threat-model.md:41-43 say: within the       *)
(* window of its timestamp a signed request is accepted at most once by a  *)
(* process, however often it is delivered and however its deliveries       *)
(* overlap in their awaits.                                                *)
(***************************************************************************)
AcceptedOnce == \A d, e \in Deliveries : ~ BothAccepted(d, e)

(***************************************************************************)
(* What the code guarantees whatever the clocks of the signers: a request  *)
(* is accepted again only by a reading that comes a whole Skew after the   *)
(* first one, less the time authenticate() takes (auth.ts:265-272).        *)
(***************************************************************************)
AcceptancesApart ==
    \A d, e \in Deliveries :
        BothAccepted(d, e) => \/ readAt[e] + Span > readAt[d] + Skew
                              \/ readAt[d] + Span > readAt[e] + Skew

(***************************************************************************)
(* And so a second acceptance needs a timestamp that was ahead of the      *)
(* clock, or behind it by less than authenticate() takes, at the first     *)
(* one: a signer whose clock is not ahead is protected in all of the       *)
(* window but for the moments that an authenticate() takes.                *)
(***************************************************************************)
AcceptedAgainOnlyIfEarly ==
    \A d, e \in Deliveries :
        BothAccepted(d, e) => \E x \in {d, e} : readAt[x] < Ts[CopyOf[x]] + Span

(***************************************************************************)
(* A delivery is refused as a replay only if its own request was accepted  *)
(* before: not because of another caller's nonce, nor because of a damaged *)
(* copy that came first (auth.ts:261-263).                                 *)
(***************************************************************************)
ReplayWasAccepted ==
    \A d \in Deliveries :
        detail[d] = "replayed_nonce" =>
            \E e \in Deliveries : stage[e] = "accepted" /\ CopyOf[e] = CopyOf[d]

(***************************************************************************)
(* An accepted request is remembered for Skew seconds after the reading it *)
(* was accepted by, whatever is collected meanwhile (auth.ts:193-199).     *)
(***************************************************************************)
RememberedForSkew ==
    \A d \in Deliveries :
        stage[d] = "accepted" /\ now <= readAt[d] + Skew
            => seen[SeenKey(CopyOf[d])] # 0

(***************************************************************************)
(* So if it was not read ahead of its timestamp, it is remembered until    *)
(* the timestamp can no longer be in the window (auth.ts:271).             *)
(***************************************************************************)
RememberedInWindow ==
    \A d \in Deliveries :
        /\ stage[d] = "accepted" /\ readAt[d] >= Ts[CopyOf[d]]
        /\ ~ Skewed(CopyOf[d], now)
        => seen[SeenKey(CopyOf[d])] # 0

\* The signature of d was good: it has been through the replay guard.
Guarded(d) == stage[d] = "accepted" \/ detail[d] = "replayed_nonce"

(***************************************************************************)
(* The store does not grow with the life of the process: every entry had   *)
(* still some time to live when the latest request was authenticated, so   *)
(* that at most the requests of Skew + 1 seconds are in it (auth.ts:48).   *)
(***************************************************************************)
StoreForgets ==
    \A d \in Deliveries, k \in SeenKeys :
        Guarded(d) /\ seen[k] # 0 => seen[k] > readAt[d]
=============================================================================
