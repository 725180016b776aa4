------------------------------- MODULE Gates --------------------------------
(***************************************************************************)
(* What stands between a request to /settle and a broadcast in one         *)
(* process, against the clock: the nonce cache, the rate limiter and the   *)
(* time window of the authorization, which is checked in verification and  *)
(* again before the broadcast.  The chain, the queues and the lane are in  *)
(* WorkerSettle and NodeSettle; here a payment that is sent succeeds or    *)
(* fails, sooner or later.  All state is in memory: after a restart a new  *)
(* behaviour begins.  The clock of the process does not go back.           *)
(***************************************************************************)
EXTENDS NonceCache, RateLimiter, TimeWindow

CONSTANTS
    Requests,
    KeyOf,          \* request -> key of its authorization
    PayerOf,        \* key -> payer
    ValueOf,        \* key -> value
    ValidAfter,     \* key -> seconds
    ValidBefore,    \* key -> seconds
    MaxTimeout,     \* request -> maxTimeoutSeconds of its requirements
    Ttl,            \* ttlSeconds of the cache
    Resolution      \* clock ticks in a second (1000)

ASSUME GatesAssumption ==
    /\ KeyOf \in [Requests -> Keys]
    /\ PayerOf \in [Keys -> Payers]
    /\ ValueOf \in [Keys -> Nat]
    /\ ValidAfter \in [Keys -> Nat]
    /\ ValidBefore \in [Keys -> Nat]
    /\ MaxTimeout \in [Requests -> Nat]
    /\ Ttl \in Nat
    /\ Resolution \in Nat \ {0}
    /\ TtlTicks = Ttl * Resolution

VARIABLES
    now,            \* Date.now(), in ticks
    step,           \* request -> how far its handler is
    settled         \* history: keys of payments that were told to succeed

gateVars == <<now, entries, buckets, admitted, spent, step, settled>>

Steps == {"idle", "replayed", "limited", "gated", "queued", "verified",
          "sent", "succeeded", "failed"}
Ends == {"replayed", "limited", "gated", "succeeded", "failed"}

(* Math.floor(Date.now() / 1000) *)
Seconds(t) == t \div Resolution

WindowAnswer(k, bounds) ==
    CheckTimeWindow(ValidAfter[k], ValidBefore[k], Seconds(now), bounds)

GatesTypeOK ==
    /\ CacheTypeOK
    /\ LimiterTypeOK
    /\ now \in 0..Horizon
    /\ step \in [Requests -> Steps]
    /\ settled \subseteq Keys

GatesInit ==
    /\ CacheInit
    /\ LimiterInit
    /\ now = 0
    /\ step = [r \in Requests |-> "idle"]
    /\ settled = {}

Goto(r, s) == step' = [step EXCEPT ![r] = s]

Tick ==
    /\ now < Horizon
    /\ now' = now + 1
    /\ UNCHANGED <<entries, buckets, admitted, spent, step, settled>>

(* The cache answers: no budget is used. *)
Replay(r) ==
    /\ step[r] = "idle"
    /\ Get(KeyOf[r], now)
    /\ Hit(KeyOf[r], now)
    /\ Goto(r, "replayed")
    /\ UNCHANGED <<now, buckets, admitted, spent, settled>>

(* Mutation: the rate limiter is asked before the cache. *)
LimitFirst(r) ==
    LET k == KeyOf[r] IN
    /\ step[r] = "idle"
    /\ Refuse(PayerOf[k], ValueOf[k], now)
    /\ Goto(r, "limited")
    /\ UNCHANGED <<now, entries, settled>>

(* The rate limiter throws. *)
Limit(r) ==
    LET k == KeyOf[r] IN
    /\ step[r] = "idle"
    /\ Get(k, now)
    /\ ~Hit(k, now)
    /\ Refuse(PayerOf[k], ValueOf[k], now)
    /\ Goto(r, "limited")
    /\ UNCHANGED <<now, settled>>

(* The budget is taken; the balance gate, whose flag is free here, may     *)
(* still refuse the request and gives nothing back.                        *)
Admit(r) ==
    LET k == KeyOf[r] IN
    /\ step[r] = "idle"
    /\ Get(k, now)
    /\ ~Hit(k, now)
    /\ Consume(PayerOf[k], ValueOf[k], now)
    /\ \E s \in {"queued", "gated"} : Goto(r, s)
    /\ UNCHANGED <<now, settled>>

(* verifyExactPayment looks at the clock with the requirements' bound. *)
Verify(r) ==
    LET ok == WindowAnswer(KeyOf[r], {MaxTimeout[r]}) = "ok" IN
    /\ step[r] = "queued"
    /\ Goto(r, IF ok THEN "verified" ELSE "failed")
    /\ UNCHANGED <<now, entries, buckets, admitted, spent, settled>>

(* The check before the broadcast, without a bound, then the broadcast. *)
Broadcast(r) ==
    LET ok == WindowAnswer(KeyOf[r], {}) = "ok" IN
    /\ step[r] = "verified"
    /\ Goto(r, IF ok THEN "sent" ELSE "failed")
    /\ UNCHANGED <<now, entries, buckets, admitted, spent, settled>>

(* The receipt says success: it is remembered and told. *)
Succeed(r) ==
    /\ step[r] = "sent"
    /\ Remember(KeyOf[r], now)
    /\ settled' = settled \cup {KeyOf[r]}
    /\ Goto(r, "succeeded")
    /\ UNCHANGED <<now, buckets, admitted, spent>>

(* Verification, the broadcast or the receipt fails: nothing is cached. *)
Fail(r) ==
    /\ step[r] \in {"queued", "verified", "sent"}
    /\ Goto(r, "failed")
    /\ UNCHANGED <<now, entries, buckets, admitted, spent, settled>>

(* Everything has ended, the clock included. *)
Over ==
    /\ now = Horizon
    /\ \A r \in Requests : step[r] \in Ends
    /\ UNCHANGED gateVars

GatesNext ==
    \/ Tick
    \/ \E r \in Requests :
        \/ Replay(r) \/ Limit(r) \/ Admit(r)
        \/ Verify(r) \/ Broadcast(r) \/ Succeed(r) \/ Fail(r)
    \/ Over

GatesSpec == GatesInit /\ [][GatesNext]_gateVars

-----------------------------------------------------------------------------
(* The settle path would still accept the authorization of k. *)
Live(k) == WindowAnswer(k, {}) = "ok"

(* maxTimeoutSeconds comes with each request; the cache's promise for a    *)
(* payment needs it not to exceed the cache's time to live.                *)
TimeoutsWithinTtl(k) == \A r \in Requests : KeyOf[r] = k => MaxTimeout[r] <= Ttl

(* For payments of that kind, whatever the requests for others allow:      *)
(* every entry was made while its authorization could live no longer than  *)
(* the entry; a payment under way is no longer lived either; and a settled *)
(* key whose entry is gone has run out.                                    *)
EntriesCover ==
    \A k \in Keys : TimeoutsWithinTtl(k) =>
        /\ entries[k] # NoEntry =>
              /\ entries[k] <= now
              /\ ValidBefore[k] <= Seconds(entries[k]) + Ttl + Grace
        /\ \A r \in Requests : KeyOf[r] = k /\ step[r] \in {"verified", "sent"} =>
              ValidBefore[k] <= Seconds(now) + Ttl + Grace
        /\ k \in settled /\ entries[k] = NoEntry =>
              ValidBefore[k] <= Seconds(now) + Grace

(* The bucket a payer counts in is the history of the current window, and  *)
(* nothing is known of later ones.                                         *)
BucketsCount ==
    \A p \in Payers :
        /\ buckets[p].start <= WindowStart(now)
        /\ Current(p, now).count = admitted[p][WindowOf(now)]
        /\ Current(p, now).total = spent[p][WindowOf(now)]
        /\ \A w \in Windows : w > WindowOf(now) => admitted[p][w] = 0 /\ spent[p][w] = 0

(* An authorization that was settled here is in the cache for as long as   *)
(* the settle path would accept it: whatever was collected or expired is   *)
(* refused by the time window (nonce-cache.ts:10-15, verify.ts:322-328).   *)
(* It takes requests for this very payment to break this, no others.       *)
CacheOutlivesAuthorization ==
    \A k \in settled : TimeoutsWithinTtl(k) /\ Live(k) => Hit(k, now)

(* A retry of a settled payment that is still live is answered from the    *)
(* cache, whatever the payer's budget and the relayer's balance, and uses  *)
(* none of the budget (app.ts:223-227).                                    *)
RetryIsFree ==
    [][\A r \in Requests :
        (/\ step[r] = "idle" /\ step'[r] # "idle"
         /\ KeyOf[r] \in settled /\ TimeoutsWithinTtl(KeyOf[r]) /\ Live(KeyOf[r]))
          => step'[r] = "replayed" /\ UNCHANGED limiterVars]_gateVars

(* A payer is refused for its rate only if the requests admitted to it in  *)
(* this very window leave no room for this one: not for requests that were *)
(* refused, nor for what an earlier window saw (rate-limit.ts:65-68).      *)
RefusalIsDeserved ==
    [][\A r \in Requests :
        (step'[r] = "limited" /\ step[r] # "limited") =>
          LET p == PayerOf[KeyOf[r]]
              w == WindowOf(now)
          IN \/ admitted[p][w] + 1 > MaxRequests
             \/ MaxValue # NoCap /\ spent[p][w] + ValueOf[KeyOf[r]] > MaxValue]_gateVars
=============================================================================
