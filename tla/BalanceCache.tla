---------------------------- MODULE BalanceCache ----------------------------
(***************************************************************************)
(* The relayer's native balances as the settle path sees them              *)
(* (packages/facilitator/src/balance-cache.ts): entries in memory, made by *)
(* refreshes that ask every chain at once.  A call of getBalance may       *)
(* outlast the 60 s between two refreshes (15 s per endpoint and attempt,  *)
(* evm/src/rpc.ts), so refreshes overlap and the one that ends last writes *)
(* last.  The Node host (apps/server/src/main.ts) refreshes before it      *)
(* listens and then by a timer; on Workers (apps/worker/src/index.ts) a    *)
(* cron trigger refreshes the one isolate that it is given to.             *)
(***************************************************************************)
EXTENDS Integers

CONSTANTS
    Hosts,          \* processes or isolates, each with a cache
    Chains,
    Flaky,          \* chains whose getBalance may fail
    Period,         \* time between two refreshes
    CallLimit       \* the longest a getBalance may take

ASSUME BalanceAssumption ==
    /\ Flaky \subseteq Chains
    /\ Period \in Nat \ {0}
    /\ CallLimit \in Nat

VARIABLES
    side,       \* of criticalNative on which the balance of a chain is
    steady,     \* for how long it has been there (counted up to MaxAge)
    calls,      \* the getBalance calls under way
    entries,    \* the cache of each host
    phase,      \* of each host: "booting", or "serving" requests
    timer       \* the time since the timer was set, or last fired

balanceVars == <<side, steady, calls, entries, phase, timer>>

\* A reading is not older than this when the settle path looks at it.
MaxAge == 2 * CallLimit + Period + 1

Sides == {"low", "ok"}

\* A call: seen is the reading on its way back, once the endpoint looked.
Calls == [host : Hosts, chain : Chains, age : 0 .. CallLimit,
          seen : Sides \cup {"none"}]

BalanceTypeOK ==
    /\ side \in [Chains -> Sides]
    /\ steady \in [Chains -> 0 .. MaxAge]
    /\ calls \subseteq Calls
    /\ entries \in [Hosts -> [Chains -> Sides \cup {"none"}]]
    /\ phase \in [Hosts -> {"booting", "serving"}]
    /\ timer \in [Hosts -> 0 .. Period]

-----------------------------------------------------------------------------

\* isCritical(chainId); no entry counts as not critical.
IsCritical(h, c) == entries[h][c] = "low"

\* refreshAll: one refreshOne for each chain, at the same moment.
NewCalls(h) == [host : {h}, chain : Chains, age : {0}, seen : {"none"}]

\* The endpoint looks at the balance.
Read(call) ==
    /\ call.seen = "none"
    /\ calls' = (calls \ {call}) \cup {[call EXCEPT !.seen = side[call.chain]]}
    /\ UNCHANGED <<side, steady, entries, phase, timer>>

\* Mutation: a chain that has an entry is not written again.
StoreKeepsFirst(call) ==
    /\ call.seen # "none"
    /\ calls' = calls \ {call}
    /\ entries' = IF entries[call.host][call.chain] = "none"
                  THEN [entries EXCEPT ![call.host][call.chain] = call.seen]
                  ELSE entries
    /\ UNCHANGED <<side, steady, phase, timer>>

\* getBalance resolves and the entry is set, whatever was there.
Store(call) ==
    /\ call.seen # "none"
    /\ calls' = calls \ {call}
    /\ entries' = [entries EXCEPT ![call.host][call.chain] = call.seen]
    /\ UNCHANGED <<side, steady, phase, timer>>

\* Mutation: a failure is written into the entry.
FailsMarked(call) ==
    /\ call.chain \in Flaky
    /\ calls' = calls \ {call}
    /\ entries' = [entries EXCEPT ![call.host][call.chain] = "failed"]
    /\ UNCHANGED <<side, steady, phase, timer>>

\* getBalance rejects; allSettled keeps it from the other chains.
Fails(call) ==
    /\ call.chain \in Flaky
    /\ calls' = calls \ {call}
    /\ UNCHANGED <<side, steady, entries, phase, timer>>

\* The wallet is topped up, or spends its gas.
BalanceCrosses(c) ==
    /\ side' = [side EXCEPT ![c] = IF @ = "low" THEN "ok" ELSE "low"]
    /\ steady' = [steady EXCEPT ![c] = 0]
    /\ UNCHANGED <<calls, entries, phase, timer>>

BalanceStep ==
    \/ \E call \in calls : Read(call) \/ Store(call) \/ Fails(call)
    \/ \E c \in Chains : BalanceCrosses(c)

\* One unit of time.  No call outlasts its transport's timeouts.
TimePasses ==
    /\ \A call \in calls : call.age < CallLimit
    /\ calls' = {[call EXCEPT !.age = @ + 1] : call \in calls}
    /\ steady' = [c \in Chains |->
                    IF steady[c] < MaxAge THEN steady[c] + 1 ELSE MaxAge]
    /\ UNCHANGED <<side, entries, phase>>

BalanceInit ==
    /\ side \in [Chains -> Sides]
    /\ steady \in [Chains -> 0 .. MaxAge]
    /\ entries = [h \in Hosts |-> [c \in Chains |-> "none"]]
    /\ timer = [h \in Hosts |-> 0]

-----------------------------------------------------------------------------
(***************************************************************************)
(* The Node host.                                                          *)
(***************************************************************************)
NodeInit ==
    /\ BalanceInit
    /\ phase = [h \in Hosts |-> "booting"]
    /\ calls = UNION {NewCalls(h) : h \in Hosts}

\* "await refreshAll" returned: the timer is set and the server listens.
Listen(h) ==
    /\ phase[h] = "booting"
    /\ \A call \in calls : call.host # h
    /\ phase' = [phase EXCEPT ![h] = "serving"]
    /\ timer' = [timer EXCEPT ![h] = 0]
    /\ UNCHANGED <<side, steady, calls, entries>>

\* setInterval
TimerFires(h) ==
    /\ phase[h] = "serving"
    /\ timer[h] = Period
    /\ calls' = calls \cup NewCalls(h)
    /\ timer' = [timer EXCEPT ![h] = 0]
    /\ UNCHANGED <<side, steady, entries, phase>>

NodeTick ==
    /\ \A h \in Hosts :
        IF phase[h] = "serving" THEN timer[h] < Period
                                ELSE \E call \in calls : call.host = h
    /\ TimePasses
    /\ timer' = [h \in Hosts |-> IF phase[h] = "serving" THEN timer[h] + 1 ELSE 0]

NodeNext ==
    \/ BalanceStep
    \/ \E h \in Hosts : Listen(h) \/ TimerFires(h)
    \/ NodeTick

NodeSpec == NodeInit /\ [][NodeNext]_balanceVars

-----------------------------------------------------------------------------
(***************************************************************************)
(* The Workers host: an isolate serves from its first request on, without  *)
(* a refresh, and each minute the cron trigger reaches one of them.        *)
(***************************************************************************)
WorkerInit ==
    /\ BalanceInit
    /\ phase = [h \in Hosts |-> "serving"]
    /\ calls = {}

\* scheduled() runs in the isolate that the platform picks.
CronFires(h) ==
    /\ timer[h] = Period
    /\ calls' = calls \cup NewCalls(h)
    /\ timer' = [g \in Hosts |-> 0]
    /\ UNCHANGED <<side, steady, entries, phase>>

WorkerTick ==
    /\ \A h \in Hosts : timer[h] < Period
    /\ TimePasses
    /\ timer' = [h \in Hosts |-> timer[h] + 1]

WorkerNext ==
    \/ BalanceStep
    \/ \E h \in Hosts : CronFires(h)
    \/ WorkerTick

WorkerSpec == WorkerInit /\ [][WorkerNext]_balanceVars

-----------------------------------------------------------------------------
(***************************************************************************)
(* A balance that has been on one side of the threshold for MaxAge is      *)
(* flagged accordingly by every host that serves, although an older        *)
(* refresh may have written last and other chains' endpoints may fail: a   *)
(* top-up ends the refusals, and an empty wallet starts them, from the     *)
(* first request on (main.ts:62).                                          *)
(***************************************************************************)
FlagFollowsBalance ==
    \A h \in Hosts, c \in Chains \ Flaky :
        phase[h] = "serving" /\ steady[c] = MaxAge
            => (IsCritical(h, c) <=> side[c] = "low")

(***************************************************************************)
(* docs/runbook.md:28, of a wallet that was found empty and is topped up:  *)
(* "The next balance refresh (60 s on both apps) will clear the critical   *)
(* flag".  Here with MaxAge in place of the 60 s.                          *)
(***************************************************************************)
TopUpClearsFlag ==
    \A h \in Hosts, c \in Chains \ Flaky :
        phase[h] = "serving" /\ steady[c] = MaxAge /\ side[c] = "ok"
            => ~ IsCritical(h, c)
=============================================================================
