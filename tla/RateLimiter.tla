---------------------------- MODULE RateLimiter -----------------------------
(***************************************************************************)
(* The in-memory rate limiter (rate-limit.ts): one bucket per payer, for a *)
(* window that starts at a multiple of its length.  A call that would go   *)
(* over a limit throws and leaves the buckets as they are.  Below them is  *)
(* the history of what was admitted, by payer and by window.               *)
(***************************************************************************)
EXTENDS Integers, FiniteSets

CONSTANTS
    Payers,
    WindowTicks,    \* windowMs
    MaxRequests,    \* requests of a payer in one window
    MaxValue,       \* maxValueAtomic, or NoCap where it is undefined
    BucketLimit,    \* old buckets are pruned above this many (1000)
    Horizon         \* bound on the clock

NoCap == -1

ASSUME LimiterAssumption ==
    /\ IsFiniteSet(Payers)
    /\ WindowTicks \in Nat \ {0}
    /\ MaxRequests \in Nat
    /\ MaxValue \in Nat \cup {NoCap}
    /\ BucketLimit \in Nat
    /\ Horizon \in Nat

VARIABLES
    buckets,        \* payer -> window start, requests and value counted in it
    admitted,       \* history: payer -> window -> requests admitted
    spent           \* history: payer -> window -> value admitted

limiterVars == <<buckets, admitted, spent>>

Bucket == [start : Nat \cup {-1}, count : Nat, total : Nat]
NoBucket == [start |-> -1, count |-> 0, total |-> 0]

(* The windows that can be met, numbered from the epoch. *)
WindowOf(t) == t \div WindowTicks
Windows == 0..WindowOf(Horizon)

(* Mutation: windows are counted from one. *)
WindowStartFromOne(t) == (WindowOf(t) - 1) * WindowTicks

(* windowStartMs *)
WindowStart(t) == WindowOf(t) * WindowTicks

LimiterTypeOK ==
    /\ buckets \in [Payers -> Bucket]
    /\ admitted \in [Payers -> [Windows -> Nat]]
    /\ spent \in [Payers -> [Windows -> Nat]]

LimiterInit ==
    /\ buckets = [p \in Payers |-> NoBucket]
    /\ admitted = [p \in Payers |-> [w \in Windows |-> 0]]
    /\ spent = [p \in Payers |-> [w \in Windows |-> 0]]

(* The bucket the payer's next request counts in: its own if it is of this *)
(* window, else a fresh one.                                               *)
Current(p, t) ==
    IF buckets[p].start = WindowStart(t)
    THEN buckets[p]
    ELSE [start |-> WindowStart(t), count |-> 0, total |-> 0]

OverRequests(p, t) == Current(p, t).count + 1 > MaxRequests
OverValue(p, v, t) == MaxValue # NoCap /\ Current(p, t).total + v > MaxValue

Counted(p, v, t) ==
    [start |-> WindowStart(t), count |-> Current(p, t).count + 1,
     total |-> Current(p, t).total + v]

(* Mutation: pruning takes the buckets of the current window too. *)
PruneCurrent(next, t) ==
    IF Cardinality({p \in Payers : next[p] # NoBucket}) > BucketLimit
    THEN [p \in Payers |-> IF next[p].start <= WindowStart(t) THEN NoBucket ELSE next[p]]
    ELSE next

(* Buckets of older windows are pruned when there are too many. *)
Pruned(next, t) ==
    IF Cardinality({p \in Payers : next[p] # NoBucket}) > BucketLimit
    THEN [p \in Payers |-> IF next[p].start < WindowStart(t) THEN NoBucket ELSE next[p]]
    ELSE next

(* Mutation: the request is counted before it is refused. *)
CountThenRefuse(p, v, t) ==
    /\ OverRequests(p, t) \/ OverValue(p, v, t)
    /\ buckets' = [buckets EXCEPT ![p] = Counted(p, v, t)]
    /\ UNCHANGED <<admitted, spent>>

(* consume throws. *)
Refuse(p, v, t) ==
    /\ OverRequests(p, t) \/ OverValue(p, v, t)
    /\ UNCHANGED limiterVars

(* consume reserves a slot and the value. *)
Consume(p, v, t) ==
    /\ ~OverRequests(p, t)
    /\ ~OverValue(p, v, t)
    /\ buckets' = Pruned([buckets EXCEPT ![p] = Counted(p, v, t)], t)
    /\ admitted' = [admitted EXCEPT ![p][WindowOf(t)] = @ + 1]
    /\ spent' = [spent EXCEPT ![p][WindowOf(t)] = @ + v]

(* In no window has a payer been admitted more requests, or more value,    *)
(* than configured: not across the pruning of other payers' buckets, nor   *)
(* when a bucket is pruned and made anew (RateLimiter.consume).            *)
WindowBudget ==
    \A p \in Payers, w \in Windows :
        /\ admitted[p][w] <= MaxRequests
        /\ MaxValue # NoCap => spent[p][w] <= MaxValue
=============================================================================
