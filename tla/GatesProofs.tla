---------------------------- MODULE GatesProofs -----------------------------
(***************************************************************************)
(* Theorems about Gates, for any clock resolution, window, budget, time to *)
(* live and authorizations.                                                *)
(***************************************************************************)
EXTENDS Gates, TLAPS

USE CacheAssumption, LimiterAssumption, GatesAssumption, GraceAssumption

(***************************************************************************)
(* Division: seconds and windows grow with the clock.                      *)
(***************************************************************************)
LEMMA DivBounds ==
    ASSUME NEW a \in Nat, NEW b \in Nat \ {0}
    PROVE  /\ a \div b \in Nat
           /\ (a \div b) * b <= a
           /\ a < (a \div b) * b + b
  BY SMTT(30)

LEMMA DivGrows ==
    ASSUME NEW a \in Nat, NEW c \in Nat, NEW b \in Nat \ {0}, a <= c
    PROVE  a \div b <= c \div b
<1> SUFFICES ASSUME c \div b < a \div b PROVE FALSE
  BY DivBounds
<1> DEFINE x == a \div b
           y == c \div b
<1>1. x \in Nat /\ y \in Nat /\ x * b <= a /\ c < y * b + b
  BY DivBounds
<1>2. y + 1 <= x
  BY <1>1
<1> HIDE DEF x, y
<1>3. (y + 1) * b <= x * b
  BY <1>1, <1>2, SMTT(30)
<1>4. (y + 1) * b = y * b + b
  BY <1>1, SMTT(30)
<1> QED
  BY <1>1, <1>3, <1>4, SMTT(30)

LEMMA SecondsGrow ==
    ASSUME NEW s \in Nat, NEW t \in Nat, s <= t
    PROVE  Seconds(s) \in Nat /\ Seconds(t) \in Nat /\ Seconds(s) <= Seconds(t)
  BY DivBounds, DivGrows DEF Seconds

LEMMA WindowOfGrows ==
    ASSUME NEW s \in Nat, NEW t \in Nat, s <= t
    PROVE  WindowOf(s) \in Nat /\ WindowOf(t) \in Nat /\ WindowOf(s) <= WindowOf(t)
  BY DivBounds, DivGrows DEF WindowOf

LEMMA WindowsExist ==
    ASSUME NEW t \in 0..Horizon
    PROVE  WindowOf(t) \in Windows /\ WindowStart(t) \in Nat
<1>1. WindowOf(t) \in Nat /\ WindowOf(Horizon) \in Nat /\ WindowOf(t) <= WindowOf(Horizon)
  BY WindowOfGrows
<1>2. WindowOf(t) * WindowTicks \in Nat
  BY <1>1, SMTT(30)
<1> QED
  BY <1>1, <1>2 DEF Windows, WindowStart

\* A later clock is in the same window, or in a later one that starts later.
LEMMA WindowsGrow ==
    ASSUME NEW s \in 0..Horizon, NEW t \in 0..Horizon, s <= t
    PROVE  \/ WindowOf(t) = WindowOf(s) /\ WindowStart(t) = WindowStart(s)
           \/ WindowOf(t) > WindowOf(s) /\ WindowStart(t) > WindowStart(s)
<1> DEFINE x == WindowOf(s)
           y == WindowOf(t)
<1>1. x \in Nat /\ y \in Nat /\ x <= y
  BY WindowOfGrows
<1>2. WindowStart(s) = x * WindowTicks /\ WindowStart(t) = y * WindowTicks
  BY DEF WindowStart
<1> HIDE DEF x, y
<1>3. CASE x = y
  BY <1>2, <1>3 DEF x, y
<1>4. CASE x < y
  <2>1. x * WindowTicks < y * WindowTicks
    BY <1>1, <1>4, SMTT(30)
  <2> QED
    BY <2>1, <1>1, <1>2, <1>4 DEF x, y
<1> QED
  BY <1>1, <1>3, <1>4

\* An entry that expired was made for an authorization that has run out.  The
\* floor of the clock to seconds costs nothing: it is taken on both sides.
LEMMA ExpiredHasRunOut ==
    ASSUME NEW first \in Nat, NEW t \in Nat, NEW before \in Nat,
           t - first > TtlTicks,
           before <= Seconds(first) + Ttl + Grace
    PROVE  before <= Seconds(t) + Grace
<1> DEFINE x == Seconds(first)
           y == Seconds(t)
<1>1. x \in Nat /\ y \in Nat /\ x * Resolution <= first /\ t < y * Resolution + Resolution
  BY DivBounds DEF Seconds
<1> HIDE DEF x, y
<1>2. x * Resolution + Ttl * Resolution < y * Resolution + Resolution
  <2>1. x * Resolution \in Nat /\ y * Resolution \in Nat /\ Ttl * Resolution \in Nat
    BY <1>1, SMTT(30)
  <2> QED
    BY <1>1, <2>1
<1>3. x + Ttl < y + 1
  <2> SUFFICES ASSUME y + 1 <= x + Ttl PROVE FALSE
    BY <1>1
  <2>1. (y + 1) * Resolution <= (x + Ttl) * Resolution
    BY <1>1, SMTT(30)
  <2>2. /\ (y + 1) * Resolution = y * Resolution + Resolution
        /\ (x + Ttl) * Resolution = x * Resolution + Ttl * Resolution
    BY <1>1, SMTT(30)
  <2> QED
    BY <1>1, <1>2, <2>1, <2>2, SMTT(30)
<1> QED
  BY <1>1, <1>3 DEF x, y

(***************************************************************************)
(* The time window.                                                        *)
(***************************************************************************)
LEMMA WindowOpen ==
    ASSUME NEW k \in Keys, NEW bounds, WindowAnswer(k, bounds) = "ok"
    PROVE  /\ ~(Seconds(now) + Grace >= ValidBefore[k])
           /\ \A m \in bounds : ~(ValidBefore[k] > Seconds(now) + m + Grace)
  BY DEF WindowAnswer, CheckTimeWindow

(***************************************************************************)
(* Types.                                                                  *)
(***************************************************************************)
LEMMA ConsumeTypes ==
    ASSUME LimiterTypeOK, NEW p \in Payers, NEW v \in Nat, NEW t \in 0..Horizon,
           Consume(p, v, t)
    PROVE  LimiterTypeOK'
<1>1. WindowOf(t) \in Windows /\ WindowStart(t) \in Nat
  BY WindowsExist
<1>2. Current(p, t) \in Bucket
  BY <1>1 DEF Current, Bucket, LimiterTypeOK
<1>3. Counted(p, v, t) \in Bucket /\ NoBucket \in Bucket
  BY <1>1, <1>2 DEF Counted, Bucket, NoBucket
<1>4. [buckets EXCEPT ![p] = Counted(p, v, t)] \in [Payers -> Bucket]
  BY <1>3 DEF LimiterTypeOK
<1>5. Pruned([buckets EXCEPT ![p] = Counted(p, v, t)], t) \in [Payers -> Bucket]
  BY <1>3, <1>4 DEF Pruned
<1>6. /\ admitted' \in [Payers -> [Windows -> Nat]]
      /\ spent' \in [Payers -> [Windows -> Nat]]
  BY <1>1 DEF Consume, LimiterTypeOK
<1> QED
  BY <1>5, <1>6 DEF Consume, LimiterTypeOK

LEMMA GatesTypesKept == GatesTypeOK /\ [GatesNext]_gateVars => GatesTypeOK'
<1> SUFFICES ASSUME GatesTypeOK, [GatesNext]_gateVars PROVE GatesTypeOK'
  OBVIOUS
<1> USE DEF GatesTypeOK
<1>1. CASE Tick
  BY <1>1 DEF Tick, CacheTypeOK, LimiterTypeOK
<1>2. CASE \E r \in Requests : Replay(r)
  BY <1>2 DEF Replay, Get, Goto, Steps, CacheTypeOK, LimiterTypeOK
<1>3. CASE \E r \in Requests : Limit(r)
  BY <1>3 DEF Limit, Refuse, limiterVars, Get, Goto, Steps, CacheTypeOK, LimiterTypeOK
<1>4. CASE \E r \in Requests : Admit(r)
  <2> PICK r \in Requests : Admit(r)
    BY <1>4
  <2>1. LimiterTypeOK'
    BY ConsumeTypes DEF Admit
  <2>2. CacheTypeOK'
    BY DEF Admit, Get, CacheTypeOK
  <2> QED
    BY <2>1, <2>2 DEF Admit, Goto, Steps
<1>5. CASE \E r \in Requests : Verify(r) \/ Broadcast(r) \/ Fail(r)
  BY <1>5 DEF Verify, Broadcast, Fail, Goto, Steps, CacheTypeOK, LimiterTypeOK
<1>6. CASE \E r \in Requests : Succeed(r)
  <2> PICK r \in Requests : Succeed(r)
    BY <1>6
  <2>1. CacheTypeOK'
    BY DEF Succeed, Remember, CacheTypeOK
  <2> QED
    BY <2>1 DEF Succeed, Goto, Steps, LimiterTypeOK
<1>7. CASE UNCHANGED gateVars
  BY <1>7 DEF gateVars, CacheTypeOK, LimiterTypeOK
<1> QED
  BY <1>1, <1>2, <1>3, <1>4, <1>5, <1>6, <1>7 DEF GatesNext, Over

LEMMA GatesInitTypes == GatesInit => GatesTypeOK
  BY DEF GatesInit, GatesTypeOK, CacheInit, CacheTypeOK, LimiterInit, LimiterTypeOK,
         Bucket, NoBucket, Steps

\* The gates keep their variables in their types.
THEOREM GatesTypeCorrect == GatesSpec => []GatesTypeOK
<1>1. GatesInit => GatesTypeOK
  BY GatesInitTypes
<1>2. GatesTypeOK /\ [GatesNext]_gateVars => GatesTypeOK'
  BY GatesTypesKept
<1> QED
  BY <1>1, <1>2, PTL DEF GatesSpec

(***************************************************************************)
(* The budget.                                                             *)
(***************************************************************************)
LEMMA BudgetInit == GatesInit => BucketsCount /\ WindowBudget
<1> SUFFICES ASSUME GatesInit PROVE BucketsCount /\ WindowBudget
  OBVIOUS
<1>1. WindowOf(now) \in Windows /\ WindowStart(now) \in Nat
  BY WindowsExist DEF GatesInit
<1> QED
  BY <1>1 DEF GatesInit, LimiterInit, BucketsCount, WindowBudget, Current, NoBucket, NoCap

\* One request more is within the limits, in the bucket and in the history.
LEMMA ConsumeCounts ==
    ASSUME LimiterTypeOK, BucketsCount, WindowBudget, now \in 0..Horizon, now' = now,
           NEW p \in Payers, NEW v \in Nat, Consume(p, v, now)
    PROVE  BucketsCount' /\ WindowBudget'
<1> DEFINE w == WindowOf(now)
           start == WindowStart(now)
           next == [buckets EXCEPT ![p] = Counted(p, v, now)]
<1>1. w \in Windows /\ start \in Nat /\ Windows \subseteq Nat
  BY WindowsExist DEF Windows
<1>2. WindowOf(now') = w /\ WindowStart(now') = start /\ start = w * WindowTicks
  BY DEF WindowStart
<1>3. /\ Current(p, now) \in Bucket /\ Current(p, now).start = start
      /\ Counted(p, v, now) \in Bucket /\ Counted(p, v, now).start = start
  BY <1>1 DEF Current, Counted, Bucket, LimiterTypeOK
<1>4. /\ admitted'[p][w] = Current(p, now).count + 1
      /\ spent'[p][w] = Current(p, now).total + v
  BY <1>1 DEF Consume, BucketsCount, LimiterTypeOK
<1>5. \A q \in Payers, u \in Windows : q # p \/ u # w =>
        admitted'[q][u] = admitted[q][u] /\ spent'[q][u] = spent[q][u]
  BY <1>1 DEF Consume, LimiterTypeOK
<1>6. WindowBudget'
  <2> SUFFICES ASSUME NEW q \in Payers, NEW u \in Windows
               PROVE  /\ admitted'[q][u] <= MaxRequests
                      /\ MaxValue # NoCap => spent'[q][u] <= MaxValue
    BY DEF WindowBudget
  <2>1. CASE q = p /\ u = w
    <3>1. /\ Current(p, now).count \in Nat /\ ~(Current(p, now).count + 1 > MaxRequests)
          /\ Current(p, now).total \in Nat
          /\ MaxValue # NoCap => ~(Current(p, now).total + v > MaxValue)
      BY <1>3 DEF Consume, OverRequests, OverValue, Bucket
    <3> QED
      BY <2>1, <1>4, <3>1 DEF NoCap
  <2>2. CASE q # p \/ u # w
    BY <2>2, <1>5 DEF WindowBudget
  <2> QED
    BY <2>1, <2>2
<1>7. \A q \in Payers : next[q] \in Bucket /\ next[q].start <= start
  BY <1>1, <1>3 DEF LimiterTypeOK, BucketsCount, Bucket
<1>8. \A q \in Payers : \/ buckets'[q] = next[q]
                        \/ next[q].start < start /\ buckets'[q] = NoBucket
  <2>1. buckets' = Pruned(next, now) /\ DOMAIN next = Payers
    BY DEF Consume, LimiterTypeOK
  <2> HIDE DEF next
  <2> QED
    BY <2>1 DEF Pruned
<1>9. BucketsCount'
  <2> SUFFICES ASSUME NEW q \in Payers
               PROVE  /\ buckets'[q].start <= start
                      /\ Current(q, now)'.count = admitted'[q][w]
                      /\ Current(q, now)'.total = spent'[q][w]
                      /\ \A u \in Windows : u > w => admitted'[q][u] = 0 /\ spent'[q][u] = 0
    BY <1>2 DEF BucketsCount
  <2>1. buckets'[q].start <= start
    BY <1>1, <1>7, <1>8 DEF NoBucket
  <2>2. \A u \in Windows : u > w => admitted'[q][u] = 0 /\ spent'[q][u] = 0
    <3> SUFFICES ASSUME NEW u \in Windows, u > w
                 PROVE  admitted'[q][u] = 0 /\ spent'[q][u] = 0
      OBVIOUS
    <3>1. admitted[q][u] = 0 /\ spent[q][u] = 0
      BY DEF BucketsCount
    <3>2. u # w
      BY <1>1
    <3> QED
      BY <3>1, <3>2, <1>5
  <2>3. Current(q, now)' = IF buckets'[q].start = start THEN buckets'[q]
                           ELSE [start |-> start, count |-> 0, total |-> 0]
    BY <1>2 DEF Current
  <2>4. CASE q = p
    <3>1. buckets'[p] = Counted(p, v, now)
      BY <1>1, <1>3, <1>8 DEF LimiterTypeOK
    <3> QED
      BY <2>1, <2>2, <2>3, <2>4, <3>1, <1>3, <1>4 DEF Counted
  <2>5. CASE q # p
    <3>1. /\ Current(q, now).count = admitted'[q][w]
          /\ Current(q, now).total = spent'[q][w]
      BY <2>5, <1>1, <1>5 DEF BucketsCount
    <3>2. next[q] = buckets[q]
      BY <2>5 DEF LimiterTypeOK
    <3>3. Current(q, now)' = Current(q, now)
      BY <1>1, <1>2, <1>7, <1>8, <2>3, <3>2 DEF Current, NoBucket
    <3> QED
      BY <2>1, <2>2, <3>1, <3>3
  <2> QED
    BY <2>4, <2>5
<1> QED
  BY <1>6, <1>9

\* When the clock enters a new window, every payer's count is zero.
LEMMA TickCounts ==
    ASSUME GatesTypeOK, BucketsCount, WindowBudget, Tick
    PROVE  BucketsCount' /\ WindowBudget'
<1>1. /\ now \in 0..Horizon /\ now' \in 0..Horizon /\ now <= now'
      /\ UNCHANGED limiterVars
  BY DEF Tick, GatesTypeOK, limiterVars
<1>2. /\ WindowOf(now) \in Windows /\ WindowStart(now) \in Nat
      /\ WindowOf(now') \in Windows /\ WindowStart(now') \in Nat /\ Windows \subseteq Nat
  BY <1>1, WindowsExist DEF Windows
<1>3. CASE WindowOf(now') = WindowOf(now) /\ WindowStart(now') = WindowStart(now)
  BY <1>1, <1>3 DEF BucketsCount, WindowBudget, Current, limiterVars
<1>4. CASE WindowOf(now') > WindowOf(now) /\ WindowStart(now') > WindowStart(now)
  <2> SUFFICES ASSUME NEW q \in Payers
               PROVE  /\ buckets[q].start <= WindowStart(now')
                      /\ buckets[q].start # WindowStart(now')
                      /\ admitted[q][WindowOf(now')] = 0 /\ spent[q][WindowOf(now')] = 0
                      /\ \A u \in Windows : u > WindowOf(now') =>
                            admitted[q][u] = 0 /\ spent[q][u] = 0
    BY <1>1 DEF BucketsCount, WindowBudget, Current, limiterVars
  <2>1. buckets[q].start \in Int /\ buckets[q].start <= WindowStart(now)
    BY DEF BucketsCount, GatesTypeOK, LimiterTypeOK, Bucket
  <2>2. ASSUME NEW u \in Windows, u > WindowOf(now)
        PROVE  admitted[q][u] = 0 /\ spent[q][u] = 0
    BY <2>2 DEF BucketsCount
  <2>3. \A u \in Windows : u > WindowOf(now') => u > WindowOf(now)
    <3>1. WindowOf(now) \in Nat /\ WindowOf(now') \in Nat
      BY <1>2
    <3> QED
      BY <1>2, <1>4, <3>1
  <2>4. buckets[q].start < WindowStart(now')
    BY <2>1, <1>2, <1>4
  <2>5. admitted[q][WindowOf(now')] = 0 /\ spent[q][WindowOf(now')] = 0
    BY <2>2, <1>2, <1>4
  <2>6. \A u \in Windows : u > WindowOf(now') => admitted[q][u] = 0 /\ spent[q][u] = 0
    BY <2>2, <2>3
  <2> QED
    BY <2>1, <2>4, <2>5, <2>6, <1>2
<1> QED
  BY <1>1, <1>3, <1>4, WindowsGrow

LEMMA BudgetKept ==
    GatesTypeOK /\ BucketsCount /\ WindowBudget /\ [GatesNext]_gateVars
      => BucketsCount' /\ WindowBudget'
<1> SUFFICES ASSUME GatesTypeOK, BucketsCount, WindowBudget, [GatesNext]_gateVars
             PROVE  BucketsCount' /\ WindowBudget'
  OBVIOUS
<1>1. CASE Tick
  BY <1>1, TickCounts
<1>2. CASE \E r \in Requests : Admit(r)
  <2> PICK r \in Requests : Admit(r)
    BY <1>2
  <2> DEFINE p == PayerOf[KeyOf[r]]
             v == ValueOf[KeyOf[r]]
  <2>1. p \in Payers /\ v \in Nat /\ now' = now /\ Consume(p, v, now)
    BY DEF Admit
  <2> HIDE DEF p, v
  <2> QED
    BY <2>1, ConsumeCounts DEF GatesTypeOK
<1>3. CASE UNCHANGED <<now, limiterVars>>
  BY <1>3 DEF limiterVars, BucketsCount, WindowBudget, Current
<1> QED
  BY <1>1, <1>2, <1>3 DEF GatesNext, Replay, Limit, Refuse, Verify, Broadcast, Succeed,
       Fail, Over, gateVars, limiterVars

\* The bucket a payer counts in is what it was admitted in the current window.
THEOREM BucketsAreHistory == GatesSpec => [](BucketsCount /\ WindowBudget)
<1> DEFINE Inv == GatesTypeOK /\ BucketsCount /\ WindowBudget
<1>1. GatesInit => Inv
  BY GatesInitTypes, BudgetInit
<1>2. Inv /\ [GatesNext]_gateVars => Inv'
  BY GatesTypesKept, BudgetKept
<1>3. Inv => BucketsCount /\ WindowBudget
  OBVIOUS
<1> QED
  BY <1>1, <1>2, <1>3, PTL DEF GatesSpec

\* No payer is admitted more than the budget in any window.
THEOREM BudgetHolds == GatesSpec => []WindowBudget
  BY BucketsAreHistory, PTL

(***************************************************************************)
(* The cache against the life of an authorization.                         *)
(***************************************************************************)
\* get may drop an entry only if its authorization has run out.
LEMMA GetCovers ==
    ASSUME GatesTypeOK, EntriesCover, NEW j \in Keys, Get(j, now),
           now' = now, settled' = settled, NEW r \in Requests,
           step' = [step EXCEPT ![r] = step'[r]], step'[r] \notin {"verified", "sent"}
    PROVE  EntriesCover'
<1>1. \A k \in Keys :
        \/ entries'[k] = entries[k]
        \/ entries'[k] = NoEntry /\ entries[k] # NoEntry /\ now - entries[k] > TtlTicks
  BY DEF Get, Expired, GatesTypeOK, CacheTypeOK
<1>2. ASSUME NEW k \in Keys, TimeoutsWithinTtl(k),
             entries[k] # NoEntry, now - entries[k] > TtlTicks
      PROVE  ValidBefore[k] <= Seconds(now) + Grace
  <2>1. /\ entries[k] \in Nat /\ now \in Nat /\ ValidBefore[k] \in Nat
        /\ ValidBefore[k] <= Seconds(entries[k]) + Ttl + Grace
    BY <1>2 DEF EntriesCover, GatesTypeOK, CacheTypeOK
  <2> QED
    BY <2>1, <1>2, ExpiredHasRunOut
<1>3. settled \subseteq Keys /\ step \in [Requests -> Steps]
  BY DEF GatesTypeOK
<1>4. \A q \in Requests : step'[q] \in {"verified", "sent"} => step'[q] = step[q]
  BY <1>3
<1> QED
  BY <1>1, <1>2, <1>3, <1>4 DEF EntriesCover

\* A success makes an entry that lasts, or finds one that does.
LEMMA RememberCovers ==
    ASSUME GatesTypeOK, EntriesCover, NEW r \in Requests, Succeed(r)
    PROVE  EntriesCover'
<1> DEFINE k == KeyOf[r]
           kept == IF entries[k] = NoEntry THEN [entries EXCEPT ![k] = now] ELSE entries
<1>1. /\ k \in Keys /\ now \in Nat /\ now' = now /\ entries \in [Keys -> Nat \cup {NoEntry}]
      /\ settled' = settled \cup {k} /\ settled \subseteq Keys
  BY DEF Succeed, GatesTypeOK, CacheTypeOK
<1>2. TimeoutsWithinTtl(k) => ValidBefore[k] <= Seconds(now) + Ttl + Grace
  BY DEF Succeed, EntriesCover
<1>3. kept \in [Keys -> Nat \cup {NoEntry}] /\ kept[k] # NoEntry
  BY <1>1 DEF NoEntry
<1>4. \A j \in Keys : TimeoutsWithinTtl(j) /\ kept[j] # NoEntry =>
        kept[j] <= now /\ ValidBefore[j] <= Seconds(kept[j]) + Ttl + Grace
  BY <1>1, <1>2 DEF EntriesCover
<1>5. \A j \in Keys : kept[j] = entries[j] \/ j = k
  BY <1>1
<1>6. \A j \in Keys : \/ entries'[j] = kept[j]
                      \/ entries'[j] = NoEntry /\ now - kept[j] > TtlTicks
  BY DEF Succeed, Remember
<1> HIDE DEF k, kept
<1>7. ASSUME NEW j \in Keys, TimeoutsWithinTtl(j),
             kept[j] # NoEntry, now - kept[j] > TtlTicks
      PROVE  ValidBefore[j] <= Seconds(now) + Grace
  <2>1. kept[j] \in Nat /\ ValidBefore[j] \in Nat
        /\ ValidBefore[j] <= Seconds(kept[j]) + Ttl + Grace
    BY <1>3, <1>4, <1>7
  <2> QED
    BY <1>1, <2>1, <1>7, ExpiredHasRunOut
<1>8. \A q \in Requests : step'[q] \in {"verified", "sent"} => step'[q] = step[q]
  BY DEF Succeed, Goto, GatesTypeOK
<1>9. ASSUME NEW j \in settled', TimeoutsWithinTtl(j), entries'[j] = NoEntry
      PROVE  ValidBefore[j] <= Seconds(now) + Grace
  <2>0. j \in Keys
    BY <1>1
  <2>1. CASE kept[j] = NoEntry
    <3>1. j \in settled /\ entries[j] = NoEntry
      BY <2>0, <2>1, <1>1, <1>3, <1>5
    <3> QED
      BY <1>9, <2>0, <3>1 DEF EntriesCover
  <2>2. CASE kept[j] # NoEntry
    BY <2>0, <2>2, <1>6, <1>7, <1>9
  <2> QED
    BY <2>1, <2>2
<1>10. \A j \in Keys : TimeoutsWithinTtl(j) /\ entries'[j] # NoEntry =>
         entries'[j] <= now /\ ValidBefore[j] <= Seconds(entries'[j]) + Ttl + Grace
  BY <1>4, <1>6
<1> QED
  BY <1>1, <1>8, <1>9, <1>10 DEF EntriesCover

\* Verification lets only authorizations pass that end within the time to live.
LEMMA VerifyCovers ==
    ASSUME GatesTypeOK, EntriesCover, NEW r \in Requests,
           Verify(r) \/ Broadcast(r) \/ Fail(r)
    PROVE  EntriesCover'
<1>1. /\ now' = now /\ entries' = entries /\ settled' = settled
      /\ \A q \in Requests : q # r => step'[q] = step[q]
  BY DEF Verify, Broadcast, Fail, Goto, GatesTypeOK
<1>2. TimeoutsWithinTtl(KeyOf[r]) /\ step'[r] \in {"verified", "sent"}
        => ValidBefore[KeyOf[r]] <= Seconds(now) + Ttl + Grace
  <2>1. CASE Verify(r)
    <3> SUFFICES ASSUME TimeoutsWithinTtl(KeyOf[r]), step'[r] \in {"verified", "sent"}
                 PROVE  ValidBefore[KeyOf[r]] <= Seconds(now) + Ttl + Grace
      OBVIOUS
    <3>1. WindowAnswer(KeyOf[r], {MaxTimeout[r]}) = "ok"
      BY <2>1 DEF Verify, Goto, GatesTypeOK
    <3>2. /\ KeyOf[r] \in Keys /\ ValidBefore[KeyOf[r]] \in Nat
          /\ MaxTimeout[r] \in Nat /\ MaxTimeout[r] <= Ttl /\ Seconds(now) \in Nat
      BY SecondsGrow DEF TimeoutsWithinTtl, GatesTypeOK
    <3>3. ~(ValidBefore[KeyOf[r]] > Seconds(now) + MaxTimeout[r] + Grace)
      BY <3>1, <3>2, WindowOpen
    <3> QED
      BY <3>2, <3>3
  <2>2. CASE Broadcast(r)
    BY <2>2 DEF Broadcast, EntriesCover
  <2>3. CASE Fail(r)
    BY <2>3 DEF Fail, Goto, GatesTypeOK
  <2> QED
    BY <2>1, <2>2, <2>3
<1> QED
  BY <1>1, <1>2 DEF EntriesCover

LEMMA TickCovers ==
    ASSUME GatesTypeOK, EntriesCover, Tick
    PROVE  EntriesCover'
<1>1. /\ now \in Nat /\ now' \in Nat /\ now <= now'
      /\ entries' = entries /\ settled' = settled /\ step' = step
      /\ entries \in [Keys -> Nat \cup {NoEntry}] /\ settled \subseteq Keys
  BY DEF Tick, GatesTypeOK, CacheTypeOK
<1>2. Seconds(now) \in Nat /\ Seconds(now') \in Nat /\ Seconds(now) <= Seconds(now')
  BY <1>1, SecondsGrow
<1>3. \A k \in Keys : TimeoutsWithinTtl(k) /\ entries[k] # NoEntry => entries[k] <= now'
  BY <1>1 DEF EntriesCover
<1>4. \A r \in Requests :
        TimeoutsWithinTtl(KeyOf[r]) /\ step[r] \in {"verified", "sent"} =>
          ValidBefore[KeyOf[r]] <= Seconds(now') + Ttl + Grace
  BY <1>2 DEF EntriesCover
<1>5. \A k \in settled : TimeoutsWithinTtl(k) /\ entries[k] = NoEntry =>
        ValidBefore[k] <= Seconds(now') + Grace
  BY <1>1, <1>2 DEF EntriesCover
<1> QED
  BY <1>1, <1>3, <1>4, <1>5 DEF EntriesCover

LEMMA CoverKept ==
    GatesTypeOK /\ EntriesCover /\ [GatesNext]_gateVars => EntriesCover'
<1> SUFFICES ASSUME GatesTypeOK, EntriesCover, [GatesNext]_gateVars
             PROVE  EntriesCover'
  OBVIOUS
<1>1. ASSUME NEW r \in Requests, Replay(r) \/ Limit(r) \/ Admit(r)
      PROVE  EntriesCover'
  <2>1. /\ KeyOf[r] \in Keys /\ Get(KeyOf[r], now) /\ now' = now /\ settled' = settled
    BY <1>1 DEF Replay, Limit, Admit
  <2>2. step' = [step EXCEPT ![r] = step'[r]] /\ step'[r] \notin {"verified", "sent"}
    BY <1>1 DEF Replay, Limit, Admit, Goto, GatesTypeOK
  <2> QED
    BY <2>1, <2>2, GetCovers
<1>2. CASE UNCHANGED gateVars
  BY <1>2 DEF gateVars, EntriesCover
<1> QED
  BY <1>1, <1>2, TickCovers, VerifyCovers, RememberCovers DEF GatesNext, Over

\* A live key that was settled is a hit: its entry is there and has not expired.
LEMMA CoverHits == GatesTypeOK /\ EntriesCover => CacheOutlivesAuthorization
<1> SUFFICES ASSUME GatesTypeOK, EntriesCover, NEW k \in settled,
                    TimeoutsWithinTtl(k), Live(k)
             PROVE  Hit(k, now)
  BY DEF CacheOutlivesAuthorization
<1>1. /\ k \in Keys /\ now \in Nat /\ ValidBefore[k] \in Nat
      /\ entries[k] \in Nat \cup {NoEntry} /\ Seconds(now) \in Nat
  BY SecondsGrow DEF GatesTypeOK, CacheTypeOK
<1>2. ~(ValidBefore[k] <= Seconds(now) + Grace)
  BY <1>1, WindowOpen DEF Live
<1>3. entries[k] # NoEntry
  BY <1>1, <1>2 DEF EntriesCover
<1>4. ~(now - entries[k] > TtlTicks)
  <2>1. entries[k] \in Nat /\ ValidBefore[k] <= Seconds(entries[k]) + Ttl + Grace
    BY <1>1, <1>3 DEF EntriesCover
  <2> QED
    BY <1>1, <1>2, <2>1, ExpiredHasRunOut
<1> QED
  BY <1>3, <1>4 DEF Hit, Expired

LEMMA CoverInit == GatesInit => EntriesCover
  BY DEF GatesInit, CacheInit, EntriesCover

\* Whatever other requests ask for, the entry of a payment for which no request
\* asks for more time than the cache keeps it is there until its authorization
\* has run out.
THEOREM EntriesAlwaysCover == GatesSpec => [](GatesTypeOK /\ EntriesCover)
<1>1. GatesInit => GatesTypeOK /\ EntriesCover
  BY GatesInitTypes, CoverInit
<1>2. GatesTypeOK /\ EntriesCover /\ [GatesNext]_gateVars => (GatesTypeOK /\ EntriesCover)'
  BY GatesTypesKept, CoverKept
<1> QED
  BY <1>1, <1>2, PTL DEF GatesSpec

\* So a settled payment of that kind is in the cache for as long as it is live.
THEOREM CacheCovers == GatesSpec => []CacheOutlivesAuthorization
<1>1. GatesTypeOK /\ EntriesCover => CacheOutlivesAuthorization
  BY CoverHits
<1> QED
  BY <1>1, EntriesAlwaysCover, PTL

(***************************************************************************)
(* What the limiter may do to a request.                                   *)
(***************************************************************************)
\* And a retry of what is settled and live is replayed.
THEOREM RetriesAreFree == GatesSpec => RetryIsFree
<1> DEFINE Inv == GatesTypeOK /\ EntriesCover
           Free == \A r \in Requests :
             (/\ step[r] = "idle" /\ step'[r] # "idle"
              /\ KeyOf[r] \in settled /\ TimeoutsWithinTtl(KeyOf[r]) /\ Live(KeyOf[r]))
               => step'[r] = "replayed" /\ UNCHANGED limiterVars
<1>1. GatesInit => Inv
  BY GatesInitTypes, CoverInit
<1>2. Inv /\ [GatesNext]_gateVars => Inv'
  BY GatesTypesKept, CoverKept
<1>3. Inv /\ [GatesNext]_gateVars => [Free]_gateVars
  <2> SUFFICES ASSUME GatesTypeOK, EntriesCover, GatesNext, NEW r \in Requests,
                      step[r] = "idle", step'[r] # "idle",
                      KeyOf[r] \in settled, TimeoutsWithinTtl(KeyOf[r]), Live(KeyOf[r])
               PROVE  step'[r] = "replayed" /\ UNCHANGED limiterVars
    OBVIOUS
  <2>1. Hit(KeyOf[r], now)
    BY CoverHits DEF CacheOutlivesAuthorization
  <2>2. Replay(r) \/ Limit(r) \/ Admit(r)
    BY DEF GatesNext, Tick, Replay, Limit, Admit, Verify, Broadcast, Succeed, Fail, Over,
           Goto, gateVars, GatesTypeOK
  <2> QED
    BY <2>1, <2>2 DEF Replay, Limit, Admit, Goto, limiterVars, GatesTypeOK
<1> QED
  BY <1>1, <1>2, <1>3, PTL DEF GatesSpec, RetryIsFree

\* A request is limited only for what its payer was admitted in this window.
THEOREM RefusalsAreDeserved == GatesSpec => RefusalIsDeserved
<1> DEFINE Inv == GatesTypeOK /\ BucketsCount /\ WindowBudget
           Deserved == \A r \in Requests :
             (step'[r] = "limited" /\ step[r] # "limited") =>
               LET p == PayerOf[KeyOf[r]]
                   w == WindowOf(now)
               IN \/ admitted[p][w] + 1 > MaxRequests
                  \/ MaxValue # NoCap /\ spent[p][w] + ValueOf[KeyOf[r]] > MaxValue
<1>1. GatesInit => Inv
  BY GatesInitTypes, BudgetInit
<1>2. Inv /\ [GatesNext]_gateVars => Inv'
  BY GatesTypesKept, BudgetKept
<1>3. Inv /\ [GatesNext]_gateVars => [Deserved]_gateVars
  <2> SUFFICES ASSUME GatesTypeOK, BucketsCount, GatesNext, NEW r \in Requests,
                      step'[r] = "limited", step[r] # "limited"
               PROVE  LET p == PayerOf[KeyOf[r]]
                          w == WindowOf(now)
                      IN \/ admitted[p][w] + 1 > MaxRequests
                         \/ MaxValue # NoCap /\ spent[p][w] + ValueOf[KeyOf[r]] > MaxValue
    OBVIOUS
  <2>1. Limit(r)
    BY DEF GatesNext, Tick, Replay, Limit, Admit, Verify, Broadcast, Succeed, Fail, Over,
           Goto, gateVars, GatesTypeOK
  <2>2. PayerOf[KeyOf[r]] \in Payers
    OBVIOUS
  <2> QED
    BY <2>1, <2>2 DEF Limit, Refuse, OverRequests, OverValue, BucketsCount
<1> QED
  BY <1>1, <1>2, <1>3, PTL DEF GatesSpec, RefusalIsDeserved
=============================================================================
