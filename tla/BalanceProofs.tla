--------------------------- MODULE BalanceProofs ----------------------------
(***************************************************************************)
(* Theorems about the Node host's balance cache, for any number of chains  *)
(* and any period and call limit.                                          *)
(***************************************************************************)
EXTENDS BalanceCache, TLAPS

USE BalanceAssumption DEF BalanceAssumption

\* A call of host h for chain c that started a ago is under way.
Live(h, c, a) ==
    \E call \in calls : call.host = h /\ call.chain = c /\ call.age = a

Wrong(h, c) == ~ (IsCritical(h, c) <=> side[c] = "low")

\* What a call has seen was so, no longer ago than the call's start.
CallsHonest ==
    \A call \in calls :
        call.seen = "none" \/ call.seen = side[call.chain]
                           \/ steady[call.chain] <= call.age

\* The refresh of a ago has been stored, and nothing much older after it.
Settled(h, c, a) ==
    Live(h, c, a) \/ ~ Wrong(h, c) \/ steady[c] <= a + CallLimit

\* In any stretch of Period there was a refresh (the first one at Listen).
Covered(h, c, b) == \E a \in Nat : b < a /\ a <= b + Period /\ Settled(h, c, a)

ServingFresh ==
    \A h \in Hosts, c \in Chains \ Flaky :
        phase[h] = "serving" =>
            /\ \A a \in Nat : a = timer[h] => Settled(h, c, a)
            /\ \A b \in Nat : Covered(h, c, b)

\* At boot one refresh is under way, and it covers every chain.
OneRefresh ==
    \A h \in Hosts : phase[h] = "booting" =>
        \A x, y \in calls : x.host = h /\ y.host = h => x.age = y.age

BootFresh ==
    \A h \in Hosts, c \in Chains \ Flaky :
        phase[h] = "booting" =>
            \/ \E a \in Nat : Live(h, c, a)
            \/ ~ Wrong(h, c)
            \/ /\ steady[c] <= CallLimit
               /\ \A x \in calls : x.host = h => steady[c] <= x.age

BalanceInv ==
    BalanceTypeOK /\ CallsHonest /\ OneRefresh /\ BootFresh /\ ServingFresh

-----------------------------------------------------------------------------

LEMMA MaxAgeIsNat == MaxAge \in Nat /\ MaxAge > 2 * CallLimit + Period
BY DEF MaxAge

\* A refresh's calls are calls.
LEMMA NewCallsTyped ==
    ASSUME NEW h \in Hosts
    PROVE  /\ NewCalls(h) \subseteq Calls
           /\ \A x \in NewCalls(h) : x.host = h /\ x.age = 0 /\ x.seen = "none"
           /\ \A c \in Chains : \E x \in NewCalls(h) :
                x.host = h /\ x.chain = c /\ x.age = 0
<1>1. NewCalls(h) \subseteq Calls  BY DEF NewCalls, Calls
<1>2. \A x \in NewCalls(h) : x.host = h /\ x.age = 0 /\ x.seen = "none"
  BY DEF NewCalls
<1>3. ASSUME NEW c \in Chains
      PROVE  \E x \in NewCalls(h) : x.host = h /\ x.chain = c /\ x.age = 0
  <2>1. [host |-> h, chain |-> c, age |-> 0, seen |-> "none"] \in NewCalls(h)
    BY DEF NewCalls
  <2> QED  BY <2>1
<1> QED  BY <1>1, <1>2, <1>3

LEMMA BalanceTypeStep ==
    ASSUME BalanceTypeOK, [NodeNext]_balanceVars
    PROVE  BalanceTypeOK'
<1> USE MaxAgeIsNat DEF BalanceTypeOK, Sides
<1>1. ASSUME NEW call \in calls, Read(call)  PROVE BalanceTypeOK'
  <2>1. call \in Calls /\ side[call.chain] \in Sides  BY DEF Calls
  <2>2. [call EXCEPT !.seen = side[call.chain]] \in Calls  BY <2>1 DEF Calls
  <2> QED  BY <1>1, <2>2 DEF Read
<1>2. ASSUME NEW call \in calls, Store(call)  PROVE BalanceTypeOK'
  <2>1. call.host \in Hosts /\ call.chain \in Chains /\ call.seen \in Sides
    BY <1>2 DEF Calls, Store
  <2> QED  BY <1>2, <2>1 DEF Store
<1>3. ASSUME NEW call \in calls, Fails(call)  PROVE BalanceTypeOK'
  BY <1>3 DEF Fails
<1>4. ASSUME NEW c \in Chains, BalanceCrosses(c)  PROVE BalanceTypeOK'
  BY <1>4 DEF BalanceCrosses
<1>5. ASSUME NEW h \in Hosts, Listen(h)  PROVE BalanceTypeOK'
  BY <1>5 DEF Listen
<1>6. ASSUME NEW h \in Hosts, TimerFires(h)  PROVE BalanceTypeOK'
  BY <1>6, NewCallsTyped DEF TimerFires
<1>7. ASSUME NodeTick  PROVE BalanceTypeOK'
  <2>1. calls' \subseteq Calls
    <3>1. ASSUME NEW call \in calls  PROVE [call EXCEPT !.age = @ + 1] \in Calls
      <4>1. call \in Calls /\ call.age < CallLimit  BY <1>7 DEF NodeTick, TimePasses
      <4> QED  BY <4>1 DEF Calls
    <3> QED  BY <1>7, <3>1 DEF NodeTick, TimePasses
  <2>2. steady' \in [Chains -> 0 .. MaxAge]  BY <1>7 DEF NodeTick, TimePasses
  <2>3. timer' \in [Hosts -> 0 .. Period]  BY <1>7 DEF NodeTick
  <2> QED  BY <1>7, <2>1, <2>2, <2>3 DEF NodeTick, TimePasses
<1>8. CASE UNCHANGED balanceVars  BY <1>8 DEF balanceVars
<1> QED
  BY <1>1, <1>2, <1>3, <1>4, <1>5, <1>6, <1>7, <1>8 DEF NodeNext, BalanceStep

(***************************************************************************)
(* Every variable keeps its type.                                          *)
(***************************************************************************)
THEOREM BalanceTypeCorrect == NodeSpec => []BalanceTypeOK
<1>1. NodeInit => BalanceTypeOK
  BY MaxAgeIsNat, NewCallsTyped DEF NodeInit, BalanceInit, BalanceTypeOK, Sides
<1> QED  BY <1>1, BalanceTypeStep, PTL DEF NodeSpec

-----------------------------------------------------------------------------
(***************************************************************************)
(* The steps of BalanceInv.                                                *)
(***************************************************************************)
LEMMA CallsHonestStep ==
    ASSUME BalanceTypeOK, CallsHonest, [NodeNext]_balanceVars
    PROVE  CallsHonest'
<1> USE MaxAgeIsNat DEF BalanceTypeOK, CallsHonest
<1>1. ASSUME NEW call \in calls, Read(call)  PROVE CallsHonest'
  <2>1. [call EXCEPT !.seen = side[call.chain]].seen = side[call.chain]
        /\ [call EXCEPT !.seen = side[call.chain]].chain = call.chain
    BY DEF Calls
  <2> QED  BY <1>1, <2>1 DEF Read
<1>2. ASSUME NEW call \in calls, Store(call) \/ Fails(call)  PROVE CallsHonest'
  BY <1>2 DEF Store, Fails
<1>3. ASSUME NEW c \in Chains, BalanceCrosses(c)  PROVE CallsHonest'
  <2> SUFFICES ASSUME NEW call \in calls
               PROVE  \/ call.seen = "none"
                      \/ call.seen = side'[call.chain]
                      \/ steady'[call.chain] <= call.age
    BY <1>3 DEF BalanceCrosses
  <2>1. call \in Calls  OBVIOUS
  <2>2. CASE call.chain = c  BY <1>3, <2>1, <2>2 DEF BalanceCrosses, Calls
  <2>3. CASE call.chain # c  BY <1>3, <2>1, <2>3 DEF BalanceCrosses, Calls
  <2> QED  BY <2>2, <2>3
<1>4. ASSUME NEW h \in Hosts, Listen(h)  PROVE CallsHonest'
  BY <1>4 DEF Listen
<1>5. ASSUME NEW h \in Hosts, TimerFires(h)  PROVE CallsHonest'
  BY <1>5, NewCallsTyped DEF TimerFires
<1>6. ASSUME NodeTick  PROVE CallsHonest'
  <2> SUFFICES ASSUME NEW old \in calls,
                      NEW call, call = [old EXCEPT !.age = @ + 1]
               PROVE  \/ call.seen = "none"
                      \/ call.seen = side'[call.chain]
                      \/ steady'[call.chain] <= call.age
    BY <1>6 DEF NodeTick, TimePasses
  <2>1. /\ old \in Calls /\ call.seen = old.seen /\ call.chain = old.chain
        /\ call.age = old.age + 1 /\ old.chain \in Chains
    BY DEF Calls
  <2>2. side' = side /\ steady'[old.chain] <= steady[old.chain] + 1
    BY <1>6, <2>1 DEF NodeTick, TimePasses
  <2>3. steady[old.chain] \in Nat /\ steady'[old.chain] \in Nat /\ old.age \in Nat
    BY <1>6, <2>1 DEF Calls, NodeTick, TimePasses
  <2> QED  BY <2>1, <2>2, <2>3
<1>7. CASE UNCHANGED balanceVars  BY <1>7 DEF balanceVars
<1> QED
  BY <1>1, <1>2, <1>3, <1>4, <1>5, <1>6, <1>7 DEF NodeNext, BalanceStep

LEMMA OneRefreshStep ==
    ASSUME BalanceTypeOK, OneRefresh, [NodeNext]_balanceVars
    PROVE  OneRefresh'
<1> USE DEF BalanceTypeOK, OneRefresh
<1>1. ASSUME NEW call \in calls, Read(call)  PROVE OneRefresh'
  <2> DEFINE new == [call EXCEPT !.seen = side[call.chain]]
  <2>1. new.host = call.host /\ new.age = call.age  BY DEF Calls
  <2>2. \A x \in calls' : x \in calls \/ x = new  BY <1>1 DEF Read
  <2> HIDE DEF new
  <2> QED  BY <1>1, <2>1, <2>2 DEF Read
<1>2. ASSUME NEW call \in calls, Store(call) \/ Fails(call)  PROVE OneRefresh'
  BY <1>2 DEF Store, Fails
<1>3. ASSUME NEW c \in Chains, BalanceCrosses(c)  PROVE OneRefresh'
  BY <1>3 DEF BalanceCrosses
<1>4. ASSUME NEW h \in Hosts, Listen(h)  PROVE OneRefresh'
  BY <1>4 DEF Listen
<1>5. ASSUME NEW h \in Hosts, TimerFires(h)  PROVE OneRefresh'
  BY <1>5, NewCallsTyped DEF TimerFires
<1>6. ASSUME NodeTick  PROVE OneRefresh'
  <2> SUFFICES ASSUME NEW h \in Hosts, phase[h] = "booting",
                      NEW x \in calls', NEW y \in calls', x.host = h, y.host = h
               PROVE  x.age = y.age
    BY <1>6 DEF NodeTick, TimePasses
  <2>1. PICK u \in calls, v \in calls :
            x = [u EXCEPT !.age = @ + 1] /\ y = [v EXCEPT !.age = @ + 1]
    BY <1>6 DEF NodeTick, TimePasses
  <2>2. u.host = h /\ v.host = h /\ x.age = u.age + 1 /\ y.age = v.age + 1
    BY <2>1 DEF Calls
  <2> QED  BY <2>2
<1>7. CASE UNCHANGED balanceVars  BY <1>7 DEF balanceVars
<1> QED
  BY <1>1, <1>2, <1>3, <1>4, <1>5, <1>6, <1>7 DEF NodeNext, BalanceStep

(***************************************************************************)
(* Which calls are live, and which flags wrong, after a step.              *)
(***************************************************************************)
LEMMA ReadKeeps ==
    ASSUME BalanceTypeOK, NEW call \in calls, Read(call),
           NEW h \in Hosts, NEW c \in Chains
    PROVE  /\ Wrong(h, c)' <=> Wrong(h, c)
           /\ \A a \in Nat : Live(h, c, a) => Live(h, c, a)'
           /\ \A x \in calls' : \E y \in calls : y.host = x.host /\ y.age = x.age
<1> DEFINE new == [call EXCEPT !.seen = side[call.chain]]
<1>1. new.host = call.host /\ new.age = call.age /\ new.chain = call.chain
  BY DEF BalanceTypeOK, Calls
<1>2. calls' = (calls \ {call}) \cup {new}  BY DEF Read
<1> HIDE DEF new
<1>3. Wrong(h, c)' <=> Wrong(h, c)  BY DEF Wrong, IsCritical, Read
<1> QED  BY <1>1, <1>2, <1>3 DEF Live

LEMMA StoreKeeps ==
    ASSUME BalanceTypeOK, CallsHonest, NEW call \in calls, Store(call),
           NEW h \in Hosts, NEW c \in Chains
    PROVE  /\ call.host = h /\ call.chain = c /\ Wrong(h, c)'
                => steady[c] <= call.age
           /\ call.host # h \/ call.chain # c =>
                /\ Wrong(h, c)' <=> Wrong(h, c)
                /\ \A a \in Nat : Live(h, c, a) => Live(h, c, a)'
<1>1. call \in Calls /\ call.seen \in Sides
  BY DEF BalanceTypeOK, Calls, Store
<1>2. /\ entries' = [entries EXCEPT ![call.host][call.chain] = call.seen]
      /\ calls' = calls \ {call} /\ side' = side /\ call.seen # "none"
  BY DEF Store
<1>3. ASSUME call.host = h, call.chain = c, Wrong(h, c)'
      PROVE  steady[c] <= call.age
  <2>1. entries'[h][c] = call.seen  BY <1>2, <1>3 DEF BalanceTypeOK
  <2>2. call.seen # side[c]
    BY <1>2, <1>3, <2>1 DEF Wrong, IsCritical, BalanceTypeOK, Sides
  <2> QED  BY <1>2, <1>3, <2>2 DEF CallsHonest
<1>4. ASSUME call.host # h \/ call.chain # c
      PROVE  /\ Wrong(h, c)' <=> Wrong(h, c)
             /\ \A a \in Nat : Live(h, c, a) => Live(h, c, a)'
  <2>1. entries'[h][c] = entries[h][c]
    BY <1>1, <1>2, <1>4 DEF BalanceTypeOK, Calls
  <2> QED  BY <1>2, <1>4, <2>1 DEF Wrong, IsCritical, Live
<1> QED  BY <1>3, <1>4

LEMMA FailsKeeps ==
    ASSUME NEW call \in calls, Fails(call),
           NEW h \in Hosts, NEW c \in Chains \ Flaky
    PROVE  /\ Wrong(h, c)' <=> Wrong(h, c)
           /\ \A a \in Nat : Live(h, c, a) => Live(h, c, a)'
BY DEF Fails, Wrong, IsCritical, Live

LEMMA TickKeeps ==
    ASSUME BalanceTypeOK, NodeTick, NEW h \in Hosts, NEW c \in Chains
    PROVE  /\ Wrong(h, c)' <=> Wrong(h, c)
           /\ \A a \in Nat : Live(h, c, a) => Live(h, c, a + 1)'
           /\ steady'[c] <= steady[c] + 1
           /\ \A x \in calls' : \E y \in calls :
                 y.host = x.host /\ x.age = y.age + 1
<1>1. \A y \in calls : LET x == [y EXCEPT !.age = @ + 1]
                       IN  /\ x.host = y.host /\ x.chain = y.chain
                           /\ x.age = y.age + 1
  BY DEF BalanceTypeOK, Calls
<1>2. calls' = {[y EXCEPT !.age = @ + 1] : y \in calls}
  BY DEF NodeTick, TimePasses
<1>3. Wrong(h, c)' <=> Wrong(h, c)
  BY DEF Wrong, IsCritical, NodeTick, TimePasses
<1>4. steady'[c] <= steady[c] + 1
  BY MaxAgeIsNat DEF BalanceTypeOK, NodeTick, TimePasses
<1>5. ASSUME NEW a \in Nat, Live(h, c, a)  PROVE Live(h, c, a + 1)'
  <2>1. PICK y \in calls : y.host = h /\ y.chain = c /\ y.age = a
    BY <1>5 DEF Live
  <2>2. [y EXCEPT !.age = @ + 1] \in calls'  BY <1>2
  <2> QED  BY <1>1, <2>1, <2>2 DEF Live
<1>6. \A x \in calls' : \E y \in calls : y.host = x.host /\ x.age = y.age + 1
  BY <1>1, <1>2
<1> QED  BY <1>3, <1>4, <1>5, <1>6

(***************************************************************************)
(* At boot.  In a step other than Listen the phases stay.                  *)
(***************************************************************************)
LEMMA BootFreshStep ==
    ASSUME BalanceTypeOK, CallsHonest, OneRefresh, BootFresh,
           [NodeNext]_balanceVars
    PROVE  BootFresh'
<1> USE MaxAgeIsNat DEF BootFresh
<1>0. \A x \in calls : x \in Calls /\ x.age \in 0 .. CallLimit
  BY DEF BalanceTypeOK, Calls
<1>1. ASSUME NEW call \in calls, Read(call)  PROVE BootFresh'
  <2>1. phase' = phase /\ steady' = steady  BY <1>1 DEF Read
  <2> QED  BY <1>1, <2>1, ReadKeeps
<1>2. ASSUME NEW call \in calls, Store(call)  PROVE BootFresh'
  <2> SUFFICES ASSUME NEW h \in Hosts, NEW c \in Chains \ Flaky,
                      phase[h] = "booting"
               PROVE  \/ (\E a \in Nat : Live(h, c, a))'
                      \/ ~ Wrong(h, c)'
                      \/ /\ steady[c] <= CallLimit
                         /\ \A x \in calls' : x.host = h => steady[c] <= x.age
    BY <1>2 DEF Store
  <2>1. calls' = calls \ {call}  BY <1>2 DEF Store
  <2>2. CASE call.host = h /\ call.chain = c
    <3>1. ~ Wrong(h, c)' \/ steady[c] <= call.age  BY <1>2, <2>2, StoreKeeps
    <3>2. \A x \in calls : x.host = h => x.age = call.age
      BY <2>2 DEF OneRefresh
    <3>3. steady[c] \in Nat /\ call.age \in 0 .. CallLimit
      BY <1>0 DEF BalanceTypeOK
    <3> QED  BY <2>1, <3>1, <3>2, <3>3
  <2>3. CASE ~ (call.host = h /\ call.chain = c)
    BY <1>2, <2>1, <2>3, StoreKeeps
  <2> QED  BY <2>2, <2>3
<1>3. ASSUME NEW call \in calls, Fails(call)  PROVE BootFresh'
  <2>1. phase' = phase /\ steady' = steady /\ calls' \subseteq calls
    BY <1>3 DEF Fails
  <2> QED  BY <1>3, <2>1, FailsKeeps
<1>4. ASSUME NEW d \in Chains, BalanceCrosses(d)  PROVE BootFresh'
  <2> SUFFICES ASSUME NEW h \in Hosts, NEW c \in Chains \ Flaky,
                      phase[h] = "booting"
               PROVE  \/ (\E a \in Nat : Live(h, c, a))'
                      \/ ~ Wrong(h, c)'
                      \/ /\ steady'[c] <= CallLimit
                         /\ \A x \in calls : x.host = h => steady'[c] <= x.age
    BY <1>4 DEF BalanceCrosses
  <2>1. CASE c = d
    <3>1. steady'[c] = 0  BY <1>4, <2>1 DEF BalanceCrosses, BalanceTypeOK
    <3> QED  BY <1>0, <3>1
  <2>2. CASE c # d
    <3>1. steady'[c] = steady[c] /\ side'[c] = side[c]
      BY <1>4, <2>2 DEF BalanceCrosses, BalanceTypeOK
    <3>2. Wrong(h, c)' <=> Wrong(h, c)
      BY <1>4, <3>1 DEF BalanceCrosses, Wrong, IsCritical
    <3>3. \A a \in Nat : Live(h, c, a)' <=> Live(h, c, a)
      BY <1>4 DEF BalanceCrosses, Live
    <3> QED  BY <3>1, <3>2, <3>3
  <2> QED  BY <2>1, <2>2
<1>5. ASSUME NEW g \in Hosts, Listen(g)  PROVE BootFresh'
  BY <1>5 DEF Listen, BalanceTypeOK, Wrong, IsCritical, Live
<1>6. ASSUME NEW g \in Hosts, TimerFires(g)  PROVE BootFresh'
  <2> SUFFICES ASSUME NEW h \in Hosts, NEW c \in Chains \ Flaky,
                      phase[h] = "booting"
               PROVE  \/ (\E a \in Nat : Live(h, c, a))'
                      \/ ~ Wrong(h, c)'
                      \/ /\ steady[c] <= CallLimit
                         /\ \A x \in calls' : x.host = h => steady[c] <= x.age
    BY <1>6 DEF TimerFires
  <2>1. h # g  BY <1>6 DEF TimerFires
  <2>2. \A x \in calls' : x \in calls \/ x.host = g
    BY <1>6, NewCallsTyped DEF TimerFires
  <2>3. (Wrong(h, c)' <=> Wrong(h, c))
        /\ \A a \in Nat : Live(h, c, a) => Live(h, c, a)'
    BY <1>6 DEF TimerFires, Wrong, IsCritical, Live
  <2> QED  BY <2>1, <2>2, <2>3
<1>7. ASSUME NodeTick  PROVE BootFresh'
  <2> SUFFICES ASSUME NEW h \in Hosts, NEW c \in Chains \ Flaky,
                      phase[h] = "booting"
               PROVE  \/ (\E a \in Nat : Live(h, c, a))'
                      \/ ~ Wrong(h, c)'
                      \/ /\ steady'[c] <= CallLimit
                         /\ \A x \in calls' : x.host = h => steady'[c] <= x.age
    BY <1>7 DEF NodeTick, TimePasses
  <2>1. PICK y \in calls : y.host = h /\ y.age < CallLimit
    BY <1>7 DEF NodeTick, TimePasses
  <2>2. steady[c] \in Nat /\ steady'[c] \in Nat
    BY <1>7, BalanceTypeStep DEF BalanceTypeOK, NodeNext
  <2>3. ASSUME steady[c] <= CallLimit,
               \A x \in calls : x.host = h => steady[c] <= x.age
        PROVE  /\ steady'[c] <= CallLimit
               /\ \A x \in calls' : x.host = h => steady'[c] <= x.age
    <3>1. steady'[c] <= steady[c] + 1  BY <1>7, TickKeeps
    <3>2. steady[c] <= y.age /\ y.age \in Nat  BY <1>0, <2>1, <2>3
    <3>3. ASSUME NEW x \in calls', x.host = h  PROVE steady'[c] <= x.age
      <4>1. PICK z \in calls : z.host = x.host /\ x.age = z.age + 1
        BY <1>7, TickKeeps
      <4>2. z.age \in Nat /\ steady[c] <= z.age  BY <1>0, <2>3, <3>3, <4>1
      <4> QED  BY <2>2, <3>1, <4>1, <4>2
    <3> QED  BY <2>1, <2>2, <3>1, <3>2, <3>3
  <2>4. ASSUME NEW a \in Nat, Live(h, c, a)
        PROVE  (\E b \in Nat : Live(h, c, b))'
    <3>1. Live(h, c, a + 1)'  BY <1>7, <2>4, TickKeeps
    <3> QED  BY <3>1
  <2> QED  BY <1>7, <2>3, <2>4, TickKeeps
<1>8. CASE UNCHANGED balanceVars
  BY <1>8 DEF balanceVars, Wrong, IsCritical, Live
<1> QED
  BY <1>1, <1>2, <1>3, <1>4, <1>5, <1>6, <1>7, <1>8 DEF NodeNext, BalanceStep

(***************************************************************************)
(* While it serves.  Settled(h, c, a) survives each step, the one of time  *)
(* as Settled(h, c, a + 1).                                                *)
(***************************************************************************)
LEMMA SettledStep ==
    ASSUME BalanceTypeOK, CallsHonest, BalanceStep,
           NEW h \in Hosts, NEW c \in Chains \ Flaky, NEW a \in Nat,
           Settled(h, c, a)
    PROVE  Settled(h, c, a)'
<1> USE MaxAgeIsNat DEF Settled
<1>1. ASSUME NEW call \in calls, Read(call)  PROVE Settled(h, c, a)'
  <2>1. steady' = steady  BY <1>1 DEF Read
  <2> QED  BY <1>1, <2>1, ReadKeeps
<1>2. ASSUME NEW call \in calls, Store(call)  PROVE Settled(h, c, a)'
  <2>1. steady' = steady  BY <1>2 DEF Store
  <2>2. CASE call.host = h /\ call.chain = c
    <3>1. call.age \in 0 .. CallLimit /\ steady[c] \in Nat
      BY DEF BalanceTypeOK, Calls
    <3>2. Wrong(h, c)' => steady[c] <= call.age  BY <1>2, <2>2, StoreKeeps
    <3> QED  BY <2>1, <3>1, <3>2
  <2>3. CASE ~ (call.host = h /\ call.chain = c)
    BY <1>2, <2>1, <2>3, StoreKeeps
  <2> QED  BY <2>2, <2>3
<1>3. ASSUME NEW call \in calls, Fails(call)  PROVE Settled(h, c, a)'
  <2>1. steady' = steady  BY <1>3 DEF Fails
  <2> QED  BY <1>3, <2>1, FailsKeeps
<1>4. ASSUME NEW d \in Chains, BalanceCrosses(d)  PROVE Settled(h, c, a)'
  <2>1. CASE c = d
    <3>1. steady'[c] = 0  BY <1>4, <2>1 DEF BalanceCrosses, BalanceTypeOK
    <3> QED  BY <3>1
  <2>2. CASE c # d
    <3>1. steady'[c] = steady[c] /\ side'[c] = side[c]
      BY <1>4, <2>2 DEF BalanceCrosses, BalanceTypeOK
    <3> QED  BY <1>4, <3>1 DEF BalanceCrosses, Wrong, IsCritical, Live
  <2> QED  BY <2>1, <2>2
<1> QED  BY <1>1, <1>2, <1>3, <1>4 DEF BalanceStep

LEMMA SettledTick ==
    ASSUME BalanceTypeOK, NodeTick,
           NEW h \in Hosts, NEW c \in Chains \ Flaky, NEW a \in Nat,
           Settled(h, c, a)
    PROVE  Settled(h, c, a + 1)'
<1>1. steady[c] \in Nat /\ steady'[c] \in Nat /\ steady'[c] <= steady[c] + 1
  BY BalanceTypeStep, TickKeeps, MaxAgeIsNat DEF BalanceTypeOK, NodeNext
<1>2. CASE steady[c] <= a + CallLimit  BY <1>1, <1>2 DEF Settled
<1>3. CASE Live(h, c, a) \/ ~ Wrong(h, c)  BY <1>3, TickKeeps DEF Settled
<1> QED  BY <1>2, <1>3 DEF Settled

LEMMA ServingFreshStep ==
    ASSUME BalanceTypeOK, CallsHonest, BootFresh, ServingFresh,
           [NodeNext]_balanceVars
    PROVE  ServingFresh'
<1> USE DEF ServingFresh
<1>1. CASE BalanceStep
  <2>1. phase' = phase /\ timer' = timer
    BY <1>1 DEF BalanceStep, Read, Store, Fails, BalanceCrosses
  <2>2. \A h \in Hosts, c \in Chains \ Flaky, a \in Nat :
            Settled(h, c, a) => Settled(h, c, a)'
    BY <1>1, SettledStep
  <2>3. \A h \in Hosts : timer[h] \in Nat  BY DEF BalanceTypeOK
  <2>4. \A h \in Hosts, c \in Chains \ Flaky, b \in Nat :
            Covered(h, c, b) => Covered(h, c, b)'
    BY <2>2 DEF Covered
  <2> QED  BY <2>1, <2>2, <2>3, <2>4
<1>2. ASSUME NEW g \in Hosts, Listen(g)  PROVE ServingFresh'
  <2> SUFFICES ASSUME NEW h \in Hosts, NEW c \in Chains \ Flaky,
                      phase'[h] = "serving"
               PROVE  /\ \A a \in Nat : a = timer'[h] => Settled(h, c, a)'
                      /\ \A b \in Nat : Covered(h, c, b)'
    OBVIOUS
  <2>1. \A a \in Nat : Settled(h, c, a) => Settled(h, c, a)'
    BY <1>2 DEF Listen, Settled, Live, Wrong, IsCritical
  <2>2. CASE h = g
    <3>1. phase[h] = "booting" /\ \A x \in calls : x.host # h
      BY <1>2, <2>2 DEF Listen
    <3>2. ~ Wrong(h, c) \/ steady[c] <= CallLimit
      BY <3>1 DEF BootFresh, Live
    <3>3. \A a \in Nat : Settled(h, c, a)
      BY <3>2, MaxAgeIsNat DEF Settled, BalanceTypeOK
    <3>4. timer'[h] \in Nat  BY <1>2, <2>2 DEF Listen, BalanceTypeOK
    <3>5. \A b \in Nat : Covered(h, c, b)'
      <4>1. \A b \in Nat : b + 1 \in Nat /\ b < b + 1 /\ b + 1 <= b + Period
        OBVIOUS
      <4> QED  BY <2>1, <3>3, <4>1 DEF Covered
    <3> QED  BY <2>1, <3>3, <3>4, <3>5
  <2>3. CASE h # g
    <3>1. phase[h] = "serving" /\ timer'[h] = timer[h] /\ timer[h] \in Nat
      BY <1>2, <2>3 DEF Listen, BalanceTypeOK
    <3>2. \A b \in Nat : Covered(h, c, b) => Covered(h, c, b)'
      BY <2>1 DEF Covered
    <3> QED  BY <2>1, <3>1, <3>2
  <2> QED  BY <2>2, <2>3
<1>3. ASSUME NEW g \in Hosts, TimerFires(g)  PROVE ServingFresh'
  <2> SUFFICES ASSUME NEW h \in Hosts, NEW c \in Chains \ Flaky,
                      phase'[h] = "serving"
               PROVE  /\ \A a \in Nat : a = timer'[h] => Settled(h, c, a)'
                      /\ \A b \in Nat : Covered(h, c, b)'
    OBVIOUS
  <2>1. \A a \in Nat : Settled(h, c, a) => Settled(h, c, a)'
    BY <1>3 DEF TimerFires, Settled, Live, Wrong, IsCritical
  <2>2. phase[h] = "serving" /\ timer[h] \in Nat
    BY <1>3 DEF TimerFires, BalanceTypeOK
  <2>3. \A a \in Nat : a = timer'[h] => Settled(h, c, a)'
    <3>1. CASE h = g
      <4>1. timer'[h] = 0  BY <1>3, <3>1 DEF TimerFires, BalanceTypeOK
      <4>2. Live(h, c, 0)'
        BY <1>3, <3>1, NewCallsTyped DEF TimerFires, Live
      <4> QED  BY <4>1, <4>2 DEF Settled
    <3>2. CASE h # g
      BY <1>3, <2>1, <2>2, <3>2 DEF TimerFires, BalanceTypeOK
    <3> QED  BY <3>1, <3>2
  <2>4. \A b \in Nat : Covered(h, c, b) => Covered(h, c, b)'
    BY <2>1 DEF Covered
  <2> QED  BY <2>2, <2>3, <2>4
<1>4. ASSUME NodeTick  PROVE ServingFresh'
  <2> SUFFICES ASSUME NEW h \in Hosts, NEW c \in Chains \ Flaky,
                      phase'[h] = "serving"
               PROVE  /\ \A a \in Nat : a = timer'[h] => Settled(h, c, a)'
                      /\ \A b \in Nat : Covered(h, c, b)'
    OBVIOUS
  <2>1. phase[h] = "serving" /\ timer[h] < Period /\ timer'[h] = timer[h] + 1
    BY <1>4 DEF NodeTick, TimePasses
  <2>2. timer[h] \in Nat  BY DEF BalanceTypeOK
  <2>3. \A a \in Nat : a = timer'[h] => Settled(h, c, a)'
    BY <1>4, <2>1, <2>2, SettledTick
  <2>4. ASSUME NEW b \in Nat
        PROVE  Covered(h, c, b)'
    <3>1. CASE b = 0
      <4>1. timer'[h] \in Nat /\ b < timer'[h] /\ timer'[h] <= b + Period
        BY <2>1, <2>2, <3>1
      <4> QED  BY <2>3, <4>1 DEF Covered
    <3>2. CASE b # 0
      <4>1. b - 1 \in Nat  BY <3>2
      <4>2. PICK a \in Nat : b - 1 < a /\ a <= (b - 1) + Period /\ Settled(h, c, a)
        BY <2>1, <4>1 DEF Covered
      <4>3. a + 1 \in Nat /\ b < a + 1 /\ a + 1 <= b + Period  BY <4>1, <4>2
      <4>4. Settled(h, c, a + 1)'  BY <1>4, <4>2, SettledTick
      <4> QED  BY <4>3, <4>4 DEF Covered
    <3> QED  BY <3>1, <3>2
  <2> QED  BY <2>3, <2>4
<1>5. CASE UNCHANGED balanceVars
  BY <1>5 DEF balanceVars, Covered, Settled, Live, Wrong, IsCritical
<1> QED  BY <1>1, <1>2, <1>3, <1>4, <1>5 DEF NodeNext

-----------------------------------------------------------------------------

LEMMA BalanceInitInv == NodeInit => BalanceInv
<1> SUFFICES ASSUME NodeInit  PROVE BalanceInv
  OBVIOUS
<1>1. BalanceTypeOK
  BY MaxAgeIsNat, NewCallsTyped DEF NodeInit, BalanceInit, BalanceTypeOK, Sides
<1>2. \A x \in calls : x.age = 0 /\ x.seen = "none"
  BY NewCallsTyped DEF NodeInit
<1>3. CallsHonest /\ OneRefresh  BY <1>2 DEF CallsHonest, OneRefresh
<1>4. BootFresh
  <2>1. \A h \in Hosts, c \in Chains : Live(h, c, 0)
    BY NewCallsTyped DEF NodeInit, Live
  <2> QED  BY <2>1 DEF BootFresh
<1>5. ServingFresh  BY DEF NodeInit, ServingFresh
<1> QED  BY <1>1, <1>3, <1>4, <1>5 DEF BalanceInv

LEMMA BalanceInvHolds == NodeSpec => []BalanceInv
<1>1. BalanceInv /\ [NodeNext]_balanceVars => BalanceInv'
  BY BalanceTypeStep, CallsHonestStep, OneRefreshStep, BootFreshStep,
     ServingFreshStep
  DEF BalanceInv
<1> QED  BY BalanceInitInv, <1>1, PTL DEF NodeSpec

(***************************************************************************)
(* A balance that stayed on one side of the threshold for MaxAge is        *)
(* flagged accordingly: among the refreshes that started more than         *)
(* CallLimit ago one is at most CallLimit + Period old; what was stored    *)
(* since was read at most CallLimit before that one started.               *)
(***************************************************************************)
THEOREM FlagsFollowBalances == NodeSpec => []FlagFollowsBalance
<1>1. BalanceInv => FlagFollowsBalance
  <2> SUFFICES ASSUME BalanceInv, NEW h \in Hosts, NEW c \in Chains \ Flaky,
                      phase[h] = "serving", steady[c] = MaxAge
               PROVE  ~ Wrong(h, c)
    BY DEF FlagFollowsBalance, Wrong
  <2>1. Covered(h, c, CallLimit)  BY DEF BalanceInv, ServingFresh
  <2>2. PICK a \in Nat : /\ CallLimit < a /\ a <= CallLimit + Period
                        /\ Settled(h, c, a)
    BY <2>1 DEF Covered
  <2>3. ~ Live(h, c, a)
    BY <2>2 DEF BalanceInv, BalanceTypeOK, Calls, Live
  <2>4. ~ (steady[c] <= a + CallLimit)
    BY <2>2 DEF MaxAge
  <2> QED  BY <2>2, <2>3, <2>4 DEF Settled
<1> QED  BY BalanceInvHolds, <1>1, PTL
=============================================================================
