------------------------- MODULE PayingClientProofs --------------------------
(***************************************************************************)
(* Theorems about PayingClient, for any requirements, clocks, grace, calls *)
(* and payments.                                                           *)
(***************************************************************************)
EXTENDS PayingClient, TLAPS

USE ChecksAssumption, ClientAssumption, GraceAssumption

allVars == <<vars, clientVars>>

(***************************************************************************)
(* Signer and verifier agree on the window: pure arithmetic on their two   *)
(* clocks.                                                                 *)
(***************************************************************************)
LEMMA WindowAgrees ==
    ASSUME NEW s \in Int, NEW t \in Int, NEW d \in Int, NEW m \in Nat,
           t <= s, d <= Grace, s - t < m + d - Grace, 0 <= s
    PROVE  CheckTimeWindow(0, t + d + m, s, {m}) = "ok"
BY DEF CheckTimeWindow

(***************************************************************************)
(* The inductive invariant.                                                *)
(***************************************************************************)
PayloadInv ==
    \A k \in DOMAIN payload :
        \E q \in Quotes, t \in 0..now, c \in Canonical :
            payload[k] = SignPaymentPayload(q, k, t + skew, c)

PostInv ==
    /\ DOMAIN post = {r \in Requests : call[r] # "idle"}
    /\ posted \subseteq DOMAIN post
    /\ \A r \in DOMAIN post :
           /\ asks[r] \in DOMAIN payload
           /\ post[r].tool \in Tools
           /\ post[r].paymentRequirements \in Quotes
           /\ post[r].paymentPayload.authorization = payload[asks[r]].authorization
           /\ post[r].paymentPayload.signature = payload[asks[r]].signature

SignedInv ==
    /\ signed \in Seq(Keys)
    /\ \A i \in 1..Len(signed) : signed[i] \in DOMAIN payload
    /\ \A k \in DOMAIN payload : \E i \in 1..Len(signed) : k = signed[i]
    /\ \A i, j \in 1..Len(signed) : signed[i] = signed[j] => i = j
    /\ kept \subseteq DOMAIN payload

(* Calls for a payment that was given up have come back without success.   *)
Abandoned(k) == \E i \in 1..Len(signed) : i < Len(signed) /\ signed[i] = k
CallInv ==
    /\ call \in [Requests -> {"idle"} \cup Underway \cup Outcomes]
    /\ \A r \in Requests :
           Abandoned(asks[r]) => call[r] \notin Underway \cup {"success"}

ServerInv ==
    /\ asks \in [Requests -> Keys]
    /\ told \in [Requests -> {"nothing", "success", "refused", "unclear"}]
    /\ sent \subseteq posted
    /\ \A k \in paid : \E r \in sent : asks[r] = k
    /\ \A r \in Requests :
           /\ told[r] = "success" => asks[r] \in paid
           /\ told[r] = "refused" => r \notin sent
           /\ call[r] = "success" => told[r] = "success"
           /\ call[r] = "refused" => told[r] = "refused"
           /\ call[r] \in {"verifying", "invalid"} => r \notin posted

ClockInv ==
    /\ now \in 0..Horizon
    /\ skew \in Skews

ClientInv ==
    ClockInv /\ PayloadInv /\ PostInv /\ SignedInv /\ CallInv /\ ServerInv /\ SentIsSigned

LEMMA PayloadShape ==
    ASSUME PayloadInv, NEW k \in DOMAIN payload
    PROVE  \E q \in Quotes, t \in 0..now, c \in Canonical :
               LET a == payload[k].authorization
                   g == payload[k].signature
               IN  /\ payload[k].accepted = q
                   /\ a.from = Agent /\ a.to = q.payTo /\ a.nonce = k
                   /\ a.value = Plain(q.amount)
                   /\ a.validAfter = 0 /\ a.validBefore = t + skew + q.maxTimeout
                   /\ g.by = Agent /\ g.canonical = c
                   /\ g.over = Digest(ChainOf[q.network], a)
<1>1. PICK q \in Quotes, t \in 0..now, c \in Canonical :
          payload[k] = SignPaymentPayload(q, k, t + skew, c)
  BY DEF PayloadInv
<1> DEFINE a == payload[k].authorization
           g == payload[k].signature
<1>2. /\ payload[k].accepted = q
      /\ a.from = Agent /\ a.to = q.payTo /\ a.nonce = k
      /\ a.value = Plain(q.amount)
      /\ a.validAfter = 0 /\ a.validBefore = t + skew + q.maxTimeout
  BY <1>1 DEF SignPaymentPayload, SignedValue
<1>3. /\ g.by = Agent /\ g.canonical = c
      /\ g.over = Digest(ChainOf[q.network], a)
  BY <1>1 DEF SignPaymentPayload
<1> QED
  BY <1>2, <1>3

LEMMA InitInv == ClientInit => ClientInv
<1> SUFFICES ASSUME ClientInit PROVE ClientInv
  OBVIOUS
<1> USE DEF ClientInit, Init
<1>0. DOMAIN payload = {} /\ DOMAIN post = {} /\ Len(signed) = 0
  OBVIOUS
<1>1. ClockInv
  BY DEF ClockInv
<1>2. PayloadInv
  BY <1>0 DEF PayloadInv
<1>3. PostInv
  BY <1>0 DEF PostInv
<1>4. SignedInv
  <2>1. signed \in Seq(Keys)
    OBVIOUS
  <2> QED
    BY <1>0, <2>1 DEF SignedInv
<1>5. CallInv
  BY <1>0 DEF CallInv, Abandoned, Underway
<1>6. ServerInv
  BY DEF ServerInv
<1>7. SentIsSigned
  BY DEF SentIsSigned
<1> QED
  BY <1>1, <1>2, <1>3, <1>4, <1>5, <1>6, <1>7 DEF ClientInv

(***************************************************************************)
(* What signing does to the invariant.                                     *)
(***************************************************************************)
LEMMA SignAdds ==
    ASSUME ClientInv, NEW k \in Keys, NEW q \in Quotes, Sign(k, q),
           now' = now, skew' = skew
    PROVE  /\ DOMAIN payload' = DOMAIN payload \cup {k}
           /\ \A y \in DOMAIN payload : payload'[y] = payload[y]
           /\ PayloadInv'
<1>1. PICK c \in Canonical :
          payload' = With(payload, k, SignPaymentPayload(q, k, now + skew, c))
  BY DEF Sign
<1>2. DOMAIN payload' = DOMAIN payload \cup {k}
  BY <1>1 DEF With
<1>3. \A y \in DOMAIN payload : payload'[y] = payload[y]
  BY <1>1 DEF With, Sign
<1>4. payload'[k] = SignPaymentPayload(q, k, now + skew, c)
  BY <1>1 DEF With
<1>5. now \in 0..now
  BY DEF ClientInv, ClockInv
<1>6. PayloadInv'
  <2> SUFFICES ASSUME NEW y \in DOMAIN payload'
               PROVE  \E p \in Quotes, t \in 0..now, d \in Canonical :
                          payload'[y] = SignPaymentPayload(p, y, t + skew, d)
    BY DEF PayloadInv, SignPaymentPayload, SignedValue, Digest
  <2>1. CASE y = k
    BY <2>1, <1>4, <1>5
  <2>2. CASE y # k
    BY <2>2, <1>2, <1>3 DEF ClientInv, PayloadInv
  <2> QED
    BY <2>1, <2>2
<1> QED
  BY <1>2, <1>3, <1>6

LEMMA SignAppends ==
    ASSUME ClientInv, NEW k \in Keys, NEW q \in Quotes, Sign(k, q),
           now' = now, skew' = skew, kept' \subseteq kept \cup {k}
    PROVE  /\ SignedInv'
           /\ \A i \in 1..Len(signed') : i < Len(signed') => signed'[i] \in DOMAIN payload
<1> USE DEF ClientInv, SignedInv
<1>1. signed' = Append(signed, k) /\ k \notin DOMAIN payload
  BY DEF Sign
<1>2. /\ signed' \in Seq(Keys)
      /\ Len(signed') = Len(signed) + 1
      /\ signed'[Len(signed')] = k
      /\ \A i \in 1..Len(signed) : signed'[i] = signed[i]
  BY <1>1
<1>3. DOMAIN payload' = DOMAIN payload \cup {k}
  BY SignAdds
<1>4. /\ \A i \in 1..Len(signed') : signed'[i] \in DOMAIN payload'
      /\ \A y \in DOMAIN payload' : \E i \in 1..Len(signed') : y = signed'[i]
  <2>1. \A i \in 1..Len(signed') : signed'[i] \in DOMAIN payload'
    BY <1>2, <1>3
  <2>2. ASSUME NEW y \in DOMAIN payload'
        PROVE  \E i \in 1..Len(signed') : y = signed'[i]
    <3>1. CASE y = k
      BY <3>1, <1>2
    <3>2. CASE y # k
      <4>1. PICK i \in 1..Len(signed) : y = signed[i]
        BY <3>2, <1>3
      <4> QED
        BY <4>1, <1>2
    <3> QED
      BY <3>1, <3>2
  <2> QED
    BY <2>1, <2>2
<1>5. \A i \in 1..Len(signed) : signed'[i] \in DOMAIN payload
  BY <1>2
<1>6. \A i, j \in 1..Len(signed') : signed'[i] = signed'[j] => i = j
  BY <1>1, <1>2, <1>5
<1>7. kept' \subseteq DOMAIN payload'
  BY <1>3
<1>8. \A i \in 1..Len(signed') : i < Len(signed') => signed'[i] \in DOMAIN payload
  BY <1>2, <1>5
<1>9. SignedInv'
  BY <1>2, <1>4, <1>6, <1>7
<1> QED
  BY <1>8, <1>9

(***************************************************************************)
(* The invariant of the posts where payloads stay and one call begins.     *)
(***************************************************************************)
LEMMA BeginKeepsPosts ==
    ASSUME ClientInv, NEW r \in Requests, NEW tool \in Tools, NEW p, NEW q \in Quotes,
           NEW how \in Underway, Begin(r, tool, p, q, how),
           asks' = asks, posted' \subseteq posted \cup {r},
           asks[r] \in DOMAIN payload',
           DOMAIN payload \subseteq DOMAIN payload',
           \A y \in DOMAIN payload : payload'[y] = payload[y],
           p.authorization = payload'[asks[r]].authorization,
           p.signature = payload'[asks[r]].signature
    PROVE  /\ PostInv'
           /\ r \notin posted
           /\ \A x \in DOMAIN post : post'[x] = post[x]
<1> USE DEF ClientInv, PostInv, Begin
<1>1. call[r] = "idle" /\ call \in [Requests -> {"idle"} \cup Underway \cup Outcomes]
  BY DEF CallInv
<1>2. r \notin DOMAIN post
  BY <1>1
<1>3. DOMAIN post' = DOMAIN post \cup {r}
  BY DEF With
<1>4. /\ \A x \in DOMAIN post : post'[x] = post[x]
      /\ post'[r] = [tool |-> tool, paymentPayload |-> p, paymentRequirements |-> q]
  BY <1>2 DEF With
<1>5. call'[r] # "idle" /\ \A x \in Requests : x # r => call'[x] = call[x]
  BY <1>1 DEF Underway
<1>6. DOMAIN post' = {x \in Requests : call'[x] # "idle"}
  BY <1>2, <1>3, <1>5
<1>7. posted' \subseteq DOMAIN post'
  BY <1>3
<1>8. ASSUME NEW x \in DOMAIN post'
      PROVE  /\ asks'[x] \in DOMAIN payload'
             /\ post'[x].tool \in Tools
             /\ post'[x].paymentRequirements \in Quotes
             /\ post'[x].paymentPayload.authorization = payload'[asks'[x]].authorization
             /\ post'[x].paymentPayload.signature = payload'[asks'[x]].signature
  <2>1. CASE x = r
    BY <2>1, <1>4
  <2>2. CASE x # r
    BY <2>2, <1>3, <1>4
  <2> QED
    BY <2>1, <2>2
<1> QED
  BY <1>2, <1>4, <1>6, <1>7, <1>8

(* A call that goes on or ends leaves the posts as they are.               *)
LEMMA MovesKeepPosts ==
    ASSUME ClientInv, NEW r \in Requests, call[r] # "idle",
           NEW what, what # "idle", call' = [call EXCEPT ![r] = what],
           UNCHANGED <<asks, post, payload>>, posted' \subseteq posted \cup {r}
    PROVE  PostInv'
<1> USE DEF ClientInv, PostInv
<1>1. call \in [Requests -> {"idle"} \cup Underway \cup Outcomes]
  BY DEF CallInv
<1>2. {x \in Requests : call'[x] # "idle"} = {x \in Requests : call[x] # "idle"}
  BY <1>1
<1>3. r \in DOMAIN post
  OBVIOUS
<1> QED
  BY <1>2, <1>3

LEMMA SentStaysSigned ==
    ASSUME ClientInv, UNCHANGED <<sent, asks>>,
           \A x \in DOMAIN post : post'[x] = post[x],
           \A y \in DOMAIN payload : payload'[y] = payload[y]
    PROVE  SentIsSigned'
<1> SUFFICES ASSUME NEW r \in sent
             PROVE  /\ post'[r] = post[r]
                    /\ payload'[asks'[r]] = payload[asks[r]]
  BY DEF ClientInv, SentIsSigned
<1> QED
  BY DEF ClientInv, ServerInv, PostInv

(* Where nothing is signed, only the clock and the payloads given matter.  *)
LEMMA PayloadsStay ==
    ASSUME ClientInv, UNCHANGED <<skew, payload, signed>>,
           now' \in now..Horizon, kept' \subseteq DOMAIN payload
    PROVE  ClockInv' /\ PayloadInv' /\ SignedInv'
<1>1. now \in 0..Horizon
  BY DEF ClientInv, ClockInv
<1>2. ClockInv'
  BY <1>1 DEF ClientInv, ClockInv
<1>3. PayloadInv'
  <2> SUFFICES ASSUME NEW k \in DOMAIN payload
               PROVE  \E q \in Quotes, t \in 0..now', c \in Canonical :
                          payload[k] = SignPaymentPayload(q, k, t + skew, c)
    BY DEF PayloadInv, SignPaymentPayload, SignedValue, Digest
  <2>1. \A t \in 0..now : t \in 0..now'
    BY <1>1
  <2> QED
    BY <2>1 DEF ClientInv, PayloadInv
<1>4. SignedInv'
  BY DEF ClientInv, SignedInv
<1> QED
  BY <1>2, <1>3, <1>4

(***************************************************************************)
(* Every action keeps the invariant.                                       *)
(***************************************************************************)
LEMMA CreateKeepsInv ==
    ASSUME ClientInv, NEW k \in Keys, NEW q \in Quotes, CreatePayment(k, q)
    PROVE  ClientInv'
<1> USE DEF CreatePayment, vars
<1>1. Sign(k, q)
  OBVIOUS
<1>2. PayloadInv' /\ \A y \in DOMAIN payload : payload'[y] = payload[y]
  BY SignAdds
<1>3. DOMAIN payload \subseteq DOMAIN payload'
  BY SignAdds
<1>4. SignedInv' /\ \A i \in 1..Len(signed') : i < Len(signed') => signed'[i] \in DOMAIN payload
  BY SignAppends
<1>5. PostInv'
  BY <1>2, <1>3 DEF ClientInv, PostInv
<1>6. CallInv'
  BY DEF ClientInv, CallInv, Sign, MayPayAnew
<1>7. ServerInv' /\ ClockInv'
  BY DEF ClientInv, ServerInv, ClockInv
<1>8. SentIsSigned'
  BY <1>2, SentStaysSigned
<1> QED
  BY <1>2, <1>4, <1>5, <1>6, <1>7, <1>8 DEF ClientInv

(* The two tools that sign and begin a call at once. *)
LEMMA SignAndBeginKeepsInv ==
    ASSUME ClientInv, NEW r \in Requests, NEW q \in Quotes, NEW q2 \in Quotes,
           NEW tool \in Tools, NEW how \in Underway,
           Sign(asks[r], q), Begin(r, tool, payload'[asks[r]], q2, how),
           posted' \subseteq posted \cup {r}, posted \subseteq posted',
           how = "verifying" => posted' = posted,
           UNCHANGED <<vars, now, skew, kept>>
    PROVE  ClientInv'
<1> USE DEF vars
<1>1. asks[r] \in Keys
  BY DEF ClientInv, ServerInv
<1>2. /\ PayloadInv'
      /\ \A y \in DOMAIN payload : payload'[y] = payload[y]
      /\ DOMAIN payload' = DOMAIN payload \cup {asks[r]}
  BY <1>1, SignAdds
<1>3. /\ SignedInv'
      /\ \A i \in 1..Len(signed') : i < Len(signed') => signed'[i] \in DOMAIN payload
  BY <1>1, SignAppends
<1>4. PostInv' /\ r \notin posted /\ \A x \in DOMAIN post : post'[x] = post[x]
  <2> DEFINE p == payload'[asks[r]]
  <2>1. Begin(r, tool, p, q2, how)
    OBVIOUS
  <2>2. asks[r] \in DOMAIN payload' /\ DOMAIN payload \subseteq DOMAIN payload'
    BY <1>2
  <2> QED
    BY <1>2, <2>1, <2>2, BeginKeepsPosts
<1>5. call \in [Requests -> {"idle"} \cup Underway \cup Outcomes]
  BY DEF ClientInv, CallInv
<1>6. call' = [call EXCEPT ![r] = how]
  BY DEF Begin
<1>7. CallInv'
  <2>1. call' \in [Requests -> {"idle"} \cup Underway \cup Outcomes]
    BY <1>5, <1>6
  <2>2. ASSUME NEW x \in Requests, Abandoned(asks[x])'
        PROVE  call'[x] \notin Underway \cup {"success"}
    <3>1. asks[x] \in DOMAIN payload
      BY <1>3, <2>2 DEF Abandoned
    <3>2. x # r
      BY <3>1 DEF Sign
    <3> QED
      BY <3>2, <1>5, <1>6 DEF Sign, MayPayAnew
  <2> QED
    BY <2>1, <2>2 DEF CallInv
<1>8. ServerInv'
  <2>1. \A x \in Requests : x # r => call'[x] = call[x]
    BY <1>5, <1>6
  <2>2. call'[r] = how /\ how \notin {"success", "refused", "invalid"}
    BY <1>5, <1>6 DEF Underway
  <2>3. sent \subseteq posted'
    BY DEF ClientInv, ServerInv
  <2>4. ASSUME NEW x \in Requests, call'[x] \in {"verifying", "invalid"}
        PROVE  x \notin posted'
    <3>1. CASE x = r
      BY <3>1, <2>2, <2>4, <1>4
    <3>2. CASE x # r
      BY <3>2, <2>1, <2>4 DEF ClientInv, ServerInv
    <3> QED
      BY <3>1, <3>2
  <2>5. \A x \in Requests : call'[x] \in {"success", "refused"} => call[x] = call'[x]
    BY <2>1, <2>2
  <2> QED
    BY <2>3, <2>4, <2>5 DEF ClientInv, ServerInv
<1>9. SentIsSigned' /\ ClockInv'
  BY <1>2, <1>4, SentStaysSigned DEF ClientInv, ClockInv
<1> QED
  BY <1>2, <1>3, <1>4, <1>7, <1>8, <1>9 DEF ClientInv

LEMMA SettleKeepsInv ==
    ASSUME ClientInv, NEW r \in Requests, NEW q \in Quotes, SettlePayment(r, q)
    PROVE  ClientInv'
<1> USE DEF SettlePayment, vars
<1>1. asks[r] \in DOMAIN payload
  BY DEF ClientInv, SignedInv
<1>2. PICK p \in {payload[asks[r]], [payload[asks[r]] EXCEPT !.accepted = q]} :
          Begin(r, "settle", p, q, "settling")
  OBVIOUS
<1>3. /\ p.authorization = payload[asks[r]].authorization
      /\ p.signature = payload[asks[r]].signature
  BY <1>1, <1>2 DEF ClientInv, PayloadInv, SignPaymentPayload
<1>4. PostInv' /\ r \notin posted /\ \A x \in DOMAIN post : post'[x] = post[x]
  <2>1. "settle" \in Tools /\ "settling" \in Underway
    BY DEF Tools, Underway
  <2>2. asks' = asks /\ payload' = payload /\ posted' \subseteq posted \cup {r}
    OBVIOUS
  <2> QED
    BY <1>1, <1>2, <1>3, <2>1, <2>2, BeginKeepsPosts
<1>5. call \in [Requests -> {"idle"} \cup Underway \cup Outcomes]
  BY DEF ClientInv, CallInv
<1>6. call' = [call EXCEPT ![r] = "settling"]
  BY <1>2 DEF Begin
<1>7. ~Abandoned(asks[r])
  BY DEF Abandoned, ClientInv, SignedInv
<1>8. CallInv'
  BY <1>5, <1>6, <1>7 DEF ClientInv, CallInv, Underway, Abandoned
<1>9. ServerInv'
  BY <1>4, <1>5, <1>6 DEF ClientInv, ServerInv
<1>10. SentIsSigned'
  BY <1>4, SentStaysSigned
<1>11. UNCHANGED <<now, skew, payload, signed, kept>>
  OBVIOUS
<1> QED
  <2>1. now' \in now..Horizon /\ kept' \subseteq DOMAIN payload
    BY <1>11 DEF ClientInv, ClockInv, SignedInv
  <2> QED
    BY <1>4, <1>8, <1>9, <1>10, <1>11, <2>1, PayloadsStay DEF ClientInv

(* A call that ends with what the facilitator told, or without.            *)
LEMMA EndKeepsInv ==
    ASSUME ClientInv, NEW r \in Requests, NEW outcome \in Outcomes,
           call[r] \in Underway, End(r, outcome),
           outcome \in {"success", "refused"} => told[r] = outcome,
           outcome = "invalid" => call[r] = "verifying",
           UNCHANGED <<vars, now, skew, payload, signed, post, posted>>
    PROVE  ClientInv'
<1> USE DEF vars
<1>1. /\ call \in [Requests -> {"idle"} \cup Underway \cup Outcomes]
      /\ call' = [call EXCEPT ![r] = outcome]
  BY DEF ClientInv, CallInv, End
<1>2. call[r] # "idle" /\ outcome # "idle"
  BY DEF Underway, Outcomes
<1>3. PostInv'
  BY <1>1, <1>2, MovesKeepPosts
<1>4. ClockInv' /\ PayloadInv' /\ SignedInv'
  <2>1. asks[r] \in DOMAIN payload
    BY <1>2 DEF ClientInv, PostInv
  <2>2. now' \in now..Horizon /\ kept' \subseteq DOMAIN payload
    BY <2>1 DEF End, ClientInv, ClockInv, SignedInv
  <2> QED
    BY <2>2, PayloadsStay
<1>5. CallInv'
  BY <1>1 DEF ClientInv, CallInv, Abandoned, Underway, Outcomes
<1>6. ServerInv'
  BY <1>1 DEF ClientInv, ServerInv, Underway, Outcomes
<1>7. SentIsSigned'
  BY SentStaysSigned
<1> QED
  BY <1>3, <1>4, <1>5, <1>6, <1>7 DEF ClientInv

LEMMA CallsKeepInv ==
    ASSUME ClientInv, NEW r \in Requests,
           VerifyInvalid(r) \/ Hear(r) \/ GiveUp(r)
    PROVE  ClientInv'
<1>1. CASE VerifyInvalid(r)
  BY <1>1, EndKeepsInv DEF VerifyInvalid, Underway, Outcomes
<1>2. CASE Hear(r)
  <2>1. PICK outcome \in Read(told[r]) : End(r, outcome)
    BY <1>2 DEF Hear
  <2>2. told[r] \in {"success", "refused", "unclear"}
    BY <1>2 DEF Hear, ClientInv, ServerInv
  <2>3. /\ outcome \in Outcomes /\ outcome # "invalid"
        /\ outcome \in {"success", "refused"} => told[r] = outcome
    BY <2>1, <2>2 DEF Read, Outcomes
  <2> QED
    BY <1>2, <2>1, <2>3, EndKeepsInv DEF Hear, Underway
<1>3. CASE GiveUp(r)
  BY <1>3, EndKeepsInv DEF GiveUp, Outcomes
<1> QED
  BY <1>1, <1>2, <1>3

LEMMA VerifyValidKeepsInv ==
    ASSUME ClientInv, NEW r \in Requests, VerifyValid(r)
    PROVE  ClientInv'
<1> USE DEF VerifyValid, vars
<1>1. call \in [Requests -> {"idle"} \cup Underway \cup Outcomes]
  BY DEF ClientInv, CallInv
<1>2. PostInv'
  BY MovesKeepPosts
<1>3. ClockInv' /\ PayloadInv' /\ SignedInv'
  <2>1. now' \in now..Horizon /\ kept' \subseteq DOMAIN payload
    BY DEF ClientInv, ClockInv, SignedInv
  <2> QED
    BY <2>1, PayloadsStay
<1>4. CallInv'
  BY <1>1 DEF ClientInv, CallInv, Abandoned, Underway
<1>5. ServerInv'
  BY <1>1 DEF ClientInv, ServerInv
<1>6. SentIsSigned'
  BY SentStaysSigned
<1> QED
  BY <1>2, <1>3, <1>4, <1>5, <1>6 DEF ClientInv

(* The facilitator's steps leave the client as it is. *)
LEMMA ServerLeavesClient ==
    ASSUME ClientInv, UNCHANGED clientVars, asks' = asks
    PROVE  ClockInv' /\ PayloadInv' /\ PostInv' /\ SignedInv' /\ CallInv'
<1> USE DEF clientVars
<1>1. ClockInv' /\ PayloadInv' /\ SignedInv'
  <2>1. now' \in now..Horizon /\ kept' \subseteq DOMAIN payload
    BY DEF ClientInv, ClockInv, SignedInv
  <2> QED
    BY <2>1, PayloadsStay
<1>2. PostInv' /\ CallInv'
  BY DEF ClientInv, PostInv, CallInv, Abandoned
<1> QED
  BY <1>1, <1>2

LEMMA CheckedIsSigned ==
    ASSUME NEW p, NEW q, NEW s, Checked(p, q, s) = "ok"
    PROVE  /\ ChainOf[q.network] \in Enabled
           /\ q.asset = Token
           /\ SignatureHolds(p, q)
           /\ p.authorization.value = q.amount
           /\ p.authorization.to = q.payTo
BY DEF Checked, ValueMatches

LEMMA ServerSendsKeepsInv ==
    ASSUME ClientInv, NEW r \in Requests, ServerSends(r)
    PROVE  ClientInv'
<1> USE DEF ServerSends
<1>1. /\ r \in posted /\ told[r] = "nothing" /\ sent' = sent \cup {r}
      /\ UNCHANGED <<asks, paid>> /\ UNCHANGED clientVars
      /\ UNCHANGED told \/ told' = [told EXCEPT ![r] = "unclear"]
  BY DEF Send, Tell
<1>2. ServerInv'
  BY <1>1 DEF ClientInv, ServerInv, clientVars
<1>3. SentIsSigned'
  <2> DEFINE q == post[r].paymentRequirements
             a == post[r].paymentPayload.authorization
             g == post[r].paymentPayload.signature
  <2>1. /\ ChainOf[q.network] \in Enabled /\ q.asset = Token
        /\ g.over = Digest(ChainOf[q.network], a)
        /\ a.value = q.amount /\ a.to = q.payTo
    BY CheckedIsSigned DEF Refusal, SignatureHolds
  <2>2. /\ r \in DOMAIN post /\ asks[r] \in DOMAIN payload
        /\ a = payload[asks[r]].authorization /\ g = payload[asks[r]].signature
    BY <1>1 DEF ClientInv, PostInv
  <2>3. a.from = Agent /\ a.nonce = asks[r]
    BY <2>2, PayloadShape DEF ClientInv
  <2>4. /\ g.over.chain = ChainOf[q.network] /\ g.over.to = q.payTo
        /\ g.over.value = Number(q.amount)
        /\ g.over.from = Agent /\ g.over.nonce = asks[r]
    BY <2>1, <2>3 DEF Digest
  <2> HIDE DEF q, a, g
  <2>5. SentIsSigned
    BY DEF ClientInv
  <2> QED
    BY <1>1, <2>1, <2>2, <2>4, <2>5 DEF SentIsSigned, clientVars, q, g
<1> QED
  BY <1>1, <1>2, <1>3, ServerLeavesClient DEF ClientInv

LEMMA ServerTellsKeepsInv ==
    ASSUME ClientInv, NEW r \in Requests, ServerTells(r)
    PROVE  ClientInv'
<1> USE DEF ServerTells
<1>1. /\ told[r] = "nothing" /\ UNCHANGED <<asks, sent, paid>> /\ UNCHANGED clientVars
      /\ \E what \in {"success", "refused", "unclear"} :
             /\ told' = [told EXCEPT ![r] = what]
             /\ what = "success" => asks[r] \in paid
             /\ what = "refused" => r \notin sent
  BY DEF TellSuccess, TellRefused, TellUnclear, Tell
<1>2. ServerInv'
  BY <1>1 DEF ClientInv, ServerInv, clientVars
<1>3. SentIsSigned'
  BY <1>1, SentStaysSigned DEF clientVars
<1> QED
  BY <1>1, <1>2, <1>3, ServerLeavesClient DEF ClientInv

LEMMA ExecutesKeepsInv ==
    ASSUME ClientInv, NEW k \in Keys, Executes(k)
    PROVE  ClientInv'
<1> USE DEF Executes, Pay
<1>1. ServerInv'
  BY DEF ClientInv, ServerInv, clientVars
<1>2. SentIsSigned'
  BY SentStaysSigned DEF clientVars
<1> QED
  BY <1>1, <1>2, ServerLeavesClient DEF ClientInv

LEMMA TickKeepsInv ==
    ASSUME ClientInv, Tick
    PROVE  ClientInv'
<1> USE DEF Tick, vars
<1>1. now' \in now..Horizon /\ kept' \subseteq DOMAIN payload
  BY DEF ClientInv, ClockInv, SignedInv
<1>2. ClockInv' /\ PayloadInv' /\ SignedInv'
  BY <1>1, PayloadsStay
<1>3. PostInv' /\ CallInv' /\ ServerInv'
  BY DEF ClientInv, PostInv, CallInv, ServerInv, Abandoned
<1>4. SentIsSigned'
  BY SentStaysSigned
<1> QED
  BY <1>2, <1>3, <1>4 DEF ClientInv

LEMMA NextKeepsInv == ClientInv /\ [ClientNext]_allVars => ClientInv'
<1> SUFFICES ASSUME ClientInv, [ClientNext]_allVars PROVE ClientInv'
  OBVIOUS
<1>1. ASSUME NEW k \in Keys, NEW q \in Quotes, CreatePayment(k, q) PROVE ClientInv'
  BY <1>1, CreateKeepsInv
<1>2. ASSUME NEW r \in Requests, NEW q \in Quotes, SettlePayment(r, q) PROVE ClientInv'
  BY <1>2, SettleKeepsInv
<1>3. ASSUME NEW r \in Requests, NEW q \in Quotes, CreateAndSettle(r, q) PROVE ClientInv'
  <2>1. "create_and_settle" \in Tools /\ "verifying" \in Underway
    BY DEF Tools, Underway
  <2>2. /\ Sign(asks[r], q)
        /\ Begin(r, "create_and_settle", payload'[asks[r]], q, "verifying")
        /\ UNCHANGED <<vars, now, skew, kept>> /\ posted' = posted
    BY <1>3 DEF CreateAndSettle
  <2> QED
    BY <2>1, <2>2, SignAndBeginKeepsInv
<1>4. ASSUME NEW r \in Requests, NEW q1 \in Quotes, NEW q2 \in Quotes,
             FetchWithPayment(r, q1, q2)
      PROVE  ClientInv'
  <2>1. "fetch" \in Tools /\ "settling" \in Underway
    BY DEF Tools, Underway
  <2>2. /\ Sign(asks[r], q1)
        /\ Begin(r, "fetch", payload'[asks[r]], q2, "settling")
        /\ UNCHANGED <<vars, now, skew, kept>> /\ posted' = posted \cup {r}
    BY <1>4 DEF FetchWithPayment
  <2> QED
    BY <2>1, <2>2, SignAndBeginKeepsInv
<1>5. ASSUME NEW r \in Requests,
             \/ VerifyInvalid(r) \/ VerifyValid(r) \/ Hear(r) \/ GiveUp(r)
             \/ ServerSends(r) \/ ServerTells(r)
      PROVE  ClientInv'
  BY <1>5, CallsKeepInv, VerifyValidKeepsInv, ServerSendsKeepsInv, ServerTellsKeepsInv
<1>6. ASSUME NEW k \in Keys, Executes(k) PROVE ClientInv'
  BY <1>6, ExecutesKeepsInv
<1>7. CASE Tick
  BY <1>7, TickKeepsInv
<1>8. CASE UNCHANGED allVars
  <2>1. UNCHANGED clientVars /\ UNCHANGED vars
    BY <1>8 DEF allVars
  <2>2. ServerInv' /\ SentIsSigned'
    BY <2>1, SentStaysSigned DEF ClientInv, ServerInv, clientVars, vars
  <2> QED
    BY <2>1, <2>2, ServerLeavesClient DEF ClientInv, vars
<1> QED
  BY <1>1, <1>2, <1>3, <1>4, <1>5, <1>6, <1>7, <1>8 DEF ClientNext

LEMMA InvAlways == ClientSpec => []ClientInv
<1> QED
  BY InitInv, NextKeepsInv, PTL DEF ClientSpec, allVars

(***************************************************************************)
(* What the invariant implies.                                             *)
(***************************************************************************)

(* Payloads, calls and posts keep their types. *)
THEOREM ClientTypeCorrect == ClientSpec => []ClientTypeOK
<1>1. ClientInv => ClientTypeOK
  <2> SUFFICES ASSUME ClientInv PROVE ClientTypeOK
    OBVIOUS
  <2>1. signed \in Seq(DOMAIN payload)
    BY DEF ClientInv, SignedInv
  <2>2. DOMAIN payload \subseteq Keys
    BY DEF ClientInv, SignedInv
  <2>3. ASSUME NEW k \in DOMAIN payload
        PROVE  /\ payload[k].accepted \in Quotes
               /\ Authorization(k).nonce = k /\ Authorization(k).from = Agent
               /\ Authorization(k).value.n \in Nat /\ Authorization(k).value.zeros = 0
               /\ Authorization(k).validBefore \in Int
    <3>1. PICK q \in Quotes, t \in 0..now :
              /\ payload[k].accepted = q
              /\ Authorization(k).nonce = k /\ Authorization(k).from = Agent
              /\ Authorization(k).value = Plain(q.amount)
              /\ Authorization(k).validBefore = t + skew + q.maxTimeout
      BY PayloadShape DEF ClientInv, Authorization
    <3>2. skew \in Int /\ t \in Int /\ q.maxTimeout \in Int /\ q.amount.n \in Nat
      BY DEF ClientInv, ClockInv
    <3> QED
      BY <3>1, <3>2 DEF Plain
  <2> QED
    BY <2>1, <2>2, <2>3 DEF ClientTypeOK, ClientInv, ClockInv, SignedInv, CallInv, PostInv
<1> QED
  BY <1>1, InvAlways, PTL

(* A reported success is paid, and what is reported refused or invalid is  *)
(* never sent, however late a call's answer is read.                       *)
THEOREM ReportsTrue == ClientSpec => []ReportsAreTrue
<1>1. ClientInv => ReportsAreTrue
  BY DEF ClientInv, ServerInv, ReportsAreTrue
<1> QED
  BY <1>1, InvAlways, PTL

(* Only what the agent signed is sent, for any requirements it is settled  *)
(* with.                                                                   *)
THEOREM SentWasSigned == ClientSpec => []SentIsSigned
<1>1. ClientInv => SentIsSigned
  BY DEF ClientInv
<1> QED
  BY <1>1, InvAlways, PTL

(* An earlier payment that is made beside a later one has a call in doubt. *)
THEOREM DoubtBeforeSecondPayment == ClientSpec => []SecondPaymentNeedsDoubt
<1>1. ClientInv => SecondPaymentNeedsDoubt
  <2> SUFFICES ASSUME ClientInv, NEW i \in DOMAIN signed, NEW j \in DOMAIN signed,
                      i < j, signed[i] \in paid
               PROVE  \E r \in posted : asks[r] = signed[i] /\ call[r] \in {"threw", "unclear"}
    BY DEF SecondPaymentNeedsDoubt
  <2>1. PICK r \in sent : asks[r] = signed[i]
    BY DEF ClientInv, ServerInv
  <2>2. r \in posted /\ r \in Requests /\ call[r] # "idle"
    BY DEF ClientInv, ServerInv, PostInv
  <2>3. Abandoned(asks[r])
    BY <2>1 DEF Abandoned, ClientInv, SignedInv
  <2>4. call[r] \notin Underway \cup {"success"}
    BY <2>2, <2>3 DEF ClientInv, CallInv
  <2>5. call[r] \notin {"invalid", "refused"}
    BY <2>2 DEF ClientInv, ServerInv
  <2> QED
    BY <2>1, <2>2, <2>4, <2>5 DEF ClientInv, CallInv, Underway, Outcomes
<1> QED
  BY <1>1, InvAlways, PTL

(* Signer and verifier agree on what an honest payment is, for any clocks, *)
(* lifetimes and grace.                                                    *)
THEOREM HonestPaymentsVerify == ClientSpec => []HonestPaymentVerifies
<1>1. ClientInv => HonestPaymentVerifies
  <2> SUFFICES ASSUME ClientInv, NEW k \in DOMAIN payload,
                      Served(payload[k].accepted), payload[k].signature.canonical,
                      skew <= Grace, InTime(k)
               PROVE  Checked(payload[k], payload[k].accepted, now) = "ok"
    BY DEF HonestPaymentVerifies
  <2> DEFINE a == payload[k].authorization
  <2>1. PICK q \in Quotes, t \in 0..now, c \in Canonical :
             LET g == payload[k].signature
             IN  /\ payload[k].accepted = q
                 /\ a.from = Agent /\ a.to = q.payTo /\ a.nonce = k
                 /\ a.value = Plain(q.amount)
                 /\ a.validAfter = 0 /\ a.validBefore = t + skew + q.maxTimeout
                 /\ g.by = Agent /\ g.canonical = c
                 /\ g.over = Digest(ChainOf[q.network], a)
    BY PayloadShape DEF ClientInv
  <2>2. SignatureHolds(payload[k], q)
    BY <2>1 DEF SignatureHolds
  <2>3. /\ ChainOf[q.network] \in Enabled /\ q.asset = Token
        /\ ValueMatches(a, q)
    BY <2>1 DEF Served, ValueMatches
  <2>4. CheckTimeWindow(a.validAfter, a.validBefore, now, {q.maxTimeout}) = "ok"
    <3>1. /\ now \in Int /\ t \in Int /\ skew \in Int /\ q.maxTimeout \in Nat
          /\ t <= now /\ 0 <= now
      BY DEF ClientInv, ClockInv
    <3>2. SignedAt(k) = t
      BY <2>1, <3>1 DEF SignedAt, Authorization
    <3>3. now - t < q.maxTimeout + skew - Grace
      BY <2>1, <3>2 DEF InTime
    <3>4. CheckTimeWindow(0, t + skew + q.maxTimeout, now, {q.maxTimeout}) = "ok"
      BY <3>1, <3>3, WindowAgrees
    <3> QED
      BY <2>1, <3>4
  <2>5. RequirementsMatch(payload[k].accepted, q)
    BY <2>1 DEF RequirementsMatch
  <2> QED
    BY <2>1, <2>2, <2>3, <2>4, <2>5 DEF Checked
<1> QED
  BY <1>1, InvAlways, PTL

=============================================================================
