---------------------------- MODULE PayingClient -----------------------------
(***************************************************************************)
(* The paying side: signPaymentPayload, fetchWithPayment, FacilitatorClient*)
(* and the tools of the MCP server, against a facilitator of which only    *)
(* its promise (Settlement) and its checks of a request (PaymentChecks)    *)
(* are known.  Keys are the payments an agent may sign for one purchase,   *)
(* each with a nonce of its own, and Requests the POSTs of a payment.      *)
(*                                                                         *)
(* The agent wants to pay once: it signs another payment only when every   *)
(* call has returned and none told it of a success, and from then on       *)
(* leaves the earlier ones alone.  What it makes of a failure is its own   *)
(* affair, for no tool decides this for it.                                *)
(***************************************************************************)
EXTENDS Settlement, PaymentChecks, Sequences

CONSTANTS
    Quotes,         \* paymentRequirements that resource servers may name
    Agent,          \* the signer's address
    Canonical,      \* what the signer's s may be: TRUE in the lower half
    Skews,          \* how far the agent's clock may be ahead, in seconds
    Horizon         \* bound: the last second

ASSUME ClientAssumption ==
    /\ Canonical \subseteq BOOLEAN
    /\ Skews \subseteq Int
    /\ Horizon \in Nat
    /\ \A q \in Quotes :
           /\ q.amount.n \in Nat /\ q.maxTimeout \in Nat \ {0}
           /\ q.network \in DOMAIN ChainOf

VARIABLES
    now,            \* the facilitator's clock, and the chain's
    skew,           \* the agent's clock minus now
    payload,        \* key -> the payment signed, for those that were
    signed,         \* the keys in the order they were signed
    kept,           \* keys whose payload the agent was given
    post,           \* request -> what it carries, for those that began
    call,           \* request -> how far its call is, or how it ended
    posted          \* requests whose POST /settle went out

clientVars == <<now, skew, payload, signed, kept, post, call, posted>>

With(f, x, v) == [y \in DOMAIN f \cup {x} |-> IF y = x THEN v ELSE f[y]]

Underway == {"verifying", "settling"}
Outcomes == {"invalid", "success", "refused", "unclear", "threw"}
Tools == {"settle", "create_and_settle", "fetch"}

(* Mutation: the value is sent as the requirements write it. *)
ValueAsQuoted(q) == q.amount

(* BigInt(amount).toString() *)
SignedValue(q) == Plain(q.amount)

SignPaymentPayload(q, k, clock, canonical) ==
    LET a == [from |-> Agent, to |-> q.payTo, value |-> SignedValue(q), validAfter |-> 0,
              validBefore |-> clock + q.maxTimeout, nonce |-> k]
    IN  [accepted |-> q, authorization |-> a,
         signature |-> [by |-> Agent, over |-> Digest(ChainOf[q.network], a),
                        canonical |-> canonical]]

Authorization(k) == payload[k].authorization

ClientInit ==
    /\ Init
    /\ now = 0
    /\ skew \in Skews
    /\ payload = <<>> /\ signed = <<>> /\ kept = {}
    /\ post = <<>> /\ posted = {}
    /\ call = [r \in Requests |-> "idle"]

(* ---- the agent and its tools ------------------------------------------ *)

MayPayAnew == \A r \in Requests : call[r] \notin Underway \cup {"success"}

(* A new nonce each time; the registry has a domain for the chain, or the  *)
(* call throws and nothing is signed.                                      *)
Sign(k, q) ==
    /\ MayPayAnew
    /\ k \notin DOMAIN payload
    /\ ChainOf[q.network] \in Registered
    /\ \E canonical \in Canonical :
           payload' = With(payload, k, SignPaymentPayload(q, k, now + skew, canonical))
    /\ signed' = Append(signed, k)

Begin(r, tool, p, q, how) ==
    /\ call[r] = "idle"
    /\ call' = [call EXCEPT ![r] = how]
    /\ post' = With(post, r, [tool |-> tool, paymentPayload |-> p, paymentRequirements |-> q])

CreatePayment(k, q) ==
    /\ Sign(k, q)
    /\ kept' = kept \cup {k}
    /\ UNCHANGED <<vars, now, skew, post, call, posted>>

(* The accepted block is not signed: it may have been rewritten to agree   *)
(* with the requirements by the time the payload is handed in.             *)
SettlePayment(r, q) ==
    /\ asks[r] \in kept
    /\ signed[Len(signed)] = asks[r]
    /\ \E p \in {payload[asks[r]], [payload[asks[r]] EXCEPT !.accepted = q]} :
           Begin(r, "settle", p, q, "settling")
    /\ posted' = posted \cup {r}
    /\ UNCHANGED <<vars, now, skew, payload, signed, kept>>

CreateAndSettle(r, q) ==
    /\ Sign(asks[r], q)
    /\ Begin(r, "create_and_settle", payload'[asks[r]], q, "verifying")
    /\ UNCHANGED <<vars, now, skew, kept, posted>>

(* The resource server settles with its own requirements of the moment.    *)
FetchWithPayment(r, quoted, required) ==
    /\ Sign(asks[r], quoted)
    /\ Begin(r, "fetch", payload'[asks[r]], required, "settling")
    /\ posted' = posted \cup {r}
    /\ UNCHANGED <<vars, now, skew, kept>>

(* ---- FacilitatorClient ------------------------------------------------ *)

Refusal(r) == Checked(post[r].paymentPayload, post[r].paymentRequirements, now)

(* A tool that throws returns no payload, and fetch never does. *)
End(r, outcome) ==
    /\ call' = [call EXCEPT ![r] = outcome]
    /\ kept' = IF outcome = "threw" \/ post[r].tool = "fetch" THEN kept ELSE kept \cup {asks[r]}

(* POST /verify answers; the chain reads may refuse what the request's     *)
(* checks let pass.                                                        *)
VerifyInvalid(r) ==
    /\ call[r] = "verifying"
    /\ End(r, "invalid")
    /\ UNCHANGED <<vars, now, skew, payload, signed, post, posted>>

VerifyValid(r) ==
    /\ call[r] = "verifying"
    /\ Refusal(r) = "ok"
    /\ call' = [call EXCEPT ![r] = "settling"]
    /\ posted' = posted \cup {r}
    /\ UNCHANGED <<vars, now, skew, payload, signed, kept, post>>

(* Mutation: a failure is a refusal, whether or not it names a transaction.*)
ReadSuccessFlag(answer) == IF answer = "success" THEN {"success"} ELSE {"refused", "threw"}

(* readJson: a body is parsed unless its status is 500 or above, which the *)
(* balance gate's refusal has, and that of a crash.                        *)
Read(answer) == IF answer = "success" THEN {"success"} ELSE {answer, "threw"}

Hear(r) ==
    /\ call[r] = "settling"
    /\ told[r] # "nothing"
    /\ \E outcome \in Read(told[r]) : End(r, outcome)
    /\ UNCHANGED <<vars, now, skew, payload, signed, post, posted>>

(* Mutation: a call that ends without an answer is taken for a refusal. *)
GiveUpAsRefused(r) ==
    /\ call[r] \in Underway
    /\ End(r, "refused")
    /\ UNCHANGED <<vars, now, skew, payload, signed, post, posted>>

(* The 20 s timer, a lost connection, or a body that is not what the       *)
(* schema expects, as that of a 401 is not.  The facilitator may still be  *)
(* at it, or never have heard of it.                                       *)
GiveUp(r) ==
    /\ call[r] \in Underway
    /\ End(r, "threw")
    /\ UNCHANGED <<vars, now, skew, payload, signed, post, posted>>

(* ---- the facilitator, by its promise ---------------------------------- *)

ServerSends(r) ==
    /\ r \in posted
    /\ Refusal(r) = "ok"
    /\ Send(r)
    /\ UNCHANGED clientVars

ServerTells(r) ==
    /\ r \in posted
    /\ TellSuccess(r) \/ TellRefused(r) \/ TellUnclear(r)
    /\ UNCHANGED clientVars

(* transferWithAuthorization *)
Executes(k) ==
    /\ k \in DOMAIN payload
    /\ Authorization(k).validAfter < now /\ now < Authorization(k).validBefore
    /\ Pay(k)
    /\ UNCHANGED clientVars

Tick ==
    /\ now < Horizon
    /\ now' = now + 1
    /\ UNCHANGED <<vars, skew, payload, signed, kept, post, call, posted>>

ClientNext ==
    \/ \E k \in Keys, q \in Quotes : CreatePayment(k, q)
    \/ \E r \in Requests, q \in Quotes : SettlePayment(r, q) \/ CreateAndSettle(r, q)
    \/ \E r \in Requests, q1, q2 \in Quotes : FetchWithPayment(r, q1, q2)
    \/ \E r \in Requests : VerifyInvalid(r) \/ VerifyValid(r) \/ Hear(r) \/ GiveUp(r)
    \/ \E r \in Requests : ServerSends(r) \/ ServerTells(r)
    \/ \E k \in Keys : Executes(k)
    \/ Tick

ClientSpec == ClientInit /\ [][ClientNext]_<<vars, clientVars>>

(* ---- properties -------------------------------------------------------- *)

(* Types.  A payload is known to its agent only once it was signed, in     *)
(* canonical decimal, and only a call that began has sent its POST.        *)
ClientTypeOK ==
    /\ now \in 0..Horizon /\ skew \in Skews
    /\ DOMAIN payload \subseteq Keys /\ kept \subseteq DOMAIN payload
    /\ \A k \in DOMAIN payload :
           /\ payload[k].accepted \in Quotes
           /\ Authorization(k).nonce = k /\ Authorization(k).from = Agent
           /\ Authorization(k).value.n \in Nat /\ Authorization(k).value.zeros = 0
           /\ Authorization(k).validBefore \in Int
    /\ signed \in Seq(DOMAIN payload)
    /\ call \in [Requests -> {"idle"} \cup Underway \cup Outcomes]
    /\ posted \subseteq DOMAIN post
    /\ DOMAIN post = {r \in Requests : call[r] # "idle"}
    /\ \A r \in DOMAIN post :
           /\ post[r].tool \in Tools /\ post[r].paymentRequirements \in Quotes
           /\ asks[r] \in DOMAIN payload

(* What a tool reports is true whenever it is looked at: a success is paid,*)
(* and a payment reported refused or invalid was not sent for this call    *)
(* and never will be, although the answer may be read long after it was    *)
(* written and a call may end before its POST arrives.                     *)
ReportsAreTrue ==
    \A r \in Requests :
        /\ call[r] = "success" => asks[r] \in paid
        /\ call[r] \in {"invalid", "refused"} => r \notin sent

(* fetchWithPayment and create_and_settle_jpyc_payment sign a new nonce    *)
(* each time.  An agent that pays anew when a call failed has an earlier   *)
(* payment made as well only if some call for that one threw or was        *)
(* answered with a failure that left a transaction open.                   *)
SecondPaymentNeedsDoubt ==
    \A i, j \in DOMAIN signed :
        i < j /\ signed[i] \in paid =>
            \E r \in posted : asks[r] = signed[i] /\ call[r] \in {"threw", "unclear"}

(* Verification accepts what signPaymentPayload made of requirements that  *)
(* the facilitator serves and that write their amount without leading      *)
(* zeros, if the agent's clock is ahead by no more than the grace and the  *)
(* payment arrives before its lifetime, less the grace and what the clock  *)
(* is behind, is over: signer and facilitator agree on the window.         *)
SignedAt(k) == Authorization(k).validBefore - payload[k].accepted.maxTimeout - skew
InTime(k) == now - SignedAt(k) < payload[k].accepted.maxTimeout + skew - Grace
Served(q) == ChainOf[q.network] \in Enabled /\ q.asset = Token /\ q.amount = Plain(q.amount)
HonestPaymentVerifies ==
    \A k \in DOMAIN payload :
        /\ Served(payload[k].accepted) /\ payload[k].signature.canonical
        /\ skew <= Grace /\ InTime(k)
        => Checked(payload[k], payload[k].accepted, now) = "ok"

(* Whatever the requirements a payment is settled with, and whatever its   *)
(* accepted block was rewritten to, the relayer sends only what the agent  *)
(* signed: this token's transfer of that amount to that recipient on that  *)
(* chain.                                                                  *)
SentIsSigned ==
    \A r \in sent :
        LET q == post[r].paymentRequirements
            over == payload[asks[r]].signature.over
        IN  /\ q.asset = Token /\ ChainOf[q.network] \in Enabled
            /\ over.chain = ChainOf[q.network]
            /\ over.to = q.payTo /\ over.value = Number(q.amount)
            /\ over.from = Agent /\ over.nonce = asks[r]

=============================================================================
