--------------------------- MODULE PaymentChecks -----------------------------
(***************************************************************************)
(* What verification decides from a request alone, before it asks the      *)
(* chain: ExactEvmFacilitator.verify and the first half of                 *)
(* verifyExactPayment (packages/evm/src), in their order.  The schemas     *)
(* have parsed the request, so scheme and transfer method are the only     *)
(* ones there are.  An address is a value whatever the case of its digits. *)
(* An amount is kept as it is written, [n, zeros]: its number and its      *)
(* leading zeros, which decimalString admits.                              *)
(***************************************************************************)
EXTENDS TimeWindow

CONSTANTS
    ChainOf,        \* CAIP-2 identifier -> chain, or NotEvm
    NotEvm,
    Registered,     \* chains of JPYC_CHAINS
    Enabled,        \* enabledChainIds
    Token           \* the JPYC address, the same on every chain

ASSUME ChecksAssumption ==
    /\ NotEvm \notin Registered
    /\ Enabled \subseteq Registered

Number(amount) == amount.n
Plain(amount) == [n |-> amount.n, zeros |-> 0]

(* checkRequirementsMatch; maxTimeoutSeconds is not among them. *)
MatchedFields == {"network", "amount", "asset", "payTo", "extra"}
RequirementsMatch(accepted, required) ==
    \A f \in MatchedFields : accepted[f] = required[f]

(* What the typed data binds: the domain is the registry's for the chain.  *)
Digest(chain, a) ==
    [chain |-> chain, from |-> a.from, to |-> a.to, value |-> Number(a.value),
     validAfter |-> a.validAfter, validBefore |-> a.validBefore, nonce |-> a.nonce]

(* rejectHighS, then recoverAddress: another digest recovers to a stranger. *)
SignatureHolds(p, required) ==
    /\ p.signature.canonical
    /\ p.signature.by = p.authorization.from
    /\ p.signature.over = Digest(ChainOf[required.network], p.authorization)

(* Mutation: only the amounts of the two requirements are compared. *)
ValueUnread(a, required) == TRUE

(* The strings are compared, not the numbers. *)
ValueMatches(a, required) == a.value = required.amount

(* The first reason to refuse the payment at second s, or "ok". *)
Checked(p, required, s) ==
    LET a == p.authorization IN
    IF ChainOf[required.network] = NotEvm THEN "invalid_payload"
    ELSE IF ChainOf[required.network] \notin Enabled THEN "invalid_network"
    ELSE IF ~RequirementsMatch(p.accepted, required) THEN "invalid_payload"
    ELSE IF required.asset # Token THEN "invalid_network"
    ELSE IF ~SignatureHolds(p, required) THEN "signature"
    ELSE IF ~ValueMatches(a, required) THEN "value_mismatch"
    ELSE IF a.to # required.payTo THEN "recipient_mismatch"
    ELSE CheckTimeWindow(a.validAfter, a.validBefore, s, {required.maxTimeout})

=============================================================================
