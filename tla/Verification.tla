---------------------------- MODULE Verification ----------------------------
(***************************************************************************)
(* What a host learns about an authorization by asking the chain: the      *)
(* chain-reading half of verifyExactPayment (packages/evm/src/verify.ts),  *)
(* which both hosts run step by step, and the classification of a revert   *)
(* (packages/evm/src/revert.ts).  A step's outcomes are a set: "ok" goes   *)
(* on to the next step, anything else is the reason of the refusal.        *)
(*                                                                         *)
(* The authorizations are well formed and correctly signed; the checks of  *)
(* requirements, signature, value and recipient come before every step     *)
(* here and depend on the request alone.                                   *)
(***************************************************************************)
EXTENDS JpycChain

Codes == {"none", "valid_after", "valid_before", "invalid_transaction_state",
          "insufficient_funds", "unexpected_settle_error",
          "facilitator_insufficient_native_balance"}

OnRpcFault(outcome) == IF "rpc" \in Faults THEN {outcome} ELSE {}

\* checkTimeWindow, without the maxTimeoutSeconds bound
TimeError(a) == CASE window[a] = "early" -> "valid_after"
                  [] window[a] = "open" -> "none"
                  [] OTHER -> "valid_before"

\* checkTimeWindow, then authorizationState; a failed read is passed over.
UsedRead(a) ==
    IF TimeError(a) # "none"
    THEN {TimeError(a)}
    ELSE {IF Consumed(KeyOf[a]) THEN "authorization_already_used" ELSE "ok"}
             \cup OnRpcFault("ok")

BalanceRead(a) ==
    {IF Funded(a) THEN "ok" ELSE "insufficient_funds"}
        \cup OnRpcFault("unexpected_verify_error")

\* simulateContract; every error is taken for a revert.
Simulation(a) ==
    {IF Executes(a) THEN "ok" ELSE "invalid_transaction_state"}
        \cup OnRpcFault("invalid_transaction_state")

\* Mutation: an unknown revert text is passed on as it came.
RawRevertCode(a) == IF Funded(a) THEN "valid_before" ELSE "execution reverted"

\* parseEip3009RevertReason of the revert transferWithAuthorization gives now
RevertCode(a) == CASE window[a] = "early" -> "valid_after"
                   [] window[a] = "closed" -> "valid_before"
                   [] Consumed(KeyOf[a]) -> "invalid_transaction_state"
                   [] OTHER -> "insufficient_funds"

\* writeContract estimates gas before it sends.
Estimate(a) ==
    {IF Executes(a) THEN "ok" ELSE RevertCode(a)}
        \cup OnRpcFault("unexpected_settle_error")
==============================================================================
