------------------------------ MODULE Settlement ------------------------------
(***************************************************************************)
(* What POST /settle promises its callers, without saying how.  A key is a *)
(* (payer, nonce) pair.  Its payment happens at most once, is never undone,*)
(* and happens only if some request for it was sent to the chain.  Each    *)
(* caller is told one thing once: "success" only of a payment that was     *)
(* made, "refused" only if this request was not sent and never will be,    *)
(* and "unclear" otherwise: a failure that names a transaction, or one     *)
(* whose reason leaves open whether there is one.  docs/openapi.yaml, the  *)
(* comment above verifyFailureCode in packages/facilitator/src/app.ts and  *)
(* the header of packages/evm/src/settle.ts give these promises.           *)
(***************************************************************************)
CONSTANTS Requests, Keys

VARIABLES
    asks,   \* the key each request wants to be paid
    sent,   \* the requests whose transaction was handed to the mempool
    paid,   \* the keys whose payment was made
    told    \* what each request was told

vars == <<asks, sent, paid, told>>

Init ==
    /\ asks \in [Requests -> Keys]
    /\ sent = {}
    /\ paid = {}
    /\ told = [r \in Requests |-> "nothing"]

Tell(r, what) ==
    /\ told[r] = "nothing"
    /\ told' = [told EXCEPT ![r] = what]

\* A transaction goes out; its sender may learn of an error all the same.
Send(r) ==
    /\ r \notin sent
    /\ told[r] = "nothing"
    /\ sent' = sent \cup {r}
    /\ UNCHANGED told \/ Tell(r, "unclear")
    /\ UNCHANGED <<asks, paid>>

Pay(k) ==
    /\ k \notin paid
    /\ \E r \in sent : asks[r] = k
    /\ paid' = paid \cup {k}
    /\ UNCHANGED <<asks, sent, told>>

TellSuccess(r) ==
    /\ asks[r] \in paid
    /\ Tell(r, "success")
    /\ UNCHANGED <<asks, sent, paid>>

TellRefused(r) ==
    /\ r \notin sent
    /\ Tell(r, "refused")
    /\ UNCHANGED <<asks, sent, paid>>

TellUnclear(r) ==
    /\ Tell(r, "unclear")
    /\ UNCHANGED <<asks, sent, paid>>

Next ==
    \/ \E k \in Keys : Pay(k)
    \/ \E r \in Requests : Send(r) \/ TellSuccess(r) \/ TellRefused(r) \/ TellUnclear(r)

Spec == Init /\ [][Next]_vars
==============================================================================
