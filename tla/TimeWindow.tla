----------------------------- MODULE TimeWindow ------------------------------
(***************************************************************************)
(* checkTimeWindow of packages/evm/src/verify.ts: the one check that       *)
(* verification makes and the settle paths make again before they send.    *)
(***************************************************************************)
EXTENDS Integers

CONSTANT Grace          \* BLOCK_TIME_GRACE_SECONDS

ASSUME GraceAssumption == Grace \in Nat

(* Mutation: the life of an authorization is not bounded from above. *)
TimeWindowUnbounded(after, before, s, bounds) ==
    IF s < after THEN "valid_after"
    ELSE IF s + Grace >= before THEN "valid_before"
    ELSE "ok"

(* Mutation: the upper bound forgets the grace. *)
TimeWindowExact(after, before, s, bounds) ==
    IF s < after THEN "valid_after"
    ELSE IF \/ s + Grace >= before
            \/ \E m \in bounds : before > s + m
         THEN "valid_before"
    ELSE "ok"

(* checkTimeWindow; bounds holds maxTimeoutSeconds, or nothing where the   *)
(* code leaves it undefined.                                               *)
CheckTimeWindow(after, before, s, bounds) ==
    IF s < after THEN "valid_after"
    ELSE IF \/ s + Grace >= before
            \/ \E m \in bounds : before > s + m + Grace
         THEN "valid_before"
    ELSE "ok"

=============================================================================
