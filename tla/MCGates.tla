------------------------------ MODULE MCGates -------------------------------
(***************************************************************************)
(* An instance of Gates for TLC: two requests for one payment, a third by  *)
(* the same payer, a fourth by another payer whose payment may outlive the *)
(* cache's time to live.                                                   *)
(***************************************************************************)
EXTENDS Gates

MCKeyOf == [r1 |-> "k1", r2 |-> "k1", r3 |-> "k2", r4 |-> "k3"]
MCPayerOf == [k1 |-> "p1", k2 |-> "p1", k3 |-> "p2"]
MCValueOf == [k1 |-> 1, k2 |-> 3, k3 |-> 1]
MCValidAfter == [k1 |-> 0, k2 |-> 1, k3 |-> 0]
MCValidBefore == [k1 |-> 4, k2 |-> 6, k3 |-> 6]
MCMaxTimeout == [r1 |-> 3, r2 |-> 3, r3 |-> 2, r4 |-> 5]
=============================================================================
