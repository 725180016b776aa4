----------------------------- MODULE MCHmacAuth -----------------------------
(***************************************************************************)
(* An instance of HmacAuth for TLC: three deliveries of one request and a  *)
(* damaged one, a request of another caller with the same nonce, a later   *)
(* request whose authentication collects, and one with an unknown key.     *)
(***************************************************************************)
EXTENDS HmacAuth

MCCopyOf == [d1 |-> "q1", d2 |-> "q1", d3 |-> "q1", d4 |-> "q2", d5 |-> "q3", d6 |-> "q4"]
MCDamage == [d1 |-> "none", d2 |-> "none", d3 |-> "content", d4 |-> "none",
             d5 |-> "none", d6 |-> "none"]
MCKeyIdOf == [q1 |-> "shop", q2 |-> "ops", q3 |-> "shop", q4 |-> "gone"]
MCNonceOf == [q1 |-> "n1", q2 |-> "n1", q3 |-> "n2", q4 |-> "n1"]
MCTs == [q1 |-> 1, q2 |-> 2, q3 |-> 4, q4 |-> 1]
=============================================================================
