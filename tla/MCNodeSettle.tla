---------------------------- MODULE MCNodeSettle ----------------------------
(***************************************************************************)
(* Instances of NodeSettle for TLC: authorizations of one payer, each with *)
(* a (payer, nonce) key and a recipient of its own, which go by its name   *)
(* so that the names can be permuted.                                      *)
(***************************************************************************)
EXTENDS NodeSettle, TLC

MCKeyOf == [x \in Auths |-> x]
MCPayerOf == [x \in Auths |-> "alice"]
MCPayeeOf == [x \in Auths |-> x]
MCValueOf == [x \in Auths |-> 1]

Symmetry == Permutations(Requests) \cup Permutations(Auths) \cup Permutations(Fees)
==============================================================================
