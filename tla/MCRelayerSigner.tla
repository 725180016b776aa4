--------------------------- MODULE MCRelayerSigner ---------------------------
(***************************************************************************)
(* Instances of RelayerSigner for TLC: authorizations of one payer, each   *)
(* with a (payer, nonce) key of its own, and requests that may retry them. *)
(***************************************************************************)
EXTENDS RelayerSigner, TLC

MCKeyOf == [x \in Auths |-> IF x = "a" THEN "ka" ELSE "kb"]
MCPayerOf == [x \in Auths |-> "alice"]
MCPayeeOf == [x \in Auths |-> "shop"]
MCValueOf == [x \in Auths |-> 1]

RequestSymmetry == Permutations(Requests)
==============================================================================
