---------------------------- MODULE MCWorkerSettle ----------------------------
(***************************************************************************)
(* Instances of WorkerSettle for TLC: authorizations of one payer to two   *)
(* recipients, each with a key of its own, which so determines its terms.  *)
(* The key and the recipient of an authorization go by its own name, so    *)
(* that the names can be permuted.                                         *)
(***************************************************************************)
EXTENDS WorkerSettle, TLC

MCKeyOf == [x \in Auths |-> x]
MCPayerOf == [x \in Auths |-> "alice"]
MCPayeeOf == [x \in Auths |-> x]
MCOnePayeeOf == [x \in Auths |-> "shop"]
MCValueOf == [x \in Auths |-> 1]

Symmetry == Permutations(Requests) \cup Permutations(Isolates)
            \cup Permutations(Auths) \cup Permutations(Fees)
==============================================================================
