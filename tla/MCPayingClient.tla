-------------------------- MODULE MCPayingClient -----------------------------
(***************************************************************************)
(* An instance of PayingClient for TLC: two payments, two calls, and       *)
(* requirements that differ in amount and lifetime or in the chain and in  *)
(* the way the amount is written.                                          *)
(***************************************************************************)
EXTENDS PayingClient, TLC

Symmetry == Permutations(Requests) \cup Permutations(Keys)

Coffee == [network |-> "eip155:137", amount |-> [n |-> 1, zeros |-> 0], asset |-> "JPYC",
           payTo |-> "shop", extra |-> "JPY Coin 1", maxTimeout |-> 3]
Cake == [Coffee EXCEPT !.amount = [n |-> 2, zeros |-> 0], !.maxTimeout = 2]
OnKaia == [Coffee EXCEPT !.network = "eip155:8217", !.amount.zeros = 1]

MCChainOf == [n \in {"eip155:137", "eip155:8217"} |-> IF n = "eip155:137" THEN 137 ELSE 8217]
MCQuotes == {Coffee, Cake, OnKaia}
MCSkews == {-1, 1}
=============================================================================
