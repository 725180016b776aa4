--------------------------- MODULE MCBalanceCache ---------------------------
(***************************************************************************)
(* Instances of BalanceCache for TLC.  A getBalance may take longer than   *)
(* the time between two refreshes.                                         *)
(***************************************************************************)
EXTENDS BalanceCache
=============================================================================
