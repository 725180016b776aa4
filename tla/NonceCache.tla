----------------------------- MODULE NonceCache -----------------------------
(***************************************************************************)
(* The in-memory cache of settled authorizations (nonce-cache.ts), with    *)
(* its clock and its garbage collection.  A key is a (chain, payer, nonce) *)
(* and its entry is firstSeenMs; the hash and the settled flag are left    *)
(* out, as remember is only called with both set.  The operators take the  *)
(* time of the call, which the code reads with Date.now().                 *)
(***************************************************************************)
EXTENDS Integers, FiniteSets

CONSTANTS
    Keys,           \* (chain, payer, nonce) triples
    TtlTicks,       \* ttlMs: how long an entry answers
    EntryLimit      \* garbage is collected above this many entries (10000)

ASSUME CacheAssumption ==
    /\ IsFiniteSet(Keys)
    /\ TtlTicks \in Nat
    /\ EntryLimit \in Nat

VARIABLE entries    \* key -> firstSeenMs, or Absent

NoEntry == -1

CacheTypeOK == entries \in [Keys -> Nat \cup {NoEntry}]

CacheInit == entries = [k \in Keys |-> NoEntry]

Expired(k, t) == t - entries[k] > TtlTicks

(* What get answers. *)
Hit(k, t) == entries[k] # NoEntry /\ ~Expired(k, t)

(* get drops the entry it finds expired. *)
Get(k, t) ==
    entries' = IF entries[k] # NoEntry /\ Expired(k, t)
               THEN [entries EXCEPT ![k] = NoEntry]
               ELSE entries

(* Mutation: the collection does not look at the age of an entry. *)
RememberEvicts(k, t) ==
    LET kept == IF entries[k] = NoEntry THEN [entries EXCEPT ![k] = t] ELSE entries
        size == Cardinality({j \in Keys : kept[j] # NoEntry})
    IN entries' = [j \in Keys |-> IF size > EntryLimit /\ j # k
                                  THEN NoEntry ELSE kept[j]]

(* remember keeps the firstSeenMs of an entry that is there, expired or    *)
(* not, and collects the expired ones when the map has grown too large.    *)
Remember(k, t) ==
    LET kept == IF entries[k] = NoEntry THEN [entries EXCEPT ![k] = t] ELSE entries
        size == Cardinality({j \in Keys : kept[j] # NoEntry})
    IN entries' = [j \in Keys |-> IF size > EntryLimit /\ t - kept[j] > TtlTicks
                                  THEN NoEntry ELSE kept[j]]
=============================================================================
