------------------------------ MODULE MCRateLimit ------------------------------
(* An instance of RateLimit for TLC: no limit, or half a request per tick,  *)
(* and a TTL that is just long enough to fill a bucket.                     *)
EXTENDS RateLimit, TLC

CONSTANTS c1, c2, h1, h2

TwoClients == {c1, c2}
TwoHandlers == {h1, h2}
NoneOrOne == {0, 1}
Symmetry == Permutations(TwoClients) \cup Permutations(TwoHandlers)
=============================================================================
