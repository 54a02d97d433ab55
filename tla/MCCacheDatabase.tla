--------------------------- MODULE MCCacheDatabase ---------------------------
(* CacheDatabase on a small instance. *)
EXTENDS CacheDatabase, TLC

CONSTANTS k1, k2, v1, v2, p1, p2, p3

MCKeys   == {k1, k2}
MCValues == {v1, v2}
MCPlaces == {p1, p2, p3}

Interchangeable == Permutations(Keys) \cup Permutations(Values) \cup Permutations(Places)
=============================================================================
