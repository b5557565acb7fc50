--------------------------- MODULE MCCacheRegistry ---------------------------
(* Two keys with two tags, room for one entry, and two callers: one reads with *)
(* single flight, the other does everything.                                  *)
EXTENDS CacheRegistry, TLC

CONSTANTS k1, k2, t, u, c1, c2, f1, f2

MCTagsOf == [k \in Keys |-> <<t, u>>]
MCMakesCall == [c \in Calls |->
    IF c = c1 THEN {"single"} ELSE {"get", "set", "del", "invalidate", "compute", "single"}]
MCSymmetry == Permutations(Keys) \cup Permutations(Flights)

=============================================================================
