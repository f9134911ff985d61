------------------------------ MODULE MCJourneys ------------------------------
(* Two requests at a time, from the client's button and its retries. *)
EXTENDS Journeys, TLC
CONSTANTS k1, k2, i1, i2, r1, r2, m1, m2, v1, v2
Twice == Permutations({r1, r2}) \union Permutations({i1, i2})
MCRequest == {r1, r2}
MCKey == {k1, k2}
MCItem == {i1, i2}
MCValue == {v1, v2}
MCMatch == {m1, m2}
===============================================================================
