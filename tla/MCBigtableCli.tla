--------------------------- MODULE MCBigtableCli ---------------------------
(* Model of BigtableCli: two CLIs and the table of the e2e test, with rows  *)
(* enough for a limit to cut a scan short.                                 *)
EXTENDS BigtableCli

CONSTANTS a, b, t1, cf1, i1

BothClis == Permutations({a, b})
ThreeRows == 1..3
SomeLimits == {0, 2, 10}
=============================================================================
