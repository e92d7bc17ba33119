------------------------------ MODULE MCSessions -----------------------------
(* An instance of Sessions for TLC.                                        *)
EXTENDS Sessions, TLC

CONSTANTS a, b

TwoServers == {a, b}

ServerSymmetry == Permutations(TwoServers)
==============================================================================
