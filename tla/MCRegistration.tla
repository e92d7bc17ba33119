---------------------------- MODULE MCRegistration ---------------------------
(* An instance of Registration for TLC.                                    *)
EXTENDS Registration, TLC

CONSTANTS a, b, m1, m2

TwoServers == {a, b}
TwoMailboxes == {m1, m2}

Symmetry == Permutations(TwoServers) \cup Permutations(TwoMailboxes)
==============================================================================
