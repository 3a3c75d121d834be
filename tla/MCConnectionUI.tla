--------------------------- MODULE MCConnectionUI ---------------------------
(* Instances of ConnectionUI for TLC.                                      *)
EXTENDS ConnectionUI, TLC

CONSTANTS t1, t2, u1, u2, u3

MCThreads == {t1, t2}
MCUuids == {u1, u2}
MCUuids3 == {u1, u2, u3}
MCSymmetry == Permutations(MCThreads) \cup Permutations(MCUuids3)
=============================================================================
