---------------------------- MODULE MCNMBackend ----------------------------
(* Instances of NMBackend for TLC.                                         *)
EXTENDS NMBackend, TLC

CONSTANTS t1, t2, u1, u2, u3

MCThreads == {t1, t2}
MCUuids == {u1, u2, u3}
MCSymmetry == Permutations(MCThreads) \cup Permutations(MCUuids)
=============================================================================
