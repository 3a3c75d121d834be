-------------------------- MODULE MCCascadeOverNM --------------------------
(* Instances of CascadeOverNM for TLC.                                     *)
EXTENDS CascadeOverNM, TLC

CONSTANTS s1, s2, t1, t2, u1, u2, u3

MCServers == {s1, s2}
MCQueues == {<<s1>>, <<s1, s2>>}
MCBudget == [s \in MCServers |-> 3]
MCThreads == {t1, t2}
MCUuids == {u1, u2, u3}
MCSymmetry == Permutations(MCThreads) \cup Permutations(MCUuids)
=============================================================================
