----------------------------- MODULE MCCascade -----------------------------
(* Instances of Cascade for TLC.                                           *)
EXTENDS CascadeRefinement

CONSTANTS s1, s2

MCServers2 == {s1, s2}
MCQueues2 == {<<>>, <<s1, s2>>}
MCQueues1 == {<<s1>>}
MCBudget == [s \in Servers |-> 2]
MCOrphanIds == 1..2
=============================================================================
