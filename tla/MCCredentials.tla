--------------------------- MODULE MCCredentials ---------------------------
(* Instances of Credentials for TLC.                                       *)
EXTENDS Credentials, TLC

CONSTANTS ann, bob, a1, a2, b1

MCUsers == {ann, bob}
MCPwds == {a1, a2, b1}
MCOwner == (a1 :> ann) @@ (a2 :> ann) @@ (b1 :> bob)
MCSaved == (ann :> a1) @@ (bob :> NoPwd)
MCEmpty == (ann :> NoPwd) @@ (bob :> NoPwd)
MCFaults == {"lookup", "store", "clear", "directory"}
=============================================================================
