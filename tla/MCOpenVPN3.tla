---------------------------- MODULE MCOpenVPN3 -----------------------------
(* Instances of OpenVPN3 for TLC.                                          *)
EXTENDS OpenVPN3, TLC

MCNeeds == {{}, {"login"}, {"login", "otp"}, {"login", "other"}}
MCFaults == {"disconnect", "input", "connect", "listen", "status"}
=============================================================================
