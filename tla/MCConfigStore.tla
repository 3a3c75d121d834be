--------------------------- MODULE MCConfigStore ---------------------------
(* Values for model checking ConfigStore: a source with a certificate and  *)
(* one without.                                                            *)
EXTENDS ConfigStore

CONSTANTS src1, src2, ovpn1, crt1, ovpn2

MCSources == {src1, src2}
MCFiles == {ovpn1, crt1, ovpn2}
MCCerts == {crt1}
MCContent == [s \in MCSources |-> IF s = src1 THEN {ovpn1, crt1} ELSE {ovpn2}]
=============================================================================
