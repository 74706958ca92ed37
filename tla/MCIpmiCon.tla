----------------------------- MODULE MCIpmiCon -----------------------------
(* Model-checking instance of IpmiCon.                                      *)
EXTENDS IpmiCon
=============================================================================
