--------------------------- MODULE MCRegistration ---------------------------
(* Instances of Registration for TLC.                                      *)
EXTENDS Registration

ASSUME RegistrationAssumption
=============================================================================
