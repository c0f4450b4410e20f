------------------------------ MODULE MCService -----------------------------
(* Instances of Service for TLC.                                           *)
EXTENDS Service
=============================================================================
