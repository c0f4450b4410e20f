----------------------------- MODULE MCWakeLock -----------------------------
(* Instances of WakeLock for TLC.                                          *)
EXTENDS WakeLock
=============================================================================
