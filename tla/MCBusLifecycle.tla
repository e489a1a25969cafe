---------------------------- MODULE MCBusLifecycle ----------------------------
(* BusLifecycle instantiated for TLC.                                      *)
EXTENDS BusLifecycle, TLC
=============================================================================
