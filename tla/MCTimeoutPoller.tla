-------------------------- MODULE MCTimeoutPoller --------------------------
(* TimeoutPoller instantiated for TLC.                                     *)
EXTENDS TimeoutPoller
=============================================================================
