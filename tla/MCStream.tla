------------------------------ MODULE MCStream ------------------------------
(* Stream instantiated for TLC.                                            *)
EXTENDS Stream
=============================================================================
