---------------------------- MODULE MCAggregator ----------------------------
(* Aggregator instantiated for TLC.                                        *)
EXTENDS Aggregator
=============================================================================
