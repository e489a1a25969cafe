----------------------------- MODULE MCDelivery -----------------------------
(* Delivery instantiated for TLC.                                          *)
EXTENDS Delivery, TLC

Interchangeable == Permutations(Slot) \cup Permutations(Consumer)
=============================================================================
