--------------------------- MODULE MCRequestReply ---------------------------
(* RequestReply instantiated for TLC: which request makes which calls.     *)
EXTENDS RequestReply, TLC

CONSTANTS r1, r2

Proper == {c \in Call : c.kind = "single" => c.expected = 0}

(* Any call next to a publishRequest, whose onReply can do the most.       *)
AnyAndCallback == r1 :> Proper @@ r2 :> {c \in Call : c.kind = "callback" /\ c.expected = 1}
=============================================================================
