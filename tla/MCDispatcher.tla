---------------------------- MODULE MCDispatcher ----------------------------
(* Dispatcher instantiated for TLC: five hosts, one message.               *)
EXTENDS Dispatcher, FiniteSets, TLC

CONSTANTS h1, h2, h3, h4, h5, nowhere, bad

(* h1 has two handlers, h2 a saga and a handler it never gets to, h3 an    *)
(* aggregator, h4 does not know the type and h5 has nothing for it.  The   *)
(* itineraries visit a host twice, and end early at h4, at a queue that    *)
(* does not exist and at a destination that is not valid.                  *)
HandlersOf == h1 :> 2 @@ h2 :> 1 @@ h3 :> 0 @@ h4 :> 1 @@ h5 :> 0
Paths == {<<h2, h1>>, <<h3, h5, h4>>, <<h1, nowhere, h1>>, <<h5, bad>>}
=============================================================================
