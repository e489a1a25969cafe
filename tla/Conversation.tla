---------------------------- MODULE Conversation ----------------------------
(***************************************************************************)
(* What a caller of sendRequest, sendRequestMulti or publishRequest is     *)
(* promised, whatever happens to signals, timers, the transport and the    *)
(* bus: the call is open from the moment it is made until it returns, it   *)
(* returns once, and replies reach the caller only while it is open.       *)
(***************************************************************************)
EXTENDS Naturals

CONSTANT Req

VARIABLES
    open,      \* calls made and not returned
    returned,  \* calls that gave the caller a result or an error
    heard      \* Req -> replies handed over so far

vars == <<open, returned, heard>>

Init ==
    /\ open = {}
    /\ returned = {}
    /\ heard = [r \in Req |-> 0]

Open(r) ==
    /\ r \notin open \cup returned
    /\ open' = open \cup {r}
    /\ UNCHANGED <<returned, heard>>

(* A call may be refused on the spot, without ever being open.             *)
Close(r) ==
    /\ r \notin returned
    /\ open' = open \ {r}
    /\ returned' = returned \cup {r}
    /\ UNCHANGED heard

Hear(r) ==
    /\ r \in open
    /\ heard' = [heard EXCEPT ![r] = @ + 1]
    /\ UNCHANGED <<open, returned>>

Next == \E r \in Req : Open(r) \/ Close(r) \/ Hear(r)

Spec == Init /\ [][Next]_vars
=============================================================================
