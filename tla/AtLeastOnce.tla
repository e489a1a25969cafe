----------------------------- MODULE AtLeastOnce -----------------------------
(***************************************************************************)
(* What the consume side promises a sender, without queues, retries or     *)
(* processes: a message accepted by the broker stays owed until some       *)
(* outcome for it is recorded, outcomes are never taken back, and only a   *)
(* message with an outcome stops being owed.                               *)
(***************************************************************************)
CONSTANTS Msg, Outcome

VARIABLES accepted, owed, outcomes

avars == <<accepted, owed, outcomes>>

Init ==
    /\ accepted = {}
    /\ owed = {}
    /\ outcomes = [m \in Msg |-> {}]

Accept(m) ==
    /\ m \notin accepted
    /\ accepted' = accepted \cup {m}
    /\ owed' = owed \cup {m}
    /\ UNCHANGED outcomes

(* One run of the handlers, or one dead letter, leaves an outcome.  More   *)
(* may follow while duplicates of the message are about.                   *)
Record(m, o) ==
    /\ m \in accepted
    /\ outcomes' = [outcomes EXCEPT ![m] = @ \cup {o}]
    /\ UNCHANGED <<accepted, owed>>

(* The last copy is acknowledged.                                          *)
Release(m) ==
    /\ m \in owed
    /\ outcomes[m] # {}
    /\ owed' = owed \ {m}
    /\ UNCHANGED <<accepted, outcomes>>

(* A stale run of a handler republishes what was already released.         *)
Revive(m) ==
    /\ m \in accepted
    /\ outcomes[m] # {}
    /\ owed' = owed \cup {m}
    /\ UNCHANGED <<accepted, outcomes>>

Next == \E m \in Msg : \/ Accept(m) \/ Release(m) \/ Revive(m)
                       \/ \E o \in Outcome : Record(m, o)

Spec == Init /\ [][Next]_avars
=============================================================================
