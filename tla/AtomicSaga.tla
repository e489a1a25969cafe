----------------------------- MODULE AtomicSaga -----------------------------
(***************************************************************************)
(* What optimistic concurrency is for: although handlers run concurrently  *)
(* on copies, each row changes as if messages were applied to it one at a  *)
(* time.  The data of a row is the sequence of messages applied to it.     *)
(***************************************************************************)
EXTENDS Sequences

CONSTANTS Msg, Process, NoSaga

VARIABLE saga  \* Process -> NoSaga or the messages applied to its row

Init == saga = [p \in Process |-> NoSaga]

Create(p) == saga[p] = NoSaga /\ saga' = [saga EXCEPT ![p] = <<>>]

Apply(p, m) == saga[p] # NoSaga /\ saga' = [saga EXCEPT ![p] = Append(@, m)]

Complete(p) == saga[p] # NoSaga /\ saga' = [saga EXCEPT ![p] = NoSaga]

Next == \E p \in Process : Create(p) \/ Complete(p) \/ \E m \in Msg : Apply(p, m)

Spec == Init /\ [][Next]_saga
=============================================================================
