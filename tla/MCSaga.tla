------------------------------- MODULE MCSaga -------------------------------
(* Saga instantiated for TLC: who is registered for which message, and the *)
(* store of each process.                                                  *)
EXTENDS Saga, TLC

CONSTANTS m1, m2, m3, p1, p2

(* m1 starts both processes, p2 first, and m2 continues p1: m1 may lose a  *)
(* race for p1 after its change of p2 has been committed.  p1 keeps its    *)
(* rows in memory and may complete; p2 keeps them in MongoDB and does not. *)
TwoProcesses == m1 :> <<p2, p1>> @@ m2 :> <<p1>>
FirstStarts == {m1} \X {p1, p2}
OneStoreEach == p1 :> "memory" @@ p2 :> "mongo"
FirstCompletes == Msg \X {p1}

(* Two starting messages (or redeliveries of one) and a continuation race  *)
(* for one saga, in MongoDB.                                               *)
OneProcess == [m \in Msg |-> <<p1>>]
TwoStart == {<<m1, p1>>, <<m2, p1>>}
InMongo == [p \in Process |-> "mongo"]
AnyHandler == Msg \X Process

Interchangeable == Permutations(Worker)
=============================================================================
