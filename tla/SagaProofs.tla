----------------------------- MODULE SagaProofs -----------------------------
(***************************************************************************)
(* Proofs about Saga for any messages, processes, workers, registrations,  *)
(* stores and faults.  With tokens that are never issued twice (memory) a  *)
(* run that still matches its row has loaded the data the row holds        *)
(* (LoadedIsCurrent).  With the version numbers of the MongoDB store it has*)
(* if no handler of its process completes the saga (VersionIsCurrent): a   *)
(* row that is deleted and created again has its first version again.      *)
(* That makes the stores implement AtomicSaga.                             *)
(***************************************************************************)
EXTENDS Saga, TLAPS

(* A run is at one of the registrations of its message.                    *)
InRegs == \A w \in Worker : run[w] # Idle => run[w].at \in 1..Len(Regs[run[w].msg])

(* A message in the queue or with a live run has attempts left.            *)
AttemptsLeft ==
    /\ \A m \in Msg : queue[m] \in {"queued", "unacked"} => attempts[m] < MaxAttempts
    /\ \A w \in Worker : run[w] # Idle /\ run[w].live => queue[run[w].msg] = "unacked"
    /\ \A v, w \in Worker : run[v] # Idle /\ run[w] # Idle /\ run[v].live /\ run[w].live
                              /\ run[v].msg = run[w].msg => v = w

(* What a run has behind it.                                               *)
PassedApplied ==
    \A w \in Worker : run[w] # Idle =>
        \A i \in 1..run[w].at - 1 :
            <<run[w].msg, Regs[run[w].msg][i]>> \in Starts => applied[Regs[run[w].msg][i]][run[w].msg] > 0

(* A run that asked for a timeout in this registration has it stored.      *)
AskedScheduled ==
    \A w \in Worker : run[w] # Idle /\ run[w].timeout => run[w].msg \in scheduled[ProcessOf(w)]

LoadedIsCurrent ==
    /\ \A p \in Process : Store[p] = "memory" /\ rows[p] # NoRow => rows[p].token < issued
    /\ \A w \in Worker :
         /\ run[w] # Idle /\ run[w].stage \in {"handle", "update", "delete"}
         /\ Store[ProcessOf(w)] = "memory"
         => /\ run[w].token < issued
            /\ Matches(w) => RowOf(w).data = run[w].data

Inv == TypeOK /\ InRegs /\ AttemptsLeft /\ PassedApplied /\ DoneMeansApplied
         /\ AskedScheduled /\ TimeoutsScheduled
-----------------------------------------------------------------------------
LEMMA Processes ==
    ASSUME TypeOK, InRegs, NEW w \in Worker, run[w] # Idle
    PROVE  /\ run[w] \in Run /\ run[w].msg \in Msg /\ ProcessOf(w) \in Process
           /\ Regs[run[w].msg] \in Seq(Process) /\ RowOf(w) \in Row \cup {NoRow}
  BY SagaAssumption DEF TypeOK, InRegs, Run, ProcessOf, RowOf

LEMMA InitInv == Init => Inv /\ LoadedIsCurrent
  <1> SUFFICES ASSUME Init PROVE Inv /\ LoadedIsCurrent
    OBVIOUS
  <1> USE SagaAssumption DEF Init
  <1>1. TypeOK
    BY DEF TypeOK
  <1>2. InRegs /\ AttemptsLeft /\ PassedApplied /\ DoneMeansApplied
    BY DEF InRegs, AttemptsLeft, PassedApplied, DoneMeansApplied
  <1>3. AskedScheduled /\ TimeoutsScheduled /\ LoadedIsCurrent
    BY DEF AskedScheduled, TimeoutsScheduled, LoadedIsCurrent
  <1> QED
    BY <1>1, <1>2, <1>3 DEF Inv
-----------------------------------------------------------------------------
(* The five things a step does to the run of one worker.                   *)
Others(w) == \A v \in Worker \ {w} : run'[v] = run[v]

Took(w) ==
    /\ run[w] = Idle /\ run'[w] \in Run
    /\ run'[w].live /\ run'[w].at = 1 /\ ~run'[w].timeout /\ run'[w].stage = "find"
    /\ Regs[run'[w].msg] # <<>>
    /\ queue[run'[w].msg] = "queued" /\ queue' = [queue EXCEPT ![run'[w].msg] = "unacked"]
    /\ attempts' = attempts

Moved(w) ==
    /\ run[w] # Idle /\ run'[w] \in Run
    /\ run'[w].msg = run[w].msg /\ run'[w].at = run[w].at /\ run'[w].live = run[w].live
    /\ run'[w].timeout => run[w].timeout \/ run[w].msg \in scheduled'[ProcessOf(w)]
    /\ queue' = queue /\ attempts' = attempts

Took1(w) ==
    <<run[w].msg, ProcessOf(w)>> \in Starts => applied'[ProcessOf(w)][run[w].msg] > 0

Progressed(w) ==
    /\ run[w] # Idle /\ run'[w] \in Run
    /\ run'[w].msg = run[w].msg /\ run'[w].at = run[w].at + 1 /\ run'[w].live = run[w].live
    /\ ~run'[w].timeout /\ run'[w].stage = "find"
    /\ run[w].at < Len(Regs[run[w].msg])
    /\ Took1(w)
    /\ queue' = queue /\ attempts' = attempts

Released(w) ==
    /\ run[w] # Idle /\ run[w].live /\ run'[w] = [run[w] EXCEPT !.live = FALSE]
    /\ queue' = [queue EXCEPT ![run[w].msg] = "queued"] /\ attempts' = attempts

Ended(w) ==
    /\ run[w] # Idle /\ run'[w] = Idle
    /\ ~run[w].live => queue' = queue /\ attempts' = attempts
    /\ \E outcome \in {"queued", "done", "unhandled", "dead"} :
          /\ run[w].live => queue' = [queue EXCEPT ![run[w].msg] = outcome]
          /\ outcome = "queued" => attempts'[run[w].msg] < MaxAttempts
          /\ outcome = "done" => run[w].at = Len(Regs[run[w].msg]) /\ Took1(w)
    /\ \A m \in Msg \ {run[w].msg} : attempts'[m] = attempts[m]

Monotone ==
    /\ \A p \in Process, m \in Msg : applied'[p][m] >= applied[p][m]
    /\ \A p \in Process : scheduled[p] \subseteq scheduled'[p]

Shape(w) == Others(w) /\ Monotone
              /\ (Took(w) \/ Moved(w) \/ Progressed(w) \/ Released(w) \/ Ended(w))

LEMMA SettleShape ==
    ASSUME TypeOK, NEW w \in Worker, run[w] # Idle, NEW outcome \in {"queued", "done", "unhandled", "dead"},
           Settle(w, outcome)
    PROVE  /\ run' \in [Worker -> Run \cup {Idle}] /\ run'[w] = Idle /\ Others(w)
           /\ queue' \in [Msg -> {"queued", "unacked", "done", "unhandled", "dead"}]
           /\ run[w].live => queue' = [queue EXCEPT ![run[w].msg] = outcome]
           /\ ~run[w].live => queue' = queue
  BY DEF TypeOK, Settle, Others

LEMMA FailureShape ==
    ASSUME Inv, NEW w \in Worker, run[w] # Idle, Failure(w), Monotone
    PROVE  /\ run' \in [Worker -> Run \cup {Idle}]
           /\ queue' \in [Msg -> {"queued", "unacked", "done", "unhandled", "dead"}]
           /\ attempts' \in [Msg -> 0..MaxAttempts]
           /\ failedAt' \in [Msg -> SUBSET (Nat \ {0})]
           /\ Shape(w)
  <1> USE DEF Inv, Failure
  <1> DEFINE outcome == IF attempts[run[w].msg] + 1 < MaxAttempts THEN "queued" ELSE "dead"
  <1>1. run[w].msg \in Msg /\ run[w].live \in BOOLEAN
    BY Processes DEF Run
  <1>2. outcome \in {"queued", "dead"} /\ Settle(w, outcome)
    OBVIOUS
  <1>3. run[w].live => attempts[run[w].msg] < MaxAttempts
    BY <1>1 DEF AttemptsLeft
  <1>4. attempts' \in [Msg -> 0..MaxAttempts]
    <2>1. CASE run[w].live
      <3>1. attempts[run[w].msg] + 1 \in 0..MaxAttempts
        BY <1>1, <1>3, <2>1, SagaAssumption DEF TypeOK
      <3> QED
        BY <2>1, <3>1 DEF TypeOK
    <2> QED
      BY <2>1 DEF TypeOK
  <1>5. \A m \in Msg \ {run[w].msg} : attempts'[m] = attempts[m]
    BY DEF TypeOK
  <1>6. /\ run' \in [Worker -> Run \cup {Idle}] /\ run'[w] = Idle /\ Others(w)
        /\ queue' \in [Msg -> {"queued", "unacked", "done", "unhandled", "dead"}]
        /\ run[w].live => queue' = [queue EXCEPT ![run[w].msg] = outcome]
        /\ ~run[w].live => queue' = queue
    BY <1>2, SettleShape
  <1>7. Ended(w)
    <2>1. CASE run[w].live
      <3>1. outcome = "queued" => attempts'[run[w].msg] < MaxAttempts
        BY <1>1, <2>1 DEF TypeOK
      <3> HIDE DEF outcome
      <3> QED
        BY <1>2, <1>5, <1>6, <2>1, <3>1 DEF Ended
    <2>2. CASE ~run[w].live
      <3>1. attempts' = attempts
        BY <2>2
      <3> QED
        BY <1>6, <2>2, <3>1 DEF Ended
    <2> QED
      BY <2>1, <2>2
  <1>8. failedAt' \in [Msg -> SUBSET (Nat \ {0})]
    <2>1. run[w].at \in Nat \ {0}
      BY Processes DEF Run
    <2> QED
      BY <1>1, <2>1 DEF TypeOK
  <1> QED
    BY <1>4, <1>6, <1>7, <1>8 DEF Shape

LEMMA AdvanceShape ==
    ASSUME Inv, NEW w \in Worker, run[w] # Idle, NEW ran \in BOOLEAN, Advance(w, ran), Monotone,
           Took1(w)
    PROVE  /\ run' \in [Worker -> Run \cup {Idle}]
           /\ queue' \in [Msg -> {"queued", "unacked", "done", "unhandled", "dead"}]
           /\ attempts' = attempts /\ failedAt' = failedAt
           /\ Shape(w)
           /\ run'[w] # Idle => run'[w].stage = "find"
  <1> USE DEF Inv, Advance
  <1>0. run[w] \in Run /\ Regs[run[w].msg] \in Seq(Process)
    BY Processes
  <1>1. CASE run[w].at < Len(Regs[run[w].msg])
    <2>1. /\ run' = [run EXCEPT ![w] = [run[w] EXCEPT !.at = @ + 1, !.stage = "find",
                                                    !.timeout = FALSE, !.ran = ran]]
          /\ queue' = queue /\ attempts' = attempts
      BY <1>1 DEF TypeOK
    <2>2. [run[w] EXCEPT !.at = @ + 1, !.stage = "find", !.timeout = FALSE, !.ran = ran] \in Run
      <3>1. run[w].at + 1 \in Nat \ {0}
        BY <1>0 DEF Run
      <3>2. [run[w] EXCEPT !.at = run[w].at + 1, !.stage = "find", !.timeout = FALSE, !.ran = ran] \in Run
        BY ONLY <1>0, <3>1, ran \in BOOLEAN DEF Run
      <3> QED
        BY <3>2
    <2>3. Progressed(w)
      BY <1>0, <1>1, <2>1, <2>2 DEF Progressed, TypeOK, Run
    <2> DEFINE next == [run[w] EXCEPT !.at = @ + 1, !.stage = "find", !.timeout = FALSE, !.ran = ran]
    <2>4. run' = [run EXCEPT ![w] = next] /\ next \in Run
      BY <2>1, <2>2
    <2>5. next.stage = "find"
      BY <1>0 DEF Run
    <2> HIDE DEF next
    <2>6. run' \in [Worker -> Run \cup {Idle}] /\ Others(w) /\ run'[w] = next
      BY <2>4 DEF TypeOK, Others
    <2> QED
      BY <2>1, <2>3, <2>5, <2>6 DEF Shape, TypeOK
  <1>2. CASE ~(run[w].at < Len(Regs[run[w].msg]))
    <2> DEFINE outcome == IF ran THEN "done" ELSE "unhandled"
    <2>1. Settle(w, outcome) /\ outcome \in {"done", "unhandled"} /\ attempts' = attempts
      BY <1>2
    <2>2. run[w].at = Len(Regs[run[w].msg])
      BY <1>0, <1>2 DEF InRegs, Run
    <2> HIDE DEF outcome
    <2>3. /\ run' \in [Worker -> Run \cup {Idle}] /\ run'[w] = Idle /\ Others(w)
          /\ queue' \in [Msg -> {"queued", "unacked", "done", "unhandled", "dead"}]
          /\ run[w].live => queue' = [queue EXCEPT ![run[w].msg] = outcome]
          /\ ~run[w].live => queue' = queue
      BY <2>1, SettleShape
    <2>4. Ended(w)
      BY <2>1, <2>2, <2>3 DEF Ended
    <2> QED
      BY <2>1, <2>3, <2>4 DEF Shape
  <1> QED
    BY <1>1, <1>2

(* Every step has one of the shapes, and keeps the types.                  *)
LEMMA StepShape ==
    ASSUME Inv, Next
    PROVE  TypeOK' /\ \E w \in Worker : Shape(w)
  <1> USE DEF Inv
  <1>0. \A w \in Worker : run[w] # Idle =>
           /\ run[w] \in Run /\ run[w].msg \in Msg /\ ProcessOf(w) \in Process
           /\ Regs[run[w].msg] \in Seq(Process) /\ RowOf(w) \in Row \cup {NoRow}
    BY Processes
  <1>1. ASSUME NEW w \in Worker, NEW m \in Msg, Consume(w, m) PROVE TypeOK' /\ Shape(w)
    <2> USE <1>1 DEF Consume
    <2> DEFINE new == [msg |-> m, at |-> 1, stage |-> "find", data |-> <<>>,
                       token |-> 0, timeout |-> FALSE, ran |-> FALSE, live |-> TRUE]
    <2>1. new \in Run /\ new.msg = m /\ new.live /\ new.at = 1 /\ ~new.timeout /\ new.stage = "find"
      BY DEF Run
    <2>2. run' = [run EXCEPT ![w] = new]
      OBVIOUS
    <2> HIDE DEF new
    <2>3. run' \in [Worker -> Run \cup {Idle}] /\ Others(w) /\ run'[w] = new
      <3>1. run \in [Worker -> Run \cup {Idle}]
        BY DEF TypeOK
      <3> QED
        BY ONLY <2>1, <2>2, <3>1 DEF Others
    <2>4. TypeOK'
      BY <2>3 DEF TypeOK
    <2>5. Monotone
      BY DEF Monotone, TypeOK
    <2>6. Took(w)
      BY <2>1, <2>3 DEF Took
    <2> QED
      BY <2>3, <2>4, <2>5, <2>6 DEF Shape
  <1>2. ASSUME NEW w \in Worker, NEW r \in Run, run[w] # Idle, run' = [run EXCEPT ![w] = r],
               r.msg = run[w].msg, r.at = run[w].at, r.live = run[w].live,
               r.timeout => run[w].timeout \/ run[w].msg \in scheduled'[ProcessOf(w)],
               queue' = queue, attempts' = attempts, Monotone
        PROVE  Shape(w) /\ run' \in [Worker -> Run \cup {Idle}]
    BY <1>2 DEF Shape, Moved, Others, TypeOK
  <1>3. ASSUME NEW w \in Worker, Find(w) PROVE TypeOK' /\ Shape(w)
    <2> USE <1>3 DEF Find, At
    <2>1. Monotone
      BY DEF Monotone, TypeOK
    <2>2. CASE RowOf(w) # NoRow
      <3> DEFINE r == [run[w] EXCEPT !.stage = "handle", !.data = RowOf(w).data, !.token = RowOf(w).token]
      <3>1. RowOf(w) \in Row
        BY <1>0, <2>2
      <3>2. r \in Run /\ r.msg = run[w].msg /\ r.at = run[w].at /\ r.live = run[w].live
            /\ r.timeout = run[w].timeout
        BY <1>0, <3>1 DEF Run, Row
      <3>3. run' = [run EXCEPT ![w] = r] /\ queue' = queue /\ attempts' = attempts
            /\ failedAt' = failedAt
        BY <2>2 DEF TypeOK
      <3> HIDE DEF r
      <3>4. Shape(w) /\ run' \in [Worker -> Run \cup {Idle}]
        BY <1>2, <2>1, <3>2, <3>3
      <3> QED
        BY <3>3, <3>4 DEF TypeOK
    <2>3. CASE RowOf(w) = NoRow /\ <<run[w].msg, ProcessOf(w)>> \in Starts
      <3> DEFINE r == [run[w] EXCEPT !.stage = "insert"]
      <3>2. r \in Run /\ r.msg = run[w].msg /\ r.at = run[w].at /\ r.live = run[w].live
            /\ r.timeout = run[w].timeout
        BY <1>0 DEF Run
      <3>3. run' = [run EXCEPT ![w] = r] /\ queue' = queue /\ attempts' = attempts
            /\ failedAt' = failedAt
        BY <2>3 DEF TypeOK
      <3> HIDE DEF r
      <3>4. Shape(w) /\ run' \in [Worker -> Run \cup {Idle}]
        BY <1>2, <2>1, <3>2, <3>3
      <3> QED
        BY <3>3, <3>4 DEF TypeOK
    <2>4. CASE RowOf(w) = NoRow /\ <<run[w].msg, ProcessOf(w)>> \notin Starts
      <3>1. Advance(w, run[w].ran) /\ run[w].ran \in BOOLEAN /\ Took1(w)
        BY <1>0, <2>4 DEF Took1, Run
      <3>2. /\ run' \in [Worker -> Run \cup {Idle}]
            /\ queue' \in [Msg -> {"queued", "unacked", "done", "unhandled", "dead"}]
            /\ attempts' = attempts /\ failedAt' = failedAt /\ Shape(w)
        BY <2>1, <3>1, AdvanceShape
      <3> QED
        BY <3>2 DEF TypeOK
    <2> QED
      BY <2>2, <2>3, <2>4
  <1>4. ASSUME NEW w \in Worker, Inserted(w) \/ Updated(w) \/ Deleted(w), scheduled' = scheduled
        PROVE  /\ rows' \in [Process -> Row \cup {NoRow}] /\ issued' \in Nat
               /\ applied' \in [Process -> [Msg -> Nat]] /\ armed' \in [Process -> SUBSET Msg]
               /\ Monotone
    <2> USE <1>4
    <2>0. run[w] # Idle /\ issued \in Nat
      BY DEF Inserted, Updated, Deleted, At, TypeOK
    <2>1. CASE Inserted(w)
      <3>1. InsertToken(ProcessOf(w)) \in Nat
        BY <2>0 DEF InsertToken
      <3>2. [data |-> <<>>, token |-> InsertToken(ProcessOf(w))] \in Row
        BY <3>1 DEF Row
      <3> QED
        BY <1>0, <2>0, <2>1, <3>2 DEF Inserted, TypeOK, Monotone
    <2>2. ASSUME Committed(w)
          PROVE  /\ applied' \in [Process -> [Msg -> Nat]] /\ armed' \in [Process -> SUBSET Msg]
                 /\ Monotone
      <3> DEFINE p == ProcessOf(w) m == run[w].msg
      <3>1. p \in Process /\ m \in Msg
        BY <1>0, <2>0
      <3>2. applied' = [applied EXCEPT ![p][m] = @ + 1]
            /\ armed' = IF run[w].timeout THEN [armed EXCEPT ![p] = @ \cup {m}] ELSE armed
        BY <2>2 DEF Committed
      <3> HIDE DEF p, m
      <3>3. applied' \in [Process -> [Msg -> Nat]]
        BY <3>1, <3>2 DEF TypeOK
      <3>4. armed' \in [Process -> SUBSET Msg]
        BY <3>1, <3>2 DEF TypeOK
      <3>5. Monotone
        BY <3>1, <3>2 DEF Monotone, TypeOK
      <3> QED
        BY <3>3, <3>4, <3>5
    <2>3. CASE Updated(w)
      <3>1. RowOf(w) \in Row /\ run[w] \in Run /\ run[w].msg \in Msg
        BY <1>0, <2>0, <2>3 DEF Updated, Matches
      <3>2. UpdateToken(ProcessOf(w)) \in Nat
        BY <2>0, <3>1 DEF UpdateToken, Row, RowOf
      <3>3. Append(run[w].data, run[w].msg) \in Seq(Msg)
        BY <3>1 DEF Run
      <3>4. [data |-> Append(run[w].data, run[w].msg), token |-> UpdateToken(ProcessOf(w))] \in Row
        BY <3>2, <3>3 DEF Row
      <3> QED
        BY <1>0, <2>0, <2>2, <2>3, <3>4 DEF Updated, TypeOK
    <2>4. CASE Deleted(w)
      BY <1>0, <2>0, <2>2, <2>4 DEF Deleted, TypeOK
    <2> QED
      BY <2>1, <2>3, <2>4
  <1>5. ASSUME NEW w \in Worker, Inserted(w) \/ Updated(w) \/ Deleted(w) PROVE run[w] # Idle
    BY <1>5 DEF Inserted, Updated, Deleted, At
  <1>6. ASSUME NEW w \in Worker, InsertOk(w) PROVE TypeOK' /\ Shape(w)
    <2> USE <1>6 DEF InsertOk
    <2>1. /\ rows' \in [Process -> Row \cup {NoRow}] /\ issued' \in Nat
          /\ applied' \in [Process -> [Msg -> Nat]] /\ armed' \in [Process -> SUBSET Msg]
          /\ Monotone /\ run[w] # Idle
      BY <1>4, <1>5
    <2> DEFINE r == [run[w] EXCEPT !.stage = "handle", !.data = <<>>, !.token = InsertToken(ProcessOf(w))]
    <2>2. InsertToken(ProcessOf(w)) \in Nat
      BY DEF InsertToken, TypeOK
    <2>3. r \in Run /\ r.msg = run[w].msg /\ r.at = run[w].at /\ r.live = run[w].live
          /\ r.timeout = run[w].timeout
      <3>1. run[w] \in Run /\ <<>> \in Seq(Msg)
        BY <1>0, <2>1
      <3> QED
        BY ONLY <2>2, <3>1 DEF Run
    <2>4. run' = [run EXCEPT ![w] = r] /\ queue' = queue /\ attempts' = attempts
      BY DEF TypeOK
    <2> HIDE DEF r
    <2>5. Shape(w) /\ run' \in [Worker -> Run \cup {Idle}]
      BY <1>2, <2>1, <2>3, <2>4
    <2> QED
      BY <2>1, <2>4, <2>5 DEF TypeOK
  <1>7. ASSUME NEW w \in Worker, RequestTimeout(w) PROVE TypeOK' /\ Shape(w)
    <2> USE <1>7 DEF RequestTimeout, At
    <2> DEFINE r == [run[w] EXCEPT !.timeout = TRUE]
    <2>1. r \in Run /\ r.msg = run[w].msg /\ r.at = run[w].at /\ r.live = run[w].live
      BY <1>0 DEF Run
    <2>2. run' = [run EXCEPT ![w] = r] /\ queue' = queue /\ attempts' = attempts
      BY DEF TypeOK
    <2>3. scheduled' \in [Process -> SUBSET Msg] /\ Monotone /\ run[w].msg \in scheduled'[ProcessOf(w)]
      BY <1>0 DEF TypeOK, Monotone
    <2> HIDE DEF r
    <2>4. Shape(w) /\ run' \in [Worker -> Run \cup {Idle}]
      BY <1>2, <2>1, <2>2, <2>3
    <2> QED
      BY <2>2, <2>3, <2>4 DEF TypeOK
  <1>8. ASSUME NEW w \in Worker, Handle(w) PROVE TypeOK' /\ Shape(w)
    <2> USE <1>8 DEF Handle, At
    <2>1. PICK stage \in {"update", "delete"} : run' = [run EXCEPT ![w].stage = stage]
      OBVIOUS
    <2> DEFINE r == [run[w] EXCEPT !.stage = stage]
    <2>2. r \in Run /\ r.msg = run[w].msg /\ r.at = run[w].at /\ r.live = run[w].live
          /\ r.timeout = run[w].timeout
      BY <1>0 DEF Run
    <2>3. run' = [run EXCEPT ![w] = r] /\ queue' = queue /\ attempts' = attempts
      BY <2>1 DEF TypeOK
    <2> HIDE DEF r
    <2>5. Monotone
      BY DEF TypeOK, Monotone
    <2>4. Shape(w) /\ run' \in [Worker -> Run \cup {Idle}]
      BY <1>2, <2>2, <2>3, <2>5
    <2> QED
      BY <2>4 DEF TypeOK
  <1>9. ASSUME NEW w \in Worker,
               InsertDuplicate(w) \/ HandlerThrows(w) \/ UpdateConflict(w) \/ StoreFails(w)
        PROVE  TypeOK' /\ Shape(w)
    <2>1. run[w] # Idle /\ Failure(w) /\ faults' \in 0..MaxFaults /\ disturbed' = disturbed
          /\ rows' = rows /\ issued' = issued /\ applied' = applied /\ scheduled' = scheduled /\ armed' = armed
      BY <1>9, SagaAssumption DEF InsertDuplicate, HandlerThrows, UpdateConflict, StoreFails, At, Fault, TypeOK
    <2>2. Monotone
      BY <2>1 DEF Monotone, TypeOK
    <2>3. /\ run' \in [Worker -> Run \cup {Idle}]
          /\ queue' \in [Msg -> {"queued", "unacked", "done", "unhandled", "dead"}]
          /\ attempts' \in [Msg -> 0..MaxAttempts]
          /\ failedAt' \in [Msg -> SUBSET (Nat \ {0})]
          /\ Shape(w)
      BY <2>1, <2>2, FailureShape
    <2> QED
      BY <2>1, <2>3 DEF TypeOK
  <1>10. ASSUME NEW w \in Worker, UpdateOk(w) \/ DeleteOk(w) PROVE TypeOK' /\ Shape(w)
    <2>1. (Updated(w) \/ Deleted(w)) /\ Advance(w, TRUE) /\ Committed(w) /\ scheduled' = scheduled
          /\ disturbed' = disturbed /\ faults' = faults
      BY <1>10 DEF UpdateOk, DeleteOk, Updated, Deleted
    <2>2. /\ rows' \in [Process -> Row \cup {NoRow}] /\ issued' \in Nat
          /\ applied' \in [Process -> [Msg -> Nat]] /\ armed' \in [Process -> SUBSET Msg]
          /\ Monotone /\ run[w] # Idle
      BY <1>4, <1>5, <2>1
    <2>3. Took1(w)
      <3> DEFINE p == ProcessOf(w) m == run[w].msg
      <3>1. p \in Process /\ m \in Msg /\ applied' = [applied EXCEPT ![p][m] = @ + 1]
        BY <1>0, <2>1, <2>2 DEF Committed
      <3> HIDE DEF p, m
      <3>2. applied'[p][m] > 0
        BY <3>1 DEF TypeOK
      <3> QED
        BY <3>2 DEF Took1, p, m
    <2>4. /\ run' \in [Worker -> Run \cup {Idle}]
          /\ queue' \in [Msg -> {"queued", "unacked", "done", "unhandled", "dead"}]
          /\ attempts' = attempts /\ failedAt' = failedAt /\ Shape(w)
      BY <2>1, <2>2, <2>3, AdvanceShape
    <2> QED
      BY <2>1, <2>2, <2>4 DEF TypeOK
  <1>11. ASSUME NEW w \in Worker, AnswerLost(w) PROVE TypeOK' /\ Shape(w)
    <2>1. (Inserted(w) \/ Updated(w) \/ Deleted(w)) /\ Failure(w) /\ scheduled' = scheduled
          /\ faults' \in 0..MaxFaults /\ disturbed' = disturbed \cup {run[w].msg}
      BY <1>11, SagaAssumption DEF AnswerLost, Fault, TypeOK
    <2>2. /\ rows' \in [Process -> Row \cup {NoRow}] /\ issued' \in Nat
          /\ applied' \in [Process -> [Msg -> Nat]] /\ armed' \in [Process -> SUBSET Msg]
          /\ Monotone /\ run[w] # Idle
      BY <1>4, <1>5, <2>1
    <2>3. /\ run' \in [Worker -> Run \cup {Idle}]
          /\ queue' \in [Msg -> {"queued", "unacked", "done", "unhandled", "dead"}]
          /\ attempts' \in [Msg -> 0..MaxAttempts]
          /\ failedAt' \in [Msg -> SUBSET (Nat \ {0})]
          /\ Shape(w)
      BY <2>1, <2>2, FailureShape
    <2> QED
      BY <1>0, <2>1, <2>2, <2>3 DEF TypeOK
  <1>12. ASSUME NEW w \in Worker, Crash(w) PROVE TypeOK' /\ Shape(w)
    <2> USE <1>12 DEF Crash, Fault
    <2>1. /\ run' \in [Worker -> Run \cup {Idle}] /\ run'[w] = Idle /\ Others(w)
          /\ queue' \in [Msg -> {"queued", "unacked", "done", "unhandled", "dead"}]
          /\ run[w].live => queue' = [queue EXCEPT ![run[w].msg] = "queued"]
          /\ ~run[w].live => queue' = queue
      BY SettleShape
    <2>2. faults' \in 0..MaxFaults /\ disturbed' \subseteq Msg
      BY <1>0, SagaAssumption DEF TypeOK
    <2>3. TypeOK' /\ Monotone
      BY <2>1, <2>2 DEF TypeOK, Monotone
    <2>4. run[w].live => attempts'[run[w].msg] < MaxAttempts
      BY <1>0 DEF AttemptsLeft
    <2>5. Ended(w)
      <3>1. CASE run[w].live
        BY <2>1, <2>4, <3>1 DEF Ended
      <3>2. CASE ~run[w].live
        BY <2>1, <3>2 DEF Ended
      <3> QED
        BY <3>1, <3>2
    <2> QED
      BY <2>1, <2>3, <2>5 DEF Shape
  <1>13. ASSUME NEW w \in Worker, ChannelLost(w) PROVE TypeOK' /\ Shape(w)
    <2> USE <1>13 DEF ChannelLost, Fault
    <2> DEFINE r == [run[w] EXCEPT !.live = FALSE]
    <2>1. r \in Run /\ run' = [run EXCEPT ![w] = r]
      BY <1>0 DEF Run, TypeOK
    <2>2. run'[w] = [run[w] EXCEPT !.live = FALSE]
      BY DEF TypeOK
    <2> HIDE DEF r
    <2>3. run' \in [Worker -> Run \cup {Idle}] /\ Others(w)
      BY <2>1 DEF TypeOK, Others
    <2>4. faults' \in 0..MaxFaults /\ disturbed' \subseteq Msg
      BY <1>0, SagaAssumption DEF TypeOK
    <2>5. TypeOK' /\ Monotone
      BY <2>3, <2>4 DEF TypeOK, Monotone
    <2> QED
      BY <2>2, <2>3, <2>5 DEF Shape, Released
  <1> QED
    BY <1>1, <1>3, <1>6, <1>7, <1>8, <1>9, <1>10, <1>11, <1>12, <1>13 DEF Next, Step
-----------------------------------------------------------------------------
(* What the shapes say of the parts of Inv.                                *)
LEMMA ShapeKeepsRuns ==
    ASSUME Inv, TypeOK', NEW w \in Worker, Shape(w)
    PROVE  InRegs' /\ AttemptsLeft'
  <1> USE DEF Inv, Shape
  <1>0. /\ \A v \in Worker : v # w => run'[v] = run[v]
        /\ \A v \in Worker : run[v] # Idle => run[v] \in Run /\ run[v].msg \in Msg
                                              /\ Regs[run[v].msg] \in Seq(Process)
        /\ \A m \in Msg : Regs[m] \in Seq(Process)
        /\ \A m \in Msg : attempts[m] \in Nat /\ MaxAttempts \in Nat
    BY Processes, SagaAssumption DEF Others, TypeOK
  <1>1. CASE Took(w)
    <2>1. run'[w].msg \in Msg /\ run'[w].at = 1 /\ 1 \in 1..Len(Regs[run'[w].msg])
      BY <1>0, <1>1 DEF Took, Run
    <2>2. InRegs'
      BY <1>0, <2>1 DEF InRegs
    <2>3. \A v \in Worker : v # w /\ run[v] # Idle /\ run[v].live => run[v].msg # run'[w].msg
      BY <1>1 DEF Took, AttemptsLeft
    <2>4. \A m \in Msg : queue'[m] = IF m = run'[w].msg THEN "unacked" ELSE queue[m]
      BY <1>1, <2>1 DEF Took, TypeOK
    <2>5. \A m \in Msg : queue'[m] \in {"queued", "unacked"} => attempts'[m] < MaxAttempts
      BY <1>1, <2>1, <2>4 DEF Took, AttemptsLeft
    <2>6. \A v \in Worker : run'[v] # Idle /\ run'[v].live => queue'[run'[v].msg] = "unacked"
      BY <1>0, <2>1, <2>3, <2>4 DEF AttemptsLeft
    <2>7. \A u, v \in Worker : run'[u] # Idle /\ run'[v] # Idle /\ run'[u].live /\ run'[v].live
                                 /\ run'[u].msg = run'[v].msg => u = v
      BY <1>0, <2>3 DEF AttemptsLeft
    <2> QED
      BY <2>2, <2>5, <2>6, <2>7 DEF AttemptsLeft
  <1>2. CASE Moved(w)
    <2>1. InRegs'
      BY <1>0, <1>2 DEF InRegs, Moved
    <2>2. AttemptsLeft'
      BY <1>0, <1>2 DEF AttemptsLeft, Moved
    <2> QED
      BY <2>1, <2>2
  <1>3. CASE Progressed(w)
    <2>1. run[w].at \in Nat /\ run'[w].at \in 1..Len(Regs[run'[w].msg])
      BY <1>0, <1>3 DEF Progressed, Run
    <2>2. InRegs'
      BY <1>0, <2>1 DEF InRegs
    <2>3. AttemptsLeft'
      BY <1>0, <1>3 DEF AttemptsLeft, Progressed
    <2> QED
      BY <2>2, <2>3
  <1>4. CASE Released(w)
    <2>1. run'[w].msg = run[w].msg /\ run'[w].at = run[w].at /\ ~run'[w].live /\ run[w].msg \in Msg
      BY <1>0, <1>4 DEF Released, Run
    <2>2. InRegs'
      BY <1>0, <1>4, <2>1 DEF InRegs, Released
    <2>3. \A v \in Worker : v # w /\ run[v] # Idle /\ run[v].live => run[v].msg # run[w].msg
      BY <1>4 DEF Released, AttemptsLeft
    <2>4. \A m \in Msg : queue'[m] = IF m = run[w].msg THEN "queued" ELSE queue[m]
      BY <1>4 DEF Released, TypeOK
    <2>5. \A m \in Msg : queue'[m] \in {"queued", "unacked"} => attempts'[m] < MaxAttempts
      BY <1>4, <2>1, <2>4 DEF Released, AttemptsLeft
    <2>6. \A v \in Worker : run'[v] # Idle /\ run'[v].live => queue'[run'[v].msg] = "unacked"
      BY <1>0, <2>1, <2>3, <2>4 DEF AttemptsLeft
    <2>7. \A u, v \in Worker : run'[u] # Idle /\ run'[v] # Idle /\ run'[u].live /\ run'[v].live
                                 /\ run'[u].msg = run'[v].msg => u = v
      BY <1>0, <2>1 DEF AttemptsLeft
    <2> QED
      BY <2>2, <2>5, <2>6, <2>7 DEF AttemptsLeft
  <1>5. CASE Ended(w)
    <2>1. InRegs'
      BY <1>0, <1>5 DEF InRegs, Ended
    <2>2. CASE ~run[w].live
      BY <1>0, <1>5, <2>1, <2>2 DEF AttemptsLeft, Ended
    <2>3. CASE run[w].live
      <3>1. PICK outcome \in {"queued", "done", "unhandled", "dead"} :
              /\ queue' = [queue EXCEPT ![run[w].msg] = outcome]
              /\ outcome = "queued" => attempts'[run[w].msg] < MaxAttempts
        BY <1>5, <2>3 DEF Ended
      <3>2. run[w] # Idle /\ run'[w] = Idle /\ run[w].msg \in Msg
            /\ \A m \in Msg \ {run[w].msg} : attempts'[m] = attempts[m]
        BY <1>0, <1>5 DEF Ended
      <3>3. \A v \in Worker : v # w /\ run[v] # Idle /\ run[v].live => run[v].msg # run[w].msg
        BY <2>3, <3>2 DEF AttemptsLeft
      <3>4. \A m \in Msg : queue'[m] = IF m = run[w].msg THEN outcome ELSE queue[m]
        BY <3>1 DEF TypeOK
      <3>5. \A m \in Msg : queue'[m] \in {"queued", "unacked"} => attempts'[m] < MaxAttempts
        BY <3>1, <3>2, <3>4 DEF AttemptsLeft
      <3>6. \A v \in Worker : run'[v] # Idle /\ run'[v].live => queue'[run'[v].msg] = "unacked"
        BY <1>0, <3>2, <3>3, <3>4 DEF AttemptsLeft
      <3>7. \A u, v \in Worker : run'[u] # Idle /\ run'[v] # Idle /\ run'[u].live /\ run'[v].live
                                   /\ run'[u].msg = run'[v].msg => u = v
        BY <1>0, <3>2 DEF AttemptsLeft
      <3> QED
        BY <2>1, <3>5, <3>6, <3>7 DEF AttemptsLeft
    <2> QED
      BY <2>2, <2>3
  <1> QED
    BY <1>1, <1>2, <1>3, <1>4, <1>5

LEMMA ShapeKeepsHistory ==
    ASSUME Inv, TypeOK', InRegs', NEW w \in Worker, Shape(w)
    PROVE  PassedApplied' /\ DoneMeansApplied' /\ AskedScheduled'
  <1> USE DEF Inv, Shape
  <1>0. /\ \A v \in Worker : v # w => run'[v] = run[v]
        /\ \A v \in Worker : run[v] # Idle => /\ run[v] \in Run /\ run[v].msg \in Msg /\ run[v].at \in Nat
                                              /\ ProcessOf(v) \in Process
        /\ \A m \in Msg : Regs[m] \in Seq(Process)
        /\ \A p \in Process, m \in Msg : applied[p][m] \in Nat /\ applied'[p][m] \in Nat
        /\ \A m \in Msg : \A i \in DOMAIN Regs[m] : Regs[m][i] \in Process
    BY Processes, SagaAssumption DEF Others, TypeOK, Run
  <1>1. \A p \in Process, m \in Msg : applied[p][m] > 0 => applied'[p][m] > 0
    BY <1>0 DEF Monotone
  <1>2. ASSUME NEW v \in Worker, run'[v] # Idle, run[v] # Idle,
               run'[v].msg = run[v].msg, run'[v].at = run[v].at,
               NEW i \in 1..run'[v].at - 1, <<run'[v].msg, Regs[run'[v].msg][i]>> \in Starts
        PROVE  applied'[Regs[run'[v].msg][i]][run'[v].msg] > 0
    <2>1. i \in DOMAIN Regs[run[v].msg]
      BY <1>0, <1>2 DEF InRegs
    <2> QED
      BY <1>0, <1>1, <1>2, <2>1 DEF PassedApplied
  <1>3. ASSUME NEW v \in Worker, v # w, run'[v] # Idle, run'[v].timeout
        PROVE  run'[v].msg \in scheduled'[ProcessOf(v)']
    BY <1>0, <1>3 DEF AskedScheduled, Monotone, ProcessOf
  <1>4. PassedApplied'
    <2> SUFFICES ASSUME NEW v \in Worker, run'[v] # Idle, NEW i \in 1..run'[v].at - 1,
                        <<run'[v].msg, Regs[run'[v].msg][i]>> \in Starts
                 PROVE  applied'[Regs[run'[v].msg][i]][run'[v].msg] > 0
      BY DEF PassedApplied
    <2>1. CASE v # w \/ Moved(w) \/ Released(w)
      <3>1. run[v] # Idle /\ run'[v].msg = run[v].msg /\ run'[v].at = run[v].at
        <4>1. CASE v # w
          BY <1>0, <4>1
        <4>2. CASE v = w /\ Moved(w)
          BY <4>2 DEF Moved
        <4>3. CASE v = w /\ Released(w)
          BY <1>0, <4>3 DEF Released, Run
        <4> QED
          BY <2>1, <4>1, <4>2, <4>3
      <3> QED
        BY <1>2, <3>1
    <2>2. CASE v = w /\ Took(w)
      BY <2>2 DEF Took
    <2>3. CASE v = w /\ Progressed(w)
      <3>1. run'[w].msg = run[w].msg /\ run[w] # Idle /\ i \in 1..run[w].at
        BY <1>0, <2>3 DEF Progressed
      <3>2. CASE i = run[w].at
        BY <2>3, <3>1, <3>2 DEF Progressed, Took1, ProcessOf
      <3>3. CASE i # run[w].at
        <4>1. i \in 1..run[w].at - 1 /\ i \in DOMAIN Regs[run[w].msg]
          BY <1>0, <3>1, <3>3 DEF InRegs
        <4>2. <<run[w].msg, Regs[run[w].msg][i]>> \in Starts
          BY <2>3, <3>1
        <4>3. applied[Regs[run[w].msg][i]][run[w].msg] > 0
          BY <3>1, <4>1, <4>2 DEF PassedApplied
        <4> QED
          BY <1>0, <1>1, <2>3, <3>1, <4>1, <4>3
      <3> QED
        BY <3>2, <3>3
    <2>4. CASE v = w /\ Ended(w)
      BY <2>4 DEF Ended
    <2> QED
      BY <2>1, <2>2, <2>3, <2>4
  <1>5. DoneMeansApplied'
    <2> SUFFICES ASSUME NEW m \in Msg, queue'[m] = "done", NEW i \in DOMAIN Regs[m],
                        <<m, Regs[m][i]>> \in Starts
                 PROVE  applied'[Regs[m][i]][m] > 0
      BY DEF DoneMeansApplied
    <2>1. CASE queue[m] = "done"
      BY <1>0, <1>1, <2>1 DEF DoneMeansApplied
    <2>2. CASE queue[m] # "done"
      <3>0. Ended(w)
        BY <2>2 DEF Took, Moved, Progressed, Released, TypeOK
      <3>1. run[w] # Idle /\ run[w].live /\ m = run[w].msg /\ Ended(w)
        BY <2>2, <3>0 DEF Ended, TypeOK
      <3>2. run[w].at = Len(Regs[m]) /\ Took1(w)
        BY <2>2, <3>1 DEF Ended, TypeOK
      <3>3. i \in 1..Len(Regs[m]) /\ Len(Regs[m]) \in Nat
        BY <1>0
      <3>4. CASE i = run[w].at
        BY <3>1, <3>2, <3>4 DEF Took1, ProcessOf
      <3>5. CASE i # run[w].at
        <4>1. i \in 1..run[w].at - 1
          BY <3>2, <3>3, <3>5
        <4>2. applied[Regs[m][i]][m] > 0
          BY <3>1, <4>1 DEF PassedApplied
        <4> QED
          BY <1>0, <1>1, <4>2
      <3> QED
        BY <3>4, <3>5
    <2> QED
      BY <2>1, <2>2
  <1>6. AskedScheduled'
    <2> SUFFICES ASSUME NEW v \in Worker, run'[v] # Idle, run'[v].timeout
                 PROVE  run'[v].msg \in scheduled'[ProcessOf(v)']
      BY DEF AskedScheduled
    <2>1. CASE v # w
      BY <1>3, <2>1
    <2>2. CASE v = w /\ Moved(w)
      BY <1>0, <2>2 DEF Moved, AskedScheduled, Monotone, ProcessOf
    <2>3. CASE v = w /\ Released(w)
      <3>1. run[w].timeout /\ run'[w].msg = run[w].msg /\ run'[w].at = run[w].at /\ run[w] # Idle
        BY <1>0, <2>3 DEF Released, Run
      <3> QED
        BY <1>0, <2>3, <3>1 DEF AskedScheduled, Monotone, ProcessOf
    <2> QED
      BY <2>1, <2>2, <2>3 DEF Took, Progressed, Ended
  <1> QED
    BY <1>4, <1>5, <1>6

(* Only a commit arms a timeout, for the message and process of its run.   *)
LEMMA ArmedStep ==
    ASSUME Next
    PROVE  \/ armed' = armed
           \/ \E w \in Worker : run[w] # Idle /\ Committed(w)
  BY DEF Next, Step, Consume, Find, InsertOk, Inserted, InsertDuplicate, RequestTimeout, Handle,
         HandlerThrows, UpdateOk, Updated, UpdateConflict, DeleteOk, Deleted,
         StoreFails, AnswerLost, Crash, ChannelLost, At

LEMMA StepKeepsTimeouts ==
    ASSUME Inv, Next, TypeOK', Monotone
    PROVE  TimeoutsScheduled'
  <1> USE DEF Inv
  <1>1. CASE armed' = armed
    BY <1>1 DEF TimeoutsScheduled, Monotone
  <1>2. ASSUME NEW w \in Worker, run[w] # Idle, Committed(w) PROVE TimeoutsScheduled'
    <2> DEFINE p == ProcessOf(w) m == run[w].msg
    <2>1. p \in Process /\ (run[w].timeout => m \in scheduled[p])
      BY <1>2, Processes DEF AskedScheduled
    <2>2. armed' = IF run[w].timeout THEN [armed EXCEPT ![p] = @ \cup {m}] ELSE armed
      BY <1>2 DEF Committed
    <2> HIDE DEF p, m
    <2> QED
      BY <2>1, <2>2 DEF TimeoutsScheduled, Monotone, TypeOK
  <1> QED
    BY <1>1, <1>2, ArmedStep

LEMMA NextInv == Inv /\ [Next]_vars => Inv'
  <1> SUFFICES ASSUME Inv, [Next]_vars PROVE Inv'
    OBVIOUS
  <1>1. CASE Next
    <2>1. PICK w \in Worker : TypeOK' /\ Shape(w)
      BY <1>1, StepShape
    <2>2. InRegs' /\ AttemptsLeft'
      BY <2>1, ShapeKeepsRuns
    <2>3. PassedApplied' /\ DoneMeansApplied' /\ AskedScheduled'
      BY <2>1, <2>2, ShapeKeepsHistory
    <2>4. TimeoutsScheduled'
      BY <1>1, <2>1, StepKeepsTimeouts DEF Shape
    <2> QED
      BY <2>1, <2>2, <2>3, <2>4 DEF Inv
  <1>2. CASE UNCHANGED vars
    BY <1>2 DEF vars, Inv, TypeOK, InRegs, AttemptsLeft, PassedApplied, DoneMeansApplied,
                AskedScheduled, TimeoutsScheduled, ProcessOf
  <1> QED
    BY <1>1, <1>2

(* The inductive invariant of Saga holds for all parameters.               *)
THEOREM SagaInvariant == Spec => []Inv
  BY InitInv, NextInv, PTL DEF Spec

(* Every variable keeps its type; no message exceeds its attempts.         *)
THEOREM SagaTypeCorrect == Spec => []TypeOK
  BY SagaInvariant, PTL DEF Inv

(* A message settled as done was taken by every saga it starts.            *)
THEOREM SagaDoneMeansApplied == Spec => []DoneMeansApplied
  BY SagaInvariant, PTL DEF Inv

(* A committed request for a timeout has its timeout stored.               *)
THEOREM SagaTimeoutsScheduled == Spec => []TimeoutsScheduled
  BY SagaInvariant, PTL DEF Inv
-----------------------------------------------------------------------------
(* A message no fault disturbed: its run is live, and a saga it is still to*)
(* come to has taken it at most once per failed attempt, each of which had *)
(* come past that saga.                                                    *)
Bounded(m, i, slack) ==
    LET times == applied[Regs[m][i]][m] IN
    /\ times <= attempts[m] + slack
    /\ times > slack => \E j \in failedAt[m] : j > i

HalfDoneFor(m) ==
    /\ \A i \in 1..Len(Regs[m]) : Bounded(m, i, 1)
    /\ queue[m] = "queued" => \A i \in 1..Len(Regs[m]) : Bounded(m, i, 0)
    /\ \A w \in Worker : run[w] # Idle /\ run[w].msg = m =>
         run[w].live /\ \A i \in 1..Len(Regs[m]) : i >= run[w].at => Bounded(m, i, 0)

HalfDone == \A m \in Msg \ disturbed : HalfDoneFor(m)

(* No process is registered twice for one type.                            *)
NoDuplicates ==
    \A m \in Msg : \A i, j \in 1..Len(Regs[m]) : Regs[m][i] = Regs[m][j] => i = j

AppliedSame(m) == \A p \in Process : applied'[p][m] = applied[p][m]
AppliedMore(w, m) ==
    \A p \in Process :
        applied'[p][m] = IF p = ProcessOf(w) THEN applied[p][m] + 1 ELSE applied[p][m]
Unfailed(m) == attempts'[m] = attempts[m] /\ failedAt'[m] = failedAt[m]

(* A step of w concerns one message, m.                                    *)
About(w, m) ==
    /\ \A v \in Worker \ {w} : run'[v] = run[v]
    /\ run[w] # Idle => run[w].msg = m
    /\ run'[w] # Idle => run'[w].msg = m
    /\ \A n \in Msg \ {m} : queue'[n] = queue[n] /\ AppliedSame(n) /\ Unfailed(n)
    /\ disturbed \subseteq disturbed'

(* What it does to that message when no fault is involved.                 *)
Begins(w, m) ==
    /\ run[w] = Idle /\ run'[w] # Idle /\ run'[w].live /\ queue[m] = "queued"
    /\ queue'[m] = "unacked" /\ AppliedSame(m) /\ Unfailed(m)
Stays(w, m) ==
    /\ run[w] # Idle /\ run'[w] # Idle
    /\ run'[w].live = run[w].live /\ run'[w].at = run[w].at
    /\ queue'[m] = queue[m] /\ AppliedSame(m) /\ Unfailed(m)
Advances(w, m) ==
    /\ run[w] # Idle
    /\ run'[w] # Idle => /\ run'[w].live = run[w].live /\ run'[w].at = run[w].at + 1
                         /\ queue'[m] = queue[m]
    /\ run'[w] = Idle /\ run[w].live => queue'[m] # "queued"
    /\ AppliedSame(m) \/ AppliedMore(w, m)
    /\ Unfailed(m)
GivesUp(w, m) ==
    /\ run[w] # Idle /\ run'[w] = Idle /\ AppliedSame(m)
    /\ run[w].live => /\ attempts'[m] = attempts[m] + 1
                      /\ failedAt'[m] = failedAt[m] \cup {run[w].at}

Turn(w, m) == About(w, m) /\ (m \in disturbed' \/ Begins(w, m) \/ Stays(w, m)
                                \/ Advances(w, m) \/ GivesUp(w, m))

(* A saga the step does not change keeps its bound, of either kind.        *)
LEMMA BoundedStays ==
    ASSUME NEW m \in Msg, NEW i \in 1..Len(Regs[m]), NEW slack, Bounded(m, i, slack),
           applied'[Regs[m][i]][m] = applied[Regs[m][i]][m], Unfailed(m)
    PROVE  Bounded(m, i, slack)'
  BY DEF Bounded, Unfailed

LEMMA TurnKeepsHalfDone ==
    ASSUME NoDuplicates, Inv, Inv', HalfDone, NEW w \in Worker, NEW m \in Msg, Turn(w, m)
    PROVE  HalfDone'
  <1> SUFFICES ASSUME NEW n \in Msg, n \notin disturbed' PROVE HalfDoneFor(n)'
    BY DEF HalfDone
  <1>1. n \notin disturbed /\ HalfDoneFor(n)
    BY DEF HalfDone, Turn, About
  <1>2. About(w, m)
    BY DEF Turn
  <1>3. \A i \in 1..Len(Regs[n]) : Regs[n][i] \in Process
    BY SagaAssumption
  <1>4. CASE n # m
    <2>1. \A v \in Worker : run'[v] # Idle /\ run'[v].msg = n => run'[v] = run[v]
      BY <1>2, <1>4 DEF About
    <2>2. queue'[n] = queue[n] /\ AppliedSame(n) /\ Unfailed(n)
      BY <1>2, <1>4 DEF About
    <2>3. \A i \in 1..Len(Regs[n]), slack \in {0, 1} : Bounded(n, i, slack) => Bounded(n, i, slack)'
      BY <1>3, <2>2, BoundedStays DEF AppliedSame
    <2> QED
      BY <1>1, <2>1, <2>2, <2>3 DEF HalfDoneFor
  <1>5. CASE n = m
    <2>1. \A v \in Worker \ {w} : run[v] # Idle /\ run[v].msg = m => run[w] = Idle
      BY <1>1, <1>2, <1>5 DEF About, HalfDoneFor, Inv, AttemptsLeft
    <2>2. \A v \in Worker : run[v] # Idle => run[v].at \in Nat \ {0}
      BY DEF Inv, TypeOK, Run
    <2>3. ASSUME AppliedSame(m), Unfailed(m), NEW i \in 1..Len(Regs[m]), NEW slack \in {0, 1}
          PROVE  Bounded(m, i, slack) => Bounded(m, i, slack)'
      BY <1>3, <1>5, <2>3, BoundedStays DEF AppliedSame
    <2>4. CASE Begins(w, m)
      <3>1. \A i \in 1..Len(Regs[m]) : Bounded(m, i, 0)' /\ Bounded(m, i, 1)'
        BY <1>1, <1>5, <2>3, <2>4 DEF Begins, HalfDoneFor
      <3>2. \A v \in Worker \ {w} : ~(run[v] # Idle /\ run[v].msg = m)
        BY <1>1, <1>5, <2>4 DEF Begins, HalfDoneFor, Inv, AttemptsLeft
      <3> QED
        BY <1>2, <1>5, <2>4, <3>1, <3>2 DEF Begins, About, HalfDoneFor
    <2>5. CASE Stays(w, m)
      <3>1. \A i \in 1..Len(Regs[m]) : /\ Bounded(m, i, 0) => Bounded(m, i, 0)'
                                       /\ Bounded(m, i, 1) => Bounded(m, i, 1)'
        BY <2>3, <2>5 DEF Stays
      <3>2. /\ \A v \in Worker \ {w} : ~(run'[v] # Idle /\ run'[v].msg = m)
            /\ run[w].msg = m /\ run[w].live /\ run'[w].live
            /\ run'[w].at = run[w].at /\ queue'[m] = queue[m]
        BY <1>1, <1>2, <1>5, <2>1, <2>5 DEF Stays, About, HalfDoneFor
      <3> QED
        BY <1>1, <1>5, <2>5, <3>1, <3>2 DEF Stays, HalfDoneFor
    <2>6. CASE GivesUp(w, m)
      <3>1. /\ run[w] # Idle /\ run[w].msg = m /\ run[w].live /\ run[w].at \in Nat \ {0}
            /\ attempts'[m] = attempts[m] + 1 /\ failedAt'[m] = failedAt[m] \cup {run[w].at}
        BY <1>1, <1>2, <1>5, <2>2, <2>6 DEF GivesUp, About, HalfDoneFor
      <3>2. \A i \in 1..Len(Regs[m]) : Bounded(m, i, 0)'
        <4> SUFFICES ASSUME NEW i \in 1..Len(Regs[m]) PROVE Bounded(m, i, 0)'
          OBVIOUS
        <4> DEFINE times == applied[Regs[m][i]][m]
        <4>1. applied'[Regs[m][i]][m] = times
          BY <1>3, <1>5, <2>6 DEF GivesUp, AppliedSame
        <4>2. times \in Nat /\ attempts[m] \in Nat
          BY <1>3, <1>5, SagaAssumption DEF Inv, TypeOK
        <4>3. times <= attempts[m] + 1
          BY <1>1, <1>5 DEF HalfDoneFor, Bounded
        <4>4. times > 0 => \E j \in failedAt'[m] : j > i
          <5>1. CASE i < run[w].at
            BY <3>1, <5>1
          <5>2. CASE ~(i < run[w].at)
            <6>1. Bounded(m, i, 0)
              BY <1>1, <1>5, <3>1, <5>2 DEF HalfDoneFor
            <6> QED
              BY <3>1, <6>1 DEF Bounded
          <5> QED
            BY <5>1, <5>2
        <4> HIDE DEF times
        <4>5. times <= attempts'[m] + 0
          BY <3>1, <4>2, <4>3
        <4> QED
          BY <4>1, <4>4, <4>5 DEF Bounded
      <3>3. \A i \in 1..Len(Regs[m]) : Bounded(m, i, 1)'
        <4>1. ASSUME NEW i \in 1..Len(Regs[m]) PROVE Bounded(m, i, 1)'
          <5>1. applied'[Regs[m][i]][m] \in Nat /\ attempts'[m] \in Nat
            BY <1>3, <1>5, SagaAssumption DEF Inv, TypeOK
          <5>2. Bounded(m, i, 0)'
            BY <3>2
          <5> QED
            BY <5>1, <5>2 DEF Bounded
        <4> QED
          BY <4>1
      <3>4. \A v \in Worker : ~(run'[v] # Idle /\ run'[v].msg = m)
        BY <1>2, <2>1, <2>6, <3>1 DEF GivesUp, About
      <3> QED
        BY <1>5, <3>2, <3>3, <3>4 DEF HalfDoneFor
    <2>7. CASE Advances(w, m)
      <3>0. PICK at \in Nat \ {0} : run[w].at = at
        BY <2>2, <2>7 DEF Advances
      <3>1. /\ run[w] # Idle /\ run[w].msg = m /\ run[w].live /\ at \in 1..Len(Regs[m])
            /\ ProcessOf(w) = Regs[m][at]
        BY <1>1, <1>2, <1>5, <2>7, <3>0 DEF Advances, About, HalfDoneFor, Inv, InRegs, ProcessOf
      <3>2. ASSUME NEW i \in 1..Len(Regs[m]), i # at, NEW slack \in {0, 1}
            PROVE  Bounded(m, i, slack) => Bounded(m, i, slack)'
        <4>1. Regs[m][i] # ProcessOf(w)
          BY <3>1, <3>2 DEF NoDuplicates
        <4>2. applied'[Regs[m][i]][m] = applied[Regs[m][i]][m] /\ Unfailed(m)
          BY <1>3, <1>5, <2>7, <4>1 DEF Advances, AppliedSame, AppliedMore
        <4> QED
          BY <4>2, BoundedStays
      <3>3. Bounded(m, at, 1)'
        <4> DEFINE times == applied[Regs[m][at]][m]
        <4>1. Bounded(m, at, 0)
          BY <1>1, <1>5, <3>0, <3>1 DEF HalfDoneFor
        <4>2. times \in Nat /\ attempts[m] \in Nat
          BY <1>3, <1>5, <3>1, SagaAssumption DEF Inv, TypeOK
        <4>3. Unfailed(m) /\ applied'[Regs[m][at]][m] \in {times, times + 1}
          BY <1>3, <1>5, <2>7, <3>1 DEF Advances, AppliedSame, AppliedMore
        <4>4. /\ times <= attempts[m] + 0
              /\ times > 0 => \E j \in failedAt[m] : j > at
          BY <4>1 DEF Bounded
        <4> HIDE DEF times
        <4> QED
          BY <4>2, <4>3, <4>4 DEF Bounded, Unfailed
      <3>4. \A i \in 1..Len(Regs[m]) : Bounded(m, i, 1)'
        BY <1>1, <1>5, <3>2, <3>3 DEF HalfDoneFor
      <3>5. queue'[m] # "queued"
        <4>1. queue[m] = "unacked"
          BY <3>1 DEF Inv, AttemptsLeft
        <4> QED
          BY <2>7, <3>1, <4>1 DEF Advances
      <3>6. \A v \in Worker \ {w} : ~(run'[v] # Idle /\ run'[v].msg = m)
        BY <1>2, <2>1, <3>1 DEF About
      <3>7. run'[w] # Idle => run'[w].live /\ run'[w].at = at + 1
        BY <2>7, <3>0, <3>1 DEF Advances
      <3>8. run'[w] # Idle => \A i \in 1..Len(Regs[m]) : i >= run'[w].at => Bounded(m, i, 0)'
        <4> SUFFICES ASSUME run'[w] # Idle, NEW i \in 1..Len(Regs[m]), i >= run'[w].at
                     PROVE  Bounded(m, i, 0)'
          OBVIOUS
        <4>1. i >= at /\ i # at
          BY <3>0, <3>1, <3>7
        <4> QED
          BY <1>1, <1>5, <3>0, <3>1, <3>2, <4>1 DEF HalfDoneFor
      <3> QED
        BY <1>5, <3>4, <3>5, <3>6, <3>7, <3>8 DEF HalfDoneFor
    <2> QED
      BY <1>5, <2>4, <2>5, <2>6, <2>7 DEF Turn
  <1> QED
    BY <1>4, <1>5

LEMMA SettleAbout ==
    ASSUME Inv, NEW w \in Worker, run[w] # Idle, NEW outcome, Settle(w, outcome)
    PROVE  /\ \A v \in Worker \ {w} : run'[v] = run[v]
           /\ run'[w] = Idle /\ run[w].msg \in Msg
           /\ \A n \in Msg \ {run[w].msg} : queue'[n] = queue[n]
           /\ run[w].live => queue'[run[w].msg] = outcome
  BY Processes DEF Inv, Settle, TypeOK

LEMMA CommittedAbout ==
    ASSUME Inv, NEW w \in Worker, run[w] # Idle, Committed(w)
    PROVE  /\ AppliedMore(w, run[w].msg)
           /\ \A p \in Process, n \in Msg \ {run[w].msg} : applied'[p][n] = applied[p][n]
  <1>1. run[w].msg \in Msg /\ ProcessOf(w) \in Process
    BY Processes DEF Inv
  <1>2. applied' = [applied EXCEPT ![ProcessOf(w)][run[w].msg] = @ + 1]
    BY DEF Committed
  <1> QED
    BY <1>1, <1>2 DEF AppliedMore, Inv, TypeOK

LEMMA FailureAbout ==
    ASSUME Inv, NEW w \in Worker, run[w] # Idle, Failure(w)
    PROVE  /\ \A v \in Worker \ {w} : run'[v] = run[v]
           /\ run'[w] = Idle /\ run[w].msg \in Msg
           /\ \A n \in Msg \ {run[w].msg} : queue'[n] = queue[n] /\ Unfailed(n)
           /\ run[w].live =>
                /\ attempts'[run[w].msg] = attempts[run[w].msg] + 1
                /\ failedAt'[run[w].msg] = failedAt[run[w].msg] \cup {run[w].at}
  <1>1. PICK outcome : Settle(w, outcome)
    BY DEF Failure
  <1>2. run[w].msg \in Msg
    BY Processes DEF Inv
  <1>3. \A n \in Msg \ {run[w].msg} : Unfailed(n)
    BY <1>2 DEF Failure, Unfailed, Inv, TypeOK
  <1>4. run[w].live =>
           /\ attempts'[run[w].msg] = attempts[run[w].msg] + 1
           /\ failedAt'[run[w].msg] = failedAt[run[w].msg] \cup {run[w].at}
    BY <1>2 DEF Failure, Inv, TypeOK
  <1> QED
    BY <1>1, <1>3, <1>4, SettleAbout

LEMMA FailureTurn ==
    ASSUME Inv, NEW w \in Worker, run[w] # Idle, Failure(w), applied' = applied, disturbed' = disturbed
    PROVE  Turn(w, run[w].msg) /\ run[w].msg \in Msg
  BY FailureAbout DEF Turn, About, GivesUp, AppliedSame

LEMMA AdvanceTurn ==
    ASSUME Inv, NEW w \in Worker, run[w] # Idle, NEW ran \in BOOLEAN, Advance(w, ran),
           disturbed' = disturbed, applied' = applied \/ Committed(w)
    PROVE  Turn(w, run[w].msg) /\ run[w].msg \in Msg
  <1> DEFINE m == run[w].msg
  <1>0. run[w] \in Run /\ m \in Msg
    BY Processes DEF Inv
  <1>1. /\ \A n \in Msg \ {m} : AppliedSame(n)
        /\ AppliedSame(m) \/ AppliedMore(w, m)
        /\ \A n \in Msg : Unfailed(n)
    BY CommittedAbout DEF AppliedSame, Unfailed, Advance
  <1>2. CASE run[w].at < Len(Regs[m])
    <2> DEFINE next == [run[w] EXCEPT !.at = @ + 1, !.stage = "find", !.timeout = FALSE, !.ran = ran]
    <2>1. run' = [run EXCEPT ![w] = next] /\ queue' = queue
      BY <1>2 DEF Advance, Inv, TypeOK
    <2>2. next.msg = m /\ next.at = run[w].at + 1 /\ next.live = run[w].live
      BY <1>0 DEF Run
    <2> HIDE DEF next
    <2>3. run'[w] = next /\ \A v \in Worker \ {w} : run'[v] = run[v]
      BY <2>1 DEF Inv, TypeOK
    <2>4. run'[w] # Idle
      <3>1. run[w].at + 1 \in Nat \ {0}
        BY <1>0 DEF Run
      <3>2. next \in Run
        BY ONLY <1>0, <3>1, ran \in BOOLEAN DEF Run, next
      <3> QED
        BY <2>3, <3>2, SagaAssumption
    <2>5. About(w, m)
      BY <1>1, <2>1, <2>2, <2>3 DEF About
    <2>6. Advances(w, m)
      BY <1>0, <1>1, <2>1, <2>2, <2>3, <2>4 DEF Advances
    <2> QED
      BY <1>0, <2>5, <2>6 DEF Turn
  <1>3. CASE ~(run[w].at < Len(Regs[m]))
    <2>1. PICK outcome \in {"done", "unhandled"} : Settle(w, outcome)
      BY <1>3 DEF Advance
    <2>2. /\ \A v \in Worker \ {w} : run'[v] = run[v]
          /\ run'[w] = Idle
          /\ \A n \in Msg \ {m} : queue'[n] = queue[n]
          /\ run[w].live => queue'[m] = outcome
      BY <2>1, SettleAbout
    <2>3. About(w, m)
      BY <1>1, <2>2 DEF About
    <2>4. Advances(w, m)
      BY <1>0, <1>1, <2>2 DEF Advances
    <2> QED
      BY <1>0, <2>3, <2>4 DEF Turn
  <1> QED
    BY <1>2, <1>3

LEMMA NextTurn ==
    ASSUME Inv, Next
    PROVE  \E w \in Worker, m \in Msg : Turn(w, m)
  <1>0. \A w \in Worker : run[w] # Idle => run[w] \in Run /\ run[w].msg \in Msg
    BY Processes DEF Inv
  <1>1. ASSUME NEW w \in Worker, NEW m \in Msg, Consume(w, m) PROVE Turn(w, m)
    <2> DEFINE new == [msg |-> m, at |-> 1, stage |-> "find", data |-> <<>>,
                       token |-> 0, timeout |-> FALSE, ran |-> FALSE, live |-> TRUE]
    <2>1. new \in Run /\ new.msg = m /\ new.live
      BY DEF Run
    <2>2. run' = [run EXCEPT ![w] = new]
      BY <1>1 DEF Consume
    <2> HIDE DEF new
    <2>3. run'[w] = new /\ new # Idle /\ \A v \in Worker \ {w} : run'[v] = run[v]
      BY <2>1, <2>2, SagaAssumption DEF Inv, TypeOK
    <2> QED
      BY <1>1, <2>1, <2>3 DEF Consume, Turn, About, Begins, AppliedSame, Unfailed, Inv, TypeOK
  <1>2. ASSUME NEW w \in Worker, NEW r \in Run, run[w] # Idle, run' = [run EXCEPT ![w] = r],
               r.msg = run[w].msg, r.at = run[w].at, r.live = run[w].live,
               queue' = queue, applied' = applied, disturbed' = disturbed,
               attempts' = attempts, failedAt' = failedAt
        PROVE  Turn(w, run[w].msg)
    <2>1. run'[w] = r /\ r # Idle /\ \A v \in Worker \ {w} : run'[v] = run[v]
      BY <1>2, SagaAssumption DEF Inv, TypeOK
    <2> QED
      BY <1>2, <2>1 DEF Turn, About, Stays, AppliedSame, Unfailed
  <1>3. ASSUME NEW w \in Worker, Find(w) PROVE Turn(w, run[w].msg)
    <2>0. run[w] # Idle /\ run[w] \in Run
      BY <1>0, <1>3 DEF Find, At
    <2>1. CASE RowOf(w) # NoRow
      <3> DEFINE r == [run[w] EXCEPT !.stage = "handle", !.data = RowOf(w).data, !.token = RowOf(w).token]
      <3>1. RowOf(w) \in Row
        BY <2>0, <2>1, Processes DEF Inv
      <3>2. r \in Run /\ r.msg = run[w].msg /\ r.at = run[w].at /\ r.live = run[w].live
        BY <2>0, <3>1 DEF Run, Row
      <3>3. run' = [run EXCEPT ![w] = r] /\ queue' = queue /\ attempts' = attempts
            /\ failedAt' = failedAt
        BY <1>3, <2>1 DEF Find, Inv, TypeOK
      <3> HIDE DEF r
      <3> QED
        BY <1>2, <1>3, <2>0, <3>2, <3>3 DEF Find
    <2>2. CASE RowOf(w) = NoRow /\ <<run[w].msg, ProcessOf(w)>> \in Starts
      <3> DEFINE r == [run[w] EXCEPT !.stage = "insert"]
      <3>1. r \in Run /\ r.msg = run[w].msg /\ r.at = run[w].at /\ r.live = run[w].live
        BY <2>0 DEF Run
      <3>2. run' = [run EXCEPT ![w] = r] /\ queue' = queue /\ attempts' = attempts
            /\ failedAt' = failedAt
        BY <1>3, <2>2 DEF Find, Inv, TypeOK
      <3> HIDE DEF r
      <3> QED
        BY <1>2, <1>3, <2>0, <3>1, <3>2 DEF Find
    <2>3. CASE RowOf(w) = NoRow /\ <<run[w].msg, ProcessOf(w)>> \notin Starts
      <3>1. run[w].ran \in BOOLEAN /\ Advance(w, run[w].ran)
        BY <1>3, <2>0, <2>3 DEF Find, Run
      <3> QED
        BY <1>3, <2>0, <3>1, AdvanceTurn DEF Find
    <2> QED
      BY <2>1, <2>2, <2>3
  <1>4. ASSUME NEW w \in Worker, InsertOk(w) PROVE Turn(w, run[w].msg)
    <2> DEFINE r == [run[w] EXCEPT !.stage = "handle", !.data = <<>>, !.token = InsertToken(ProcessOf(w))]
    <2>0. run[w] # Idle /\ run[w] \in Run
      BY <1>0, <1>4 DEF InsertOk, Inserted, At
    <2>1. InsertToken(ProcessOf(w)) \in Nat
      BY DEF InsertToken, Inv, TypeOK
    <2>2. r \in Run /\ r.msg = run[w].msg /\ r.at = run[w].at /\ r.live = run[w].live
      <3>1. <<>> \in Seq(Msg)
        OBVIOUS
      <3> QED
        BY ONLY <2>0, <2>1, <3>1 DEF Run
    <2>3. run' = [run EXCEPT ![w] = r] /\ queue' = queue
      BY <1>4 DEF InsertOk, Inv, TypeOK
    <2> HIDE DEF r
    <2> QED
      BY <1>2, <1>4, <2>0, <2>2, <2>3 DEF InsertOk, Inserted
  <1>5. ASSUME NEW w \in Worker, RequestTimeout(w) PROVE Turn(w, run[w].msg)
    <2> DEFINE r == [run[w] EXCEPT !.timeout = TRUE]
    <2>0. run[w] # Idle /\ run[w] \in Run
      BY <1>0, <1>5 DEF RequestTimeout, At
    <2>1. r \in Run /\ r.msg = run[w].msg /\ r.at = run[w].at /\ r.live = run[w].live
      BY <2>0 DEF Run
    <2>2. run' = [run EXCEPT ![w] = r] /\ queue' = queue
      BY <1>5 DEF RequestTimeout, Inv, TypeOK
    <2> HIDE DEF r
    <2> QED
      BY <1>2, <1>5, <2>0, <2>1, <2>2 DEF RequestTimeout
  <1>6. ASSUME NEW w \in Worker, Handle(w) PROVE Turn(w, run[w].msg)
    <2>1. PICK stage \in {"update", "delete"} : run' = [run EXCEPT ![w].stage = stage]
      BY <1>6 DEF Handle
    <2> DEFINE r == [run[w] EXCEPT !.stage = stage]
    <2>0. run[w] # Idle /\ run[w] \in Run
      BY <1>0, <1>6 DEF Handle, At
    <2>2. r \in Run /\ r.msg = run[w].msg /\ r.at = run[w].at /\ r.live = run[w].live
      BY <2>0 DEF Run
    <2>3. run' = [run EXCEPT ![w] = r] /\ queue' = queue
      BY <1>6, <2>1 DEF Handle, Inv, TypeOK
    <2> HIDE DEF r
    <2> QED
      BY <1>2, <1>6, <2>0, <2>2, <2>3 DEF Handle
  <1>7. ASSUME NEW w \in Worker, UpdateOk(w) \/ DeleteOk(w) PROVE Turn(w, run[w].msg)
    BY <1>7, AdvanceTurn DEF UpdateOk, Updated, DeleteOk, Deleted, At
  <1>8. ASSUME NEW w \in Worker,
               InsertDuplicate(w) \/ HandlerThrows(w) \/ UpdateConflict(w) \/ StoreFails(w)
        PROVE  Turn(w, run[w].msg) /\ run[w].msg \in Msg
    BY <1>8, FailureTurn DEF InsertDuplicate, HandlerThrows, UpdateConflict, StoreFails, At
  <1>9. ASSUME NEW w \in Worker, AnswerLost(w) \/ Crash(w) \/ ChannelLost(w)
        PROVE  Turn(w, run[w].msg) /\ run[w] # Idle
    <2>0. run[w] # Idle /\ run[w] \in Run /\ run[w].msg \in disturbed' /\ disturbed \subseteq disturbed'
      BY <1>0, <1>9 DEF AnswerLost, Crash, ChannelLost, Inserted, Updated, Deleted, At
    <2>1. \A n \in Msg \ {run[w].msg} : AppliedSame(n) /\ Unfailed(n)
      <3>1. \A n \in Msg \ {run[w].msg} : AppliedSame(n)
        BY <1>9, <2>0, CommittedAbout
           DEF AnswerLost, Crash, ChannelLost, Inserted, Updated, Deleted, AppliedSame
      <3>2. \A n \in Msg \ {run[w].msg} : Unfailed(n)
        BY <1>9, <2>0, FailureAbout DEF AnswerLost, Crash, ChannelLost, Unfailed
      <3> QED
        BY <3>1, <3>2
    <2>2. CASE AnswerLost(w) \/ Crash(w)
      <3>1. PICK outcome : Settle(w, outcome)
        BY <2>2 DEF AnswerLost, Crash, Failure
      <3> QED
        BY <2>0, <2>1, <3>1, SettleAbout DEF Turn, About
    <2>3. CASE ChannelLost(w)
      <3> DEFINE r == [run[w] EXCEPT !.live = FALSE]
      <3>1. run' = [run EXCEPT ![w] = r] /\ queue' = [queue EXCEPT ![run[w].msg] = "queued"]
        BY <2>3 DEF ChannelLost, Inv, TypeOK
      <3>2. r.msg = run[w].msg
        BY <2>0 DEF Run
      <3> QED
        BY <2>0, <2>1, <3>1, <3>2 DEF Turn, About, Inv, TypeOK
    <2> QED
      BY <1>9, <2>2, <2>3
  <1> QED
    <2>1. CASE \E w \in Worker, m \in Msg : Consume(w, m)
      BY <1>1, <2>1
    <2>2. ASSUME NEW w \in Worker,
                 \/ Step(w) \/ RequestTimeout(w)
                 \/ StoreFails(w) \/ AnswerLost(w) \/ Crash(w) \/ ChannelLost(w)
          PROVE  \E m \in Msg : Turn(w, m)
      <3>1. Turn(w, run[w].msg)
        BY <2>2, <1>3, <1>4, <1>5, <1>6, <1>7, <1>8, <1>9 DEF Step
      <3>2. run[w] # Idle
        BY <2>2 DEF Step, Find, InsertOk, InsertDuplicate, Inserted, RequestTimeout, Handle,
             HandlerThrows, UpdateOk, UpdateConflict, Updated, DeleteOk, Deleted, At,
             StoreFails, AnswerLost, Crash, ChannelLost
      <3> QED
        BY <1>0, <3>1, <3>2
    <2> QED
      BY <2>1, <2>2 DEF Next

(* A message no fault disturbed changes a saga again only after an attempt *)
(* failed at a later one of its registrations, and once per attempt.       *)
THEOREM SagaRepeatedOnlyIfHalfDone ==
    ASSUME NoDuplicates
    PROVE  Spec => []RepeatedOnlyIfHalfDone
  <1>1. Init => HalfDone
    <2>1. ASSUME Init, NEW m \in Msg PROVE HalfDoneFor(m)
      <3>1. \A i \in 1..Len(Regs[m]) : Regs[m][i] \in Process
        BY SagaAssumption
      <3>2. \A i \in 1..Len(Regs[m]) : applied[Regs[m][i]][m] = 0 /\ attempts[m] = 0
        BY <2>1, <3>1 DEF Init
      <3>3. \A w \in Worker : run[w] = Idle
        BY <2>1 DEF Init
      <3> QED
        BY <3>2, <3>3 DEF HalfDoneFor, Bounded
    <2> QED
      BY <2>1 DEF HalfDone
  <1>2. Inv /\ Inv' /\ HalfDone /\ [Next]_vars => HalfDone'
    <2>1. ASSUME Inv, Inv', HalfDone, Next PROVE HalfDone'
      BY <2>1, NextTurn, TurnKeepsHalfDone
    <2>2. ASSUME HalfDone, UNCHANGED vars PROVE HalfDone'
      BY <2>2 DEF vars, HalfDone, HalfDoneFor, Bounded
    <2> QED
      BY <2>1, <2>2
  <1>3. HalfDone => RepeatedOnlyIfHalfDone
    <2>1. \A m \in Msg : DOMAIN Regs[m] = 1..Len(Regs[m])
      BY SagaAssumption
    <2> QED
      BY <2>1 DEF HalfDone, HalfDoneFor, Bounded, RepeatedOnlyIfHalfDone
  <1> QED
    BY <1>1, <1>2, <1>3, SagaInvariant, PTL DEF Spec
-----------------------------------------------------------------------------
(* With tokens that are never issued twice: what a step does to the rows,  *)
(* and to what each run has loaded.                                        *)
Loaded == {"handle", "update", "delete"}

RowsStep ==
    /\ issued' \in Nat /\ issued' >= issued
    /\ \A p \in Process : Store[p] = "memory" =>
         \/ rows'[p] = rows[p]
         \/ rows'[p] = NoRow
         \/ rows'[p].token = issued /\ issued' = issued + 1

Kept(v) ==
    /\ run[v] # Idle /\ run[v].stage \in Loaded
    /\ run'[v].msg = run[v].msg /\ run'[v].at = run[v].at
    /\ run'[v].data = run[v].data /\ run'[v].token = run[v].token

Fresh(v) ==
    /\ RowOf(v)' # NoRow
    /\ run'[v].data = RowOf(v)'.data /\ run'[v].token = RowOf(v)'.token

Follows(v) == run'[v] # Idle /\ run'[v].stage \in Loaded => Kept(v) \/ Fresh(v)

LEMMA LoadedFollows ==
    ASSUME Inv, Inv', LoadedIsCurrent, RowsStep, \A v \in Worker : Follows(v)
    PROVE  LoadedIsCurrent'
  <1> USE DEF Inv
  <1>1. issued \in Nat /\ issued' \in Nat /\ issued' >= issued
    BY DEF RowsStep, TypeOK
  <1>2. ASSUME NEW p \in Process, Store[p] = "memory", rows'[p] # NoRow
        PROVE  rows'[p].token < issued'
    <2>1. CASE rows'[p] = rows[p]
      <3>1. rows[p].token < issued /\ rows[p] \in Row
        BY <1>2, <2>1 DEF LoadedIsCurrent, TypeOK
      <3> QED
        BY <1>1, <2>1, <3>1 DEF Row
    <2>2. CASE rows'[p].token = issued /\ issued' = issued + 1
      BY <1>1, <2>2
    <2> QED
      BY <1>2, <2>1, <2>2 DEF RowsStep
  <1>3. ASSUME NEW v \in Worker, run'[v] # Idle, run'[v].stage \in Loaded,
               Store[ProcessOf(v)'] = "memory"
        PROVE  run'[v].token < issued' /\ (Matches(v)' => RowOf(v)'.data = run'[v].data)
    <2>1. RowOf(v)' = rows'[ProcessOf(v)'] /\ ProcessOf(v)' \in Process
      <3>1. run'[v].msg \in Msg /\ run'[v].at \in 1..Len(Regs[run'[v].msg])
        BY <1>3 DEF TypeOK, Run, InRegs
      <3>2. Regs[run'[v].msg][run'[v].at] \in Process
        BY <3>1, SagaAssumption
      <3> QED
        BY <3>2 DEF RowOf, ProcessOf
    <2>2. CASE Fresh(v)
      BY <1>2, <1>3, <2>1, <2>2 DEF Fresh
    <2>3. CASE Kept(v)
      <3>0. ProcessOf(v)' = ProcessOf(v)
        BY <2>3 DEF Kept, ProcessOf
      <3>1. /\ ProcessOf(v)' = ProcessOf(v) /\ run[v].token < issued
            /\ RowOf(v) # NoRow /\ RowOf(v).token = run[v].token => RowOf(v).data = run[v].data
        BY <1>3, <2>3, <3>0 DEF Kept, Loaded, LoadedIsCurrent, Matches
      <3>2. run'[v].token = run[v].token /\ run'[v].data = run[v].data /\ run[v].token \in Nat
        BY <2>3 DEF Kept, TypeOK, Run
      <3>3. run'[v].token < issued'
        BY <1>1, <3>1, <3>2
      <3>4. ASSUME Matches(v)' PROVE RowOf(v)'.data = run'[v].data
        <4>1. rows'[ProcessOf(v)].token # issued
          BY <1>1, <2>1, <3>1, <3>2, <3>4 DEF Matches
        <4>2. rows'[ProcessOf(v)] = rows[ProcessOf(v)]
          BY <1>3, <2>1, <3>1, <3>4, <4>1 DEF RowsStep, Matches
        <4> QED
          BY <2>1, <3>1, <3>2, <3>4, <4>2 DEF Matches, RowOf
      <3> QED
        BY <3>3, <3>4
    <2> QED
      BY <1>3, <2>2, <2>3 DEF Follows
  <1> QED
    BY <1>2, <1>3 DEF LoadedIsCurrent, Loaded

(* Steps that leave the rows alone.                                        *)
LEMMA QuietLoaded ==
    ASSUME Inv, Inv', Next, rows' = rows, issued' = issued,
           ~ \E w \in Worker : InsertOk(w) \/ UpdateOk(w) \/ DeleteOk(w) \/ AnswerLost(w)
    PROVE  RowsStep /\ \A v \in Worker : Follows(v)
  <1> USE DEF Inv
  <1>1. RowsStep
    BY DEF RowsStep, TypeOK
  <1>2. ASSUME NEW v \in Worker, run'[v] = run[v] PROVE Follows(v)
    BY <1>2 DEF Follows, Kept
  <1>3. ASSUME NEW w \in Worker, NEW m \in Msg, Consume(w, m) PROVE \A v \in Worker : Follows(v)
    <2>1. \A v \in Worker : v # w => run'[v] = run[v]
      BY <1>3 DEF Consume, TypeOK
    <2>2. run'[w].stage = "find"
      BY <1>3 DEF Consume, TypeOK
    <2> QED
      BY <1>2, <2>1, <2>2 DEF Follows, Loaded
  <1>4. ASSUME NEW w \in Worker, run[w] # Idle, Settle(w, "queued") \/ Failure(w)
        PROVE  \A v \in Worker : Follows(v)
    <2>1. /\ \A v \in Worker : v # w => run'[v] = run[v]
          /\ run'[w] = Idle
      BY <1>4 DEF Failure, Settle, TypeOK
    <2> QED
      BY <1>2, <2>1 DEF Follows
  <1>5. ASSUME NEW w \in Worker, run[w] # Idle, NEW ran \in BOOLEAN, Advance(w, ran)
        PROVE  \A v \in Worker : Follows(v)
    <2>0. run[w] \in Run
      BY <1>5 DEF TypeOK
    <2>1. \A v \in Worker : v # w => run'[v] = run[v]
      BY <1>5 DEF Advance, Settle, TypeOK
    <2>2. run'[w] = Idle \/ run'[w].stage = "find"
      <3> DEFINE r == [run[w] EXCEPT !.at = @ + 1, !.stage = "find", !.timeout = FALSE, !.ran = ran]
      <3>1. r.stage = "find"
        BY <2>0 DEF Run
      <3>2. run'[w] = Idle \/ run'[w] = r
        BY <1>5 DEF Advance, Settle, TypeOK
      <3> QED
        BY <3>1, <3>2
    <2> QED
      BY <1>2, <2>1, <2>2 DEF Follows, Loaded
  <1>6. ASSUME NEW w \in Worker, Find(w) PROVE \A v \in Worker : Follows(v)
    <2> USE <1>6 DEF Find, At
    <2>0. run[w] \in Run /\ run[w].ran \in BOOLEAN
      BY DEF TypeOK, Run
    <2>1. CASE RowOf(w) # NoRow
      <3> DEFINE r == [run[w] EXCEPT !.stage = "handle", !.data = RowOf(w).data, !.token = RowOf(w).token]
      <3>1. /\ \A v \in Worker : v # w => run'[v] = run[v]
            /\ run'[w] = r
        BY <2>1 DEF TypeOK
      <3>2. r.msg = run[w].msg /\ r.at = run[w].at /\ r.data = RowOf(w).data /\ r.token = RowOf(w).token
        BY <2>0 DEF Run
      <3> HIDE DEF r
      <3>3. RowOf(w)' = RowOf(w)
        BY <3>1, <3>2 DEF RowOf, ProcessOf
      <3> QED
        BY <1>2, <2>1, <3>1, <3>2, <3>3 DEF Follows, Fresh
    <2>2. CASE RowOf(w) = NoRow /\ <<run[w].msg, ProcessOf(w)>> \in Starts
      <3>1. /\ \A v \in Worker : v # w => run'[v] = run[v]
            /\ run'[w] = [run[w] EXCEPT !.stage = "insert"]
        BY <2>2 DEF TypeOK
      <3>2. run'[w].stage = "insert"
        BY <2>0, <3>1 DEF Run
      <3> QED
        BY <1>2, <3>1, <3>2 DEF Follows, Loaded
    <2> QED
      BY <1>5, <2>0, <2>1, <2>2
  <1>7. ASSUME NEW w \in Worker, run[w] # Idle, NEW r, run' = [run EXCEPT ![w] = r],
               run[w].stage \notin Loaded => r.stage \notin Loaded,
               r.msg = run[w].msg, r.at = run[w].at, r.data = run[w].data, r.token = run[w].token
        PROVE  \A v \in Worker : Follows(v)
    BY <1>2, <1>7 DEF Follows, Kept, TypeOK
  <1>8. ASSUME NEW w \in Worker, RequestTimeout(w) PROVE \A v \in Worker : Follows(v)
    <2> DEFINE r == [run[w] EXCEPT !.timeout = TRUE]
    <2>1. run[w] # Idle /\ run[w] \in Run /\ run' = [run EXCEPT ![w] = r] /\ run[w].stage \in Loaded
      BY <1>8 DEF RequestTimeout, At, TypeOK, Loaded
    <2>2. r.msg = run[w].msg /\ r.at = run[w].at /\ r.data = run[w].data /\ r.token = run[w].token
      BY <2>1 DEF Run
    <2> QED
      BY <1>7, <2>1, <2>2
  <1>9. ASSUME NEW w \in Worker, Handle(w) PROVE \A v \in Worker : Follows(v)
    <2>1. PICK stage \in {"update", "delete"} : run' = [run EXCEPT ![w].stage = stage]
      BY <1>9 DEF Handle
    <2> DEFINE r == [run[w] EXCEPT !.stage = stage]
    <2>2. run[w] # Idle /\ run[w] \in Run /\ run' = [run EXCEPT ![w] = r] /\ run[w].stage \in Loaded
      BY <1>9, <2>1 DEF Handle, At, TypeOK, Loaded
    <2>3. r.msg = run[w].msg /\ r.at = run[w].at /\ r.data = run[w].data /\ r.token = run[w].token
      BY <2>2 DEF Run
    <2> QED
      BY <1>7, <2>2, <2>3
  <1>10. ASSUME NEW w \in Worker, ChannelLost(w) PROVE \A v \in Worker : Follows(v)
    <2> DEFINE r == [run[w] EXCEPT !.live = FALSE]
    <2>1. run[w] # Idle /\ run[w] \in Run /\ run' = [run EXCEPT ![w] = r]
      BY <1>10 DEF ChannelLost, TypeOK
    <2>2. r.msg = run[w].msg /\ r.at = run[w].at /\ r.data = run[w].data /\ r.token = run[w].token
          /\ r.stage = run[w].stage
      BY <2>1 DEF Run
    <2> QED
      BY <1>7, <2>1, <2>2
  <1>11. ASSUME NEW w \in Worker,
                InsertDuplicate(w) \/ HandlerThrows(w) \/ UpdateConflict(w) \/ StoreFails(w) \/ Crash(w)
         PROVE  \A v \in Worker : Follows(v)
    <2>1. run[w] # Idle /\ (Settle(w, "queued") \/ Failure(w))
      BY <1>11 DEF InsertDuplicate, HandlerThrows, UpdateConflict, StoreFails, Crash, At
    <2> QED
      BY <1>4, <2>1
  <1> QED
    BY <1>1, <1>3, <1>6, <1>8, <1>9, <1>10, <1>11 DEF Next, Step

(* Steps that write a row: in the memory store, each issues a token no run *)
(* has seen.                                                               *)
LEMMA WriteRows ==
    ASSUME Inv, NEW w \in Worker,
           InsertOk(w) \/ UpdateOk(w) \/ DeleteOk(w) \/ AnswerLost(w)
    PROVE  RowsStep
  <1> USE DEF Inv
  <1>1. (Inserted(w) \/ Updated(w) \/ Deleted(w)) /\ run[w] # Idle
    BY DEF InsertOk, UpdateOk, DeleteOk, AnswerLost, Inserted, Updated, Deleted, At
  <1>2. run[w] \in Run /\ ProcessOf(w) \in Process /\ issued \in Nat
    BY <1>1, Processes DEF TypeOK
  <1> QED
    <2>1. CASE Inserted(w)
      <3> DEFINE row == [data |-> <<>>, token |-> InsertToken(ProcessOf(w))]
      <3>1. Store[ProcessOf(w)] = "memory" => row.token = issued
        BY DEF InsertToken
      <3>2. rows' = [rows EXCEPT ![ProcessOf(w)] = row] /\ issued' = issued + 1
        BY <2>1 DEF Inserted
      <3> HIDE DEF row
      <3> QED
        BY <1>2, <3>1, <3>2 DEF RowsStep, TypeOK
    <2>2. CASE Updated(w)
      <3> DEFINE row == [data |-> Append(run[w].data, run[w].msg), token |-> UpdateToken(ProcessOf(w))]
      <3>1. Store[ProcessOf(w)] = "memory" => row.token = issued
        BY DEF UpdateToken
      <3>2. rows' = [rows EXCEPT ![ProcessOf(w)] = row] /\ issued' = issued + 1
        BY <2>2 DEF Updated
      <3> HIDE DEF row
      <3> QED
        BY <1>2, <3>1, <3>2 DEF RowsStep, TypeOK
    <2>3. CASE Deleted(w)
      BY <1>2, <2>3 DEF Deleted, RowsStep, TypeOK
    <2> QED
      BY <1>1, <2>1, <2>2, <2>3

LEMMA WriteFollows ==
    ASSUME Inv, NEW w \in Worker,
           InsertOk(w) \/ UpdateOk(w) \/ DeleteOk(w) \/ AnswerLost(w)
    PROVE  \A v \in Worker : Follows(v)
  <1> USE DEF Inv
  <1>1. (Inserted(w) \/ Updated(w) \/ Deleted(w)) /\ run[w] # Idle
    BY DEF InsertOk, UpdateOk, DeleteOk, AnswerLost, Inserted, Updated, Deleted, At
  <1>2. run[w] \in Run /\ ProcessOf(w) \in Process /\ issued \in Nat
    BY <1>1, Processes DEF TypeOK
  <1>3. CASE InsertOk(w)
    <2> DEFINE r == [run[w] EXCEPT !.stage = "handle", !.data = <<>>, !.token = InsertToken(ProcessOf(w))]
               row == [data |-> <<>>, token |-> InsertToken(ProcessOf(w))]
    <2>1. /\ \A v \in Worker : v # w => run'[v] = run[v]
          /\ run'[w] = r
      BY <1>3 DEF InsertOk, TypeOK
    <2>2. r.msg = run[w].msg /\ r.at = run[w].at /\ r.data = row.data /\ r.token = row.token
      BY <1>2 DEF Run
    <2>3. rows'[ProcessOf(w)] = row /\ row # NoRow
      <3>1. InsertToken(ProcessOf(w)) \in Nat
        BY <1>2 DEF InsertToken
      <3>2. row \in Row
        BY <3>1 DEF Row
      <3> QED
        BY <1>2, <1>3, <3>2, SagaAssumption DEF InsertOk, Inserted, TypeOK
    <2> HIDE DEF r, row
    <2>4. RowOf(w)' = row
      BY <2>1, <2>2, <2>3 DEF RowOf, ProcessOf
    <2> QED
      BY <2>1, <2>2, <2>3, <2>4 DEF Follows, Fresh, Kept
  <1>4. CASE UpdateOk(w) \/ DeleteOk(w)
    <2>1. \A v \in Worker : v # w => run'[v] = run[v]
      BY <1>4 DEF UpdateOk, DeleteOk, Advance, Settle, TypeOK
    <2>2. run'[w] = Idle \/ run'[w].stage = "find"
      <3> DEFINE r == [run[w] EXCEPT !.at = @ + 1, !.stage = "find", !.timeout = FALSE, !.ran = TRUE]
      <3>1. r.stage = "find"
        BY <1>2 DEF Run
      <3>2. run'[w] = Idle \/ run'[w] = r
        BY <1>4 DEF UpdateOk, DeleteOk, Advance, Settle, TypeOK
      <3> QED
        BY <3>1, <3>2
    <2> QED
      BY <2>1, <2>2 DEF Follows, Kept, Loaded
  <1>5. CASE AnswerLost(w)
    <2>1. /\ \A v \in Worker : v # w => run'[v] = run[v]
          /\ run'[w] = Idle
      BY <1>5 DEF AnswerLost, Failure, Settle, TypeOK
    <2> QED
      BY <2>1 DEF Follows, Kept
  <1> QED
    BY <1>3, <1>4, <1>5

Writes == \E w \in Worker : InsertOk(w) \/ UpdateOk(w) \/ DeleteOk(w) \/ AnswerLost(w)

LEMMA QuietRows ==
    ASSUME Next, ~Writes
    PROVE  rows' = rows /\ issued' = issued
  BY DEF Writes, Next, Step, Consume, Find, InsertDuplicate, RequestTimeout, Handle, HandlerThrows,
         UpdateConflict, StoreFails, Crash, ChannelLost

LEMMA NextLoaded ==
    ASSUME Inv, Inv', LoadedIsCurrent, [Next]_vars
    PROVE  LoadedIsCurrent'
  <1>1. CASE Next /\ Writes
    BY <1>1, WriteRows, WriteFollows, LoadedFollows DEF Writes
  <1>2. CASE Next /\ ~Writes
    <2>1. rows' = rows /\ issued' = issued
      BY <1>2, QuietRows
    <2> QED
      BY <1>2, <2>1, QuietLoaded, LoadedFollows DEF Writes
  <1>3. CASE UNCHANGED vars
    BY <1>3 DEF vars, LoadedIsCurrent, Matches, RowOf, ProcessOf
  <1> QED
    BY <1>1, <1>2, <1>3
-----------------------------------------------------------------------------
(* MongoDB's versions start again for a row that is inserted again.  For a *)
(* process no handler of which completes a saga there is none: a run has a *)
(* version of the row that is there, older if the row has changed since.   *)
CompletesInMemory == \A m \in Msg, p \in Process : <<m, p>> \in Completes => Store[p] = "memory"

DeletesInMemory ==
    \A w \in Worker : At(w, "delete") => Store[ProcessOf(w)] = "memory"

VersionIsCurrent ==
    \A w \in Worker :
        run[w] # Idle /\ run[w].stage \in Loaded /\ Store[ProcessOf(w)] # "memory" =>
          /\ RowOf(w) # NoRow /\ run[w].token <= RowOf(w).token
          /\ Matches(w) => RowOf(w).data = run[w].data

VersionsStep ==
    \A p \in Process : Store[p] # "memory" /\ rows[p] # NoRow =>
        \/ rows'[p] = rows[p]
        \/ rows'[p] # NoRow /\ rows'[p].token = rows[p].token + 1

LEMMA NextDeletesInMemory ==
    ASSUME CompletesInMemory, Inv, DeletesInMemory, [Next]_vars
    PROVE  DeletesInMemory'
  <1> USE DEF Inv
  <1>1. ASSUME NEW w \in Worker, run'[w] = Idle \/ run'[w].stage # "delete",
               \A v \in Worker : v # w => run'[v] = run[v]
        PROVE  DeletesInMemory'
    BY <1>1 DEF DeletesInMemory, At, ProcessOf
  <1>2. ASSUME NEW w \in Worker, NEW m \in Msg, Consume(w, m) PROVE DeletesInMemory'
    <2>1. /\ \A v \in Worker : v # w => run'[v] = run[v]
          /\ run'[w].stage = "find"
      BY <1>2 DEF Consume, TypeOK
    <2> QED
      BY <1>1, <2>1
  <1>3. ASSUME NEW w \in Worker, run[w] # Idle, NEW r, run' = [run EXCEPT ![w] = r],
               r = Idle \/ r.stage # "delete"
        PROVE  DeletesInMemory'
    BY <1>1, <1>3 DEF TypeOK
  <1>4. ASSUME NEW w \in Worker, run[w] # Idle, NEW ran \in BOOLEAN, Advance(w, ran)
        PROVE  DeletesInMemory'
    <2> DEFINE r == [run[w] EXCEPT !.at = @ + 1, !.stage = "find", !.timeout = FALSE, !.ran = ran]
    <2>1. r.stage = "find"
      BY <1>4 DEF TypeOK, Run
    <2>2. run' = [run EXCEPT ![w] = Idle] \/ run' = [run EXCEPT ![w] = r]
      BY <1>4 DEF Advance, Settle, TypeOK
    <2> HIDE DEF r
    <2> QED
      BY <1>3, <1>4, <2>1, <2>2
  <1>5. ASSUME NEW w \in Worker, run[w] # Idle, Failure(w) \/ Settle(w, "queued")
        PROVE  DeletesInMemory'
    BY <1>3, <1>5 DEF Failure, Settle
  <1>6. ASSUME NEW w \in Worker, Step(w) \/ RequestTimeout(w) \/ ChannelLost(w)
        PROVE  DeletesInMemory'
    <2>1. run[w] # Idle /\ run[w] \in Run /\ run[w].ran \in BOOLEAN
      BY <1>6 DEF Step, Find, InsertOk, Inserted, InsertDuplicate, RequestTimeout, Handle,
         HandlerThrows, UpdateOk, Updated, UpdateConflict, DeleteOk, Deleted, ChannelLost, At,
         TypeOK, Run
    <2>2. CASE Find(w) \/ InsertOk(w) \/ RequestTimeout(w)
      <3>1. CASE Advance(w, run[w].ran)
        BY <1>4, <2>1, <3>1
      <3>2. CASE ~Advance(w, run[w].ran)
        <4>1. /\ \A v \in Worker : v # w => run'[v] = run[v]
              /\ run'[w].stage \in {"handle", "insert"}
          BY <2>1, <2>2, <3>2 DEF Find, InsertOk, RequestTimeout, At, TypeOK, Run
        <4> QED
          BY <1>1, <4>1
      <3> QED
        BY <3>1, <3>2
    <2>6. CASE ChannelLost(w)
      <3> DEFINE r == [run[w] EXCEPT !.live = FALSE]
      <3>1. run' = [run EXCEPT ![w] = r]
        BY <2>6 DEF ChannelLost, TypeOK
      <3>2. r.msg = run[w].msg /\ r.at = run[w].at /\ r.stage = run[w].stage
        BY <2>1 DEF Run
      <3> HIDE DEF r
      <3> QED
        BY <2>1, <3>1, <3>2 DEF DeletesInMemory, At, ProcessOf, TypeOK
    <2>3. CASE Handle(w)
      <3>1. PICK stage \in {"update", "delete"} :
              /\ stage = "delete" => <<run[w].msg, ProcessOf(w)>> \in Completes
              /\ run' = [run EXCEPT ![w].stage = stage]
        BY <2>3 DEF Handle
      <3> DEFINE r == [run[w] EXCEPT !.stage = stage]
      <3>2. run' = [run EXCEPT ![w] = r]
        BY <2>1, <3>1 DEF TypeOK
      <3>3. r.msg = run[w].msg /\ r.at = run[w].at /\ r.stage = stage
        BY <2>1 DEF Run
      <3>4. stage = "delete" => Store[ProcessOf(w)] = "memory"
        BY <2>1, <3>1, Processes DEF CompletesInMemory
      <3> HIDE DEF r
      <3> QED
        BY <2>1, <3>2, <3>3, <3>4 DEF DeletesInMemory, At, ProcessOf, TypeOK
    <2>4. CASE UpdateOk(w) \/ DeleteOk(w)
      BY <1>4, <2>1, <2>4 DEF UpdateOk, DeleteOk
    <2>5. CASE InsertDuplicate(w) \/ HandlerThrows(w) \/ UpdateConflict(w)
      BY <1>5, <2>1, <2>5 DEF InsertDuplicate, HandlerThrows, UpdateConflict
    <2> QED
      BY <1>6, <2>2, <2>3, <2>4, <2>5, <2>6 DEF Step
  <1>7. ASSUME NEW w \in Worker, StoreFails(w) \/ AnswerLost(w) \/ Crash(w)
        PROVE  DeletesInMemory'
    <2>1. run[w] # Idle /\ (Failure(w) \/ Settle(w, "queued"))
      BY <1>7 DEF StoreFails, AnswerLost, Crash, Inserted, Updated, Deleted, At
    <2> QED
      BY <1>5, <2>1
  <1>8. CASE UNCHANGED vars
    BY <1>8 DEF vars, DeletesInMemory, At, ProcessOf
  <1> QED
    BY <1>2, <1>6, <1>7, <1>8 DEF Next

LEMMA NextVersions ==
    ASSUME Inv, DeletesInMemory, VersionIsCurrent, [Next]_vars
    PROVE  VersionsStep
  <1> USE DEF Inv
  <1>1. ASSUME NEW w \in Worker, Inserted(w) \/ Updated(w) PROVE VersionsStep
    <2>1. run[w] # Idle /\ ProcessOf(w) \in Process
      BY <1>1, Processes DEF Inserted, Updated, At
    <2>2. CASE Inserted(w)
      BY <2>1, <2>2 DEF Inserted, RowOf, VersionsStep, TypeOK
    <2>3. CASE Updated(w)
      <3> DEFINE row == [data |-> Append(run[w].data, run[w].msg), token |-> UpdateToken(ProcessOf(w))]
      <3>1. RowOf(w) # NoRow /\ RowOf(w) \in Row /\ RowOf(w) = rows[ProcessOf(w)]
        BY <2>1, <2>3 DEF Updated, Matches, RowOf, TypeOK
      <3>2. rows' = [rows EXCEPT ![ProcessOf(w)] = row]
        BY <2>3 DEF Updated
      <3>3. row \in Row
        <4>1. UpdateToken(ProcessOf(w)) \in Nat
          BY <3>1 DEF UpdateToken, Row, TypeOK
        <4>2. Append(run[w].data, run[w].msg) \in Seq(Msg)
          BY <2>1, Processes DEF Run
        <4> QED
          BY <4>1, <4>2 DEF Row
      <3>4. row # NoRow /\ (Store[ProcessOf(w)] # "memory" => row.token = RowOf(w).token + 1)
        BY <3>1, <3>3, SagaAssumption DEF UpdateToken
      <3> HIDE DEF row
      <3> QED
        BY <2>1, <3>1, <3>2, <3>4 DEF VersionsStep, TypeOK
    <2> QED
      BY <1>1, <2>2, <2>3
  <1>2. ASSUME NEW w \in Worker, Deleted(w) PROVE VersionsStep
    <2>1. run[w] # Idle /\ ProcessOf(w) \in Process
      BY <1>2, Processes DEF Deleted, At
    <2>2. Store[ProcessOf(w)] = "memory"
      BY <1>2 DEF Deleted, DeletesInMemory
    <2> QED
      BY <1>2, <2>1, <2>2 DEF Deleted, VersionsStep, TypeOK
  <1>3. CASE Next /\ Writes
    BY <1>1, <1>2, <1>3 DEF Writes, InsertOk, UpdateOk, DeleteOk, AnswerLost
  <1>4. CASE (Next /\ ~Writes) \/ UNCHANGED vars
    BY <1>4, QuietRows DEF VersionsStep, vars
  <1> QED
    BY <1>3, <1>4

LEMMA NextVersionIsCurrent ==
    ASSUME Inv, Inv', DeletesInMemory, VersionIsCurrent, [Next]_vars
    PROVE  VersionIsCurrent'
  <1> USE DEF Inv
  <1>1. VersionsStep
    BY NextVersions
  <1>2. CASE UNCHANGED vars
    BY <1>2 DEF vars, VersionIsCurrent, Matches, RowOf, ProcessOf
  <1>3. ASSUME NEW v \in Worker, run'[v] # Idle, run'[v].stage \in Loaded, Next,
               Store[ProcessOf(v)'] # "memory"
        PROVE  /\ RowOf(v)' # NoRow /\ run'[v].token <= RowOf(v)'.token
               /\ Matches(v)' => RowOf(v)'.data = run'[v].data
    <2>1. Follows(v)
      BY <1>3, WriteFollows, QuietLoaded, QuietRows DEF Writes
    <2>2. RowOf(v)' = rows'[ProcessOf(v)'] /\ ProcessOf(v)' \in Process
      <3>1. run'[v].msg \in Msg /\ run'[v].at \in 1..Len(Regs[run'[v].msg])
        BY <1>3 DEF TypeOK, Run, InRegs
      <3>2. Regs[run'[v].msg][run'[v].at] \in Process
        BY <3>1, SagaAssumption
      <3> QED
        BY <3>2 DEF RowOf, ProcessOf
    <2>3. CASE Fresh(v)
      <3>1. RowOf(v)' \in Row
        BY <2>2, <2>3 DEF Fresh, TypeOK
      <3> QED
        BY <2>3, <3>1 DEF Fresh, Row
    <2>4. CASE Kept(v)
      <3>1. PICK p \in Process : p = ProcessOf(v)'
        BY <2>2
      <3>2. /\ RowOf(v) = rows[p] /\ RowOf(v)' = rows'[p]
            /\ rows[p] # NoRow /\ run[v].token <= rows[p].token
            /\ rows[p].token = run[v].token => rows[p].data = run[v].data
            /\ run'[v].token = run[v].token /\ run'[v].data = run[v].data
        BY <1>3, <2>2, <2>4, <3>1 DEF Kept, VersionIsCurrent, Matches, RowOf, ProcessOf
      <3>3. rows[p].token \in Nat /\ run[v].token \in Nat
        BY <2>4, <3>2 DEF Kept, TypeOK, Row, Run
      <3>4. CASE rows'[p] = rows[p]
        BY <3>2, <3>4 DEF Matches
      <3>5. CASE rows'[p] # NoRow /\ rows'[p].token = rows[p].token + 1
        BY <3>2, <3>3, <3>5 DEF Matches
      <3> QED
        BY <1>1, <1>3, <3>1, <3>2, <3>4, <3>5 DEF VersionsStep
    <2> QED
      BY <1>3, <2>1, <2>3, <2>4 DEF Follows
  <1> QED
    BY <1>2, <1>3 DEF VersionIsCurrent
-----------------------------------------------------------------------------
(* The data of the rows, as AtomicSaga sees them.                          *)
Data == [p \in Process |-> IF rows[p] = NoRow THEN NoRow ELSE rows[p].data]

(* What both ways to issue tokens come to.                                 *)
UpdatesLoaded == \A w \in Worker : At(w, "update") /\ Matches(w) => RowOf(w).data = run[w].data

LEMMA DataChange ==
    ASSUME NEW p \in Process, NEW x, x = IF rows'[p] = NoRow THEN NoRow ELSE rows'[p].data,
           \A q \in Process : q # p => rows'[q] = rows[q]
    PROVE  Data' = [Data EXCEPT ![p] = x]
  <1>1. Data' = [q \in Process |-> IF rows'[q] = NoRow THEN NoRow ELSE rows'[q].data]
    BY DEF Data
  <1>2. \A q \in Process : (IF rows'[q] = NoRow THEN NoRow ELSE rows'[q].data)
                             = IF q = p THEN x ELSE Data[q]
    BY DEF Data
  <1>3. Data' = [q \in Process |-> IF q = p THEN x ELSE Data[q]]
    BY <1>1, <1>2
  <1> QED
    BY <1>3 DEF Data

LEMMA NextAtomic ==
    ASSUME Inv, UpdatesLoaded, [Next]_vars
    PROVE  Promise!Next \/ UNCHANGED Data
  <1> USE DEF Inv
  <1>1. CASE rows' = rows
    BY <1>1 DEF Data
  <1>2. ASSUME NEW w \in Worker, Inserted(w) \/ Updated(w) \/ Deleted(w), run[w] # Idle
        PROVE  Promise!Next \/ UNCHANGED Data
    <2>1. PICK p \in Process : p = ProcessOf(w)
      BY <1>2, Processes
    <2>5. run[w] \in Run /\ run[w].msg \in Msg /\ RowOf(w) = rows[p]
      BY <1>2, <2>1, Processes DEF RowOf
    <2>2. CASE Inserted(w)
      <3>0. PICK r : r = [data |-> <<>>, token |-> InsertToken(ProcessOf(w))]
        OBVIOUS
      <3>1. rows[p] = NoRow /\ rows' = [rows EXCEPT ![p] = r]
        BY <2>1, <2>2, <2>5, <3>0 DEF Inserted
      <3>2. r # NoRow
        <4>1. InsertToken(ProcessOf(w)) \in Nat
          BY DEF InsertToken, TypeOK
        <4>2. r \in Row
          BY <3>0, <4>1 DEF Row
        <4> QED
          BY <4>2, SagaAssumption
      <3>3. r.data = <<>>
        BY <3>0
      <3>4. rows'[p] = r /\ \A q \in Process : q # p => rows'[q] = rows[q]
        BY <3>1 DEF TypeOK
      <3>5. Data[p] = NoRow /\ Data' = [Data EXCEPT ![p] = <<>>]
        <4>1. Data[p] = NoRow
          BY <3>1 DEF Data
        <4> QED
          BY <3>2, <3>3, <3>4, <4>1, DataChange
      <3>6. Promise!Create(p)
        BY <3>5 DEF Promise!Create, Data
      <3> QED
        BY <3>6 DEF Promise!Next
    <2>3. CASE Updated(w)
      <3>0. PICK r : r = [data |-> Append(run[w].data, run[w].msg), token |-> UpdateToken(ProcessOf(w))]
        OBVIOUS
      <3>1. rows[p] # NoRow /\ rows' = [rows EXCEPT ![p] = r]
        BY <2>1, <2>3, <2>5, <3>0 DEF Updated, Matches
      <3>2. rows[p].data = run[w].data
        BY <1>2, <2>3, <2>5 DEF Updated, UpdatesLoaded, At
      <3>3. r # NoRow
        <4>1. UpdateToken(ProcessOf(w)) \in Nat
          BY <2>1, <3>1 DEF UpdateToken, TypeOK, Row
        <4>2. Append(run[w].data, run[w].msg) \in Seq(Msg)
          BY <2>5 DEF Run
        <4>3. r \in Row
          BY <3>0, <4>1, <4>2 DEF Row
        <4> QED
          BY <4>3, SagaAssumption
      <3>4. r.data = Append(rows[p].data, run[w].msg)
        BY <3>0, <3>2
      <3>5. rows'[p] = r /\ \A q \in Process : q # p => rows'[q] = rows[q]
        BY <3>1 DEF TypeOK
      <3>6. rows[p].data # NoRow
        <4>1. rows[p] \in Row
          BY <3>1 DEF TypeOK
        <4>2. rows[p].data \in Seq(Msg)
          BY <4>1 DEF Row
        <4> QED
          BY <4>2, SagaAssumption
      <3>7. Data[p] # NoRow /\ Data' = [Data EXCEPT ![p] = Append(Data[p], run[w].msg)]
        <4>1. Data[p] = rows[p].data
          BY <3>1 DEF Data
        <4>2. r.data = Append(Data[p], run[w].msg)
          BY <3>4, <4>1
        <4>3. Data' = [Data EXCEPT ![p] = r.data]
          BY <3>3, <3>5, DataChange
        <4> QED
          BY <3>6, <4>1, <4>2, <4>3
      <3>8. PICK m \in Msg : m = run[w].msg
        BY <2>5
      <3>9. Data' = [Data EXCEPT ![p] = Append(@, m)]
        BY <3>7, <3>8
      <3>10. Promise!Apply(p, m)
        BY <3>7, <3>9 DEF Promise!Apply, Data
      <3> QED
        BY <3>10 DEF Promise!Next
    <2>4. CASE Deleted(w)
      <3>1. rows'[p] = NoRow /\ \A q \in Process : q # p => rows'[q] = rows[q]
        BY <2>1, <2>5, <2>4 DEF Deleted, TypeOK
      <3>2. CASE rows[p] = NoRow
        BY <3>1, <3>2 DEF Data
      <3>3. CASE rows[p] # NoRow
        <4>0. rows[p] \in Row
          BY <3>3 DEF TypeOK
        <4>4. rows[p].data \in Seq(Msg)
          BY <4>0 DEF Row
        <4>1. rows[p].data # NoRow
          BY <4>4, SagaAssumption
        <4>2. Data[p] # NoRow /\ Data' = [Data EXCEPT ![p] = NoRow]
          BY <3>1, <3>3, <4>1 DEF Data
        <4>3. Promise!Complete(p)
          BY <4>2 DEF Promise!Complete, Data
        <4> QED
          BY <4>3 DEF Promise!Next
      <3> QED
        BY <3>2, <3>3
    <2> QED
      BY <1>2, <2>2, <2>3, <2>4
  <1>3. \/ rows' = rows
        \/ \E w \in Worker : run[w] # Idle /\ (Inserted(w) \/ Updated(w) \/ Deleted(w))
    <2>1. CASE Next /\ Writes
      BY <2>1 DEF Writes, InsertOk, UpdateOk, DeleteOk, AnswerLost, Inserted, Updated, Deleted, At
    <2>2. CASE Next /\ ~Writes
      BY <2>2, QuietRows
    <2> QED
      BY <2>1, <2>2 DEF vars
  <1> QED
    BY <1>1, <1>2, <1>3

(* Concurrent runs with retries and crashes apply messages to each row one *)
(* at a time, and no update is ever lost: for processes in the memory      *)
(* store, and for those in MongoDB no handler of which completes a saga.   *)
THEOREM SagaImplementsAtomicSaga ==
    ASSUME CompletesInMemory
    PROVE  Spec => ImplementsAtomicSaga
  <1> DEFINE Tokens == LoadedIsCurrent /\ DeletesInMemory /\ VersionIsCurrent
  <1>1. Init => Tokens
    BY InitInv DEF Init, DeletesInMemory, VersionIsCurrent, At
  <1>2. Inv /\ Inv' /\ Tokens /\ [Next]_vars => Tokens'
    BY NextLoaded, NextDeletesInMemory, NextVersionIsCurrent
  <1>3. Init => Promise!Init
    BY DEF Init, Promise!Init
  <1>4. Tokens => UpdatesLoaded
    BY DEF LoadedIsCurrent, VersionIsCurrent, UpdatesLoaded, At, Loaded
  <1>5. Inv /\ UpdatesLoaded /\ [Next]_vars => [Promise!Next]_Data
    BY NextAtomic
  <1> HIDE DEF Tokens
  <1> QED
    BY <1>1, <1>2, <1>3, <1>4, <1>5, SagaInvariant, PTL
       DEF Spec, ImplementsAtomicSaga, Promise!Spec, Data
=============================================================================
