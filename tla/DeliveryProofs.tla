--------------------------- MODULE DeliveryProofs ---------------------------
(***************************************************************************)
(* Safety of Delivery for any number of messages, consumers and slots, any *)
(* retry limit and any number of faults and broker restarts.               *)
(***************************************************************************)
EXTENDS Delivery, FiniteSetTheorems, TLAPS

(* A decided run knows why: a run that closes its message has recorded the *)
(* fate, a retry is within the limit, an exhausted run is at the limit.    *)
ActionMeans ==
    \A j \in jobs :
        /\ j.stage = "callback" <=> j.action.kind = "none"
        /\ j.action.kind \in {"ack", "ackAndLog"} => fate[j.msg] # {}
        /\ j.action.kind = "republishToRetry" => j.retries + 1 < Attempts
        /\ j.action.kind = "republishToError" =>
             j.action.reason \in {"unhandled", "terminal", "retriesExhausted"}
        /\ (j.action.kind = "republishToError" /\ j.action.reason = "retriesExhausted")
             => j.retries + 1 = Attempts /\ failures[j.msg] = Attempts

(* RetryCount never runs ahead of the failures that happened.              *)
FailuresCounted ==
    /\ \A s \in Slot : Held(s) => copy[s].retries <= failures[copy[s].msg]
    /\ \A j \in jobs : /\ j.retries <= failures[j.msg]
                       /\ j.action.kind = "republishToRetry"
                            => j.retries + 1 <= failures[j.msg]

(* Everything the broker holds was published as persistent.                *)
Persistent ==
    /\ \A s \in Slot : Held(s) => copy[s].durable
    /\ \A m \in Msg : \A l \in errorQueue[m] : l.durable

(* A live run owns the unacknowledged copy it was started for.             *)
LiveJobOwnsCopy ==
    \A j \in jobs : j.live => /\ copy[j.slot] # Free
                              /\ copy[j.slot].at = "unacked"
                              /\ copy[j.slot].msg = j.msg
                              /\ copy[j.slot].retries = j.retries

(* A copy is delivered to one live run at a time.                          *)
LiveJobsDistinct ==
    \A j, k \in jobs : j.live /\ k.live /\ j.slot = k.slot => j = k

(* What may be acknowledged is safe elsewhere: the message is closed, or a *)
(* copy with a HIGHER RetryCount exists.  The strict order is what makes   *)
(* the invariant inductive: two runs about to ack can never count on each  *)
(* other's copy.                                                           *)
AckIsSafe ==
    \A j \in jobs : j.live /\ j.stage = "ack" =>
        Closed(j.msg) \/ \E s \in Slot : HoldsMsg(s, j.msg) /\ copy[s].retries > j.retries

IInv == /\ TypeOK /\ ActionMeans /\ FailuresCounted /\ Persistent
        /\ LiveJobOwnsCopy /\ LiveJobsDistinct /\ AckIsSafe /\ NoLoss /\ DeadLetterJustified
-----------------------------------------------------------------------------
LEMMA AttemptsNat == Attempts \in Nat /\ Attempts > 0
BY DeliveryAssumption DEF Attempts

(* Only persistent copies exist, so a restart keeps every copy and letter. *)
LEMMA DecisionType ==
    ASSUME NEW result \in ConsumeResult, NEW retries \in 0..Attempts - 1
    PROVE  LET a == decideDispositionAction(result, retries)
           IN /\ a \in Action
              /\ a.kind # "none"
              /\ a.kind = "ack" => a.reason \in {"handled", "unhandled"}
              /\ a.kind = "republishToError" =>
                   a.reason \in {"unhandled", "terminal", "retriesExhausted"}
              /\ a.kind = "republishToRetry" => retries + 1 < Attempts
              /\ a.kind = "republishToError" /\ a.reason = "retriesExhausted" =>
                   /\ retries + 1 = Attempts
                   /\ ~result.notHandled /\ ~result.success /\ ~result.terminalFailure
              /\ a.kind = "republishToRetry" =>
                   ~result.notHandled /\ ~result.success /\ ~result.terminalFailure
<1>1. result = [success |-> result.success, notHandled |-> result.notHandled,
                terminalFailure |-> result.terminalFailure]
      /\ result.success \in BOOLEAN /\ result.notHandled \in BOOLEAN
      /\ result.terminalFailure \in BOOLEAN
  BY DEF ConsumeResult
<1>2. MaxRetries \in Nat
  BY DeliveryAssumption
<1>. QED
  BY <1>1, <1>2 DEF decideDispositionAction, Act, Action, Attempts
(* Steps that touch neither copies, jobs, letters nor the history.         *)
LEMMA ConsumerSteps ==
    ASSUME IInv, NEW c \in Consumer, Start(c) \/ Stop(c) \/ Exit(c)
    PROVE  IInv'
<1>1. UNCHANGED <<copy, jobs, errorQueue, auditQueue, history, redelivered, faults, restarts>>
      /\ exchanges' \in {"never", "up", "lost"}
      /\ consumer' \in [Consumer -> {"down", "started", "stopped"}]
  BY DEF Start, Stop, Exit, IInv, TypeOK
<1>. QED
  BY <1>1 DEF IInv, TypeOK, history, ActionMeans, FailuresCounted, Persistent,
     LiveJobOwnsCopy, LiveJobsDistinct, AckIsSafe, NoLoss, DeadLetterJustified,
     Closed, HoldsMsg, Held, Free

LEMMA PublishStep ==
    ASSUME IInv, NEW m \in Msg, NEW s \in Slot, Publish(m, s)
    PROVE  IInv'
<1>. USE AttemptsNat DEF IInv, TypeOK, Publish, Held, Free
<1>1. TypeOK'
  BY DEF Copy
<1>2. copy[s] = Free /\ \A t \in Slot \ {s} : copy'[t] = copy[t]
  OBVIOUS
<1>3. copy'[s] = [at |-> "queue", msg |-> m, retries |-> 0, durable |-> TRUE]
  OBVIOUS
<1>4. ActionMeans' /\ LiveJobsDistinct' /\ DeadLetterJustified'
  BY DEF ActionMeans, LiveJobsDistinct, DeadLetterJustified
<1>5. FailuresCounted' /\ Persistent'
  BY <1>2, <1>3 DEF FailuresCounted, Persistent
<1>6. LiveJobOwnsCopy'
  BY <1>2 DEF LiveJobOwnsCopy, Job
<1>7. AckIsSafe'
  BY <1>2 DEF AckIsSafe, HoldsMsg, Closed
<1>8. NoLoss'
  BY <1>2, <1>3 DEF NoLoss, HoldsMsg, Closed
<1>. QED
  BY <1>1, <1>4, <1>5, <1>6, <1>7, <1>8 DEF IInv

LEMMA DeliverStep ==
    ASSUME IInv, NEW c \in Consumer, NEW s \in Slot, Deliver(c, s)
    PROVE  IInv'
<1>. USE AttemptsNat DEF IInv, TypeOK, Deliver, Held, history
<1>0. copy[s] \in Copy /\ copy[s].at = "queue"
  BY DEF Free
<1> DEFINE new == [slot |-> s, by |-> c, msg |-> copy[s].msg,
                   retries |-> copy[s].retries, stage |-> "callback",
                   action |-> Undecided, live |-> TRUE]
<1>1. /\ jobs' = jobs \cup {new}
      /\ copy' = [copy EXCEPT ![s].at = "unacked"]
  OBVIOUS
<1>2. /\ copy'[s] = [copy[s] EXCEPT !.at = "unacked"] /\ copy'[s] \in Copy
      /\ copy'[s].at = "unacked" /\ copy'[s].msg = copy[s].msg
      /\ copy'[s].retries = copy[s].retries /\ copy'[s].durable = copy[s].durable
      /\ \A t \in Slot \ {s} : copy'[t] = copy[t]
  BY <1>0, <1>1 DEF Copy
<1>3. new \in Job
  BY <1>0 DEF Job, Copy, Undecided, Act, Action
<1>4. TypeOK'
  BY <1>1, <1>2, <1>3
<1>5. \A t \in Slot : /\ copy'[t] # Free <=> copy[t] # Free
                      /\ copy[t] # Free => /\ copy'[t].msg = copy[t].msg
                                           /\ copy'[t].retries = copy[t].retries
                                           /\ copy'[t].durable = copy[t].durable
  BY <1>0, <1>2 DEF Free, Copy
<1>6. ActionMeans'
  BY <1>1 DEF ActionMeans, Undecided, Act
<1>7. FailuresCounted' /\ Persistent'
  BY <1>0, <1>1, <1>5 DEF FailuresCounted, Persistent, Undecided, Act, Free
<1>8. LiveJobOwnsCopy' /\ LiveJobsDistinct'
  <2>1. \A j \in jobs : j.live => j.slot # s
    BY <1>0 DEF LiveJobOwnsCopy
  <2>2. copy'[s] # Free
    BY <1>2 DEF Free, Copy
  <2>3. new.slot = s /\ new.msg = copy[s].msg /\ new.retries = copy[s].retries
    OBVIOUS
  <2>4. \A j \in jobs : j.slot \in Slot
    BY DEF Job
  <2>5. LiveJobOwnsCopy'
    <3>1. ASSUME NEW j \in jobs, j.live
          PROVE  copy'[j.slot] = copy[j.slot]
      BY <1>2, <2>1, <2>4, <3>1
    <3>. QED
      BY ONLY <1>1, <1>2, <2>2, <2>3, <3>1, IInv DEF IInv, LiveJobOwnsCopy
  <2>6. LiveJobsDistinct'
    <3>1. \A j, k \in jobs : j.live /\ k.live /\ j.slot = k.slot => j = k
      BY ONLY IInv DEF IInv, LiveJobsDistinct
    <3>2. SUFFICES ASSUME NEW j \in jobs', NEW k \in jobs', j.live, k.live, j.slot = k.slot
                   PROVE  j = k
      BY ONLY <3>2 DEF LiveJobsDistinct
    <3>3. CASE j \in jobs /\ k \in jobs
      BY ONLY <3>1, <3>2, <3>3
    <3>4. CASE j = new \/ k = new
      <4>. HIDE DEF new
      <4>. QED
        BY ONLY <1>1, <2>1, <2>3, <3>2, <3>4
    <3>. QED
      BY ONLY <1>1, <3>2, <3>3, <3>4
  <2>. QED
    BY <2>5, <2>6
<1>9. AckIsSafe' /\ NoLoss' /\ DeadLetterJustified'
  BY <1>1, <1>5 DEF AckIsSafe, NoLoss, DeadLetterJustified, HoldsMsg, Closed
<1>. QED
  BY <1>4, <1>6, <1>7, <1>8, <1>9 DEF IInv
(* Two contents of the broker that differ at most in where copies wait.    *)
SameContents(new, old) ==
    \A t \in Slot : /\ new[t] # Free <=> old[t] # Free
                    /\ old[t] # Free => /\ new[t].msg = old[t].msg
                                        /\ new[t].retries = old[t].retries
                                        /\ new[t].durable = old[t].durable

LEMMA RequeuedSame ==
    ASSUME TypeOK, NEW S \in SUBSET Slot, \A s \in S : copy[s] # Free
    PROVE  /\ Requeued(S) \in [Slot -> Copy \cup {Free}]
           /\ SameContents(Requeued(S), copy)
           /\ \A s \in Slot \ S : Requeued(S)[s] = copy[s]
<1>1. \A s \in S : copy[s] \in Copy
  BY DEF TypeOK
<1>2. ASSUME NEW s \in S
      PROVE  /\ Requeued(S)[s] \in Copy
             /\ Requeued(S)[s].msg = copy[s].msg
             /\ Requeued(S)[s].retries = copy[s].retries
             /\ Requeued(S)[s].durable = copy[s].durable
  BY <1>1 DEF Requeued, Copy
<1>3. \A s \in Slot \ S : Requeued(S)[s] = copy[s]
  BY DEF Requeued
<1>4. \A s \in S : Requeued(S)[s] # Free
  BY <1>2 DEF Copy, Free
<1>5. Requeued(S) \in [Slot -> Copy \cup {Free}]
  <2>1. \A s \in Slot : Requeued(S)[s] \in Copy \cup {Free}
    BY <1>2, <1>3 DEF TypeOK
  <2>2. Requeued(S) = [s \in Slot |-> Requeued(S)[s]]
    BY DEF Requeued
  <2>. QED
    BY <2>1, <2>2
<1>6. SameContents(Requeued(S), copy)
  BY <1>2, <1>3, <1>4 DEF SameContents
<1>. QED
  BY <1>3, <1>5, <1>6

LEMMA DecideStep ==
    ASSUME IInv, NEW j \in jobs, NEW result \in ConsumeResult, Decide(j, result)
    PROVE  IInv'
<1> DEFINE action == decideDispositionAction(result, j.retries)
           k == [j EXCEPT !.action = action,
                          !.stage = IF Publishes(action) THEN "publish" ELSE "ack"]
           failed == ~result.notHandled /\ ~result.success /\ ~result.terminalFailure
<1>1. j \in Job /\ j.stage = "callback" /\ j.retries \in 0..Attempts - 1 /\ j.msg \in Msg
  BY DEF IInv, TypeOK, Job, Decide
<1>2. /\ action \in Action
      /\ action.kind # "none"
      /\ action.kind = "ack" => action.reason \in {"handled", "unhandled"}
      /\ action.kind = "republishToError" =>
            action.reason \in {"unhandled", "terminal", "retriesExhausted"}
      /\ action.kind = "republishToRetry" => j.retries + 1 < Attempts
      /\ action.kind = "republishToError" /\ action.reason = "retriesExhausted" =>
            j.retries + 1 = Attempts /\ failed
      /\ action.kind = "republishToRetry" => failed
  BY <1>1, DecisionType
<1>3. /\ jobs' = (jobs \ {j}) \cup {k}
      /\ UNCHANGED <<copy, errorQueue, auditQueue, exchanges, consumer, published,
                     redelivered, faults, restarts>>
  BY DEF Decide
<1>4. /\ k \in Job /\ k.slot = j.slot /\ k.msg = j.msg /\ k.retries = j.retries
      /\ k.live = j.live /\ k.action = action /\ k.stage \in {"publish", "ack"}
      /\ k.stage = "ack" => ~Publishes(action)
  <2>. HIDE DEF action
  <2>. QED
    BY <1>1, <1>2 DEF Job
<1>5. /\ fate' \in [Msg -> SUBSET {"handled", "unhandled", "logged"}]
      /\ \A m \in Msg : fate[m] \subseteq fate'[m]
      /\ action.kind \in {"ack", "ackAndLog"} => fate'[j.msg] # {}
  <2> DEFINE closed == CASE action.kind = "ack" -> {action.reason}
                         [] action.kind = "ackAndLog" -> {"logged"}
                         [] OTHER -> {}
  <2>1. fate' = [fate EXCEPT ![j.msg] = @ \cup closed]
    BY DEF Decide
  <2>2. /\ closed \subseteq {"handled", "unhandled", "logged"}
        /\ action.kind \in {"ack", "ackAndLog"} => closed # {}
    <3>. HIDE DEF action
    <3>. QED
      BY <1>2
  <2>. HIDE DEF closed, action
  <2>. QED
    BY <1>1, <2>1, <2>2 DEF IInv, TypeOK
<1>6. /\ failures' \in [Msg -> 0..Attempts]
      /\ \A m \in Msg : failures[m] <= failures'[m]
      /\ failed => failures'[j.msg] = Attempts \/ failures'[j.msg] = failures[j.msg] + 1
  <2>1. failures' = IF failed /\ failures[j.msg] < Attempts
                    THEN [failures EXCEPT ![j.msg] = @ + 1] ELSE failures
    BY DEF Decide
  <2>. HIDE DEF failed
  <2>. QED
    BY <1>1, <2>1, AttemptsNat DEF IInv, TypeOK
<1>. HIDE DEF k, failed, action
<1>7. TypeOK'
  BY <1>3, <1>4, <1>5, <1>6 DEF IInv, TypeOK
<1>8. \A i \in jobs : i.msg \in Msg /\ i.retries \in 0..Attempts - 1 /\ j.retries <= failures[j.msg]
  BY DEF IInv, TypeOK, Job, FailuresCounted
<1>9. \A m \in Msg : failures[m] \in 0..Attempts /\ failures'[m] \in 0..Attempts
  BY <1>6 DEF IInv, TypeOK
<1>10. ActionMeans'
  <2>1. ASSUME NEW i \in jobs
        PROVE  /\ i.stage = "callback" <=> i.action.kind = "none"
               /\ i.action.kind \in {"ack", "ackAndLog"} => fate'[i.msg] # {}
               /\ i.action.kind = "republishToRetry" => i.retries + 1 < Attempts
               /\ i.action.kind = "republishToError" =>
                    i.action.reason \in {"unhandled", "terminal", "retriesExhausted"}
               /\ (i.action.kind = "republishToError" /\ i.action.reason = "retriesExhausted")
                      => i.retries + 1 = Attempts /\ failures'[i.msg] = Attempts
    <3>1. fate[i.msg] \subseteq fate'[i.msg] /\ failures[i.msg] <= failures'[i.msg]
      BY <1>5, <1>6, <1>8
    <3>. QED
      BY <3>1, <1>8, <1>9, AttemptsNat DEF IInv, ActionMeans
  <2>2. /\ k.stage # "callback" /\ k.action.kind # "none"
        /\ k.action.kind \in {"ack", "ackAndLog"} => fate'[k.msg] # {}
        /\ k.action.kind = "republishToRetry" => k.retries + 1 < Attempts
        /\ k.action.kind = "republishToError" =>
              k.action.reason \in {"unhandled", "terminal", "retriesExhausted"}
        /\ (k.action.kind = "republishToError" /\ k.action.reason = "retriesExhausted")
              => k.retries + 1 = Attempts /\ failures'[k.msg] = Attempts
    BY <1>1, <1>2, <1>4, <1>5, <1>6, <1>8, <1>9, AttemptsNat
  <2>. QED
    BY <1>3, <2>1, <2>2 DEF ActionMeans
<1>11. FailuresCounted'
  <2>1. \A s \in Slot : copy[s] # Free => copy[s].msg \in Msg /\ copy[s].retries \in 0..Attempts - 1
    BY DEF IInv, TypeOK, Copy
  <2>2. \A s \in Slot : copy[s] # Free => copy[s].retries <= failures'[copy[s].msg]
    BY <2>1, <1>6, <1>9, AttemptsNat DEF IInv, FailuresCounted, Held
  <2>3. \A i \in jobs : /\ i.retries <= failures'[i.msg]
                        /\ i.action.kind = "republishToRetry" => i.retries + 1 <= failures'[i.msg]
    BY <1>6, <1>8, <1>9, AttemptsNat DEF IInv, FailuresCounted
  <2>4. k.retries <= failures'[k.msg]
        /\ (k.action.kind = "republishToRetry" => k.retries + 1 <= failures'[k.msg])
    BY <1>1, <1>2, <1>4, <1>6, <1>8, <1>9, <2>3, AttemptsNat
  <2>. QED
    BY <1>3, <2>2, <2>3, <2>4 DEF FailuresCounted, Held
<1>12. Persistent' /\ LiveJobOwnsCopy' /\ LiveJobsDistinct'
  BY <1>3, <1>4 DEF IInv, Persistent, LiveJobOwnsCopy, LiveJobsDistinct, Held
<1>13. \A m \in Msg : Closed(m) => Closed(m)'
  BY <1>3, <1>5 DEF Closed
<1>14. AckIsSafe'
  <2>1. k.stage = "ack" => Closed(k.msg)'
    BY <1>2, <1>4, <1>5 DEF Publishes, Closed, Action
  <2>2. \A m : \A s \in Slot : HoldsMsg(s, m)' <=> HoldsMsg(s, m)
    BY <1>3 DEF HoldsMsg, Held
  <2>. QED
    BY <1>3, <1>8, <1>13, <2>1, <2>2 DEF IInv, AckIsSafe
<1>15. NoLoss'
  BY <1>3, <1>13 DEF IInv, TypeOK, NoLoss, HoldsMsg, Held
<1>16. DeadLetterJustified'
  BY <1>3, <1>6, <1>9, AttemptsNat DEF IInv, DeadLetterJustified
<1>. QED
  BY <1>7, <1>10, <1>11, <1>12, <1>14, <1>15, <1>16 DEF IInv
(* What a republish adds to the broker, on top of the contents `base`: the *)
(* evidence that makes acknowledging the original safe.                    *)
LEMMA ReachesAdds ==
    ASSUME IInv, NEW j \in jobs, j.stage = "publish",
           NEW base \in [Slot -> Copy \cup {Free}], SameContents(base, copy),
           Reaches(j, base), UNCHANGED history
    PROVE  /\ copy' \in [Slot -> Copy \cup {Free}]
           /\ errorQueue' \in [Msg -> SUBSET Letter]
           /\ auditQueue' \in [Msg -> SUBSET BOOLEAN]
           /\ \A t \in Slot : base[t] # Free => copy'[t] = base[t]
           /\ \A m \in Msg : Closed(m) => Closed(m)'
           /\ \/ Closed(j.msg)'
              \/ \E s \in Slot : HoldsMsg(s, j.msg)' /\ copy'[s].retries > j.retries
           /\ Persistent'
           /\ \A s \in Slot : Held(s)' => copy'[s].retries <= failures'[copy'[s].msg]
           /\ DeadLetterJustified'
<1>1. /\ j \in Job /\ j.msg \in Msg /\ j.retries \in 0..Attempts - 1 /\ j.action \in Action
      /\ failures' = failures /\ fate' = fate /\ j.action.kind # "none"
      /\ j.retries \in Nat
  BY AttemptsNat DEF IInv, TypeOK, Job, history, ActionMeans
<1>2. \A s \in Slot : /\ base[s] # Free <=> copy[s] # Free
                      /\ base[s] # Free =>
                           /\ base[s].durable
                           /\ base[s].retries <= failures[base[s].msg]
  BY DEF SameContents, IInv, Persistent, FailuresCounted, Held
<1>3. CASE j.action.kind = "republishToRetry"
  <2>1. PICK s \in Slot : ~Held(s) /\ copy' = [base EXCEPT ![s] = RetryCopyOf(j)]
    BY <1>3 DEF Reaches
  <2>2. UNCHANGED <<errorQueue, auditQueue>>
    BY <1>3 DEF Reaches
  <2>3. j.retries + 1 < Attempts /\ j.retries + 1 <= failures[j.msg]
    BY <1>3 DEF IInv, ActionMeans, FailuresCounted
  <2>4. /\ RetryCopyOf(j) \in Copy /\ RetryCopyOf(j) # Free
        /\ RetryCopyOf(j).msg = j.msg /\ RetryCopyOf(j).retries = j.retries + 1
        /\ RetryCopyOf(j).durable
    BY <1>1, <2>3, AttemptsNat DEF RetryCopyOf, Copy, Free
  <2>5. /\ copy'[s] = RetryCopyOf(j)
        /\ \A t \in Slot \ {s} : copy'[t] = base[t]
        /\ base[s] = Free
        /\ copy' \in [Slot -> Copy \cup {Free}]
    BY <2>1, <2>4, <1>2 DEF Held
  <2>6. \E t \in Slot : HoldsMsg(t, j.msg)' /\ copy'[t].retries > j.retries
    BY <2>4, <2>5, <1>1 DEF HoldsMsg, Held
  <2>7. Persistent' /\ \A t \in Slot : Held(t)' => copy'[t].retries <= failures'[copy'[t].msg]
    BY <1>1, <1>2, <2>2, <2>3, <2>4, <2>5 DEF IInv, Persistent, Held
  <2>8. DeadLetterJustified' /\ \A m \in Msg : Closed(m) => Closed(m)'
    BY <1>1, <2>2 DEF IInv, DeadLetterJustified, Closed
  <2>. QED
    BY <2>2, <2>5, <2>6, <2>7, <2>8 DEF IInv, TypeOK
<1>4. CASE j.action.kind = "republishToError"
  <2>1. /\ errorQueue' = [errorQueue EXCEPT ![j.msg] = @ \cup {LetterOf(j)}]
        /\ copy' = base
        /\ auditQueue' = auditQueue
    BY <1>4 DEF Reaches
  <2>2. LetterOf(j) \in Letter /\ LetterOf(j).durable
    <3>1. j.action.reason \in {"unhandled", "terminal", "retriesExhausted"}
      BY <1>4 DEF IInv, ActionMeans
    <3>2. j.retries \in 0..Attempts /\ j.retries + 1 \in 0..Attempts
      BY <1>1, AttemptsNat
    <3>. QED
      BY <3>1, <3>2 DEF LetterOf, Letter
  <2>3. LetterOf(j).reason = "retriesExhausted" =>
            LetterOf(j).retries = Attempts /\ failures[j.msg] = Attempts
    BY <1>4 DEF LetterOf, IInv, ActionMeans
  <2>4. /\ errorQueue' \in [Msg -> SUBSET Letter]
        /\ errorQueue'[j.msg] = errorQueue[j.msg] \cup {LetterOf(j)}
        /\ \A m \in Msg \ {j.msg} : errorQueue'[m] = errorQueue[m]
    BY <1>1, <2>1, <2>2 DEF IInv, TypeOK
  <2>5. DeadLetterJustified'
    BY <1>1, <2>3, <2>4 DEF IInv, DeadLetterJustified
  <2>6. Persistent' /\ \A t \in Slot : Held(t)' => copy'[t].retries <= failures'[copy'[t].msg]
    BY <1>1, <1>2, <2>1, <2>2, <2>4 DEF IInv, Persistent, Held
  <2>7. Closed(j.msg)' /\ \A m \in Msg : Closed(m) => Closed(m)'
    BY <1>1, <2>4 DEF Closed
  <2>. QED
    BY <2>1, <2>4, <2>5, <2>6, <2>7 DEF IInv, TypeOK
<1>5. CASE j.action.kind = "ack"
  <2>1. /\ auditQueue' = [auditQueue EXCEPT ![j.msg] = @ \cup {TRUE}]
        /\ copy' = base
        /\ errorQueue' = errorQueue
    BY <1>5 DEF Reaches
  <2>2. auditQueue' \in [Msg -> SUBSET BOOLEAN]
    BY <1>1, <2>1 DEF IInv, TypeOK
  <2>3. Closed(j.msg)' /\ \A m \in Msg : Closed(m) => Closed(m)'
    BY <1>1, <1>5, <2>1 DEF IInv, ActionMeans, Closed
  <2>4. Persistent' /\ \A t \in Slot : Held(t)' => copy'[t].retries <= failures'[copy'[t].msg]
    BY <1>1, <1>2, <2>1 DEF IInv, Persistent, Held
  <2>5. DeadLetterJustified'
    BY <1>1, <2>1 DEF IInv, DeadLetterJustified
  <2>. QED
    BY <2>1, <2>2, <2>3, <2>4, <2>5 DEF IInv, TypeOK
<1>. QED
  BY <1>3, <1>4, <1>5 DEF Reaches

(* What remains of the invariant once the jobs of the next state are known *)
(* to be old jobs, possibly further along or stale, and no copy is lost.   *)
LEMMA JobsShrink ==
    ASSUME IInv, UNCHANGED history,
           copy' \in [Slot -> Copy \cup {Free}],
           errorQueue' \in [Msg -> SUBSET Letter],
           auditQueue' \in [Msg -> SUBSET BOOLEAN],
           exchanges' \in {"never", "up", "lost"},
           consumer' \in [Consumer -> {"down", "started", "stopped"}],
           redelivered' \subseteq Msg, faults' \in Nat, restarts' \in Nat,
           Persistent', DeadLetterJustified',
           \A s \in Slot : Held(s)' => copy'[s].retries <= failures'[copy'[s].msg],
           \A m \in Msg : Closed(m) => Closed(m)',
           \A s \in Slot : copy[s] # Free =>
               copy'[s] # Free /\ copy'[s].msg = copy[s].msg /\ copy'[s].retries = copy[s].retries,
           \A i \in jobs' : \E k \in jobs :
               /\ i \in Job /\ i.slot = k.slot /\ i.msg = k.msg /\ i.retries = k.retries
               /\ i.action = k.action
               /\ i.live => k.live
               /\ i.stage = k.stage
                  \/ /\ k.stage = "publish" /\ i.stage = "ack"
                     /\ Closed(i.msg)' \/ \E s \in Slot :
                           HoldsMsg(s, i.msg)' /\ copy'[s].retries > i.retries
               /\ i.live => copy'[i.slot] = copy[k.slot],
           \A i, k \in jobs' : i.live /\ k.live /\ i.slot = k.slot => i = k
    PROVE  IInv'
<1>1. \A i \in jobs : i \in Job /\ i.msg \in Msg /\ i.slot \in Slot
  BY DEF IInv, TypeOK, Job
<1>2. TypeOK'
  BY DEF IInv, TypeOK, history
<1> DEFINE From(i, k) ==
           /\ i.slot = k.slot /\ i.msg = k.msg /\ i.retries = k.retries
           /\ i.action = k.action
           /\ i.live => k.live
           /\ i.stage = k.stage
              \/ /\ k.stage = "publish" /\ i.stage = "ack"
                 /\ Closed(i.msg)' \/ \E s \in Slot :
                       HoldsMsg(s, i.msg)' /\ copy'[s].retries > i.retries
           /\ i.live => copy'[i.slot] = copy[k.slot]
<1>0. ASSUME NEW i \in jobs' PROVE \E k \in jobs : From(i, k)
  OBVIOUS
<1>. HIDE DEF From
<1>3. ActionMeans'
  <2>. SUFFICES ASSUME NEW i \in jobs'
                PROVE  /\ i.stage = "callback" <=> i.action.kind = "none"
                       /\ i.action.kind \in {"ack", "ackAndLog"} => fate'[i.msg] # {}
                       /\ i.action.kind = "republishToRetry" => i.retries + 1 < Attempts
                       /\ i.action.kind = "republishToError" =>
                            i.action.reason \in {"unhandled", "terminal", "retriesExhausted"}
                       /\ (i.action.kind = "republishToError" /\ i.action.reason = "retriesExhausted")
                            => i.retries + 1 = Attempts /\ failures'[i.msg] = Attempts
    BY DEF ActionMeans
  <2>1. PICK k \in jobs : From(i, k)
    BY <1>0
  <2>. QED
    BY ONLY IInv, UNCHANGED history, k \in jobs, <2>1 DEF From, IInv, ActionMeans, history
<1>4. FailuresCounted'
  <2>. SUFFICES ASSUME NEW i \in jobs'
                PROVE  /\ i.retries <= failures'[i.msg]
                       /\ i.action.kind = "republishToRetry" => i.retries + 1 <= failures'[i.msg]
    BY DEF FailuresCounted
  <2>1. PICK k \in jobs : From(i, k)
    BY <1>0
  <2>. QED
    BY ONLY IInv, UNCHANGED history, k \in jobs, <2>1 DEF From, IInv, FailuresCounted, history
<1>5. LiveJobOwnsCopy' /\ LiveJobsDistinct'
  <2>1. LiveJobsDistinct'
    BY DEF LiveJobsDistinct
  <2>. SUFFICES ASSUME NEW i \in jobs', i.live
                PROVE  /\ copy'[i.slot] # Free /\ copy'[i.slot].at = "unacked"
                       /\ copy'[i.slot].msg = i.msg /\ copy'[i.slot].retries = i.retries
    BY <2>1 DEF LiveJobOwnsCopy
  <2>2. PICK k \in jobs : From(i, k)
    BY <1>0
  <2>. QED
    BY ONLY IInv, i.live, k \in jobs, <2>2 DEF From, IInv, LiveJobOwnsCopy
<1>6. AckIsSafe'
  <2>. SUFFICES ASSUME NEW i \in jobs', i.live, i.stage = "ack"
                PROVE  Closed(i.msg)' \/ \E s \in Slot :
                           HoldsMsg(s, i.msg)' /\ copy'[s].retries > i.retries
    BY DEF AckIsSafe
  <2>1. PICK k \in jobs : From(i, k)
    BY <1>0
  <2>2. CASE i.stage = k.stage
    <3>1. k.live /\ k.stage = "ack" /\ k.msg = i.msg /\ k.retries = i.retries
      BY <2>1, <2>2 DEF From
    <3>2. Closed(k.msg) \/ \E s \in Slot : HoldsMsg(s, k.msg) /\ copy[s].retries > k.retries
      BY <3>1 DEF IInv, AckIsSafe
    <3>. QED
      BY <1>1, <3>1, <3>2 DEF HoldsMsg, Held
  <2>3. CASE i.stage # k.stage
    BY <2>1, <2>3 DEF From
  <2>. QED
    BY <2>2, <2>3
<1>7. NoLoss'
  BY DEF IInv, TypeOK, NoLoss, HoldsMsg, Held, history
<1>. QED
  BY <1>2, <1>3, <1>4, <1>5, <1>6, <1>7 DEF IInv
(* Facts about one job that every step below uses.                         *)
LEMMA JobFacts ==
    ASSUME IInv, NEW j \in jobs
    PROVE  /\ j \in Job /\ j.slot \in Slot /\ j.msg \in Msg /\ j.by \in Consumer
           /\ j.live \in BOOLEAN
           /\ j.live => copy[j.slot] # Free
           /\ [j EXCEPT !.live = FALSE] \in Job
           /\ [j EXCEPT !.stage = "ack"] \in Job
<1>1. j \in Job
  BY DEF IInv, TypeOK
<1>2. j.live => copy[j.slot] # Free
  BY DEF IInv, LiveJobOwnsCopy
<1>3. /\ j.slot \in Slot /\ j.msg \in Msg /\ j.by \in Consumer /\ j.live \in BOOLEAN
      /\ [j EXCEPT !.live = FALSE] \in Job
      /\ [j EXCEPT !.stage = "ack"] \in Job
  BY ONLY <1>1 DEF Job
<1>. QED
  BY <1>1, <1>2, <1>3

LEMMA RequeueOf ==
    ASSUME IInv, NEW j \in jobs
    PROVE  /\ BackAfter(j) \in [Slot -> Copy \cup {Free}]
           /\ SameContents(BackAfter(j), copy)
           /\ \A i \in jobs \ {j} : i.live => BackAfter(j)[i.slot] = copy[i.slot]
<1>1. CASE j.live
  <2>1. {j.slot} \in SUBSET Slot /\ \A s \in {j.slot} : copy[s] # Free
    BY <1>1, JobFacts
  <2>2. BackAfter(j) = Requeued({j.slot})
    BY <1>1 DEF BackAfter
  <2>3. \A i \in jobs \ {j} : i.live => i.slot \in Slot \ {j.slot}
    BY <1>1, JobFacts DEF IInv, LiveJobsDistinct
  <2>. QED
    BY <2>1, <2>2, <2>3, RequeuedSame DEF IInv
<1>2. CASE ~j.live
  BY <1>2 DEF BackAfter, SameContents, IInv, TypeOK
<1>. QED
  BY <1>1, <1>2, JobFacts

(* Contents that only moved keep what the invariant says of them.          *)
LEMMA MovedContents ==
    ASSUME IInv, UNCHANGED history, SameContents(copy', copy), UNCHANGED errorQueue
    PROVE  /\ Persistent' /\ DeadLetterJustified'
           /\ \A s \in Slot : Held(s)' => copy'[s].retries <= failures'[copy'[s].msg]
           /\ \A m \in Msg : Closed(m) => Closed(m)'
           /\ \A s \in Slot : copy[s] # Free =>
                 copy'[s] # Free /\ copy'[s].msg = copy[s].msg /\ copy'[s].retries = copy[s].retries
<1>1. Persistent'
  BY DEF SameContents, IInv, Persistent, Held
<1>2. DeadLetterJustified'
  BY DEF history, IInv, DeadLetterJustified
<1>3. \A s \in Slot : Held(s)' => copy'[s].retries <= failures'[copy'[s].msg]
  BY DEF SameContents, history, IInv, FailuresCounted, Held
<1>4. \A m \in Msg : Closed(m) => Closed(m)'
  BY DEF history, Closed
<1>. QED
  BY <1>1, <1>2, <1>3, <1>4 DEF SameContents

LEMMA PublishOkStep ==
    ASSUME IInv, NEW j \in jobs, PublishOk(j)
    PROVE  IInv'
<1> DEFINE k == [j EXCEPT !.stage = "ack"]
<1>1. /\ j.stage = "publish" /\ Reaches(j, copy) /\ UNCHANGED history
      /\ jobs' = (jobs \ {j}) \cup {k}
      /\ UNCHANGED <<exchanges, consumer, redelivered, faults, restarts>>
  BY DEF PublishOk, Publishing
<1>2. /\ k \in Job /\ k.slot = j.slot /\ k.msg = j.msg /\ k.retries = j.retries
      /\ k.action = j.action /\ k.live = j.live /\ k.stage = "ack"
  BY JobFacts DEF Job
<1>. HIDE DEF k
<1>3. copy \in [Slot -> Copy \cup {Free}] /\ SameContents(copy, copy)
  BY DEF IInv, TypeOK, SameContents
<1>4. /\ copy' \in [Slot -> Copy \cup {Free}]
      /\ errorQueue' \in [Msg -> SUBSET Letter] /\ auditQueue' \in [Msg -> SUBSET BOOLEAN]
      /\ \A t \in Slot : copy[t] # Free => copy'[t] = copy[t]
      /\ \A m \in Msg : Closed(m) => Closed(m)'
      /\ Closed(j.msg)' \/ \E s \in Slot : HoldsMsg(s, j.msg)' /\ copy'[s].retries > j.retries
      /\ Persistent' /\ DeadLetterJustified'
      /\ \A s \in Slot : Held(s)' => copy'[s].retries <= failures'[copy'[s].msg]
  BY <1>1, <1>3, ReachesAdds
<1>5. \A i \in jobs : i \in Job /\ (i.live => copy'[i.slot] = copy[i.slot])
  BY <1>4, JobFacts
<1>6. \A i, l \in jobs' : i.live /\ l.live /\ i.slot = l.slot => i = l
  BY <1>1, <1>2 DEF IInv, LiveJobsDistinct
<1>7. \A i \in jobs' : \E l \in jobs :
               /\ i \in Job /\ i.slot = l.slot /\ i.msg = l.msg /\ i.retries = l.retries
               /\ i.action = l.action
               /\ i.live => l.live
               /\ i.stage = l.stage
                  \/ /\ l.stage = "publish" /\ i.stage = "ack"
                     /\ Closed(i.msg)' \/ \E s \in Slot :
                           HoldsMsg(s, i.msg)' /\ copy'[s].retries > i.retries
               /\ i.live => copy'[i.slot] = copy[l.slot]
  <2>1. ASSUME NEW i \in jobs', i # k PROVE i \in jobs
    BY <1>1, <2>1
  <2>. QED
    BY <1>1, <1>2, <1>4, <1>5, <2>1
<1>8. /\ exchanges' \in {"never", "up", "lost"} /\ consumer' \in [Consumer -> {"down", "started", "stopped"}]
      /\ redelivered' \subseteq Msg /\ faults' \in Nat /\ restarts' \in Nat
  BY <1>1 DEF IInv, TypeOK
<1>. QED
  BY ONLY IInv, <1>1, <1>4, <1>6, <1>7, <1>8, JobsShrink
(* A weaker form for steps after which every job is an old one, or an old  *)
(* one gone stale, and only letters and retry copies were added.           *)
LEMMA JobsFewer ==
    ASSUME IInv, UNCHANGED history,
           copy' \in [Slot -> Copy \cup {Free}],
           errorQueue' \in [Msg -> SUBSET Letter],
           auditQueue' \in [Msg -> SUBSET BOOLEAN],
           exchanges' \in {"never", "up", "lost"},
           consumer' \in [Consumer -> {"down", "started", "stopped"}],
           redelivered' \subseteq Msg, faults' \in Nat, restarts' \in Nat,
           Persistent', DeadLetterJustified',
           \A s \in Slot : Held(s)' => copy'[s].retries <= failures'[copy'[s].msg],
           \A m \in Msg : Closed(m) => Closed(m)',
           \A s \in Slot : copy[s] # Free =>
               copy'[s] # Free /\ copy'[s].msg = copy[s].msg /\ copy'[s].retries = copy[s].retries,
           \A i \in jobs' : i \in jobs \/ \E k \in jobs : i = [k EXCEPT !.live = FALSE],
           \A i \in jobs' : i.live => copy'[i.slot] = copy[i.slot]
    PROVE  IInv'
<1>1. \A i \in jobs' : \E k \in jobs :
               /\ i \in Job /\ i.slot = k.slot /\ i.msg = k.msg /\ i.retries = k.retries
               /\ i.action = k.action
               /\ i.live => k.live
               /\ i.stage = k.stage
                  \/ /\ k.stage = "publish" /\ i.stage = "ack"
                     /\ Closed(i.msg)' \/ \E s \in Slot :
                           HoldsMsg(s, i.msg)' /\ copy'[s].retries > i.retries
               /\ i.live => copy'[i.slot] = copy[k.slot]
  <2>. SUFFICES ASSUME NEW i \in jobs'
                PROVE  \E k \in jobs :
                         /\ i \in Job /\ i.slot = k.slot /\ i.msg = k.msg
                         /\ i.retries = k.retries /\ i.action = k.action
                         /\ i.live => k.live
                         /\ i.stage = k.stage
                         /\ i.live => copy'[i.slot] = copy[k.slot]
    OBVIOUS
  <2>1. CASE i \in jobs
    BY <2>1, JobFacts
  <2>2. CASE i \notin jobs
    <3>1. PICK k \in jobs : i = [k EXCEPT !.live = FALSE]
      BY <2>2
    <3>2. i \in Job /\ ~i.live /\ i.slot = k.slot /\ i.msg = k.msg /\ i.retries = k.retries
          /\ i.action = k.action /\ i.stage = k.stage
      BY <3>1, JobFacts DEF Job
    <3>. QED
      BY <3>2
  <2>. QED
    BY <2>1, <2>2
<1>2. ASSUME NEW i \in jobs', i.live PROVE i \in jobs
  <2>1. \A k \in jobs : [k EXCEPT !.live = FALSE].live = FALSE
    BY JobFacts DEF Job
  <2>2. i \in jobs \/ \E k \in jobs : i = [k EXCEPT !.live = FALSE]
    BY <1>2
  <2>. QED
    BY ONLY <1>2, <2>1, <2>2
<1>3. \A i, k \in jobs' : i.live /\ k.live /\ i.slot = k.slot => i = k
  <2>1. \A i, k \in jobs : i.live /\ k.live /\ i.slot = k.slot => i = k
    BY ONLY IInv DEF IInv, LiveJobsDistinct
  <2>. QED
    BY ONLY <1>2, <2>1
<1>. QED
  BY <1>1, <1>3, JobsShrink

LEMMA NackSteps ==
    ASSUME IInv, NEW j \in jobs, PublishUnroutable(j) \/ PublishFails(j)
    PROVE  IInv'
<1>0. j.msg \in Msg
  BY JobFacts
<1>1. /\ j.stage = "publish" /\ jobs' = jobs \ {j} /\ UNCHANGED history
      /\ UNCHANGED <<exchanges, consumer, restarts>> /\ faults' \in Nat
      /\ redelivered' \subseteq Msg
      /\ \/ Reaches(j, BackAfter(j))
         \/ copy' = BackAfter(j) /\ UNCHANGED <<errorQueue, auditQueue>>
  <2>1. CASE PublishUnroutable(j)
    BY <1>0, <2>1 DEF PublishUnroutable, Publishing, Nacked, IInv, TypeOK
  <2>2. CASE PublishFails(j)
    BY <1>0, <2>2 DEF PublishFails, Publishing, Nacked, IInv, TypeOK
  <2>. QED
    BY <2>1, <2>2
<1>2. /\ BackAfter(j) \in [Slot -> Copy \cup {Free}]
      /\ SameContents(BackAfter(j), copy)
      /\ \A i \in jobs \ {j} : i.live => BackAfter(j)[i.slot] = copy[i.slot]
  BY RequeueOf
<1>3. \A i \in jobs : i.slot \in Slot /\ (i.live => copy[i.slot] # Free)
  BY JobFacts
<1>4. /\ exchanges' \in {"never", "up", "lost"} /\ consumer' \in [Consumer -> {"down", "started", "stopped"}]
      /\ restarts' \in Nat
  BY <1>1 DEF IInv, TypeOK
<1>5. \A i \in jobs' : i \in jobs
  BY <1>1
<1>6. CASE Reaches(j, BackAfter(j))
  <2>1. /\ copy' \in [Slot -> Copy \cup {Free}]
        /\ errorQueue' \in [Msg -> SUBSET Letter] /\ auditQueue' \in [Msg -> SUBSET BOOLEAN]
        /\ \A t \in Slot : BackAfter(j)[t] # Free => copy'[t] = BackAfter(j)[t]
        /\ \A m \in Msg : Closed(m) => Closed(m)'
        /\ Persistent' /\ DeadLetterJustified'
        /\ \A s \in Slot : Held(s)' => copy'[s].retries <= failures'[copy'[s].msg]
    BY <1>1, <1>2, <1>6, ReachesAdds
  <2>2. \A s \in Slot : copy[s] # Free =>
           copy'[s] # Free /\ copy'[s].msg = copy[s].msg /\ copy'[s].retries = copy[s].retries
    BY <1>2, <2>1 DEF SameContents
  <2>3. \A i \in jobs' : i.live => copy'[i.slot] = copy[i.slot]
    BY <1>1, <1>2, <1>3, <2>1
  <2>. QED
    BY <1>1, <1>4, <1>5, <2>1, <2>2, <2>3, JobsFewer
<1>7. CASE copy' = BackAfter(j) /\ UNCHANGED <<errorQueue, auditQueue>>
  <2>1. SameContents(copy', copy) /\ copy' \in [Slot -> Copy \cup {Free}]
    BY <1>2, <1>7
  <2>2. errorQueue' \in [Msg -> SUBSET Letter] /\ auditQueue' \in [Msg -> SUBSET BOOLEAN]
    BY <1>7 DEF IInv, TypeOK
  <2>3. \A i \in jobs' : i.live => copy'[i.slot] = copy[i.slot]
    BY <1>1, <1>2, <1>7
  <2>. QED
    BY <1>1, <1>4, <1>5, <1>7, <2>1, <2>2, <2>3, MovedContents, JobsFewer
<1>. QED
  BY <1>1, <1>6, <1>7

(* The strict order on RetryCount at work: a live run acks its copy away,  *)
(* and every other run about to ack still finds its evidence, because the  *)
(* copy that went had evidence of its own further up.                      *)
LEMMA AckStep ==
    ASSUME IInv, NEW j \in jobs, Ack(j)
    PROVE  IInv'
<1>1. /\ j.stage = "ack" /\ jobs' = jobs \ {j}
      /\ copy' = IF j.live THEN [copy EXCEPT ![j.slot] = Free] ELSE copy
      /\ UNCHANGED <<errorQueue, auditQueue, exchanges, consumer, history,
                     redelivered, faults, restarts>>
  BY DEF Ack
<1>2. \A i \in jobs : i \in Job /\ i.slot \in Slot /\ i.msg \in Msg /\ i.retries \in Nat
  <2>1. \A n \in 0..Attempts - 1 : n \in Nat
    BY AttemptsNat
  <2>2. \A i \in jobs : i \in Job /\ i.retries \in 0..Attempts - 1
    BY DEF IInv, TypeOK, Job
  <2>. QED
    BY <2>1, <2>2, JobFacts
<1>3. \A s \in Slot : /\ copy'[s] = copy[s] \/ copy'[s] = Free
                      /\ copy[s] # Free => copy[s].retries \in Nat /\ copy[s].msg \in Msg
  BY <1>1, AttemptsNat DEF IInv, TypeOK, Copy
<1>4. TypeOK'
  BY <1>1 DEF IInv, TypeOK, history
<1>5. ActionMeans' /\ LiveJobsDistinct' /\ DeadLetterJustified'
  BY <1>1 DEF IInv, ActionMeans, LiveJobsDistinct, DeadLetterJustified, history
<1>6. FailuresCounted' /\ Persistent'
  BY <1>1, <1>3 DEF IInv, FailuresCounted, Persistent, Held, history
<1>7. LiveJobOwnsCopy'
  BY <1>1, <1>2 DEF IInv, LiveJobOwnsCopy, LiveJobsDistinct
<1>8. \A m \in Msg : Closed(m) <=> Closed(m)'
  BY <1>1 DEF Closed, history
<1>9. ASSUME NEW m \in Msg, NEW s \in Slot, HoldsMsg(s, m)
      PROVE  Closed(m) \/ \E t \in Slot : HoldsMsg(t, m)' /\ copy'[t].retries >= copy[s].retries
  <2>1. CASE copy'[s] = copy[s]
    BY <1>3, <1>9, <2>1 DEF HoldsMsg, Held
  <2>2. CASE copy'[s] # copy[s]
    <3>1. j.live /\ s = j.slot
      BY <1>1, <2>2 DEF IInv, TypeOK
    <3>2. copy[s].msg = j.msg /\ copy[s].retries = j.retries /\ m = j.msg
      BY <1>9, <3>1 DEF IInv, LiveJobOwnsCopy, HoldsMsg
    <3>3. Closed(m) \/ \E t \in Slot : HoldsMsg(t, m) /\ copy[t].retries > j.retries
      BY <1>1, <3>1, <3>2 DEF IInv, AckIsSafe
    <3>4. \A t \in Slot : HoldsMsg(t, m) /\ copy[t].retries > j.retries => t # j.slot
      BY <1>2, <1>3, <3>1, <3>2
    <3>. QED
      BY <1>1, <1>2, <1>3, <3>2, <3>3, <3>4 DEF HoldsMsg, Held
  <2>. QED
    BY <2>1, <2>2
<1>10. AckIsSafe'
  <2>. SUFFICES ASSUME NEW i \in jobs', i.live, i.stage = "ack", ~Closed(i.msg)'
                PROVE  \E s \in Slot : HoldsMsg(s, i.msg)' /\ copy'[s].retries > i.retries
    BY DEF AckIsSafe
  <2>1. i \in jobs /\ i.msg \in Msg /\ ~Closed(i.msg) /\ i.retries \in Nat
    BY <1>1, <1>2, <1>8
  <2>2. PICK s \in Slot : HoldsMsg(s, i.msg) /\ copy[s].retries > i.retries
    BY <2>1 DEF IInv, AckIsSafe
  <2>3. PICK t \in Slot : HoldsMsg(t, i.msg)' /\ copy'[t].retries >= copy[s].retries
    BY <1>9, <2>1, <2>2
  <2>4. copy[s].retries \in Nat /\ copy'[t].retries \in Nat
    BY <1>3, <2>2, <2>3 DEF HoldsMsg, Held
  <2>. QED
    BY <2>1, <2>2, <2>3, <2>4
<1>11. NoLoss'
  BY <1>1, <1>8, <1>9 DEF IInv, TypeOK, NoLoss, history
<1>. QED
  BY <1>4, <1>5, <1>6, <1>7, <1>10, <1>11 DEF IInv
LEMMA RetryDelayStep ==
    ASSUME IInv, NEW s \in Slot, RetryDelayElapsed(s)
    PROVE  IInv'
<1>1. /\ copy[s] # Free /\ copy[s].at = "parked" /\ copy[s] \in Copy
      /\ copy' = [copy EXCEPT ![s].at = "queue"]
      /\ UNCHANGED <<jobs, errorQueue, auditQueue, exchanges, consumer, history,
                     redelivered, faults, restarts>>
  BY DEF RetryDelayElapsed, Held, IInv, TypeOK
<1>2. /\ copy'[s] \in Copy /\ copy'[s] # Free
      /\ copy'[s].msg = copy[s].msg /\ copy'[s].retries = copy[s].retries
      /\ copy'[s].durable = copy[s].durable
      /\ \A t \in Slot \ {s} : copy'[t] = copy[t]
      /\ copy' \in [Slot -> Copy \cup {Free}]
  BY <1>1 DEF Copy, Free, IInv, TypeOK
<1>3. SameContents(copy', copy)
  BY <1>1, <1>2 DEF SameContents
<1>4. \A i \in jobs : i.live => i.slot \in Slot /\ copy'[i.slot] = copy[i.slot]
  BY <1>1, <1>2, JobFacts DEF IInv, LiveJobOwnsCopy
<1>. QED
  BY <1>1, <1>2, <1>3, <1>4, MovedContents, JobsFewer DEF IInv, TypeOK

LEMMA ChannelSteps ==
    ASSUME IInv, NEW c \in Consumer, ConnectionLost(c) \/ Crash(c)
    PROVE  IInv'
<1> DEFINE lost == {j \in jobs : j.live /\ j.by \in {c}}
           S == {j.slot : j \in lost}
<1>1. /\ copy' = Requeued(S)
      /\ redelivered' = redelivered \cup {j.msg : j \in lost}
      /\ UNCHANGED <<errorQueue, auditQueue, exchanges, restarts>> /\ UNCHANGED history
      /\ faults' = faults + 1
  BY DEF ConnectionLost, Crash, ChannelsClose
<1>2. S \in SUBSET Slot /\ (\A s \in S : copy[s] # Free) /\ {j.msg : j \in lost} \subseteq Msg
  BY JobFacts
<1>3. consumer' \in [Consumer -> {"down", "started", "stopped"}]
  BY DEF ConnectionLost, Crash, IInv, TypeOK
<1>4. \A i \in jobs' : \/ i \in jobs /\ i.by # c
                       \/ \E k \in jobs : i = [k EXCEPT !.live = FALSE]
  BY DEF ConnectionLost, Crash
<1>5. /\ copy' \in [Slot -> Copy \cup {Free}] /\ SameContents(copy', copy)
      /\ \A s \in Slot \ S : copy'[s] = copy[s]
  BY <1>1, <1>2, RequeuedSame DEF IInv
<1>6. \A i \in jobs' : i.live => copy'[i.slot] = copy[i.slot]
  <2>. SUFFICES ASSUME NEW i \in jobs', i.live PROVE copy'[i.slot] = copy[i.slot]
    OBVIOUS
  <2>1. \A k \in jobs : [k EXCEPT !.live = FALSE].live = FALSE
    BY JobFacts DEF Job
  <2>2. i \in jobs /\ i.by # c /\ i.slot \in Slot
    BY <1>4, <2>1, JobFacts
  <2>3. i.slot \notin S
    BY <2>2 DEF IInv, LiveJobsDistinct
  <2>. QED
    BY <1>5, <2>2, <2>3
<1>7. redelivered' \subseteq Msg /\ faults' \in Nat
      /\ exchanges' \in {"never", "up", "lost"} /\ restarts' \in Nat
      /\ errorQueue' \in [Msg -> SUBSET Letter] /\ auditQueue' \in [Msg -> SUBSET BOOLEAN]
  BY <1>1, <1>2 DEF IInv, TypeOK
<1>8. \A i \in jobs' : i \in jobs \/ \E k \in jobs : i = [k EXCEPT !.live = FALSE]
  BY <1>4
<1>. QED
  BY <1>1, <1>3, <1>5, <1>6, <1>7, <1>8, MovedContents, JobsFewer

LEMMA BrokerRestartStep ==
    ASSUME IInv, BrokerRestart
    PROVE  IInv'
<1>1. \A s \in Slot : copy[s] # Free => copy[s] \in Copy /\ copy[s].durable
  BY DEF IInv, TypeOK, Persistent, Held
<1>2. ASSUME NEW s \in Slot
      PROVE  copy'[s] = IF copy[s] # Free /\ copy[s].at = "unacked"
                        THEN [copy[s] EXCEPT !.at = "queue"] ELSE copy[s]
  BY <1>1 DEF BrokerRestart, Held
<1>3. ASSUME NEW s \in Slot
      PROVE  /\ copy'[s] \in Copy \cup {Free}
             /\ copy'[s] # Free <=> copy[s] # Free
             /\ copy[s] # Free => /\ copy'[s].msg = copy[s].msg
                                  /\ copy'[s].retries = copy[s].retries
                                  /\ copy'[s].durable = copy[s].durable
  <2>0. copy[s] \in Copy \cup {Free}
    BY DEF IInv, TypeOK
  <2>1. CASE copy[s] # Free /\ copy[s].at = "unacked"
    <3>1. copy'[s] = [copy[s] EXCEPT !.at = "queue"] /\ copy[s] \in Copy
      BY ONLY <1>1, <1>2, <2>1
    <3>. QED
      BY ONLY <2>1, <3>1 DEF Copy, Free
  <2>2. CASE ~(copy[s] # Free /\ copy[s].at = "unacked")
    BY ONLY <1>2, <2>0, <2>2
  <2>. QED
    BY ONLY <2>1, <2>2
<1>4. copy' \in [Slot -> Copy \cup {Free}] /\ SameContents(copy', copy)
  <2>1. copy' = [s \in Slot |-> copy'[s]]
    BY DEF BrokerRestart
  <2>. QED
    BY <1>3, <2>1 DEF SameContents
<1>5. UNCHANGED errorQueue
  BY DEF BrokerRestart, IInv, TypeOK, Persistent
<1>6. auditQueue' \in [Msg -> SUBSET BOOLEAN]
  BY DEF BrokerRestart, IInv, TypeOK
<1>7. \A i \in jobs' : ~i.live /\ \E k \in jobs : i = [k EXCEPT !.live = FALSE]
  <2>1. \A k \in jobs : [k EXCEPT !.live = FALSE].live = FALSE
    BY JobFacts DEF Job
  <2>2. jobs' = {[j EXCEPT !.live = FALSE] : j \in jobs}
    BY DEF BrokerRestart
  <2>. QED
    BY <2>1, <2>2
<1>8. /\ redelivered' \subseteq Msg /\ faults' \in Nat /\ exchanges' \in {"never", "up", "lost"}
      /\ restarts' \in Nat /\ consumer' \in [Consumer -> {"down", "started", "stopped"}]
      /\ errorQueue' \in [Msg -> SUBSET Letter] /\ UNCHANGED history
  <2>1. {j.msg : j \in {k \in jobs : k.live}} \subseteq Msg
    BY JobFacts
  <2>2. redelivered' \subseteq Msg
    BY <2>1 DEF BrokerRestart, IInv, TypeOK
  <2>. QED
    BY <1>5, <2>2 DEF BrokerRestart, IInv, TypeOK
<1>. QED
  BY <1>4, <1>5, <1>6, <1>7, <1>8, MovedContents, JobsFewer
-----------------------------------------------------------------------------
LEMMA InitInv == Init => IInv
BY DeliveryAssumption, AttemptsNat
   DEF Init, IInv, TypeOK, ActionMeans, FailuresCounted, Persistent, LiveJobOwnsCopy,
       LiveJobsDistinct, AckIsSafe, NoLoss, DeadLetterJustified, Held

LEMMA NextInv == IInv /\ [Next]_vars => IInv'
<1>. SUFFICES ASSUME IInv, [Next]_vars PROVE IInv'
  OBVIOUS
<1>1. ASSUME NEW c \in Consumer, Start(c) \/ Stop(c) \/ Exit(c)
      PROVE  IInv'
  BY <1>1, ConsumerSteps
<1>2. ASSUME NEW c \in Consumer, ConnectionLost(c) \/ Crash(c)
      PROVE  IInv'
  BY <1>2, ChannelSteps
<1>3. ASSUME NEW m \in Msg, NEW s \in Slot, Publish(m, s)
      PROVE  IInv'
  BY <1>3, PublishStep
<1>4. ASSUME NEW c \in Consumer, NEW s \in Slot, Deliver(c, s)
      PROVE  IInv'
  BY <1>4, DeliverStep
<1>5. ASSUME NEW j \in jobs, JobStep(j) \/ PublishFails(j)
      PROVE  IInv'
  BY <1>5, PublishOkStep, NackSteps, AckStep, DecideStep DEF JobStep
<1>6. ASSUME NEW s \in Slot, RetryDelayElapsed(s)
      PROVE  IInv'
  BY <1>6, RetryDelayStep
<1>7. ASSUME BrokerRestart
      PROVE  IInv'
  BY <1>7, BrokerRestartStep
<1>8. ASSUME UNCHANGED vars
      PROVE  IInv'
  BY <1>8 DEF vars, history, IInv, TypeOK, ActionMeans, FailuresCounted, Persistent,
     LiveJobOwnsCopy, LiveJobsDistinct, AckIsSafe, NoLoss, DeadLetterJustified,
     Held, HoldsMsg, Closed
<1>. QED
  BY <1>1, <1>2, <1>3, <1>4, <1>5, <1>6, <1>7, <1>8 DEF Next

(* The inductive invariant of the consume side.                            *)
THEOREM DeliveryInvariant == Spec => []IInv
BY InitInv, NextInv, PTL DEF Spec

(* Every variable keeps its type: in particular no RetryCount passes the   *)
(* limit and no dead letter claims more attempts than were allowed.        *)
THEOREM DeliveryTypeCorrect == Spec => []TypeOK
<1>1. IInv => TypeOK
  BY DEF IInv
<1>. QED
  BY <1>1, DeliveryInvariant, PTL

(* A published message is never lost: whatever crashes, lost channels,     *)
(* failed republishes or broker restarts occur, it is held by the broker,  *)
(* dead-lettered, or closed by a run of the callback.                      *)
THEOREM DeliveryNoLoss == Spec => []NoLoss
<1>1. IInv => NoLoss
  BY DEF IInv
<1>. QED
  BY <1>1, DeliveryInvariant, PTL

(* No message is dead-lettered as exhausted before maxRetries attempts     *)
(* failed, and its RetryCount header is exact.                             *)
THEOREM DeliveryDeadLetterJustified == Spec => []DeadLetterJustified
<1>1. IInv => DeadLetterJustified
  BY DEF IInv
<1>. QED
  BY <1>1, DeliveryInvariant, PTL
-----------------------------------------------------------------------------
(* The refinement: under the mapping of Promise every step is a step of    *)
(* AtLeastOnce or leaves what the sender sees alone.                       *)

(* Only what was published is in the broker or in a run.                   *)
OnlyPublished ==
    /\ \A s \in Slot : copy[s] # Free => copy[s].msg \in published
    /\ \A j \in jobs : j.msg \in published

(* What the sender sees: the variables of AtLeastOnce, mapped.             *)
Seen == <<published, Owed, OutcomesOf>>

LEMMA InitOnlyPublished == Init => OnlyPublished
BY DEF Init, OnlyPublished

(* A lost channel and a restart of the broker only move copies.            *)
LEMMA SeenChannels ==
    ASSUME IInv, NEW c \in Consumer, ConnectionLost(c) \/ Crash(c)
    PROVE  SameContents(copy', copy) /\ UNCHANGED <<published, fate, errorQueue>>
<1> DEFINE S == {j.slot : j \in {k \in jobs : k.live /\ k.by \in {c}}}
<1>1. copy' = Requeued(S) /\ UNCHANGED <<published, fate, errorQueue>>
  BY DEF ConnectionLost, Crash, ChannelsClose, history
<1>2. S \in SUBSET Slot /\ \A s \in S : copy[s] # Free
  BY JobFacts
<1>. QED
  BY <1>1, <1>2, RequeuedSame DEF IInv

LEMMA SeenRestart ==
    ASSUME IInv, BrokerRestart
    PROVE  SameContents(copy', copy) /\ UNCHANGED <<published, fate, errorQueue>>
<1>1. UNCHANGED <<published, fate, errorQueue>>
  BY DEF BrokerRestart, history, IInv, TypeOK, Persistent
<1>2. ASSUME NEW s \in Slot
      PROVE  /\ copy'[s] # Free <=> copy[s] # Free
             /\ copy[s] # Free => /\ copy'[s].msg = copy[s].msg
                                  /\ copy'[s].retries = copy[s].retries
                                  /\ copy'[s].durable = copy[s].durable
  <2>1. copy[s] # Free => copy[s] \in Copy /\ copy[s].durable
    BY DEF IInv, TypeOK, Persistent, Held
  <2>2. copy'[s] = IF copy[s] # Free /\ copy[s].at = "unacked"
                   THEN [copy[s] EXCEPT !.at = "queue"] ELSE copy[s]
    BY <2>1 DEF BrokerRestart, Held
  <2>. QED
    BY ONLY <2>1, <2>2 DEF Copy, Free
<1>. QED
  BY <1>1, <1>2 DEF SameContents

(* No step makes a message appear that was never published.                *)
LEMMA NextOnlyPublished ==
    ASSUME IInv, OnlyPublished, [Next]_vars
    PROVE  OnlyPublished'
<1>1. ASSUME NEW j \in jobs
      PROVE  j.msg \in Msg /\ j.msg \in published
  BY JobFacts DEF OnlyPublished
<1>2. ASSUME UNCHANGED published, SameContents(copy', copy),
             \A i \in jobs' : \E j \in jobs : i.msg = j.msg
      PROVE  OnlyPublished'
  BY <1>2 DEF OnlyPublished, SameContents
<1>3. ASSUME NEW c \in Consumer, Start(c) \/ Stop(c) \/ Exit(c)
      PROVE  OnlyPublished'
  BY <1>3 DEF OnlyPublished, Start, Stop, Exit, history
<1>4. ASSUME NEW m \in Msg, NEW s \in Slot, Publish(m, s)
      PROVE  OnlyPublished'
  <2>1. /\ published' = published \cup {m} /\ jobs' = jobs /\ copy'[s].msg = m
        /\ \A t \in Slot \ {s} : copy'[t] = copy[t]
    BY <1>4 DEF Publish, IInv, TypeOK
  <2>. QED
    BY <2>1 DEF OnlyPublished
<1>5. ASSUME NEW c \in Consumer, NEW s \in Slot, Deliver(c, s)
      PROVE  OnlyPublished'
  <2>1. /\ copy[s] # Free /\ copy[s] \in Copy /\ UNCHANGED published
        /\ copy' = [copy EXCEPT ![s].at = "unacked"]
        /\ \A i \in jobs' : i \in jobs \/ i.msg = copy[s].msg
    BY <1>5 DEF Deliver, history, Held, IInv, TypeOK
  <2>2. copy'[s].msg = copy[s].msg /\ \A t \in Slot \ {s} : copy'[t] = copy[t]
    BY <2>1 DEF Copy, IInv, TypeOK
  <2>. QED
    BY <2>1, <2>2 DEF OnlyPublished
<1>6. ASSUME NEW s \in Slot, RetryDelayElapsed(s)
      PROVE  OnlyPublished'
  <2>1. /\ copy[s] # Free /\ copy[s] \in Copy /\ UNCHANGED published /\ jobs' = jobs
        /\ copy' = [copy EXCEPT ![s].at = "queue"]
    BY <1>6 DEF RetryDelayElapsed, history, Held, IInv, TypeOK
  <2>2. copy'[s].msg = copy[s].msg /\ \A t \in Slot \ {s} : copy'[t] = copy[t]
    BY <2>1 DEF Copy, IInv, TypeOK
  <2>. QED
    BY <2>1, <2>2 DEF OnlyPublished
<1>7. ASSUME NEW j \in jobs, NEW base \in [Slot -> Copy \cup {Free}], SameContents(base, copy),
             Reaches(j, base) \/ copy' = base, UNCHANGED history,
             \A i \in jobs' : \E k \in jobs : i.msg = k.msg
      PROVE  OnlyPublished'
  <2>1. CASE copy' = base
    BY <1>2, <1>7, <2>1 DEF history
  <2>2. ASSUME NEW s \in Slot, copy' = [base EXCEPT ![s] = RetryCopyOf(j)]
        PROVE  OnlyPublished'
    <3>1. copy'[s].msg = j.msg /\ \A t \in Slot \ {s} : copy'[t] = base[t]
      BY <2>2 DEF RetryCopyOf
    <3>. QED
      BY <1>1, <1>7, <3>1 DEF OnlyPublished, SameContents, history
  <2>. QED
    BY <1>7, <2>1, <2>2 DEF Reaches
<1>8. ASSUME NEW j \in jobs, PublishOk(j)
      PROVE  OnlyPublished'
  <2>1. \A i \in jobs' : \E k \in jobs : i.msg = k.msg
    BY <1>8, JobFacts DEF PublishOk, Job
  <2>2. copy \in [Slot -> Copy \cup {Free}] /\ SameContents(copy, copy)
    BY DEF IInv, TypeOK, SameContents
  <2>. QED
    BY <1>7, <1>8, <2>1, <2>2 DEF PublishOk
<1>9. ASSUME NEW j \in jobs, PublishUnroutable(j) \/ PublishFails(j)
      PROVE  OnlyPublished'
  <2>1. jobs' = jobs \ {j} /\ UNCHANGED history
        /\ (Reaches(j, BackAfter(j)) \/ copy' = BackAfter(j))
    BY <1>9 DEF PublishUnroutable, PublishFails, Nacked
  <2>. QED
    BY <1>7, <2>1, RequeueOf
<1>10. ASSUME NEW j \in jobs, Ack(j)
       PROVE  OnlyPublished'
  <2>1. jobs' \subseteq jobs /\ UNCHANGED published
        /\ \A s \in Slot : copy'[s] = copy[s] \/ copy'[s] = Free
    BY <1>10 DEF Ack, history, IInv, TypeOK
  <2>. QED
    BY <2>1 DEF OnlyPublished
<1>11. ASSUME NEW j \in jobs, NEW result \in ConsumeResult, Decide(j, result)
       PROVE  OnlyPublished'
  <2>0. \A a, st : [j EXCEPT !.action = a, !.stage = st].msg = j.msg
    BY JobFacts DEF Job
  <2>1. \A i \in jobs' : \E k \in jobs : i.msg = k.msg
    <3>1. PICK a, st : jobs' = (jobs \ {j}) \cup {[j EXCEPT !.action = a, !.stage = st]}
      BY <1>11, Zenon DEF Decide
    <3>. QED
      BY ONLY <2>0, <3>1, j \in jobs
  <2>. QED
    BY <1>2, <1>11, <2>1 DEF Decide, SameContents
<1>12. ASSUME NEW c \in Consumer, ConnectionLost(c) \/ Crash(c)
       PROVE  OnlyPublished'
  <2>1. SameContents(copy', copy) /\ UNCHANGED published
    BY <1>12, SeenChannels
  <2>0. \A j \in jobs : [j EXCEPT !.live = FALSE].msg = j.msg
    BY JobFacts DEF Job
  <2>2. \A i \in jobs' : \E k \in jobs : i.msg = k.msg
    <3>1. \A i \in jobs' : i \in jobs \/ \E k \in jobs : i = [k EXCEPT !.live = FALSE]
      BY <1>12 DEF ConnectionLost, Crash
    <3>. QED
      BY ONLY <2>0, <3>1
  <2>. QED
    BY <1>2, <2>1, <2>2
<1>13. ASSUME BrokerRestart
       PROVE  OnlyPublished'
  <2>1. SameContents(copy', copy) /\ UNCHANGED published
    BY <1>13, SeenRestart
  <2>2. \A i \in jobs' : \E k \in jobs : i.msg = k.msg
    BY <1>13, JobFacts DEF BrokerRestart, Job
  <2>. QED
    BY <1>2, <2>1, <2>2
<1>14. ASSUME UNCHANGED vars
       PROVE  OnlyPublished'
  BY <1>14 DEF vars, history, OnlyPublished, Free
<1>. QED
  BY <1>3, <1>4, <1>5, <1>6, <1>8, <1>9, <1>10, <1>11, <1>12, <1>13, <1>14 DEF Next, JobStep

(* A step that publishes nothing, closes nothing and only moves copies is  *)
(* not seen.                                                               *)
LEMMA Unseen ==
    ASSUME SameContents(copy', copy), UNCHANGED <<published, fate, errorQueue>>
    PROVE  UNCHANGED Seen
<1>1. \A m \in Msg, s \in Slot : HoldsMsg(s, m)' <=> HoldsMsg(s, m)
  BY DEF SameContents, HoldsMsg, Held
<1>2. Owed' = Owed
  BY <1>1 DEF Owed
<1>3. OutcomesOf' = OutcomesOf
  BY DEF OutcomesOf
<1>. QED
  BY <1>2, <1>3 DEF Seen

LEMMA SeenPublish ==
    ASSUME IInv, NEW m \in Msg, NEW s \in Slot, Publish(m, s)
    PROVE  Promise!Next
<1>1. /\ m \notin published /\ published' = published \cup {m}
      /\ UNCHANGED <<fate, errorQueue>>
  BY DEF Publish
<1>2. /\ copy[s] = Free /\ copy'[s] # Free /\ copy'[s].msg = m
      /\ \A t \in Slot \ {s} : copy'[t] = copy[t]
  BY DEF Publish, Held, Free, IInv, TypeOK
<1>3. \A n \in Msg : (\E t \in Slot : HoldsMsg(t, n)') <=> n = m \/ \E t \in Slot : HoldsMsg(t, n)
  BY <1>2 DEF HoldsMsg, Held, Free
<1>4. Owed' = Owed \cup {m}
  BY <1>3 DEF Owed
<1>5. OutcomesOf' = OutcomesOf
  BY <1>1 DEF OutcomesOf
<1>6. Promise!Accept(m)
  BY <1>1, <1>4, <1>5 DEF Promise!Accept
<1>. QED
  BY <1>6 DEF Promise!Next

LEMMA SeenDecide ==
    ASSUME IInv, OnlyPublished, NEW j \in jobs, NEW result \in ConsumeResult, Decide(j, result)
    PROVE  [Promise!Next]_Seen
<1> DEFINE action == decideDispositionAction(result, j.retries)
           closed == CASE action.kind = "ack" -> {action.reason}
                       [] action.kind = "ackAndLog" -> {"logged"}
                       [] OTHER -> {}
<1>1. j.msg \in Msg /\ j.msg \in published /\ j.retries \in 0..Attempts - 1
  BY JobFacts DEF OnlyPublished, Job
<1>2. fate' = [fate EXCEPT ![j.msg] = @ \cup closed]
      /\ UNCHANGED <<copy, errorQueue, published>>
  BY DEF Decide
<1>3. closed = {} \/ \E o \in Outcomes : closed = {o}
  <2>1. action.kind = "ack" => action.reason \in {"handled", "unhandled"}
    BY <1>1, DecisionType
  <2>. HIDE DEF action
  <2>. QED
    BY <2>1 DEF Outcomes
<1>. HIDE DEF closed
<1>4. Owed' = Owed
  BY <1>2 DEF Owed, HoldsMsg, Held
<1>5. OutcomesOf' = [OutcomesOf EXCEPT ![j.msg] = @ \cup closed]
  <2>1. \A m \in Msg : fate'[m] = IF m = j.msg THEN fate[m] \cup closed ELSE fate[m]
    BY <1>2 DEF IInv, TypeOK
  <2>. QED
    <3>1. \A m \in Msg : OutcomesOf'[m] = IF m = j.msg THEN OutcomesOf[m] \cup closed
                                                       ELSE OutcomesOf[m]
      <4>1. UNCHANGED errorQueue
        BY <1>2
      <4>2. \A m \in Msg :
               /\ OutcomesOf[m] = fate[m] \cup (IF errorQueue[m] # {} THEN {"dead"} ELSE {})
               /\ OutcomesOf'[m] = fate'[m] \cup (IF errorQueue'[m] # {} THEN {"dead"} ELSE {})
        BY DEF OutcomesOf
      <4>3. ASSUME NEW m \in Msg, m = j.msg
            PROVE  OutcomesOf'[m] = OutcomesOf[m] \cup closed
        <5> DEFINE D == IF errorQueue[m] # {} THEN {"dead"} ELSE {}
        <5>1. fate'[m] = fate[m] \cup closed
          BY ONLY <2>1, <4>3
        <5>2. OutcomesOf[m] = fate[m] \cup D
          BY ONLY <4>2, <4>3
        <5>3. OutcomesOf'[m] = fate'[m] \cup D
          BY ONLY <4>1, <4>2, <4>3
        <5>. HIDE DEF D
        <5>4. fate'[m] \cup D = (fate[m] \cup D) \cup closed
          BY ONLY <5>1
        <5>. QED
          BY ONLY <5>2, <5>3, <5>4
      <4>4. ASSUME NEW m \in Msg, m # j.msg
            PROVE  OutcomesOf'[m] = OutcomesOf[m]
        <5>1. fate'[m] = fate[m]
          BY ONLY <2>1, <4>4
        <5>. QED
          BY ONLY <4>1, <4>2, <4>4, <5>1
      <4>. QED
        BY <4>3, <4>4
    <3>2. /\ OutcomesOf = [m \in Msg |-> OutcomesOf[m]]
          /\ OutcomesOf' = [m \in Msg |-> OutcomesOf'[m]]
      BY DEF OutcomesOf
    <3>. QED
      BY ONLY <1>1, <3>1, <3>2
<1>6. CASE closed = {}
  <2>1. OutcomesOf' = OutcomesOf
    BY <1>5, <1>6 DEF OutcomesOf
  <2>. QED
    BY <1>2, <1>4, <2>1 DEF Seen
<1>7. ASSUME NEW o \in Outcomes, closed = {o}
      PROVE  Promise!Next
  <2>1. Promise!Record(j.msg, o)
    BY <1>1, <1>2, <1>4, <1>5, <1>7 DEF Promise!Record
  <2>. QED
    BY <1>1, <1>7, <2>1 DEF Promise!Next
<1>. QED
  BY <1>3, <1>6, <1>7

(* A republish: a retry copy brings its message back at most after it was  *)
(* closed, a dead letter records an outcome, an audit copy is not seen.    *)
LEMMA SeenReaches ==
    ASSUME IInv, OnlyPublished, NEW j \in jobs, UNCHANGED history,
           NEW base \in [Slot -> Copy \cup {Free}], SameContents(base, copy), Reaches(j, base)
    PROVE  [Promise!Next]_Seen
<1>1. j.msg \in Msg /\ j.msg \in published
  BY JobFacts DEF OnlyPublished
<1>2. UNCHANGED published /\ UNCHANGED fate
  BY DEF history
<1>3. CASE copy' = base /\ UNCHANGED errorQueue
  <2>1. SameContents(copy', copy)
    BY <1>3
  <2>. QED
    BY <1>2, <1>3, <2>1, Unseen
<1>4. CASE copy' = base /\ errorQueue' = [errorQueue EXCEPT ![j.msg] = @ \cup {LetterOf(j)}]
  <2>1. Owed' = Owed
    <3>1. \A m \in Msg, s \in Slot : HoldsMsg(s, m)' <=> HoldsMsg(s, m)
      BY <1>4 DEF SameContents, HoldsMsg, Held
    <3>. QED
      BY <3>1 DEF Owed
  <2>2. \A m \in Msg : errorQueue'[m] # {} <=> m = j.msg \/ errorQueue[m] # {}
    BY <1>1, <1>4 DEF IInv, TypeOK
  <2>3. OutcomesOf' = [OutcomesOf EXCEPT ![j.msg] = @ \cup {"dead"}]
    BY <1>1, <1>2, <2>2 DEF OutcomesOf
  <2>4. Promise!Record(j.msg, "dead")
    BY <1>1, <1>2, <2>1, <2>3 DEF Promise!Record
  <2>. QED
    BY <1>1, <2>4 DEF Promise!Next, Outcomes
<1>5. ASSUME NEW s \in Slot, ~Held(s), copy' = [base EXCEPT ![s] = RetryCopyOf(j)],
             UNCHANGED errorQueue
      PROVE  [Promise!Next]_Seen
  <2>1. /\ copy[s] = Free /\ copy'[s] # Free /\ copy'[s].msg = j.msg
        /\ \A t \in Slot \ {s} : copy'[t] = base[t]
    BY <1>5 DEF Held, RetryCopyOf, Free
  <2>2. \A m \in Msg, t \in Slot \ {s} : HoldsMsg(t, m)' <=> HoldsMsg(t, m)
    BY <2>1 DEF SameContents, HoldsMsg, Held
  <2>3. \A m \in Msg : (HoldsMsg(s, m)' <=> m = j.msg) /\ ~HoldsMsg(s, m)
    BY <2>1 DEF HoldsMsg, Held
  <2>4. Owed' = Owed \cup {j.msg}
    BY <1>1, <2>2, <2>3 DEF Owed
  <2>5. OutcomesOf' = OutcomesOf
    BY <1>2, <1>5 DEF OutcomesOf
  <2>6. CASE j.msg \in Owed
    BY <1>2, <2>4, <2>5, <2>6 DEF Seen
  <2>7. CASE j.msg \notin Owed
    <3>1. Closed(j.msg)
      BY <1>1, <2>7 DEF IInv, NoLoss, Owed
    <3>2. OutcomesOf[j.msg] # {}
      BY <1>1, <3>1 DEF OutcomesOf, Closed
    <3>3. Promise!Revive(j.msg)
      BY <1>1, <1>2, <2>4, <2>5, <3>2 DEF Promise!Revive
    <3>. QED
      BY <1>1, <3>3 DEF Promise!Next
  <2>. QED
    BY <2>6, <2>7
<1>. QED
  BY <1>3, <1>4, <1>5 DEF Reaches

(* An acknowledgement releases a message only when it is closed: otherwise *)
(* a copy with a higher RetryCount still holds it.                         *)
LEMMA SeenAck ==
    ASSUME IInv, NEW j \in jobs, Ack(j)
    PROVE  [Promise!Next]_Seen
<1>1. /\ j.stage = "ack" /\ UNCHANGED <<published, fate, errorQueue>>
      /\ copy' = IF j.live THEN [copy EXCEPT ![j.slot] = Free] ELSE copy
  BY DEF Ack, history
<1>2. j.slot \in Slot /\ j.msg \in Msg /\ j.retries \in Nat
  <2>1. j.retries \in 0..Attempts - 1
    BY JobFacts DEF Job
  <2>2. j.retries \in Nat
    BY ONLY <2>1, AttemptsNat
  <2>. QED
    BY <2>2, JobFacts
<1>3. CASE ~j.live
  BY <1>1, <1>3, Unseen DEF SameContents
<1>4. CASE j.live
  <2>1. /\ copy[j.slot] # Free /\ copy[j.slot].msg = j.msg /\ copy[j.slot].retries = j.retries
    BY <1>4 DEF IInv, LiveJobOwnsCopy
  <2>2. copy'[j.slot] = Free /\ \A t \in Slot \ {j.slot} : copy'[t] = copy[t]
    BY <1>1, <1>2, <1>4 DEF IInv, TypeOK
  <2>3. \A m \in Msg \ {j.msg}, s \in Slot : HoldsMsg(s, m)' <=> HoldsMsg(s, m)
    BY <2>1, <2>2 DEF HoldsMsg, Held
  <2>4. OutcomesOf' = OutcomesOf
    BY <1>1 DEF OutcomesOf
  <2>5. j.msg \in Owed
    BY <1>2, <2>1 DEF Owed, HoldsMsg, Held
  <2>6. CASE \E s \in Slot : HoldsMsg(s, j.msg)'
    <3>1. Owed' = Owed
      BY <2>3, <2>5, <2>6 DEF Owed
    <3>. QED
      BY <1>1, <2>4, <3>1 DEF Seen
  <2>7. CASE ~\E s \in Slot : HoldsMsg(s, j.msg)'
    <3>1. Owed' = Owed \ {j.msg}
      BY <2>3, <2>7 DEF Owed
    <3>2. Closed(j.msg)
      <4>1. ASSUME NEW s \in Slot, HoldsMsg(s, j.msg), copy[s].retries > j.retries
            PROVE  FALSE
        <5>1. s # j.slot
          BY <1>2, <2>1, <4>1
        <5>2. HoldsMsg(s, j.msg)'
          BY <2>2, <4>1, <5>1 DEF HoldsMsg, Held
        <5>. QED
          BY <2>7, <5>2
      <4>. QED
        BY <1>1, <1>4, <4>1 DEF IInv, AckIsSafe
    <3>3. OutcomesOf[j.msg] # {}
      BY <1>2, <3>2 DEF OutcomesOf, Closed
    <3>4. Promise!Release(j.msg)
      BY <1>1, <2>4, <2>5, <3>1, <3>3 DEF Promise!Release
    <3>. QED
      BY <1>2, <3>4 DEF Promise!Next
  <2>. QED
    BY <2>6, <2>7
<1>. QED
  BY <1>3, <1>4

(* A copy that waits elsewhere is the same copy.                           *)
LEMMA MovedOne ==
    ASSUME copy \in [Slot -> Copy \cup {Free}], NEW s \in Slot, copy[s] # Free,
           copy[s] \in Copy, NEW at, copy' = [copy EXCEPT ![s] = [copy[s] EXCEPT !.at = at]]
    PROVE  SameContents(copy', copy)
<1>1. /\ copy'[s].msg = copy[s].msg /\ copy'[s].retries = copy[s].retries
      /\ copy'[s].durable = copy[s].durable /\ copy'[s] # Free
  BY DEF Copy, Free
<1>2. \A t \in Slot \ {s} : copy'[t] = copy[t]
  OBVIOUS
<1>. QED
  BY <1>1, <1>2 DEF SameContents

LEMMA NextSeen ==
    ASSUME IInv, OnlyPublished, [Next]_vars
    PROVE  [Promise!Next]_Seen
<1>0. SameContents(copy, copy) /\ copy \in [Slot -> Copy \cup {Free}]
  BY DEF SameContents, IInv, TypeOK
<1>1. ASSUME NEW c \in Consumer, Start(c) \/ Stop(c) \/ Exit(c)
      PROVE  UNCHANGED Seen
  <2>1. UNCHANGED <<copy, published, fate, errorQueue>>
    BY <1>1 DEF Start, Stop, Exit, history
  <2>. QED
    BY <1>0, <2>1, Unseen
<1>2. ASSUME NEW c \in Consumer, ConnectionLost(c) \/ Crash(c)
      PROVE  UNCHANGED Seen
  BY <1>2, SeenChannels, Unseen
<1>3. ASSUME NEW m \in Msg, NEW s \in Slot, Publish(m, s)
      PROVE  Promise!Next
  BY <1>3, SeenPublish
<1>4. ASSUME NEW c \in Consumer, NEW s \in Slot, Deliver(c, s)
      PROVE  UNCHANGED Seen
  <2>1. /\ copy[s] # Free /\ copy[s] \in Copy
        /\ copy' = [copy EXCEPT ![s] = [copy[s] EXCEPT !.at = "unacked"]]
        /\ UNCHANGED <<published, fate, errorQueue>>
    BY <1>4 DEF Deliver, history, Held, IInv, TypeOK
  <2>. QED
    BY <1>0, <2>1, MovedOne, Unseen
<1>5. ASSUME NEW s \in Slot, RetryDelayElapsed(s)
      PROVE  UNCHANGED Seen
  <2>1. /\ copy[s] # Free /\ copy[s] \in Copy
        /\ copy' = [copy EXCEPT ![s] = [copy[s] EXCEPT !.at = "queue"]]
        /\ UNCHANGED <<published, fate, errorQueue>>
    BY <1>5 DEF RetryDelayElapsed, history, Held, IInv, TypeOK
  <2>. QED
    BY <1>0, <2>1, MovedOne, Unseen
<1>6. ASSUME NEW j \in jobs, PublishOk(j)
      PROVE  [Promise!Next]_Seen
  BY <1>0, <1>6, SeenReaches DEF PublishOk
<1>7. ASSUME NEW j \in jobs, PublishUnroutable(j) \/ PublishFails(j)
      PROVE  [Promise!Next]_Seen
  <2>1. /\ UNCHANGED history
        /\ \/ Reaches(j, BackAfter(j))
           \/ copy' = BackAfter(j) /\ UNCHANGED errorQueue
    BY <1>7 DEF PublishUnroutable, PublishFails
  <2>2. CASE Reaches(j, BackAfter(j))
    BY <2>1, <2>2, RequeueOf, SeenReaches
  <2>3. CASE copy' = BackAfter(j) /\ UNCHANGED errorQueue
    BY <2>1, <2>3, RequeueOf, Unseen DEF history
  <2>. QED
    BY <2>1, <2>2, <2>3
<1>8. ASSUME NEW j \in jobs, Ack(j)
      PROVE  [Promise!Next]_Seen
  BY <1>8, SeenAck
<1>9. ASSUME NEW j \in jobs, NEW result \in ConsumeResult, Decide(j, result)
      PROVE  [Promise!Next]_Seen
  BY <1>9, SeenDecide
<1>10. ASSUME BrokerRestart
       PROVE  UNCHANGED Seen
  BY <1>10, SeenRestart, Unseen
<1>11. ASSUME UNCHANGED vars
       PROVE  UNCHANGED Seen
  BY <1>0, <1>11, Unseen DEF vars, history
<1>. QED
  BY <1>1, <1>2, <1>3, <1>4, <1>5, <1>6, <1>7, <1>8, <1>9, <1>10, <1>11 DEF Next, JobStep

(* The consume side implements the at-least-once promise, for any number   *)
(* of messages, consumers, faults and restarts: an accepted message stays  *)
(* owed until it has an outcome, and outcomes are never taken back.        *)
THEOREM DeliveryImplementsAtLeastOnce == Spec => ImplementsAtLeastOnce
<1>1. Init => OnlyPublished /\ Promise!Init
  <2>1. Init => Owed = {} /\ OutcomesOf = [m \in Msg |-> {}]
    BY DEF Init, Owed, OutcomesOf, HoldsMsg, Held
  <2>. QED
    BY <2>1, InitOnlyPublished DEF Promise!Init, Init
<1>2. IInv /\ OnlyPublished /\ [Next]_vars => OnlyPublished'
  BY NextOnlyPublished
<1>3. IInv /\ OnlyPublished /\ [Next]_vars => [Promise!Next]_Seen
  BY NextSeen
<1>. QED
  BY <1>1, <1>2, <1>3, DeliveryInvariant, PTL
     DEF Spec, ImplementsAtLeastOnce, Promise!Spec, Promise!avars, Seen
-----------------------------------------------------------------------------
(* The audit queue.  A run that is about to publish an audit copy was      *)
(* handled; a stale run's message was requeued; and a handled message      *)
(* without an audit copy still has such a run, or was requeued.            *)
AuditRun(j) == j.stage = "publish" /\ j.action.kind = "ack"

StaleRequeued == \A j \in jobs : ~j.live => j.msg \in redelivered
AuditRunHandled == \A j \in jobs : AuditRun(j) => "handled" \in fate[j.msg]
AuditOfHandled ==
    \A m \in Msg : /\ auditQueue[m] \subseteq {TRUE}
                   /\ auditQueue[m] # {} => "handled" \in fate[m]
AuditOwed ==
    \A m \in Msg : AuditEnabled /\ "handled" \in fate[m] /\ auditQueue[m] = {}
        => m \in redelivered \/ \E j \in jobs : j.msg = m /\ AuditRun(j)

AInv == StaleRequeued /\ AuditRunHandled /\ AuditOfHandled /\ AuditOwed

LEMMA InitAInv == Init => AInv
BY DEF Init, AInv, StaleRequeued, AuditRunHandled, AuditOfHandled, AuditOwed

(* A step that decides nothing, publishes no audit copy and drops a run    *)
(* about to publish one only if its message is requeued.                   *)
LEMMA AuditKept ==
    ASSUME IInv, AInv, UNCHANGED <<fate, auditQueue>>, redelivered \subseteq redelivered',
           \A i \in jobs' : AuditRun(i) =>
               \E k \in jobs : AuditRun(k) /\ k.msg = i.msg,
           \A i \in jobs' : ~i.live => i.msg \in redelivered',
           \A k \in jobs : AuditRun(k) =>
               \/ k.msg \in redelivered'
               \/ \E i \in jobs' : AuditRun(i) /\ i.msg = k.msg
    PROVE  AInv'
<1>1. StaleRequeued'
  BY DEF StaleRequeued
<1>2. AuditRunHandled'
  BY DEF AInv, AuditRunHandled, AuditRun
<1>3. AuditOfHandled'
  BY DEF AInv, AuditOfHandled
<1>4. AuditOwed'
  BY DEF AInv, AuditOwed, AuditRun
<1>. QED
  BY <1>1, <1>2, <1>3, <1>4 DEF AInv

LEMMA AuditDecide ==
    ASSUME IInv, AInv, NEW j \in jobs, NEW result \in ConsumeResult, Decide(j, result)
    PROVE  AInv'
<1> DEFINE action == decideDispositionAction(result, j.retries)
           stage == IF Publishes(action) THEN "publish" ELSE "ack"
           k == [j EXCEPT !.action = action, !.stage = stage]
           closed == CASE action.kind = "ack" -> {action.reason}
                       [] action.kind = "ackAndLog" -> {"logged"}
                       [] OTHER -> {}
<1>1. j \in Job /\ j.msg \in Msg /\ j.retries \in 0..Attempts - 1 /\ j.stage = "callback"
  BY JobFacts DEF Job, Decide
<1>2. /\ jobs' = (jobs \ {j}) \cup {k} /\ UNCHANGED <<auditQueue, redelivered>>
      /\ fate' = [fate EXCEPT ![j.msg] = @ \cup closed]
  BY DEF Decide
<1>3. k.msg = j.msg /\ k.live = j.live /\ k.stage = stage /\ k.action = action
  BY <1>1 DEF Job
<1>4. stage = "publish" /\ action.kind = "ack" => "handled" \in closed
  <2>. HIDE DEF action
  <2>1. Publishes(action) /\ action.kind = "ack" => action = Act("ack", "handled")
    BY DEF Publishes
  <2>. QED
    BY <2>1 DEF Act
<1>5. AuditEnabled /\ "handled" \in closed => stage = "publish" /\ action.kind = "ack"
  <2>1. action \in Action /\ (action.kind = "ack" => action.reason \in {"handled", "unhandled"})
    BY <1>1, DecisionType
  <2>. HIDE DEF action
  <2>2. AuditEnabled /\ "handled" \in closed => action.kind = "ack" /\ action.reason = "handled"
    BY <2>1
  <2>3. action.kind = "ack" /\ action.reason = "handled" => action = Act("ack", "handled")
    BY <2>1 DEF Action, Act
  <2>. QED
    BY <2>2, <2>3 DEF Publishes
<1>. HIDE DEF action, stage, k, closed
<1>6. \A m \in Msg : fate'[m] = IF m = j.msg THEN fate[m] \cup closed ELSE fate[m]
  BY <1>2 DEF IInv, TypeOK
<1>7. ~AuditRun(j)
  BY <1>1 DEF AuditRun
<1>8. \A i \in jobs : i.msg \in Msg
  BY JobFacts
<1>9. StaleRequeued'
  BY <1>2, <1>3 DEF AInv, StaleRequeued
<1>10. AuditRunHandled'
  <2>1. \A i \in jobs : AuditRun(i) => "handled" \in fate'[i.msg]
    BY <1>6, <1>8 DEF AInv, AuditRunHandled
  <2>2. AuditRun(k) => "handled" \in fate'[k.msg]
    BY <1>1, <1>3, <1>4, <1>6 DEF AuditRun
  <2>. QED
    BY <1>2, <2>1, <2>2 DEF AuditRunHandled, AuditRun
<1>11. AuditOfHandled'
  <2>1. UNCHANGED auditQueue /\ \A m \in Msg : fate[m] \subseteq fate'[m]
    <3>1. ASSUME NEW m \in Msg PROVE fate[m] \subseteq fate'[m]
      <4>1. CASE m = j.msg
        BY ONLY <1>6, <4>1, m \in Msg
      <4>2. CASE m # j.msg
        BY ONLY <1>6, <4>2, m \in Msg
      <4>. QED
        BY ONLY <4>1, <4>2
    <3>. QED
      BY ONLY <1>2, <3>1
  <2>2. AuditOfHandled
    BY DEF AInv
  <2>. QED
    BY ONLY <2>1, <2>2 DEF AuditOfHandled
<1>12. AuditOwed'
  <2>. SUFFICES ASSUME NEW m \in Msg, AuditEnabled, "handled" \in fate'[m],
                       auditQueue'[m] = {}, m \notin redelivered'
                PROVE  \E i \in jobs' : i.msg = m /\ AuditRun(i)
    BY DEF AuditOwed, AuditRun
  <2>1. CASE "handled" \in fate[m]
    <3>1. PICK i \in jobs : i.msg = m /\ AuditRun(i)
      BY <1>2, <2>1 DEF AInv, AuditOwed
    <3>. QED
      BY <1>2, <1>7, <3>1
  <2>2. CASE "handled" \notin fate[m]
    <3>1. m = j.msg /\ "handled" \in closed
      BY <1>6, <2>2
    <3>2. k.msg = m /\ AuditRun(k)
      BY <1>3, <1>5, <3>1 DEF AuditRun
    <3>. QED
      BY <1>2, <3>2
  <2>. QED
    BY <2>1, <2>2
<1>. QED
  BY <1>9, <1>10, <1>11, <1>12 DEF AInv

(* A publish that got through, whether or not its run sees the confirm.    *)
LEMMA AuditReaches ==
    ASSUME IInv, AInv, NEW j \in jobs, j.stage = "publish", UNCHANGED history,
           NEW base, Reaches(j, base), redelivered \subseteq redelivered',
           NEW rest, jobs' = (jobs \ {j}) \cup rest,
           \A i \in rest : ~AuditRun(i) /\ (~i.live => i.msg \in redelivered')
    PROVE  AInv'
<1>1. fate' = fate /\ \A i \in jobs : i.msg \in Msg
  BY JobFacts DEF history
<1>2. \/ auditQueue' = auditQueue /\ ~AuditRun(j)
      \/ AuditRun(j) /\ auditQueue' = [auditQueue EXCEPT ![j.msg] = @ \cup {TRUE}]
  BY DEF Reaches, AuditRun
<1>3. \A m \in Msg : \/ auditQueue'[m] = auditQueue[m] /\ (m = j.msg => ~AuditRun(j))
                     \/ m = j.msg /\ AuditRun(j) /\ auditQueue'[m] = auditQueue[m] \cup {TRUE}
  BY <1>1, <1>2 DEF IInv, TypeOK
<1>4. StaleRequeued'
  BY DEF AInv, StaleRequeued
<1>5. AuditRunHandled'
  BY <1>1 DEF AInv, AuditRunHandled, AuditRun
<1>6. AuditOfHandled'
  <2>1. AuditOfHandled /\ (AuditRun(j) => "handled" \in fate[j.msg])
    BY DEF AInv, AuditRunHandled
  <2>. SUFFICES ASSUME NEW m \in Msg
                PROVE  /\ auditQueue'[m] \subseteq {TRUE}
                       /\ auditQueue'[m] # {} => "handled" \in fate'[m]
    BY DEF AuditOfHandled
  <2>2. CASE auditQueue'[m] = auditQueue[m]
    BY ONLY <1>1, <2>1, <2>2, m \in Msg DEF AuditOfHandled
  <2>3. CASE m = j.msg /\ AuditRun(j) /\ auditQueue'[m] = auditQueue[m] \cup {TRUE}
    BY ONLY <1>1, <2>1, <2>3, m \in Msg DEF AuditOfHandled
  <2>. QED
    BY ONLY <1>3, <2>2, <2>3, m \in Msg
<1>7. AuditOwed'
  <2>. SUFFICES ASSUME NEW m \in Msg, AuditEnabled, "handled" \in fate'[m],
                       auditQueue'[m] = {}
                PROVE  m \in redelivered' \/ \E i \in jobs' : i.msg = m /\ AuditRun(i)
    BY DEF AuditOwed, AuditRun
  <2>1. auditQueue'[m] = auditQueue[m] /\ (m = j.msg => ~AuditRun(j))
    BY <1>3
  <2>2. m \in redelivered \/ \E i \in jobs : i.msg = m /\ AuditRun(i)
    BY <1>1, <2>1 DEF AInv, AuditOwed
  <2>. QED
    BY <2>1, <2>2
<1>. QED
  BY <1>4, <1>5, <1>6, <1>7 DEF AInv

LEMMA NextAInv ==
    ASSUME IInv, AInv, [Next]_vars
    PROVE  AInv'
<1>1. ASSUME NEW c \in Consumer, Start(c) \/ Stop(c) \/ Exit(c)
      PROVE  AInv'
  BY <1>1, AuditKept DEF Start, Stop, Exit, history, AInv, StaleRequeued
<1>2. ASSUME NEW m \in Msg, NEW s \in Slot, Publish(m, s)
      PROVE  AInv'
  BY <1>2, AuditKept DEF Publish, AInv, StaleRequeued
<1>3. ASSUME NEW c \in Consumer, NEW s \in Slot, Deliver(c, s)
      PROVE  AInv'
  <2> DEFINE new == [slot |-> s, by |-> c, msg |-> copy[s].msg,
                     retries |-> copy[s].retries, stage |-> "callback",
                     action |-> Undecided, live |-> TRUE]
  <2>1. /\ jobs' = jobs \cup {new} /\ new.stage = "callback" /\ new.live
        /\ UNCHANGED <<fate, auditQueue, redelivered>>
    BY <1>3 DEF Deliver, history
  <2>. HIDE DEF new
  <2>. QED
    BY <2>1, AuditKept DEF AuditRun, AInv, StaleRequeued
<1>4. ASSUME NEW s \in Slot, RetryDelayElapsed(s)
      PROVE  AInv'
  BY <1>4, AuditKept DEF RetryDelayElapsed, history, AInv, StaleRequeued
<1>5. ASSUME NEW j \in jobs, PublishOk(j)
      PROVE  AInv'
  <2>1. LET k == [j EXCEPT !.stage = "ack"]
        IN k.live = j.live /\ k.msg = j.msg /\ ~AuditRun(k)
    BY JobFacts DEF Job, AuditRun
  <2>2. /\ j.stage = "publish" /\ Reaches(j, copy) /\ UNCHANGED history
        /\ UNCHANGED redelivered /\ jobs' = (jobs \ {j}) \cup {[j EXCEPT !.stage = "ack"]}
    BY <1>5 DEF PublishOk, Publishing
  <2>3. \A i \in {[j EXCEPT !.stage = "ack"]} :
           ~AuditRun(i) /\ (~i.live => i.msg \in redelivered')
    BY <2>1, <2>2 DEF AInv, StaleRequeued
  <2>. QED
    BY <2>2, <2>3, AuditReaches
<1>6. ASSUME NEW j \in jobs, PublishUnroutable(j) \/ PublishFails(j)
      PROVE  AInv'
  <2>1. /\ j.stage = "publish" /\ jobs' = jobs \ {j} /\ UNCHANGED history
        /\ redelivered' = IF j.live THEN redelivered \cup {j.msg} ELSE redelivered
        /\ \/ Reaches(j, BackAfter(j))
           \/ UNCHANGED auditQueue
    BY <1>6 DEF PublishUnroutable, PublishFails, Nacked, Publishing
  <2>2. redelivered \subseteq redelivered' /\ j.msg \in redelivered'
    BY <2>1 DEF AInv, StaleRequeued
  <2>3. CASE Reaches(j, BackAfter(j))
    <3> DEFINE rest == {}
    <3>1. /\ jobs' = (jobs \ {j}) \cup rest
          /\ \A i \in rest : ~AuditRun(i) /\ (~i.live => i.msg \in redelivered')
      BY <2>1
    <3>. HIDE DEF rest
    <3>. QED
      BY ONLY IInv, AInv, <2>1, <2>2, <2>3, <3>1, AuditReaches
  <2>4. CASE UNCHANGED auditQueue
    <3>1. \A i \in jobs' : i \in jobs
      BY <2>1
    <3>2. \A k \in jobs : k \in jobs' \/ k.msg \in redelivered'
      BY <2>1, <2>2
    <3>3. \A i \in jobs' : ~i.live => i.msg \in redelivered'
      BY <2>2, <3>1 DEF AInv, StaleRequeued
    <3>. QED
      BY <2>1, <2>2, <2>4, <3>1, <3>2, <3>3, AuditKept DEF history
  <2>. QED
    BY <2>1, <2>3, <2>4
<1>7. ASSUME NEW j \in jobs, Ack(j)
      PROVE  AInv'
  <2>1. /\ j.stage = "ack" /\ jobs' = jobs \ {j}
        /\ UNCHANGED <<fate, auditQueue, redelivered>>
    BY <1>7 DEF Ack, history
  <2>. QED
    BY <2>1, AuditKept DEF AuditRun, AInv, StaleRequeued
<1>8. ASSUME NEW j \in jobs, NEW result \in ConsumeResult, Decide(j, result)
      PROVE  AInv'
  BY <1>8, AuditDecide
<1>9. ASSUME NEW c \in Consumer, ConnectionLost(c) \/ Crash(c)
      PROVE  AInv'
  <2>1. /\ UNCHANGED <<fate, auditQueue>>
        /\ redelivered' = redelivered \cup {j.msg : j \in {k \in jobs : k.live /\ k.by \in {c}}}
    BY <1>9 DEF ConnectionLost, Crash, ChannelsClose, history
  <2>2. \A j \in jobs : j.by = c => j.msg \in redelivered'
    BY <2>1, JobFacts DEF AInv, StaleRequeued
  <2>3. redelivered \subseteq redelivered'
    BY <2>1
  <2>4. CASE ConnectionLost(c)
    <3> DEFINE Stale(j) == [j EXCEPT !.live = FALSE]
    <3>1. jobs' = {IF j.by = c THEN Stale(j) ELSE j : j \in jobs}
      BY <2>4 DEF ConnectionLost
    <3>2. \A j \in jobs : Stale(j).msg = j.msg /\ (AuditRun(Stale(j)) <=> AuditRun(j))
      BY JobFacts DEF Job, AuditRun
    <3>. HIDE DEF Stale
    <3>3. \A i \in jobs' : \E k \in jobs : /\ i.msg = k.msg /\ (AuditRun(i) <=> AuditRun(k))
                                           /\ i = k \/ k.by = c
      <4>1. \A i \in jobs' : \E k \in jobs : i = k \/ (k.by = c /\ i = Stale(k))
        BY ONLY <3>1
      <4>. QED
        BY ONLY <3>2, <4>1
    <3>4. \A k \in jobs : \E i \in jobs' : i.msg = k.msg /\ (AuditRun(i) <=> AuditRun(k))
      <4>1. \A k \in jobs : k \in jobs' \/ Stale(k) \in jobs'
        BY ONLY <3>1
      <4>. QED
        BY ONLY <3>2, <4>1
    <3>5. \A i \in jobs' : ~i.live => i.msg \in redelivered'
      BY <2>2, <2>3, <3>3 DEF AInv, StaleRequeued
    <3>. QED
      BY <2>1, <2>3, <3>3, <3>4, <3>5, AuditKept
  <2>5. CASE Crash(c)
    <3>1. jobs' = {j \in jobs : j.by # c}
      BY <2>5 DEF Crash
    <3>2. \A i \in jobs' : ~i.live => i.msg \in redelivered'
      BY <2>3, <3>1 DEF AInv, StaleRequeued
    <3>. QED
      BY <2>1, <2>2, <2>3, <3>1, <3>2, AuditKept
  <2>. QED
    BY <1>9, <2>4, <2>5
<1>10. ASSUME BrokerRestart
       PROVE  AInv'
  <2> DEFINE Stale(j) == [j EXCEPT !.live = FALSE]
  <2>1. /\ redelivered' = redelivered \cup {j.msg : j \in {k \in jobs : k.live}}
        /\ auditQueue' = [m \in Msg |-> {d \in auditQueue[m] : d}]
        /\ jobs' = {Stale(j) : j \in jobs} /\ UNCHANGED fate
    BY <1>10 DEF BrokerRestart, history
  <2>2. UNCHANGED auditQueue
    <3>1. \A m \in Msg : {d \in auditQueue[m] : d} = auditQueue[m]
      BY DEF AInv, AuditOfHandled
    <3>2. auditQueue = [m \in Msg |-> auditQueue[m]]
      BY DEF IInv, TypeOK
    <3>. QED
      BY <2>1, <3>1, <3>2
  <2>3. redelivered \subseteq redelivered' /\ \A j \in jobs : j.msg \in redelivered'
    BY <2>1, JobFacts DEF AInv, StaleRequeued
  <2>4. \A j \in jobs : Stale(j).msg = j.msg /\ (AuditRun(Stale(j)) <=> AuditRun(j))
    BY JobFacts DEF Job, AuditRun
  <2>. HIDE DEF Stale
  <2>5. \A i \in jobs' : \E k \in jobs : i.msg = k.msg /\ (AuditRun(i) <=> AuditRun(k))
    BY ONLY <2>1, <2>4
  <2>. QED
    BY <2>1, <2>2, <2>3, <2>5, AuditKept
<1>11. ASSUME UNCHANGED vars
       PROVE  AInv'
  BY <1>11, AuditKept DEF vars, history, AInv, StaleRequeued
<1>. QED
  BY <1>1, <1>2, <1>3, <1>4, <1>5, <1>6, <1>7, <1>8, <1>9, <1>10, <1>11 DEF Next, JobStep

(* Only handled messages are audited, and a handled message that was never *)
(* requeued is audited unless a run for it is still in progress.           *)
THEOREM DeliveryAuditMirrorsHandled == Spec => []AuditMirrorsHandled
<1>1. Init => AInv
  BY InitAInv
<1>2. IInv /\ AInv /\ [Next]_vars => AInv'
  BY NextAInv
<1>3. AInv => AuditMirrorsHandled
  BY DEF AInv, AuditOfHandled, AuditOwed, AuditMirrorsHandled
<1>. QED
  BY <1>1, <1>2, <1>3, DeliveryInvariant, PTL DEF Spec
-----------------------------------------------------------------------------
(* One place.  A message that the broker never had to requeue is held by   *)
(* one copy that no run is about to acknowledge, or has one letter, or one *)
(* closing; and whoever reads its RetryCount reads its failures so far.    *)
Undisturbed == published \ redelivered
Counting(m) == {s \in Slot : HoldsMsg(s, m) /\ ~Acking(s)}
Decided(s) == \E j \in jobs : j.live /\ j.slot = s /\ j.stage # "callback"
Retrying(j) == Publishing(j) /\ j.action.kind = "republishToRetry"

OneOf(slots, letters, closings) ==
    \/ (\E s : slots = {s}) /\ letters = {} /\ closings = {}
    \/ slots = {} /\ (\E l : letters = {l}) /\ closings = {}
    \/ slots = {} /\ letters = {} /\ \E f : closings = {f}

OneSpot == \A m \in Undisturbed : OneOf(Counting(m), errorQueue[m], fate[m])
Unsent == \A m \in Msg \ published : errorQueue[m] = {} /\ fate[m] = {} /\ failures[m] = 0
CopiesAgree ==
    \A m \in Undisturbed : \A s \in Slot :
        HoldsMsg(s, m) /\ ~Decided(s) => copy[s].retries = failures[m]
RetriesAgree ==
    \A j \in jobs : j.msg \in Undisturbed /\ Retrying(j) => j.retries + 1 = failures[j.msg]

SpotInv == OneSpot /\ Unsent /\ CopiesAgree /\ RetriesAgree

LEMMA InitSpotInv == Init => SpotInv
BY DEF Init, SpotInv, OneSpot, Unsent, CopiesAgree, RetriesAgree, Undisturbed

(* Runs on a slot that holds an undisturbed message are runs for it.       *)
LEMMA RunOfSlot ==
    ASSUME IInv, NEW j \in jobs, j.live, NEW m, HoldsMsg(j.slot, m)
    PROVE  j.msg = m
BY DEF IInv, LiveJobOwnsCopy, HoldsMsg

(* A slot counts exactly if the one live run on it, if any, has yet to     *)
(* republish its message.                                                  *)
LEMMA CountsUnlessAcking ==
    ASSUME IInv, NEW j \in jobs, j.live
    PROVE  /\ Acking(j.slot) <=> j.stage # "callback" /\ (j.stage = "ack" \/ j.action.kind = "ack")
           /\ Decided(j.slot) <=> j.stage # "callback"
           /\ HoldsMsg(j.slot, j.msg) /\ copy[j.slot].retries = j.retries
<1>1. \A k \in jobs : k.live /\ k.slot = j.slot => k = j
  BY DEF IInv, LiveJobsDistinct
<1>2. HoldsMsg(j.slot, j.msg) /\ copy[j.slot].retries = j.retries
  BY DEF IInv, LiveJobOwnsCopy, HoldsMsg, Held
<1>. QED
  BY <1>1, <1>2 DEF Acking, Decided

(* A step that moves no undisturbed message from its place.                *)
LEMMA SpotsKept ==
    ASSUME SpotInv, UNCHANGED history, redelivered \subseteq redelivered',
           \A m \in Msg : errorQueue'[m] = errorQueue[m] \/ m \in published \cap redelivered',
           \A m \in Undisturbed' : Counting(m)' = Counting(m),
           \A m \in Undisturbed' : \A s \in Slot : HoldsMsg(s, m)' /\ ~Decided(s)' =>
               HoldsMsg(s, m) /\ ~Decided(s) /\ copy'[s].retries = copy[s].retries,
           \A i \in jobs' : i.msg \in Undisturbed' /\ Retrying(i) => i \in jobs,
           published \subseteq Msg
    PROVE  SpotInv'
<1>1. published' = published /\ fate' = fate /\ failures' = failures
  BY DEF history
<1>2. Undisturbed' \subseteq Undisturbed /\ Undisturbed' \subseteq Msg
  BY <1>1 DEF Undisturbed
<1>3. \A m \in Undisturbed' : errorQueue'[m] = errorQueue[m]
  BY <1>2 DEF Undisturbed
<1>4. OneSpot'
  <2>. SUFFICES ASSUME NEW m \in Undisturbed'
                PROVE  OneOf(Counting(m)', errorQueue'[m], fate'[m])
    BY DEF OneSpot, OneOf
  <2>1. OneOf(Counting(m), errorQueue[m], fate[m])
    BY <1>2 DEF SpotInv, OneSpot
  <2>. QED
    BY <1>1, <1>3, <2>1
<1>5. Unsent'
  BY <1>1 DEF SpotInv, Unsent
<1>6. CopiesAgree'
  BY <1>1, <1>2 DEF SpotInv, CopiesAgree
<1>7. RetriesAgree'
  BY <1>1, <1>2 DEF SpotInv, RetriesAgree, Retrying, Publishing
<1>. QED
  BY <1>4, <1>5, <1>6, <1>7 DEF SpotInv

(* In particular one that decides nothing: it leaves the copies and the    *)
(* decided live runs of undisturbed messages alone.                        *)
LEMMA SpotsUntouched ==
    ASSUME IInv, IInv', AInv', SpotInv, UNCHANGED history, redelivered \subseteq redelivered',
           \A m \in Msg : errorQueue'[m] = errorQueue[m] \/ m \in published \cap redelivered',
           \A m \in Undisturbed' : \A s \in Slot :
               /\ HoldsMsg(s, m)' <=> HoldsMsg(s, m)
               /\ HoldsMsg(s, m) => copy'[s].retries = copy[s].retries,
           \A j \in jobs \cup jobs' :
               j.live /\ j.stage # "callback" /\ j.msg \notin redelivered'
                   => (j \in jobs <=> j \in jobs')
    PROVE  SpotInv'
<1>1. published' = published /\ published \subseteq Msg
  BY DEF history, IInv, TypeOK
<1>2. ASSUME NEW m \in Undisturbed', NEW s \in Slot, HoldsMsg(s, m)
      PROVE  (Acking(s)' <=> Acking(s)) /\ (Decided(s)' <=> Decided(s))
  <2>1. m \notin redelivered' /\ HoldsMsg(s, m)'
    BY <1>2 DEF Undisturbed
  <2>2. \A j \in jobs : j.live /\ j.slot = s => j.msg = m
    BY <1>2, RunOfSlot
  <2>3. \A j \in jobs' : j.live /\ j.slot = s => j.msg = m
    BY <2>1 DEF IInv, LiveJobOwnsCopy, HoldsMsg
  <2>4. \A j : j.live /\ j.slot = s /\ j.stage # "callback" => (j \in jobs <=> j \in jobs')
    BY <2>1, <2>2, <2>3
  <2>. QED
    BY <2>4 DEF Acking, Decided
<1>3. \A m \in Undisturbed' : Counting(m)' = Counting(m)
  BY <1>2 DEF Counting
<1>4. \A m \in Undisturbed' : \A s \in Slot : HoldsMsg(s, m)' /\ ~Decided(s)' =>
          HoldsMsg(s, m) /\ ~Decided(s) /\ copy'[s].retries = copy[s].retries
  BY <1>2
<1>5. \A i \in jobs' : i.msg \in Undisturbed' /\ Retrying(i) => i \in jobs
  BY DEF Undisturbed, Retrying, Publishing, AInv, StaleRequeued
<1>. QED
  BY <1>1, <1>3, <1>4, <1>5, SpotsKept

LEMMA SpotsConsumer ==
    ASSUME IInv, IInv', AInv', SpotInv, NEW c \in Consumer, Start(c) \/ Stop(c) \/ Exit(c)
    PROVE  SpotInv'
<1>1. UNCHANGED <<copy, jobs, errorQueue, redelivered>> /\ UNCHANGED history
  BY DEF Start, Stop, Exit, history
<1>2. \A m : \A s \in Slot : HoldsMsg(s, m)' <=> HoldsMsg(s, m)
  BY <1>1 DEF HoldsMsg, Held
<1>. QED
  BY <1>1, <1>2, SpotsUntouched

(* The one step that adds a place: the message was in none.                *)
LEMMA SpotsPublish ==
    ASSUME IInv, OnlyPublished, SpotInv, NEW m \in Msg, NEW s \in Slot, Publish(m, s)
    PROVE  SpotInv'
<1>1. /\ m \notin published /\ published' = published \cup {m} /\ copy[s] = Free
      /\ UNCHANGED <<jobs, errorQueue, fate, failures, redelivered>>
  BY DEF Publish, Held
<1>2. /\ copy'[s] # Free /\ copy'[s].msg = m /\ copy'[s].retries = 0
      /\ \A t \in Slot \ {s} : copy'[t] = copy[t]
  BY DEF Publish, IInv, TypeOK, Free
<1>3. \A t \in Slot : (Acking(t)' <=> Acking(t)) /\ (Decided(t)' <=> Decided(t))
  BY <1>1 DEF Acking, Decided
<1>4. ~Acking(s) /\ ~Decided(s)
  BY <1>1 DEF Acking, Decided, IInv, LiveJobOwnsCopy
<1>5. \A t \in Slot : HoldsMsg(t, m)' <=> t = s
  BY <1>1, <1>2 DEF HoldsMsg, Held, OnlyPublished
<1>6. \A n \in Msg \ {m} : \A t \in Slot :
          (HoldsMsg(t, n)' <=> HoldsMsg(t, n)) /\ (HoldsMsg(t, n) => copy'[t] = copy[t])
  BY <1>1, <1>2 DEF HoldsMsg, Held
<1>7. Undisturbed' \subseteq Undisturbed \cup {m} /\ Undisturbed \subseteq Msg \ {m}
  BY <1>1 DEF Undisturbed, IInv, TypeOK
<1>8. OneSpot'
  <2>1. OneOf(Counting(m)', errorQueue'[m], fate'[m])
    <3>1. Counting(m)' = {s}
      BY <1>3, <1>4, <1>5 DEF Counting
    <3>. QED
      BY <1>1, <3>1 DEF SpotInv, Unsent, OneOf
  <2>2. ASSUME NEW n \in Undisturbed
        PROVE  OneOf(Counting(n)', errorQueue'[n], fate'[n])
    <3>1. Counting(n)' = Counting(n)
      BY <1>3, <1>6, <1>7 DEF Counting
    <3>. QED
      BY <1>1, <3>1 DEF SpotInv, OneSpot
  <2>. QED
    BY <1>7, <2>1, <2>2 DEF OneSpot, OneOf
<1>9. Unsent'
  BY <1>1 DEF SpotInv, Unsent
<1>10. CopiesAgree'
  BY <1>1, <1>2, <1>3, <1>5, <1>6, <1>7 DEF SpotInv, Unsent, CopiesAgree
<1>11. RetriesAgree'
  <2>1. \A j \in jobs : j.msg # m
    BY <1>1 DEF OnlyPublished
  <2>. QED
    BY <1>1, <1>7, <2>1 DEF SpotInv, RetriesAgree, Retrying, Publishing
<1>. QED
  BY <1>8, <1>9, <1>10, <1>11 DEF SpotInv

LEMMA SpotsDeliver ==
    ASSUME IInv, IInv', AInv', SpotInv, NEW c \in Consumer, NEW s \in Slot, Deliver(c, s)
    PROVE  SpotInv'
<1>1. /\ copy[s] # Free /\ copy[s] \in Copy
      /\ copy' = [copy EXCEPT ![s] = [copy[s] EXCEPT !.at = "unacked"]]
      /\ UNCHANGED <<errorQueue, redelivered>> /\ UNCHANGED history
  BY DEF Deliver, Held, IInv, TypeOK
<1>2. jobs \subseteq jobs' /\ \A j \in jobs' \ jobs : j.stage = "callback"
  BY DEF Deliver
<1>3. SameContents(copy', copy)
  BY <1>1, MovedOne DEF IInv, TypeOK
<1>4. \A m : \A t \in Slot : /\ HoldsMsg(t, m)' <=> HoldsMsg(t, m)
                             /\ HoldsMsg(t, m) => copy'[t].retries = copy[t].retries
  BY <1>3 DEF SameContents, HoldsMsg, Held
<1>. QED
  BY <1>1, <1>2, <1>4, SpotsUntouched

LEMMA SpotsRetryDelay ==
    ASSUME IInv, IInv', AInv', SpotInv, NEW s \in Slot, RetryDelayElapsed(s)
    PROVE  SpotInv'
<1>1. /\ copy[s] # Free /\ copy[s] \in Copy
      /\ copy' = [copy EXCEPT ![s] = [copy[s] EXCEPT !.at = "queue"]]
      /\ UNCHANGED <<jobs, errorQueue, redelivered>> /\ UNCHANGED history
  BY DEF RetryDelayElapsed, Held, IInv, TypeOK
<1>2. SameContents(copy', copy)
  BY <1>1, MovedOne DEF IInv, TypeOK
<1>3. \A m : \A t \in Slot : /\ HoldsMsg(t, m)' <=> HoldsMsg(t, m)
                             /\ HoldsMsg(t, m) => copy'[t].retries = copy[t].retries
  BY <1>2 DEF SameContents, HoldsMsg, Held
<1>. QED
  BY <1>1, <1>3, SpotsUntouched

(* Lost channels and restarts requeue what is in progress: the rest of the *)
(* messages have no run, and their copies only wait elsewhere.             *)
LEMMA SpotsChannels ==
    ASSUME IInv, IInv', AInv', SpotInv, NEW c \in Consumer, ConnectionLost(c) \/ Crash(c)
    PROVE  SpotInv'
<1> DEFINE lost == {j \in jobs : j.live /\ j.by \in {c}}
<1>1. /\ SameContents(copy', copy) /\ UNCHANGED history /\ UNCHANGED errorQueue
      /\ redelivered' = redelivered \cup {j.msg : j \in lost}
  BY SeenChannels DEF ConnectionLost, Crash, ChannelsClose
<1>2. \A m : \A t \in Slot : /\ HoldsMsg(t, m)' <=> HoldsMsg(t, m)
                             /\ HoldsMsg(t, m) => copy'[t].retries = copy[t].retries
  BY <1>1 DEF SameContents, HoldsMsg, Held
<1>3. \A j \in jobs : j.live /\ j.msg \notin redelivered' => j.by # c /\ j \in jobs'
  <2>1. \A j \in jobs : j.live /\ j.msg \notin redelivered' => j.by # c
    BY <1>1
  <2>2. \A j \in jobs : j.by # c => j \in jobs'
    BY DEF ConnectionLost, Crash
  <2>. QED
    BY <2>1, <2>2
<1>4. \A j \in jobs' : j.live => j \in jobs
  <2>1. \A k \in jobs : [k EXCEPT !.live = FALSE].live = FALSE
    BY JobFacts DEF Job
  <2>2. \A j \in jobs' : j \in jobs \/ \E k \in jobs : j = [k EXCEPT !.live = FALSE]
    BY DEF ConnectionLost, Crash
  <2>. QED
    BY <2>1, <2>2
<1>. QED
  BY <1>1, <1>2, <1>3, <1>4, SpotsUntouched

LEMMA SpotsRestart ==
    ASSUME IInv, IInv', AInv', SpotInv, BrokerRestart
    PROVE  SpotInv'
<1>1. /\ SameContents(copy', copy) /\ UNCHANGED history /\ UNCHANGED errorQueue
      /\ redelivered' = redelivered \cup {j.msg : j \in {k \in jobs : k.live}}
  BY SeenRestart DEF BrokerRestart
<1>2. \A m : \A t \in Slot : /\ HoldsMsg(t, m)' <=> HoldsMsg(t, m)
                             /\ HoldsMsg(t, m) => copy'[t].retries = copy[t].retries
  BY <1>1 DEF SameContents, HoldsMsg, Held
<1>3. \A j \in jobs : j.live => j.msg \in redelivered'
  BY <1>1
<1>4. \A j \in jobs' : ~j.live
  <2>1. \A k \in jobs : [k EXCEPT !.live = FALSE].live = FALSE
    BY JobFacts DEF Job
  <2>. QED
    BY <2>1 DEF BrokerRestart
<1>. QED
  BY <1>1, <1>2, <1>3, <1>4, SpotsUntouched

(* A failed publish leaves its message to the broker, whatever it reached. *)
LEMMA SpotsNack ==
    ASSUME IInv, IInv', AInv, AInv', OnlyPublished, SpotInv,
           NEW j \in jobs, PublishUnroutable(j) \/ PublishFails(j)
    PROVE  SpotInv'
<1>1. /\ j.stage = "publish" /\ jobs' = jobs \ {j} /\ UNCHANGED history
      /\ redelivered' = IF j.live THEN redelivered \cup {j.msg} ELSE redelivered
      /\ \/ Reaches(j, BackAfter(j))
         \/ copy' = BackAfter(j) /\ UNCHANGED errorQueue
  BY DEF PublishUnroutable, PublishFails, Nacked, Publishing
<1>2. redelivered \subseteq redelivered' /\ j.msg \in redelivered' /\ j.msg \in published
  BY <1>1 DEF AInv, StaleRequeued, OnlyPublished
<1>3. /\ BackAfter(j) \in [Slot -> Copy \cup {Free}] /\ SameContents(BackAfter(j), copy)
  BY RequeueOf
<1>4. \A m \in Msg : errorQueue'[m] = errorQueue[m] \/ m = j.msg
  BY <1>1 DEF Reaches, IInv, TypeOK
<1>5. \A m : m # j.msg => \A t \in Slot :
         /\ HoldsMsg(t, m)' <=> HoldsMsg(t, m)
         /\ HoldsMsg(t, m) => copy'[t].retries = copy[t].retries
  <2>1. CASE copy' = BackAfter(j)
    BY <1>3, <2>1 DEF SameContents, HoldsMsg, Held
  <2>2. ASSUME NEW s \in Slot, ~Held(s), copy' = [BackAfter(j) EXCEPT ![s] = RetryCopyOf(j)]
        PROVE  \A m : m # j.msg => \A t \in Slot :
                 /\ HoldsMsg(t, m)' <=> HoldsMsg(t, m)
                 /\ HoldsMsg(t, m) => copy'[t].retries = copy[t].retries
    <3>1. /\ copy[s] = Free /\ copy'[s].msg = j.msg
          /\ \A t \in Slot \ {s} : copy'[t] = BackAfter(j)[t]
      BY <1>3, <2>2 DEF Held, RetryCopyOf
    <3>. QED
      BY <1>3, <3>1 DEF SameContents, HoldsMsg, Held
  <2>. QED
    BY <1>1, <2>1, <2>2 DEF Reaches
<1>6. \A m \in Undisturbed' : m # j.msg
  BY <1>2 DEF Undisturbed
<1>. QED
  BY <1>1, <1>2, <1>4, <1>5, <1>6, SpotsUntouched

(* An acknowledgement releases a copy that has not counted since its run   *)
(* republished it or closed its message.                                   *)
LEMMA SpotsAck ==
    ASSUME IInv, IInv', AInv, AInv', SpotInv, NEW j \in jobs, Ack(j)
    PROVE  SpotInv'
<1>1. /\ j.stage = "ack" /\ jobs' = jobs \ {j}
      /\ copy' = IF j.live THEN [copy EXCEPT ![j.slot] = Free] ELSE copy
      /\ UNCHANGED <<errorQueue, redelivered>> /\ UNCHANGED history
  BY DEF Ack
<1>2. CASE ~j.live
  <2>1. j.msg \in redelivered' /\ copy' = copy
    BY <1>1, <1>2 DEF AInv, StaleRequeued
  <2>2. \A m : \A t \in Slot : HoldsMsg(t, m)' <=> HoldsMsg(t, m)
    BY <2>1 DEF HoldsMsg, Held
  <2>. QED
    BY <1>1, <2>1, <2>2, SpotsUntouched
<1>3. CASE j.live
  <2>1. j.slot \in Slot /\ Acking(j.slot) /\ Decided(j.slot)
    BY <1>1, <1>3, JobFacts, CountsUnlessAcking
  <2>2. copy'[j.slot] = Free /\ \A t \in Slot \ {j.slot} : copy'[t] = copy[t]
    BY <1>1, <1>3, <2>1 DEF IInv, TypeOK
  <2>3. \A t \in Slot \ {j.slot} : (Acking(t)' <=> Acking(t)) /\ (Decided(t)' <=> Decided(t))
    BY <1>1 DEF Acking, Decided
  <2>4. \A m : ~HoldsMsg(j.slot, m)'
               /\ \A t \in Slot \ {j.slot} : HoldsMsg(t, m)' <=> HoldsMsg(t, m)
    BY <2>2 DEF HoldsMsg, Held
  <2>5. \A m : Counting(m)' = Counting(m)
    BY <2>1, <2>3, <2>4 DEF Counting
  <2>6. published \subseteq Msg
    BY DEF IInv, TypeOK
  <2>7. \A i \in jobs' : i \in jobs
    BY <1>1
  <2>8. \A m : \A s \in Slot : HoldsMsg(s, m)' /\ ~Decided(s)' =>
               HoldsMsg(s, m) /\ ~Decided(s) /\ copy'[s].retries = copy[s].retries
    BY <2>2, <2>3, <2>4
  <2>. QED
    BY <1>1, <2>5, <2>6, <2>7, <2>8, SpotsKept
<1>. QED
  BY <1>2, <1>3, JobFacts

(* A live run that is about to republish its message holds the one copy.   *)
LEMMA RepublishingIsSole ==
    ASSUME IInv, SpotInv, NEW j \in jobs, j.live, j.msg \in Undisturbed, ~Acking(j.slot)
    PROVE  Counting(j.msg) = {j.slot} /\ errorQueue[j.msg] = {} /\ fate[j.msg] = {}
<1>1. j.slot \in Counting(j.msg)
  BY JobFacts, CountsUnlessAcking DEF Counting
<1>2. OneOf(Counting(j.msg), errorQueue[j.msg], fate[j.msg])
  BY DEF SpotInv, OneSpot
<1>. QED
  BY <1>1, <1>2 DEF OneOf

(* A confirmed publish: the copy that was republished stops counting as    *)
(* what it became begins to.                                               *)
LEMMA SpotsPublishOk ==
    ASSUME IInv, IInv', AInv, OnlyPublished, SpotInv, NEW j \in jobs, PublishOk(j)
    PROVE  SpotInv'
<1> DEFINE k == [j EXCEPT !.stage = "ack"]
<1>1. /\ j.stage = "publish" /\ Reaches(j, copy) /\ jobs' = (jobs \ {j}) \cup {k}
      /\ UNCHANGED redelivered /\ UNCHANGED history
      /\ UNCHANGED <<published, fate, failures>>
  BY DEF PublishOk, Publishing, history
<1>2. /\ k.slot = j.slot /\ k.msg = j.msg /\ k.retries = j.retries
      /\ k.action = j.action /\ k.live = j.live /\ k.stage = "ack"
      /\ j.slot \in Slot /\ j.msg \in Msg /\ j.msg \in published /\ j.live \in BOOLEAN
  BY JobFacts DEF Job, OnlyPublished
<1>. HIDE DEF k
<1>3. \A t \in Slot : /\ Decided(t)' <=> Decided(t)
                      /\ ~(j.live /\ t = j.slot) => (Acking(t)' <=> Acking(t))
                      /\ j.live /\ t = j.slot => Acking(t)'
  BY <1>1, <1>2 DEF Decided, Acking
<1>4. /\ Undisturbed' = Undisturbed /\ published \subseteq Msg
      /\ ~j.live => j.msg \notin Undisturbed
  BY <1>1 DEF Undisturbed, IInv, TypeOK, AInv, StaleRequeued
<1>5. \A i \in jobs' : Retrying(i) => i \in jobs /\ i # j /\ Retrying(i)
  BY <1>1, <1>2 DEF Retrying, Publishing
<1>6. j.live => /\ \A m : HoldsMsg(j.slot, m) => m = j.msg
                /\ Acking(j.slot) <=> j.action.kind = "ack"
                /\ HoldsMsg(j.slot, j.msg) /\ Decided(j.slot)
  BY <1>1, CountsUnlessAcking, RunOfSlot
<1>7. CASE copy' = copy /\ \A m \in Msg : errorQueue'[m] = errorQueue[m] \/ m = j.msg
  <2>1. \A m : \A t \in Slot : (HoldsMsg(t, m)' <=> HoldsMsg(t, m))
    BY <1>7 DEF HoldsMsg, Held
  <2>2. CASE j.action.kind = "ack"
    <3>1. errorQueue' = errorQueue
      BY <1>1, <2>2 DEF Reaches
    <3>2. \A t \in Slot : Acking(t)' <=> Acking(t)
      BY <1>3, <1>6, <2>2
    <3>3. \A m : Counting(m)' = Counting(m)
      BY <2>1, <3>2 DEF Counting
    <3>. QED
      BY <1>1, <1>3, <1>4, <1>5, <1>7, <2>1, <3>1, <3>3, SpotsKept
  <2>3. CASE j.action.kind = "republishToError"
    <3>1. errorQueue' = [errorQueue EXCEPT ![j.msg] = @ \cup {LetterOf(j)}]
      BY <1>1, <2>3 DEF Reaches
    <3>2. /\ errorQueue'[j.msg] = errorQueue[j.msg] \cup {LetterOf(j)}
          /\ \A m \in Msg \ {j.msg} : errorQueue'[m] = errorQueue[m]
      BY <1>2, <3>1 DEF IInv, TypeOK
    <3>3. j.msg \in Undisturbed => OneOf(Counting(j.msg)', errorQueue'[j.msg], fate'[j.msg])
      <4>. SUFFICES ASSUME j.msg \in Undisturbed
                    PROVE  OneOf(Counting(j.msg)', errorQueue'[j.msg], fate'[j.msg])
        OBVIOUS
      <4>1. j.live /\ ~Acking(j.slot)
        BY <1>4, <1>6, <2>3, <1>2
      <4>2. Counting(j.msg) = {j.slot} /\ errorQueue[j.msg] = {} /\ fate[j.msg] = {}
        BY <4>1, RepublishingIsSole
      <4>3. Counting(j.msg)' = {}
        BY <1>3, <2>1, <4>1, <4>2 DEF Counting
      <4>. QED
        BY <1>1, <3>2, <4>2, <4>3 DEF OneOf
    <3>4. \A m \in Undisturbed \ {j.msg} : Counting(m)' = Counting(m)
      BY <1>3, <1>6, <2>1 DEF Counting
    <3>5. OneSpot'
      <4>. SUFFICES ASSUME NEW m \in Undisturbed
                    PROVE  OneOf(Counting(m)', errorQueue'[m], fate'[m])
        BY <1>4 DEF OneSpot, OneOf
      <4>1. CASE m = j.msg
        BY <3>3, <4>1
      <4>2. CASE m # j.msg
        <5>1. m \in Msg /\ OneOf(Counting(m), errorQueue[m], fate[m])
          BY <1>4 DEF SpotInv, OneSpot, Undisturbed
        <5>. QED
          BY <1>1, <3>2, <3>4, <4>2, <5>1
      <4>. QED
        BY <4>1, <4>2
    <3>6. Unsent'
      BY <1>1, <1>2, <3>2 DEF SpotInv, Unsent
    <3>7. CopiesAgree'
      BY <1>1, <1>3, <1>4, <1>7, <2>1 DEF SpotInv, CopiesAgree
    <3>8. RetriesAgree'
      BY <1>1, <1>4, <1>5 DEF SpotInv, RetriesAgree, Retrying, Publishing
    <3>. QED
      BY <3>5, <3>6, <3>7, <3>8 DEF SpotInv
  <2>4. CASE j.action.kind = "republishToRetry"
    <3>1. PICK s \in Slot : ~Held(s) /\ copy' = [copy EXCEPT ![s] = RetryCopyOf(j)]
      BY <1>1, <2>4 DEF Reaches
    <3>. QED
      BY <1>7, <3>1 DEF Held, RetryCopyOf, Free, IInv, TypeOK
  <2>. QED
    BY <1>1, <2>2, <2>3, <2>4 DEF Reaches
<1>8. ASSUME NEW s \in Slot, ~Held(s), copy' = [copy EXCEPT ![s] = RetryCopyOf(j)],
             UNCHANGED errorQueue, j.action.kind = "republishToRetry"
      PROVE  SpotInv'
  <2>1. /\ copy[s] = Free /\ copy'[s] # Free /\ copy'[s].msg = j.msg
        /\ copy'[s].retries = j.retries + 1
        /\ \A t \in Slot \ {s} : copy'[t] = copy[t]
    BY <1>8 DEF Held, RetryCopyOf, Free, IInv, TypeOK
  <2>2. /\ \A m : \A t \in Slot \ {s} : HoldsMsg(t, m)' <=> HoldsMsg(t, m)
        /\ \A m : (HoldsMsg(s, m)' <=> m = j.msg) /\ ~HoldsMsg(s, m)
    BY <2>1 DEF HoldsMsg, Held
  <2>3. ~Acking(s) /\ ~Decided(s) /\ (j.live => j.slot # s)
    BY <2>1 DEF Acking, Decided, IInv, LiveJobOwnsCopy
  <2>4. j.msg \in Undisturbed => /\ OneOf(Counting(j.msg)', errorQueue'[j.msg], fate'[j.msg])
                                 /\ j.retries + 1 = failures'[j.msg]
    <3>. SUFFICES ASSUME j.msg \in Undisturbed
                  PROVE  /\ OneOf(Counting(j.msg)', errorQueue'[j.msg], fate'[j.msg])
                         /\ j.retries + 1 = failures'[j.msg]
      OBVIOUS
    <3>1. j.live /\ ~Acking(j.slot)
      BY <1>2, <1>4, <1>6, <1>8
    <3>2. Counting(j.msg) = {j.slot} /\ errorQueue[j.msg] = {} /\ fate[j.msg] = {}
      BY <3>1, RepublishingIsSole
    <3>3. Counting(j.msg)' = {s}
      BY <1>3, <2>2, <2>3, <3>1, <3>2 DEF Counting
    <3>4. j.retries + 1 = failures[j.msg]
      BY <1>1, <1>8 DEF SpotInv, RetriesAgree, Retrying, Publishing
    <3>. QED
      BY <1>1, <1>8, <3>2, <3>3, <3>4 DEF OneOf
  <2>5. \A m \in Undisturbed \ {j.msg} : Counting(m)' = Counting(m)
    BY <1>3, <1>6, <2>2 DEF Counting
  <2>6. OneSpot'
    <3>. SUFFICES ASSUME NEW m \in Undisturbed
                  PROVE  OneOf(Counting(m)', errorQueue'[m], fate'[m])
      BY <1>4 DEF OneSpot, OneOf
    <3>1. OneOf(Counting(m), errorQueue[m], fate[m])
      BY DEF SpotInv, OneSpot
    <3>. QED
      BY <1>1, <1>8, <2>4, <2>5, <3>1
  <2>7. Unsent'
    BY <1>1, <1>8 DEF SpotInv, Unsent
  <2>8. CopiesAgree'
    BY <1>1, <1>3, <1>4, <2>1, <2>2, <2>4 DEF SpotInv, CopiesAgree
  <2>9. RetriesAgree'
    BY <1>1, <1>4, <1>5 DEF SpotInv, RetriesAgree, Retrying, Publishing
  <2>. QED
    BY <2>6, <2>7, <2>8, <2>9 DEF SpotInv
<1>. QED
  BY <1>1, <1>7, <1>8 DEF Reaches, IInv, TypeOK

(* The callback returns: the message is closed, or its failure counted.    *)
LEMMA SpotsDecide ==
    ASSUME IInv, IInv', AInv, SpotInv, OnlyPublished,
           NEW j \in jobs, NEW result \in ConsumeResult, Decide(j, result)
    PROVE  SpotInv'
<1> DEFINE action == decideDispositionAction(result, j.retries)
           stage == IF Publishes(action) THEN "publish" ELSE "ack"
           k == [j EXCEPT !.action = action, !.stage = stage]
           closed == CASE action.kind = "ack" -> {action.reason}
                       [] action.kind = "ackAndLog" -> {"logged"}
                       [] OTHER -> {}
           failed == ~result.notHandled /\ ~result.success /\ ~result.terminalFailure
<1>1. /\ j \in Job /\ j.msg \in Msg /\ j.retries \in 0..Attempts - 1 /\ j.stage = "callback"
      /\ j.slot \in Slot /\ j.live \in BOOLEAN /\ j.msg \in published
  BY JobFacts DEF Job, Decide, OnlyPublished
<1>2. /\ jobs' = (jobs \ {j}) \cup {k} /\ UNCHANGED <<copy, errorQueue, published, redelivered>>
      /\ fate' = [fate EXCEPT ![j.msg] = @ \cup closed]
      /\ failures' = IF failed /\ failures[j.msg] < Attempts
                     THEN [failures EXCEPT ![j.msg] = @ + 1] ELSE failures
  BY DEF Decide
<1>3. /\ k.slot = j.slot /\ k.msg = j.msg /\ k.retries = j.retries /\ k.live = j.live
      /\ k.stage = stage /\ k.action = action /\ stage \in {"publish", "ack"}
  BY <1>1 DEF Job
<1>4. action \in Action /\ action.kind # "none" /\ (action.kind = "republishToRetry" => failed)
  BY <1>1, DecisionType
<1>5. /\ action.kind \in {"ack", "ackAndLog"} => /\ \E f : closed = {f}
                                                 /\ stage = "ack" \/ action.kind = "ack"
      /\ action.kind \in {"republishToRetry", "republishToError"} =>
            closed = {} /\ stage = "publish"
      /\ action.kind \in {"ack", "ackAndLog", "republishToRetry", "republishToError"}
  <2>. HIDE DEF action
  <2>1. action.kind = "ackAndLog" => ~Publishes(action)
    BY DEF Publishes, Act
  <2>2. action.kind \in {"republishToRetry", "republishToError"} => Publishes(action)
    BY DEF Publishes
  <2>3. action.kind \in {"ack", "ackAndLog", "republishToRetry", "republishToError"}
    BY <1>4 DEF Action
  <2>. QED
    BY <2>1, <2>2, <2>3
<1>. HIDE DEF action, stage, k, closed, failed
<1>6. \A t \in Slot : /\ ~(j.live /\ t = j.slot) =>
                            (Acking(t)' <=> Acking(t)) /\ (Decided(t)' <=> Decided(t))
                      /\ j.live /\ t = j.slot =>
                            /\ Decided(t)'
                            /\ Acking(t)' <=> stage = "ack" \/ action.kind = "ack"
  <2>1. \A i \in jobs : i.live /\ j.live /\ i.slot = j.slot => i = j
    BY DEF IInv, LiveJobsDistinct
  <2>. QED
    BY <1>1, <1>2, <1>3, <2>1 DEF Decided, Acking
<1>7. /\ \A m : \A t \in Slot : HoldsMsg(t, m)' <=> HoldsMsg(t, m)
      /\ Undisturbed' = Undisturbed /\ Undisturbed \subseteq Msg
  BY <1>2 DEF HoldsMsg, Held, Undisturbed, IInv, TypeOK
<1>8. \A m \in Msg \ {j.msg} : fate'[m] = fate[m] /\ failures'[m] = failures[m]
  BY <1>1, <1>2 DEF IInv, TypeOK
<1>9. \A m \in Undisturbed \ {j.msg} : Counting(m)' = Counting(m)
  <2>1. ASSUME NEW m \in Undisturbed \ {j.msg}, NEW t \in Slot, HoldsMsg(t, m)
        PROVE  Acking(t)' <=> Acking(t)
    <3>1. ~(j.live /\ t = j.slot)
      BY <2>1, RunOfSlot
    <3>. QED
      BY <1>6, <3>1
  <2>. QED
    BY <1>7, <2>1 DEF Counting
<1>10. ASSUME j.msg \in Undisturbed
       PROVE  /\ j.live /\ Counting(j.msg) = {j.slot}
              /\ errorQueue[j.msg] = {} /\ fate[j.msg] = {}
              /\ failures[j.msg] = j.retries
  <2>1. j.live
    BY <1>10, <1>1 DEF Undisturbed, AInv, StaleRequeued
  <2>2. ~Acking(j.slot) /\ ~Decided(j.slot)
        /\ HoldsMsg(j.slot, j.msg) /\ copy[j.slot].retries = j.retries
    BY <1>1, <2>1, CountsUnlessAcking
  <2>3. failures[j.msg] = j.retries
    BY <1>1, <1>10, <2>2 DEF SpotInv, CopiesAgree
  <2>. QED
    BY <1>10, <2>1, <2>2, <2>3, RepublishingIsSole
<1>11. OneSpot'
  <2>. SUFFICES ASSUME NEW m \in Undisturbed
                PROVE  OneOf(Counting(m)', errorQueue'[m], fate'[m])
    BY <1>7 DEF OneSpot, OneOf
  <2>1. CASE m = j.msg
    <3>1. j.live /\ Counting(m) = {j.slot} /\ errorQueue[m] = {} /\ fate[m] = {}
      BY <1>10, <2>1
    <3>2. fate'[m] = closed
      BY <1>1, <1>2, <2>1, <3>1 DEF IInv, TypeOK
    <3>3. Counting(m)' = IF stage = "ack" \/ action.kind = "ack" THEN {} ELSE {j.slot}
      BY <1>6, <1>7, <3>1 DEF Counting
    <3>. QED
      BY <1>2, <1>5, <3>1, <3>2, <3>3 DEF OneOf
  <2>2. CASE m # j.msg
    <3>1. OneOf(Counting(m), errorQueue[m], fate[m])
      BY DEF SpotInv, OneSpot
    <3>. QED
      BY <1>2, <1>7, <1>8, <1>9, <2>2, <3>1
  <2>. QED
    BY <2>1, <2>2
<1>12. Unsent'
  BY <1>1, <1>2, <1>8 DEF SpotInv, Unsent
<1>13. CopiesAgree'
  <2>. SUFFICES ASSUME NEW m \in Undisturbed, NEW s \in Slot, HoldsMsg(s, m), ~Decided(s)'
                PROVE  copy[s].retries = failures'[m]
    BY <1>2, <1>7 DEF CopiesAgree
  <2>1. CASE m = j.msg
    <3>1. j.live /\ Counting(m) = {j.slot}
      BY <1>10, <2>1
    <3>2. s # j.slot /\ ~Decided(s)
      BY <1>6, <3>1
    <3>3. ~Acking(s)
      BY <3>2 DEF Acking, Decided
    <3>. QED
      BY <3>1, <3>2, <3>3 DEF Counting
  <2>2. CASE m # j.msg
    <3>1. ~(j.live /\ s = j.slot)
      BY <2>2, RunOfSlot
    <3>2. ~Decided(s)
      BY <1>6, <3>1
    <3>. QED
      BY <1>7, <1>8, <2>2, <3>2 DEF SpotInv, CopiesAgree
  <2>. QED
    BY <2>1, <2>2
<1>14. RetriesAgree'
  <2>. SUFFICES ASSUME NEW i \in jobs', i.msg \in Undisturbed, Retrying(i)
                PROVE  i.retries + 1 = failures'[i.msg]
    BY <1>7 DEF RetriesAgree, Retrying, Publishing
  <2>1. CASE i = k
    <3>1. failed /\ failures[j.msg] = j.retries
      BY <1>3, <1>4, <1>10, <2>1 DEF Retrying
    <3>2. failures'[j.msg] = failures[j.msg] + 1
      BY <1>1, <1>2, <3>1, AttemptsNat DEF IInv, TypeOK
    <3>. QED
      BY <1>3, <2>1, <3>1, <3>2
  <2>2. CASE i # k
    <3>1. i \in jobs /\ i # j
      BY <1>2, <2>2
    <3>2. i.msg # j.msg
      <4>. SUFFICES ASSUME i.msg = j.msg PROVE FALSE
        OBVIOUS
      <4>1. i.live /\ j.live /\ Counting(j.msg) = {j.slot}
        BY <1>10, <3>1, JobFacts DEF Undisturbed, AInv, StaleRequeued
      <4>2. i.slot \in Counting(j.msg)
        BY <3>1, <4>1, JobFacts, CountsUnlessAcking DEF Counting, Retrying, Publishing
      <4>. QED
        BY <3>1, <4>1, <4>2 DEF IInv, LiveJobsDistinct
    <3>. QED
      BY <1>7, <1>8, <3>1, <3>2 DEF SpotInv, RetriesAgree
  <2>. QED
    BY <2>1, <2>2
<1>. QED
  BY <1>11, <1>12, <1>13, <1>14 DEF SpotInv

LEMMA NextSpotInv ==
    ASSUME IInv, IInv', AInv, AInv', OnlyPublished, SpotInv, [Next]_vars
    PROVE  SpotInv'
<1>1. CASE UNCHANGED vars
  <2>1. UNCHANGED <<copy, jobs, errorQueue, redelivered>> /\ UNCHANGED history
    BY <1>1 DEF vars, history
  <2>2. \A m : \A s \in Slot : HoldsMsg(s, m)' <=> HoldsMsg(s, m)
    BY <2>1 DEF HoldsMsg, Held
  <2>. QED
    BY <2>1, <2>2, SpotsUntouched
<1>. QED
  BY <1>1, SpotsConsumer, SpotsPublish, SpotsDeliver, SpotsRetryDelay, SpotsChannels,
     SpotsRestart, SpotsNack, SpotsAck, SpotsPublishOk, SpotsDecide DEF Next, JobStep

(* What the invariant means: such a message is in one place.               *)
LEMMA OneOfMeans ==
    ASSUME SpotInv, NEW m \in Undisturbed
    PROVE  Cardinality(Places(m)) = 1
<1>1. OneOf(Counting(m), errorQueue[m], fate[m])
  BY DEF SpotInv, OneSpot
<1>2. Places(m) = ({"copy"} \X Counting(m)) \cup ({"letter"} \X errorQueue[m])
                    \cup ({"fate"} \X fate[m])
  BY DEF Places, Counting
<1>3. \A c, x : {c} \X {} = {} /\ {c} \X {x} = {<<c, x>>}
  OBVIOUS
<1>4. \E x : Places(m) = {x}
  <2>1. CASE (\E s : Counting(m) = {s}) /\ errorQueue[m] = {} /\ fate[m] = {}
    <3>1. PICK s : Counting(m) = {s}
      BY <2>1
    <3>2. Places(m) = {<<"copy", s>>}
      BY ONLY <1>2, <1>3, <2>1, <3>1
    <3>. QED
      BY <3>2
  <2>2. CASE Counting(m) = {} /\ (\E l : errorQueue[m] = {l}) /\ fate[m] = {}
    <3>1. PICK l : errorQueue[m] = {l}
      BY <2>2
    <3>2. Places(m) = {<<"letter", l>>}
      BY ONLY <1>2, <1>3, <2>2, <3>1
    <3>. QED
      BY <3>2
  <2>3. CASE Counting(m) = {} /\ errorQueue[m] = {} /\ \E f : fate[m] = {f}
    <3>1. PICK f : fate[m] = {f}
      BY <2>3
    <3>2. Places(m) = {<<"fate", f>>}
      BY ONLY <1>2, <1>3, <2>3, <3>1
    <3>. QED
      BY <3>2
  <2>. QED
    BY <1>1, <2>1, <2>2, <2>3 DEF OneOf
<1>. QED
  BY <1>4, FS_Singleton

(* Duplicates come from redelivery alone: a message the broker never had   *)
(* to requeue is in one place, closed once or dead-lettered once at the    *)
(* end, and is delivered once for each RetryCount.                         *)
THEOREM DeliveryOnePlaceWithoutRedelivery == Spec => []OnePlaceWithoutRedelivery
<1>1. Init => AInv /\ OnlyPublished /\ SpotInv
  BY InitAInv, InitOnlyPublished, InitSpotInv
<1>2. IInv /\ AInv /\ [Next]_vars => AInv'
  BY NextAInv
<1>3. IInv /\ OnlyPublished /\ [Next]_vars => OnlyPublished'
  BY NextOnlyPublished
<1>4. IInv /\ IInv' /\ AInv /\ AInv' /\ OnlyPublished /\ SpotInv /\ [Next]_vars => SpotInv'
  BY NextSpotInv
<1>5. SpotInv => OnePlaceWithoutRedelivery
  <2>1. ASSUME SpotInv, NEW m \in Undisturbed, NEW s \in Slot, HoldsMsg(s, m),
               ~ \E j \in jobs : j.slot = s
        PROVE  copy[s].retries = failures[m]
    BY <2>1 DEF SpotInv, CopiesAgree, Decided
  <2>. QED
    BY <2>1, OneOfMeans DEF OnePlaceWithoutRedelivery, Undisturbed
<1>. QED
  BY <1>1, <1>2, <1>3, <1>4, <1>5, DeliveryInvariant, PTL DEF Spec
=============================================================================
