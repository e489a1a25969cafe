------------------------------ MODULE Delivery ------------------------------
(***************************************************************************)
(* The consume side of the RabbitMQ transport: what `handle` of            *)
(* rabbitmq/src/consumer.ts does with one delivery, the disposition that   *)
(* retry.ts chooses for it, the queues that topology.ts declares, and the  *)
(* broker that redelivers whatever was not acknowledged.                   *)
(*                                                                         *)
(* A slot is a message instance inside the broker (in the main queue,      *)
(* unacknowledged at a consumer, or parked in the retry queue).  A job is  *)
(* one run of `handle`; it outlives the channel its message came from, so  *)
(* a lost connection leaves a stale job (live = FALSE) that still          *)
(* publishes although the broker has already requeued the message.         *)
(***************************************************************************)
EXTENDS Naturals, FiniteSets

CONSTANTS
    Msg,                  \* messages sent to the queue
    Consumer,             \* competing consumers, each in a process of its own
    Slot,                 \* message instances the broker can hold at once
    MaxRetries,           \* options.maxRetries: total number of attempts
    HasErrorQueue,        \* options.errorQueue # null
    DeadLetterUnhandled,  \* options.deadLetterUnhandled
    AuditEnabled,         \* options.auditEnabled
    Prefetch,             \* options.prefetch / concurrency
    MaxFaults,            \* bound: crashes, lost channels, failed publishes, restarts
    MaxRestarts           \* bound: those that are restarts of the broker

ASSUME DeliveryAssumption ==
    /\ MaxRetries \in Nat
    /\ HasErrorQueue \in BOOLEAN
    /\ DeadLetterUnhandled \in BOOLEAN
    /\ AuditEnabled \in BOOLEAN
    /\ Prefetch \in Nat
    /\ MaxFaults \in Nat
    /\ MaxRestarts \in Nat

VARIABLES
    copy,         \* Slot -> what the broker holds there
    jobs,         \* runs of `handle` in progress
    errorQueue,   \* Msg -> letters in the error queue
    auditQueue,   \* Msg -> persistence of its copies in the audit queue
    exchanges,    \* the transient error and audit exchanges
    consumer,     \* Consumer -> lifecycle of its transport
    published,    \* history: messages sent so far
    fate,         \* history: Msg -> ways a run of the callback closed it
    failures,     \* history: Msg -> non-terminal failures, saturating
    redelivered,  \* history: messages the broker had to requeue
    faults, restarts

vars == <<copy, jobs, errorQueue, auditQueue, exchanges, consumer,
          published, fate, failures, redelivered, faults, restarts>>
history == <<published, fate, failures>>
-----------------------------------------------------------------------------
(* The failed attempts after which a message is out of retries: the first  *)
(* delivery always happens, so maxRetries = 0 behaves like 1.              *)
Attempts == IF MaxRetries = 0 THEN 1 ELSE MaxRetries

ConsumeResult == [success: BOOLEAN, notHandled: BOOLEAN, terminalFailure: BOOLEAN]

Action == [kind: {"none", "ack", "ackAndLog", "republishToRetry", "republishToError"},
           reason: {"none", "handled", "unhandled", "terminal", "retriesExhausted"}]

Act(kind, reason) == [kind |-> kind, reason |-> reason]
Undecided == Act("none", "none")

Free == [at |-> "free"]
Copy == [at: {"queue", "unacked", "parked"}, msg: Msg,
         retries: 0..Attempts - 1, durable: BOOLEAN]
Letter == [reason: {"unhandled", "terminal", "retriesExhausted"},
           retries: 0..Attempts, durable: BOOLEAN]
Job == [slot: Slot, by: Consumer, msg: Msg, retries: 0..Attempts - 1,
        stage: {"callback", "publish", "ack"}, action: Action, live: BOOLEAN]

Held(s) == copy[s] # Free
HoldsMsg(s, m) == Held(s) /\ copy[s].msg = m
LiveJobs(c) == {j \in jobs : j.by = c /\ j.live}

(* Seeded fault: one attempt too many (<= for <).                          *)
DecideOneAttemptMore(result, retries) ==
    IF result.notHandled THEN Act("ack", "unhandled")
    ELSE IF result.success THEN Act("ack", "handled")
    ELSE IF ~result.terminalFailure /\ retries + 1 <= MaxRetries
    THEN Act("republishToRetry", "none")
    ELSE Act("republishToError", "retriesExhausted")

(* decideDispositionAction: the branches in the order the code tests them. *)
decideDispositionAction(result, retries) ==
    IF result.notHandled
    THEN IF DeadLetterUnhandled /\ HasErrorQueue
         THEN Act("republishToError", "unhandled")
         ELSE Act("ack", "unhandled")
    ELSE IF result.success
    THEN Act("ack", "handled")
    ELSE LET reason == IF result.terminalFailure THEN "terminal" ELSE "retriesExhausted"
         IN IF ~result.terminalFailure /\ retries + 1 < MaxRetries
            THEN Act("republishToRetry", "none")
            ELSE Act(IF HasErrorQueue THEN "republishToError" ELSE "ackAndLog", reason)

(* Seeded faults: `handle` returns without one of its publishes.           *)
PublishesNoLetter(action) ==
    \/ action.kind = "republishToRetry"
    \/ action = Act("ack", "handled") /\ AuditEnabled
PublishesNoAudit(action) == action.kind \in {"republishToRetry", "republishToError"}

(* Whether `handle` publishes anything before it returns (and so acks).    *)
Publishes(action) ==
    \/ action.kind \in {"republishToRetry", "republishToError"}
    \/ action = Act("ack", "handled") /\ AuditEnabled

(* The RetryCount header of a dead letter: finalRetryCount is set on the   *)
(* exhausted path only, the others keep the header of the delivery.        *)
LetterOf(j) ==
    [reason |-> j.action.reason, durable |-> TRUE,
     retries |-> IF j.action.reason = "retriesExhausted" THEN j.retries + 1 ELSE j.retries]

(* Seeded faults: a transient retry copy; RetryCount not incremented.      *)
RetryCopyTransient(j) ==
    [at |-> "parked", msg |-> j.msg, retries |-> j.retries + 1, durable |-> FALSE]
RetryCopySameCount(j) ==
    [at |-> "parked", msg |-> j.msg, retries |-> j.retries, durable |-> TRUE]

(* durable:true and the next RetryCount, straight to the retry queue.      *)
RetryCopyOf(j) ==
    [at |-> "parked", msg |-> j.msg, retries |-> j.retries + 1, durable |-> TRUE]

(* The broker puts back what was delivered to the slots in S.              *)
Requeued(S) ==
    [s \in Slot |-> IF s \in S THEN [copy[s] EXCEPT !.at = "queue"] ELSE copy[s]]
-----------------------------------------------------------------------------
Init ==
    /\ copy = [s \in Slot |-> Free]
    /\ jobs = {}
    /\ errorQueue = [m \in Msg |-> {}]
    /\ auditQueue = [m \in Msg |-> {}]
    /\ exchanges = "never"
    /\ consumer = [c \in Consumer |-> "down"]
    /\ published = {}
    /\ fate = [m \in Msg |-> {}]
    /\ failures = [m \in Msg |-> 0]
    /\ redelivered = {}
    /\ faults = 0
    /\ restarts = 0

(* start(): declares queues, exchanges and bindings, then consumes.        *)
Start(c) ==
    /\ consumer[c] = "down"
    /\ consumer' = [consumer EXCEPT ![c] = "started"]
    /\ exchanges' = "up"
    /\ UNCHANGED <<copy, jobs, errorQueue, auditQueue, history, redelivered, faults, restarts>>

(* stop(): no further deliveries; close() lets the running jobs finish.    *)
Stop(c) ==
    /\ consumer[c] = "started"
    /\ consumer' = [consumer EXCEPT ![c] = "stopped"]
    /\ UNCHANGED <<copy, jobs, errorQueue, auditQueue, exchanges, history,
                   redelivered, faults, restarts>>

(* The drained process exits; another one may take its place.              *)
Exit(c) ==
    /\ consumer[c] = "stopped"
    /\ \A j \in jobs : j.by # c
    /\ consumer' = [consumer EXCEPT ![c] = "down"]
    /\ UNCHANGED <<copy, jobs, errorQueue, auditQueue, exchanges, history,
                   redelivered, faults, restarts>>

(* A producer's persistent, confirmed message reaches the queue.           *)
Publish(m, s) ==
    /\ m \notin published
    /\ exchanges # "never"
    /\ ~Held(s)
    /\ copy' = [copy EXCEPT ![s] = [at |-> "queue", msg |-> m, retries |-> 0, durable |-> TRUE]]
    /\ published' = published \cup {m}
    /\ UNCHANGED <<jobs, errorQueue, auditQueue, exchanges, consumer, fate, failures,
                   redelivered, faults, restarts>>

(* The broker delivers a message: `handle` reads RetryCount and enters the *)
(* bus callback.                                                           *)
Deliver(c, s) ==
    /\ consumer[c] = "started"
    /\ Held(s) /\ copy[s].at = "queue"
    /\ Cardinality(LiveJobs(c)) < Prefetch
    /\ copy' = [copy EXCEPT ![s].at = "unacked"]
    /\ jobs' = jobs \cup {[slot |-> s, by |-> c, msg |-> copy[s].msg,
                           retries |-> copy[s].retries, stage |-> "callback",
                           action |-> Undecided, live |-> TRUE]}
    /\ UNCHANGED <<errorQueue, auditQueue, exchanges, consumer, history,
                   redelivered, faults, restarts>>

(* The callback returns, or throws, which counts as a non-terminal failure.*)
Decide(j, result) ==
    LET action == decideDispositionAction(result, j.retries)
        failed == ~result.notHandled /\ ~result.success /\ ~result.terminalFailure
        closed == CASE action.kind = "ack" -> {action.reason}
                    [] action.kind = "ackAndLog" -> {"logged"}
                    [] OTHER -> {}
    IN /\ j.stage = "callback"
       /\ jobs' = (jobs \ {j}) \cup
                  {[j EXCEPT !.action = action,
                             !.stage = IF Publishes(action) THEN "publish" ELSE "ack"]}
       /\ fate' = [fate EXCEPT ![j.msg] = @ \cup closed]
       /\ failures' = IF failed /\ failures[j.msg] < Attempts
                      THEN [failures EXCEPT ![j.msg] = @ + 1] ELSE failures
       /\ UNCHANGED <<copy, errorQueue, auditQueue, exchanges, consumer, published,
                      redelivered, faults, restarts>>

(* publisher.send of the retry copy, the dead letter or the audit copy.    *)
(* The error and audit exchanges have to exist; the retry queue is reached *)
(* through the default exchange, always there.                             *)
Reaches(j, base) ==
    \/ /\ j.action.kind = "republishToRetry"
       /\ \E s \in Slot : ~Held(s) /\ copy' = [base EXCEPT ![s] = RetryCopyOf(j)]
       /\ UNCHANGED <<errorQueue, auditQueue>>
    \/ /\ j.action.kind = "republishToError"
       /\ exchanges = "up"
       /\ errorQueue' = [errorQueue EXCEPT ![j.msg] = @ \cup {LetterOf(j)}]
       /\ copy' = base
       /\ UNCHANGED auditQueue
    \/ /\ j.action.kind = "ack"
       /\ exchanges = "up"
       /\ auditQueue' = [auditQueue EXCEPT ![j.msg] = @ \cup {TRUE}]
       /\ copy' = base
       /\ UNCHANGED errorQueue

Publishing(j) == j.stage = "publish"

(* The publish is confirmed; `handle` returns next.                        *)
PublishOk(j) ==
    /\ Publishing(j)
    /\ Reaches(j, copy)
    /\ jobs' = (jobs \ {j}) \cup {[j EXCEPT !.stage = "ack"]}
    /\ UNCHANGED <<exchanges, consumer, history, redelivered, faults, restarts>>

(* `handle` throws out of publisher.send: rabbitmq-client nacks with       *)
(* requeue, which a channel that is gone no longer carries.                *)
Nacked(j) ==
    /\ jobs' = jobs \ {j}
    /\ redelivered' = IF j.live THEN redelivered \cup {j.msg} ELSE redelivered

BackAfter(j) == IF j.live THEN Requeued({j.slot}) ELSE copy

(* The exchange is missing: the broker refuses the publish, every time.    *)
PublishUnroutable(j) ==
    /\ Publishing(j)
    /\ j.action.kind # "republishToRetry"
    /\ exchanges # "up"
    /\ Nacked(j)
    /\ copy' = BackAfter(j)
    /\ UNCHANGED <<errorQueue, auditQueue, exchanges, consumer, history, faults, restarts>>

(* A channel error fails the publish: the broker never saw it, or it did   *)
(* and only the confirm was lost.                                          *)
PublishFails(j) ==
    /\ Publishing(j)
    /\ faults < MaxFaults
    /\ faults' = faults + 1
    /\ Nacked(j)
    /\ \/ Reaches(j, BackAfter(j))
       \/ copy' = BackAfter(j) /\ UNCHANGED <<errorQueue, auditQueue>>
    /\ UNCHANGED <<exchanges, consumer, history, restarts>>

(* `handle` returned: rabbitmq-client acks, unless the channel is gone.    *)
Ack(j) ==
    /\ j.stage = "ack"
    /\ jobs' = jobs \ {j}
    /\ copy' = IF j.live THEN [copy EXCEPT ![j.slot] = Free] ELSE copy
    /\ UNCHANGED <<errorQueue, auditQueue, exchanges, consumer, history,
                   redelivered, faults, restarts>>

(* x-message-ttl expires: the retry queue dead-letters to the main queue.  *)
RetryDelayElapsed(s) ==
    /\ Held(s) /\ copy[s].at = "parked"
    /\ copy' = [copy EXCEPT ![s].at = "queue"]
    /\ UNCHANGED <<jobs, errorQueue, auditQueue, exchanges, consumer, history,
                   redelivered, faults, restarts>>
-----------------------------------------------------------------------------
(* The broker requeues everything unacknowledged on the channels of Cs.    *)
ChannelsClose(Cs) ==
    LET lost == {j \in jobs : j.live /\ j.by \in Cs}
    IN /\ copy' = Requeued({j.slot : j \in lost})
       /\ redelivered' = redelivered \cup {j.msg : j \in lost}

(* The connection drops while the process lives on: its jobs turn stale.   *)
ConnectionLost(c) ==
    /\ faults < MaxFaults
    /\ faults' = faults + 1
    /\ LiveJobs(c) # {}
    /\ ChannelsClose({c})
    /\ jobs' = {IF j.by = c THEN [j EXCEPT !.live = FALSE] ELSE j : j \in jobs}
    /\ UNCHANGED <<errorQueue, auditQueue, exchanges, consumer, history, restarts>>

Crash(c) ==
    /\ faults < MaxFaults
    /\ faults' = faults + 1
    /\ consumer[c] # "down"
    /\ consumer' = [consumer EXCEPT ![c] = "down"]
    /\ ChannelsClose({c})
    /\ jobs' = {j \in jobs : j.by # c}
    /\ UNCHANGED <<errorQueue, auditQueue, exchanges, history, restarts>>

(* A restart of the broker keeps durable queues and persistent messages.   *)
(* The error and audit exchanges are declared durable:false, and consumers *)
(* that reconnect do not run declareTopology again.                        *)
BrokerRestart ==
    /\ faults < MaxFaults /\ restarts < MaxRestarts
    /\ faults' = faults + 1 /\ restarts' = restarts + 1
    /\ exchanges = "up" /\ exchanges' = "lost"
    /\ copy' = [s \in Slot |->
                  IF ~Held(s) \/ ~copy[s].durable THEN Free
                  ELSE IF copy[s].at = "unacked" THEN [copy[s] EXCEPT !.at = "queue"]
                  ELSE copy[s]]
    /\ errorQueue' = [m \in Msg |-> {l \in errorQueue[m] : l.durable}]
    /\ auditQueue' = [m \in Msg |-> {d \in auditQueue[m] : d}]
    /\ redelivered' = redelivered \cup {j.msg : j \in {k \in jobs : k.live}}
    /\ jobs' = {[j EXCEPT !.live = FALSE] : j \in jobs}
    /\ UNCHANGED <<consumer, history>>
-----------------------------------------------------------------------------
JobStep(j) == PublishOk(j) \/ PublishUnroutable(j) \/ Ack(j)
                \/ \E result \in ConsumeResult : Decide(j, result)

Next ==
    \/ \E c \in Consumer : Start(c) \/ Stop(c) \/ Exit(c) \/ ConnectionLost(c) \/ Crash(c)
    \/ \E m \in Msg, s \in Slot : Publish(m, s)
    \/ \E c \in Consumer, s \in Slot : Deliver(c, s)
    \/ \E j \in jobs : JobStep(j) \/ PublishFails(j)
    \/ \E s \in Slot : RetryDelayElapsed(s)
    \/ BrokerRestart

Spec == Init /\ [][Next]_vars

(* A consumer that is down is started again by its host, the broker keeps  *)
(* delivering, callbacks return, confirms arrive, the TTL expires.         *)
Fairness ==
    /\ \A c \in Consumer : WF_vars(Start(c)) /\ WF_vars(Exit(c))
    /\ \A s \in Slot : /\ WF_vars(RetryDelayElapsed(s))
                       /\ SF_vars(\E c \in Consumer : Deliver(c, s))
    /\ \A s \in Slot, c \in Consumer :
         WF_vars(\E j \in jobs : j.slot = s /\ j.by = c /\ JobStep(j))

FairSpec == Spec /\ Fairness
-----------------------------------------------------------------------------
TypeOK ==
    /\ copy \in [Slot -> Copy \cup {Free}]
    /\ jobs \subseteq Job
    /\ errorQueue \in [Msg -> SUBSET Letter]
    /\ auditQueue \in [Msg -> SUBSET BOOLEAN]
    /\ exchanges \in {"never", "up", "lost"}
    /\ consumer \in [Consumer -> {"down", "started", "stopped"}]
    /\ published \subseteq Msg
    /\ fate \in [Msg -> SUBSET {"handled", "unhandled", "logged"}]
    /\ failures \in [Msg -> 0..Attempts]
    /\ redelivered \subseteq Msg
    /\ faults \in Nat
    /\ restarts \in Nat

(* What becomes of a message for good: a dead letter, or a closing run.    *)
Closed(m) == errorQueue[m] # {} \/ fate[m] # {}

(* No crash, lost channel, failed or duplicated republish and no restart   *)
(* of the broker makes a published message disappear: the broker still     *)
(* holds it, or it was dead-lettered, or a callback closed it.             *)
NoLoss == \A m \in published : Closed(m) \/ \E s \in Slot : HoldsMsg(s, m)

(* A message is dead-lettered as exhausted only after `maxRetries` failed  *)
(* attempts, and the RetryCount it carries says so, however many copies of *)
(* it redeliveries produced.                                               *)
DeadLetterJustified ==
    \A m \in Msg : \A l \in errorQueue[m] :
        l.reason = "retriesExhausted" => l.retries = Attempts /\ failures[m] = Attempts

(* Copies that still have a run of the callback ahead of them, or letters, *)
(* or closings: the places a message counts.                               *)
Acking(s) == \E j \in jobs : j.live /\ j.slot = s /\ j.stage # "callback"
                 /\ (j.stage = "ack" \/ j.action.kind = "ack")
Places(m) == ({"copy"} \X {s \in Slot : HoldsMsg(s, m) /\ ~Acking(s)})
               \cup ({"letter"} \X errorQueue[m]) \cup ({"fate"} \X fate[m])

(* Duplicates come from redelivery alone: a message the broker never had   *)
(* to requeue is in exactly one place, is processed once per RetryCount,   *)
(* and ends either closed once or dead-lettered once.                      *)
OnePlaceWithoutRedelivery ==
    \A m \in published \ redelivered :
        /\ Cardinality(Places(m)) = 1
        /\ \A s \in Slot : HoldsMsg(s, m) /\ ~(\E j \in jobs : j.slot = s)
                             => copy[s].retries = failures[m]

(* The audit queue mirrors successful processing only, and (while nothing  *)
(* is in flight) all of it, except what the broker has to redeliver.       *)
AuditMirrorsHandled ==
    \A m \in Msg :
        /\ auditQueue[m] # {} => "handled" \in fate[m]
        /\ (AuditEnabled /\ "handled" \in fate[m] /\ auditQueue[m] = {})
             => \/ \E j \in jobs : j.msg = m
                \/ m \in redelivered

(* Every published message is eventually closed and gone from the queues:  *)
(* error-handling.mdx, "After the final delivery fails, the framework      *)
(* publishes the message to the error queue".                              *)
EventuallySettled ==
    \A m \in Msg : m \in published ~> Closed(m) /\ \A s \in Slot : ~HoldsMsg(s, m)

(* error-handling.mdx:23 on its own: after the final delivery has failed,  *)
(* the message gets to the error queue (or is closed by another copy).     *)
FinalFailureDeadLettered ==
    \A m \in Msg : failures[m] = Attempts ~> Closed(m)
-----------------------------------------------------------------------------
(* What the sender sees of all this: which of its messages some queue      *)
(* still holds, and what became of them so far.                            *)
Outcomes == {"handled", "unhandled", "logged", "dead"}
Owed == {m \in Msg : \E s \in Slot : HoldsMsg(s, m)}
OutcomesOf == [m \in Msg |-> fate[m] \cup (IF errorQueue[m] # {} THEN {"dead"} ELSE {})]

Promise == INSTANCE AtLeastOnce
             WITH Outcome <- Outcomes, accepted <- published,
                  owed <- Owed, outcomes <- OutcomesOf

(* The transport implements the at-least-once promise of idempotency.mdx:  *)
(* no step forgets an owed message or takes an outcome back.               *)
ImplementsAtLeastOnce == Promise!Spec
=============================================================================
