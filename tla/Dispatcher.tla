----------------------------- MODULE Dispatcher -----------------------------
(***************************************************************************)
(* What the dispatcher of core/src/handlers/dispatch.ts does with one      *)
(* envelope (pipelines, the stream, reply, saga and aggregator branches,   *)
(* handlers, the result it reports), and the routing slip of core/src/     *)
(* routing that it forwards, hop by hop, over at-least-once delivery.      *)
(*                                                                         *)
(* A slot is an instance of a message in the queue of some host; a job is  *)
(* one call of `dispatch`, and it survives the channel its message came    *)
(* from.  The branches' own work is in Saga, Aggregator, Stream and        *)
(* RequestReply, the publishes behind a disposition are in Delivery: here  *)
(* a branch has an outcome and a disposition is one step.                  *)
(***************************************************************************)
EXTENDS Naturals, Sequences

CONSTANTS
    Msg,
    Host,                 \* queues with a service behind them
    Absent,               \* valid destinations that no queue exists for
    Invalid,              \* destinations validator.ts refuses, headers that do not parse
    Itineraries,          \* the destinations callers route messages through
    Registered,           \* hosts whose type registry knows the message type
    Sagas, Aggregators,   \* hosts with such a registration for the type
    Handlers,             \* Host -> number of handlers registered
    DeadLetterUnhandled,  \* options.deadLetterUnhandled
    Attempts,             \* deliveries before the error queue (Delivery)
    Slot, Worker,         \* bounds: instances, dispatches in progress
    MaxFaults             \* bound: crashes, lost channels, failed forwards

Dest == Host \cup Absent \cup Invalid

ASSUME DispatcherAssumption ==
    /\ Host \cap Absent = {} /\ Host \cap Invalid = {}
    /\ Itineraries \subseteq Seq(Dest)
    /\ Registered \subseteq Host
    /\ Handlers \in [Host -> Nat]
    /\ Attempts \in Nat \ {0} /\ MaxFaults \in Nat

VARIABLES
    copy,         \* Slot -> the instance the broker holds there
    jobs,         \* calls of `dispatch` in progress
    route,        \* history: Msg -> its itinerary, <<>> until it is sent
    kind,         \* Msg -> what its headers make of it
    done,         \* history: hops <<m, n>> processed with success
    started,      \* history: hops whose processing began
    repeated,     \* history: messages of which a hop began twice
    dead,         \* hops at which a message became a dead letter
    filtered,     \* history: messages a filter stopped before consumption
    forwardLost,  \* history: messages whose forward failed
    disturbed,    \* history: messages that failed, or met a fault
    faults

vars == <<copy, jobs, route, kind, done, started, repeated, dead, filtered,
          forwardLost, disturbed, faults>>
broker == <<copy, dead>>
callers == <<route, kind>>
progress == <<done, started, repeated>>
mishaps == <<filtered, forwardLost, disturbed, faults>>
-----------------------------------------------------------------------------
Free == [at |-> "free"]
Copy == [msg: Msg, at: Host, slip: Seq(Dest), tries: 0..Attempts - 1, held: BOOLEAN]

Results == {"none", "handled", "unhandled", "failed", "terminal", "thrown"}
Success == {"handled", "unhandled"}
Stages == {"before", "stream", "decode", "reply", "saga", "aggregator", "resolve",
           "handlers", "onSuccess", "forward", "after", "settle"}

(* The locals of `dispatch`, with what it has run so far.                  *)
Job == [slot: Slot, by: Worker, live: BOOLEAN, msg: Msg, at: Host, slip: Seq(Dest),
        tries: 0..Attempts - 1, stage: Stages, result: Results,
        ran: Nat, onSuccess: BOOLEAN, sentOn: BOOLEAN, afters: Nat]

NewCopy(m, at, slip, tries) ==
    [msg |-> m, at |-> at, slip |-> slip, tries |-> tries, held |-> FALSE]

(* The hop of its itinerary that a copy or a job is at.                    *)
Hop(c) == Len(route[c.msg]) - Len(c.slip)

Init ==
    /\ copy = [s \in Slot |-> Free]
    /\ jobs = {}
    /\ route = [m \in Msg |-> <<>>]
    /\ kind = [m \in Msg |-> "plain"]
    /\ done = {} /\ started = {} /\ repeated = {}
    /\ dead = {} /\ filtered = {} /\ forwardLost = {} /\ disturbed = {}
    /\ faults = 0

Fault == faults < MaxFaults /\ faults' = faults + 1

Becomes(j, k) == jobs' = (jobs \ {j}) \cup {k}
Goes(j, stage) == [j EXCEPT !.stage = stage]
Reports(j, result, stage) == [Goes(j, stage) EXCEPT !.result = result]
Disturb(j) == disturbed' = disturbed \cup {j.msg}
Succeed(j) == done' = done \cup {<<j.msg, Hop(j)>>}
Begin(j) ==
    /\ started' = started \cup {<<j.msg, Hop(j)>>}
    /\ repeated' = IF <<j.msg, Hop(j)>> \in started THEN repeated \cup {j.msg} ELSE repeated
-----------------------------------------------------------------------------
(* Which of the free slots an instance takes makes no difference.          *)
Takes(s) == copy[s] = Free /\ s = CHOOSE t \in Slot : copy[t] = Free

Sends(m, r, s) ==
    /\ route[m] = <<>> /\ Takes(s)
    /\ r # <<>> /\ Head(r) \in Host
    /\ copy' = [copy EXCEPT ![s] = NewCopy(m, Head(r), Tail(r), 0)]
    /\ route' = [route EXCEPT ![m] = r]
    /\ UNCHANGED <<jobs, dead, progress, mishaps>>

(* bus.route: every destination is validated before anything is sent.      *)
Route(m, r, s) ==
    /\ \A i \in DOMAIN r : r[i] \notin Invalid
    /\ Sends(m, r, s)
    /\ UNCHANGED kind

(* The header set by hand on an ordinary send: nothing looks at it.        *)
SendWithSlip(m, r, s) ==
    /\ \E i \in DOMAIN r : r[i] \in Invalid
    /\ Sends(m, r, s)
    /\ UNCHANGED kind

(* Stream chunks and replies carry no slip.                                *)
SendOther(m, k, h, s) ==
    /\ Sends(m, <<h>>, s)
    /\ kind' = [kind EXCEPT ![m] = k]

(* Nor which of the idle workers.                                          *)
IsIdle(w) == /\ \A j \in jobs : j.by # w
             /\ w = CHOOSE v \in Worker : \A j \in jobs : j.by # v

(* Step 1: an unknown type is reported at once, nothing runs.              *)
Deliver(w, s) ==
    /\ copy[s] # Free /\ ~copy[s].held
    /\ IsIdle(w)
    /\ copy' = [copy EXCEPT ![s].held = TRUE]
    /\ LET known == copy[s].at \in Registered IN
       jobs' = jobs \cup
         {[slot |-> s, by |-> w, live |-> TRUE, msg |-> copy[s].msg, at |-> copy[s].at,
           slip |-> copy[s].slip, tries |-> copy[s].tries,
           stage |-> IF known THEN "before" ELSE "settle",
           result |-> IF known THEN "none" ELSE "unhandled",
           ran |-> 0, onSuccess |-> FALSE, sentOn |-> FALSE, afters |-> 0]}
    /\ UNCHANGED <<dead, callers, progress, mishaps>>
-----------------------------------------------------------------------------
(* composeMiddleware: throws as a middleware does, and when next() is      *)
(* called twice; ends well also when a middleware does not call next().    *)
MiddlewareVerdicts == {"continue", "throw"}

(* FilterPipeline.execute: the filters first, any of which may stop it.    *)
Verdicts == {"stop"} \cup MiddlewareVerdicts

(* Seeded fault: the clean Stop returns without afterConsuming.            *)
BeforeStopReturnsAtOnce(j) ==
    /\ j.stage = "before"
    /\ \E v \in Verdicts :
         /\ Becomes(j, CASE v = "continue" -> Goes(j, "stream")
                         [] v = "stop" -> Reports(j, "handled", "settle")
                         [] v = "throw" -> Reports(j, "failed", "after"))
         /\ filtered' = IF v = "stop" THEN filtered \cup {j.msg} ELSE filtered
         /\ disturbed' = IF v = "throw" THEN disturbed \cup {j.msg} ELSE disturbed
    /\ UNCHANGED <<broker, callers, progress, forwardLost, faults>>

(* Step 2: a Stop is reported as success, a throw as a failure.            *)
BeforeConsuming(j) ==
    /\ j.stage = "before"
    /\ \E v \in Verdicts :
         /\ Becomes(j, CASE v = "continue" -> Goes(j, "stream")
                         [] v = "stop" -> Reports(j, "handled", "after")
                         [] v = "throw" -> Reports(j, "failed", "after"))
         /\ filtered' = IF v = "stop" THEN filtered \cup {j.msg} ELSE filtered
         /\ disturbed' = IF v = "throw" THEN disturbed \cup {j.msg} ELSE disturbed
    /\ UNCHANGED <<broker, callers, progress, forwardLost, faults>>

(* A branch rejects, and with it `dispatch`: neither the forward nor       *)
(* afterConsuming is reached.                                              *)
Throws(j) ==
    /\ \/ j.stage = "stream" /\ kind[j.msg] = "chunk"
       \/ j.stage = "saga" /\ j.at \in Sagas
       \/ j.stage = "aggregator" /\ j.at \in Aggregators
       \/ j.stage = "resolve" /\ Handlers[j.at] > 0
    /\ Becomes(j, Reports(j, "thrown", "settle"))
    /\ Disturb(j)
    /\ UNCHANGED <<broker, callers, progress, filtered, forwardLost, faults>>

(* Only envelopes with a stream id: pushed, or refused for good.           *)
StreamBranch(j) ==
    /\ j.stage = "stream"
    /\ \/ /\ kind[j.msg] # "chunk"
          /\ Becomes(j, Goes(j, "decode"))
          /\ UNCHANGED <<progress, disturbed>>
       \/ /\ kind[j.msg] = "chunk"
          /\ Becomes(j, Reports(j, "handled", "after"))
          /\ Succeed(j)
          /\ UNCHANGED <<started, repeated, disturbed>>
       \/ /\ kind[j.msg] = "chunk"
          /\ Becomes(j, Reports(j, "terminal", "after"))
          /\ Disturb(j)
          /\ UNCHANGED progress
    /\ UNCHANGED <<broker, callers, filtered, forwardLost, faults>>

(* Step 3: malformed and invalid bodies are terminal, other errors of a    *)
(* serializer are not.                                                     *)
Deserialize(j) ==
    /\ j.stage = "decode"
    /\ \/ /\ Becomes(j, Goes(j, "reply"))
          /\ UNCHANGED disturbed
       \/ /\ \E r \in {"terminal", "failed"} : Becomes(j, Reports(j, r, "after"))
          /\ Disturb(j)
    /\ UNCHANGED <<broker, callers, progress, filtered, forwardLost, faults>>

(* A reply whose request is pending goes to the manager and no further.    *)
ReplyBranch(j) ==
    /\ j.stage = "reply"
    /\ \/ /\ Becomes(j, Goes(j, "saga"))
          /\ UNCHANGED done
       \/ /\ kind[j.msg] = "reply"
          /\ Becomes(j, Reports(j, "handled", "after"))
          /\ Succeed(j)
    /\ UNCHANGED <<broker, callers, started, repeated, mishaps>>
-----------------------------------------------------------------------------
(* Seeded faults: the exit of the branch forgets the forward; the outcome  *)
(* of the branch is not looked at and the handlers run as well.            *)
SagaBranchDropsSlip(j) ==
    /\ j.stage = "saga"
    /\ \/ /\ j.at \notin Sagas
          /\ Becomes(j, Goes(j, "aggregator"))
          /\ UNCHANGED <<progress, disturbed>>
       \/ /\ j.at \in Sagas
          /\ Becomes(j, Reports(j, "unhandled", "after"))
          /\ Succeed(j)
          /\ UNCHANGED <<started, repeated, disturbed>>
       \/ /\ j.at \in Sagas
          /\ Becomes(j, Reports(j, "handled", "after"))
          /\ Begin(j) /\ Succeed(j)
          /\ UNCHANGED disturbed
       \/ /\ j.at \in Sagas
          /\ Becomes(j, Reports(j, "failed", "forward"))
          /\ Begin(j) /\ Disturb(j)
          /\ UNCHANGED done
    /\ UNCHANGED <<broker, callers, filtered, forwardLost, faults>>
SagaBranchFallsThrough(j) ==
    /\ j.stage = "saga"
    /\ \/ /\ j.at \notin Sagas
          /\ Becomes(j, Goes(j, "aggregator"))
          /\ UNCHANGED <<progress, disturbed>>
       \/ /\ j.at \in Sagas
          /\ Becomes(j, Goes(j, "resolve"))
          /\ Begin(j)
          /\ UNCHANGED <<done, disturbed>>
    /\ UNCHANGED <<broker, callers, filtered, forwardLost, faults>>

(* A host with a saga registered for the type never gets to its handlers:  *)
(* the branch answers for all its registrations, also when none applied.   *)
SagaBranch(j) ==
    /\ j.stage = "saga"
    /\ \/ /\ j.at \notin Sagas
          /\ Becomes(j, Goes(j, "aggregator"))
          /\ UNCHANGED <<progress, disturbed>>
       \/ /\ j.at \in Sagas
          /\ Becomes(j, Reports(j, "unhandled", "forward"))
          /\ Succeed(j)
          /\ UNCHANGED <<started, repeated, disturbed>>
       \/ /\ j.at \in Sagas
          /\ Becomes(j, Reports(j, "handled", "forward"))
          /\ Begin(j) /\ Succeed(j)
          /\ UNCHANGED disturbed
       \/ /\ j.at \in Sagas
          /\ Becomes(j, Reports(j, "failed", "forward"))
          /\ Begin(j) /\ Disturb(j)
          /\ UNCHANGED done
    /\ UNCHANGED <<broker, callers, filtered, forwardLost, faults>>

AggregatorBranch(j) ==
    /\ j.stage = "aggregator"
    /\ \/ /\ j.at \notin Aggregators
          /\ Becomes(j, Goes(j, "resolve"))
          /\ UNCHANGED <<progress, disturbed>>
       \/ /\ j.at \in Aggregators
          /\ Becomes(j, Reports(j, "handled", "forward"))
          /\ Begin(j) /\ Succeed(j)
          /\ UNCHANGED disturbed
       \/ /\ j.at \in Aggregators
          /\ Becomes(j, Reports(j, "failed", "forward"))
          /\ Begin(j) /\ Disturb(j)
          /\ UNCHANGED done
    /\ UNCHANGED <<broker, callers, filtered, forwardLost, faults>>

(* Step 4: a passive hop, or handlers to run.                              *)
ResolveHandlers(j) ==
    /\ j.stage = "resolve"
    /\ \/ /\ Handlers[j.at] = 0
          /\ Becomes(j, Reports(j, "unhandled", "forward"))
          /\ Succeed(j)
          /\ UNCHANGED <<started, repeated>>
       \/ /\ Handlers[j.at] > 0
          /\ Becomes(j, Goes(j, "handlers"))
          /\ Begin(j)
          /\ UNCHANGED done
    /\ UNCHANGED <<broker, callers, mishaps>>

(* Step 5: one after the other; the first that throws ends the loop.       *)
HandlerReturns(j) ==
    /\ j.stage = "handlers"
    /\ Becomes(j, [Goes(j, IF j.ran + 1 < Handlers[j.at] THEN "handlers" ELSE "onSuccess")
                     EXCEPT !.ran = @ + 1])
    /\ UNCHANGED <<broker, callers, progress, mishaps>>

HandlerThrows(j) ==
    /\ j.stage = "handlers"
    /\ Becomes(j, Reports(j, "failed", "forward"))
    /\ Disturb(j)
    /\ UNCHANGED <<broker, callers, progress, filtered, forwardLost, faults>>

(* Step 6: only after all handlers; its Stop is ignored, its throw is a    *)
(* failure of the message.                                                 *)
OnConsumedSuccessfully(j) ==
    /\ j.stage = "onSuccess"
    /\ \E v \in Verdicts :
         \/ /\ v # "throw"
            /\ Becomes(j, [Reports(j, "handled", "forward") EXCEPT !.onSuccess = TRUE])
            /\ Succeed(j)
            /\ UNCHANGED disturbed
         \/ /\ v = "throw"
            /\ Becomes(j, [Reports(j, "failed", "forward") EXCEPT !.onSuccess = TRUE])
            /\ Disturb(j)
            /\ UNCHANGED done
    /\ UNCHANGED <<broker, callers, started, repeated, filtered, forwardLost, faults>>
-----------------------------------------------------------------------------
(* forwardRoutingSlipIfPresent: whether there is a hop to send to.         *)
Forwards(j) == j.result \in Success /\ j.slip # <<>> /\ Head(j.slip) \notin Invalid

(* Nothing to forward, or nobody to forward to: warned about and dropped.  *)
NoForward(j) ==
    /\ j.stage = "forward"
    /\ ~Forwards(j)
    /\ Becomes(j, Goes(j, "after"))
    /\ UNCHANGED <<broker, callers, progress, mishaps>>

(* Seeded fault: the slip keeps the hop it was sent to.                    *)
ForwardKeepsHead(j, s) ==
    /\ j.stage = "forward"
    /\ Forwards(j)
    /\ \/ /\ Head(j.slip) \in Host /\ Takes(s)
          /\ copy' = [copy EXCEPT ![s] = NewCopy(j.msg, Head(j.slip), j.slip, 0)]
       \/ /\ Head(j.slip) \in Absent
          /\ UNCHANGED copy
    /\ Becomes(j, [Goes(j, "after") EXCEPT !.sentOn = TRUE])
    /\ UNCHANGED <<dead, callers, progress, mishaps>>

(* The body to the next destination, the rest of the slip with it.  The    *)
(* broker confirms and drops what is sent to a queue that does not exist.  *)
(* When the confirm of a send that arrived is lost, the error is swallowed *)
(* and the dispatch goes on just the same.                                 *)
Forward(j, s) ==
    /\ j.stage = "forward"
    /\ Forwards(j)
    /\ \/ /\ Head(j.slip) \in Host /\ Takes(s)
          /\ copy' = [copy EXCEPT ![s] = NewCopy(j.msg, Head(j.slip), Tail(j.slip), 0)]
       \/ /\ Head(j.slip) \in Absent
          /\ UNCHANGED copy
    /\ Becomes(j, [Goes(j, "after") EXCEPT !.sentOn = TRUE])
    /\ UNCHANGED <<dead, callers, progress, mishaps>>

(* maybeForward swallows the error of the send; the result stands.         *)
ForwardFails(j) ==
    /\ j.stage = "forward"
    /\ Forwards(j)
    /\ Fault
    /\ Becomes(j, Goes(j, "after"))
    /\ forwardLost' = forwardLost \cup {j.msg}
    /\ UNCHANGED <<broker, callers, progress, filtered, disturbed>>

(* Step 7, runAfterSafe: whatever the pipeline does, the result stands.    *)
AfterConsuming(j) ==
    /\ j.stage = "after"
    /\ Becomes(j, [Goes(j, "settle") EXCEPT !.afters = @ + 1])
    /\ UNCHANGED <<broker, callers, progress, mishaps>>
-----------------------------------------------------------------------------
(* Seeded fault: the retried instance keeps its RetryCount.                *)
RetriedSameCount(c) == NewCopy(c.msg, c.at, c.slip, c.tries)

(* The instance in the retry queue, all headers kept.                      *)
Retried(c) == NewCopy(c.msg, c.at, c.slip, c.tries + 1)

(* decideDispositionAction, as far as it decides on the error queue.       *)
DeadLettered(j) ==
    \/ j.result = "unhandled" /\ DeadLetterUnhandled
    \/ j.result = "terminal"
    \/ j.result \in {"failed", "thrown"} /\ j.tries + 1 >= Attempts

(* The consumer disposes of the message by the result.  A job whose        *)
(* channel is gone cannot ack, but republishes all the same.               *)
Settle(j, s) ==
    /\ j.stage = "settle"
    /\ jobs' = jobs \ {j}
    /\ IF j.live THEN s = j.slot ELSE Takes(s)
    /\ copy' = [copy EXCEPT ![s] =
                  IF j.result \in {"failed", "thrown"} /\ ~DeadLettered(j)
                  THEN Retried(j) ELSE Free]
    /\ dead' = IF DeadLettered(j) THEN dead \cup {<<j.msg, Hop(j)>>} ELSE dead
    /\ UNCHANGED <<callers, progress, mishaps>>

(* The broker requeues what was delivered to the lost job.                 *)
Requeue(j) == [copy EXCEPT ![j.slot].held = FALSE]

(* The channel is lost: the job goes on.                                   *)
ChannelLost(j) ==
    /\ j.live
    /\ Fault
    /\ Becomes(j, [j EXCEPT !.live = FALSE])
    /\ copy' = Requeue(j)
    /\ Disturb(j)
    /\ UNCHANGED <<dead, callers, progress, filtered, forwardLost>>

(* The host dies, and the job with it.                                     *)
Crash(j) ==
    /\ Fault
    /\ jobs' = jobs \ {j}
    /\ copy' = IF j.live THEN Requeue(j) ELSE copy
    /\ Disturb(j)
    /\ UNCHANGED <<dead, callers, progress, filtered, forwardLost>>
-----------------------------------------------------------------------------
JobStep(j) ==
    \/ BeforeConsuming(j) \/ Throws(j)
    \/ StreamBranch(j) \/ Deserialize(j) \/ ReplyBranch(j)
    \/ SagaBranch(j) \/ AggregatorBranch(j) \/ ResolveHandlers(j)
    \/ HandlerReturns(j) \/ HandlerThrows(j) \/ OnConsumedSuccessfully(j)
    \/ NoForward(j) \/ AfterConsuming(j)
    \/ \E s \in Slot : Forward(j, s) \/ Settle(j, s)

Next ==
    \/ \E m \in Msg, s \in Slot :
         \/ \E r \in Itineraries : Route(m, r, s) \/ SendWithSlip(m, r, s)
         \/ \E k \in {"chunk", "reply"}, h \in Host : SendOther(m, k, h, s)
    \/ \E w \in Worker, s \in Slot : Deliver(w, s)
    \/ \E j \in jobs : JobStep(j) \/ ForwardFails(j) \/ ChannelLost(j) \/ Crash(j)

Spec == Init /\ [][Next]_vars

(* The broker delivers, and what a job awaits comes to an end.             *)
Fairness ==
    /\ \A s \in Slot : WF_vars(\E w \in Worker : Deliver(w, s))
    /\ \A w \in Worker : WF_vars(\E j \in jobs : j.by = w /\ JobStep(j))

FairSpec == Spec /\ Fairness
-----------------------------------------------------------------------------
TypeOK ==
    /\ copy \in [Slot -> Copy \cup {Free}]
    /\ jobs \subseteq Job
    /\ route \in [Msg -> Seq(Dest)]
    /\ kind \in [Msg -> {"plain", "chunk", "reply"}]
    /\ done \subseteq Msg \X Nat /\ started \subseteq Msg \X Nat
    /\ dead \subseteq Msg \X Nat
    /\ repeated \cup filtered \cup forwardLost \cup disturbed \subseteq Msg
    /\ faults \in Nat

(* What is in a queue or being processed.                                  *)
Instances == {copy[s] : s \in {t \in Slot : copy[t] # Free}} \cup jobs

(* routing-slip.mdx: "visits discounts, then tax, then shipping": however  *)
(* often a message is redelivered, an instance of it is at the hop its     *)
(* slip says, and every hop before was processed with success.             *)
HopsInOrder ==
    \A c \in Instances :
        /\ Hop(c) \in DOMAIN route[c.msg] /\ c.at = route[c.msg][Hop(c)]
        /\ \A n \in 1..Hop(c) - 1 : <<c.msg, n>> \in done

(* The reasons for which a message ends before its last hop.               *)
Unroutable(m) ==
    \E n \in 1..Len(route[m]) - 1 : <<m, n>> \in done /\ route[m][n + 1] \notin Host
TypeUnknown(m) ==
    \E n \in DOMAIN route[m] : route[m][n] \in Host \ Registered /\ <<m, n - 1>> \in done \cup {<<m, 0>>}
Accounted(m) ==
    \/ <<m, Len(route[m])>> \in done
    \/ m \in filtered \cup forwardLost
    \/ \E n \in DOMAIN route[m] : <<m, n>> \in dead
    \/ Unroutable(m) \/ TypeUnknown(m)

(* A routed message is still in some queue, or has arrived, or is a dead   *)
(* letter, or ended for one of the reasons above: no exit of the           *)
(* dispatcher acks it with the rest of its itinerary forgotten, whichever  *)
(* branch took it and whatever was redelivered.                            *)
ItineraryKept ==
    \A m \in Msg : route[m] # <<>> =>
        Accounted(m) \/ \E s \in Slot : copy[s] # Free /\ copy[s].msg = m

(* Which stages one call has run when it reports: afterConsuming exactly   *)
(* once unless the type was unknown or a branch threw (filters.mdx:52 says *)
(* unconditionally), onConsumedSuccessfully only when every handler        *)
(* returned, the forward only together with a result that is success.      *)
StagesAgree ==
    \A j \in jobs :
        /\ j.stage = "settle" =>
             j.afters = (IF j.at \in Registered /\ j.result # "thrown" THEN 1 ELSE 0)
        /\ j.onSuccess => j.ran = Handlers[j.at]
        /\ j.sentOn => j.result \in Success

(* Undisturbed by failures and faults, a message is processed once at each *)
(* hop (by the saga, the aggregator or the handlers) and never in two      *)
(* places at a time.                                                       *)
OnceUndisturbed ==
    \A m \in Msg \ disturbed :
        /\ m \notin repeated
        /\ \A s, t \in Slot : s # t /\ copy[s] # Free /\ copy[t] # Free
              /\ copy[s].msg = m /\ copy[t].msg = m =>
                \E j \in jobs : j.msg = m /\ j.slot \in {s, t} /\ j.sentOn

(* Every routed message comes to rest: none circles between queues and     *)
(* dispatcher for ever.                                                    *)
EveryRouteEnds ==
    \A m \in Msg : route[m] # <<>> ~>
        (\A s \in Slot : copy[s] # Free => copy[s].msg # m) /\ (\A j \in jobs : j.msg # m)
=============================================================================
