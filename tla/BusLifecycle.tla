----------------------------- MODULE BusLifecycle -----------------------------
(***************************************************************************)
(* start and stop of a bus (bus.ts), the consumer and the timers they own, *)
(* and what runs meanwhile: handlers of messages and of streams, requests  *)
(* that they make, ticks of the timeout pollers and of the aggregator's    *)
(* flush timer.  What a message, a tick or a request does is in the other  *)
(* modules; here they only begin and end.                                  *)
(*                                                                         *)
(* A bus with an aggregator, and a transport of its own.  The producer's   *)
(* connection is open until it is closed.                                  *)
(*                                                                         *)
(* BusProofs extends this module and RequestReply, the other specification *)
(* of bus.ts: hence BusInit, BusNext and BusSpec.                          *)
(***************************************************************************)
EXTENDS Naturals, FiniteSetsExt

CONSTANTS
    StartCall,    \* calls of start
    Store,        \* distinctTimeoutStores: one poller for each
    Flush,        \* the aggregator's flush timer
    Delivery,     \* messages with a handler that may make a request
    Stream,       \* streams, each with its handler
    MaxTicks,     \* bound: ticks of all timers
    MaxFaults     \* bound: failures of the broker and the connection

Kind == Store \cup {Flush}
Timer == StartCall \X Kind
Job == Delivery \cup Stream
Tick == 1..MaxTicks

ASSUME LifecycleAssumption ==
    /\ Flush \notin Store /\ Delivery \cap Stream = {}
    /\ MaxTicks \in Nat /\ MaxFaults \in Nat

VARIABLES
    started, stopped,  \* _started, _stopped
    starts,            \* Call -> how far it is
    stop,              \* how far the first call of stop is; others return at once
    on,                \* timers whose interval is set
    pollers,           \* timeoutPollers
    flushTimer,        \* aggregatorFlushTimer: none or one
    begun,             \* history: calls of start that have made timers
    running,           \* <<t, n>>: tick n, of timer t, is under way
    last,              \* Timer -> its latest tick, `inflight` of the flush timer
    entered, created,  \* the consumer's `started`, and its `consumer`
    consuming, cancelled,  \* its flags, from which isConnected is computed
    connection,        \* its connection
    attached,          \* the broker delivers to it
    rejoining,         \* history: was attached when the connection was lost
    jobs,              \* Job -> its handler
    refused,           \* history: jobs whose request was rejected by shutdown
    closed,            \* the producer has been disposed of
    faults

calls == <<started, starts>>
teardown == <<stopped, stop, closed>>
timers == <<on, pollers, flushTimer, begun>>
ticks == <<running, last>>
flags == <<entered, created, consuming, cancelled>>
link == <<connection, attached, rejoining>>
work == <<jobs, refused>>
busVars == <<calls, teardown, timers, ticks, flags, link, work, faults>>
-----------------------------------------------------------------------------
(* A call of start is "declaring" the topology, then "waiting" for the     *)
(* consumer's first event.  stop waits for the consumer ("closing"), its   *)
(* connection ("disposing"), the ticks ("pollers", "flush"), the streams   *)
(* ("draining") and the producer.  A handler is "running", "asking" for a  *)
(* reply, or "waiting" for the next chunk.                                 *)
Active(j) == jobs[j] \in {"running", "asking", "waiting"}

BusInit ==
    /\ started = FALSE /\ starts = [s \in StartCall |-> "none"]
    /\ stopped = FALSE /\ stop = "none" /\ closed = FALSE
    /\ on = {} /\ pollers = {} /\ flushTimer = {} /\ begun = {}
    /\ running = {} /\ last = [t \in Timer |-> 0]
    /\ entered = FALSE /\ created = FALSE /\ consuming = FALSE /\ cancelled = FALSE
    /\ connection = "lost" /\ attached = FALSE /\ rejoining = FALSE
    /\ jobs = [j \in Job |-> "none"] /\ refused = {}
    /\ faults = 0

Fault == faults < MaxFaults /\ faults' = faults + 1
StartGoes(s, stage) == starts' = [starts EXCEPT ![s] = stage]
JobGoes(j, stage) == jobs' = [jobs EXCEPT ![j] = stage]
-----------------------------------------------------------------------------
(* Which of the unused calls it is makes no difference.                    *)
NextCall(s) == starts[s] = "none" /\ s = CHOOSE d \in StartCall : starts[d] = "none"

StartStopped(s) ==
    /\ NextCall(s) /\ stopped
    /\ StartGoes(s, "rejected")
    /\ UNCHANGED <<started, teardown, timers, ticks, flags, link, work, faults>>

StartAgain(s) ==
    /\ NextCall(s) /\ started /\ ~stopped
    /\ StartGoes(s, "resolved")
    /\ UNCHANGED <<started, teardown, timers, ticks, flags, link, work, faults>>

(* Seeded fault: the pollers of this call replace those there are.         *)
StartBusForgets(s) ==
    /\ NextCall(s) /\ ~started /\ ~stopped
    /\ on' = on \cup ({s} \X Kind)
    /\ pollers' = {s} \X Store
    /\ flushTimer' = {<<s, Flush>>} /\ begun' = begun \cup {s}
    /\ entered' = TRUE
    /\ StartGoes(s, IF entered THEN "rejected" ELSE "declaring")
    /\ UNCHANGED <<started, teardown, ticks, created, consuming, cancelled, link, work, faults>>

(* Up to the first await, in declareTopology.  The timers tick from here   *)
(* on, and the consumer refuses to be started twice.                       *)
StartBus(s) ==
    /\ NextCall(s) /\ ~started /\ ~stopped
    /\ on' = on \cup ({s} \X Kind)
    /\ pollers' = pollers \cup ({s} \X Store)
    /\ flushTimer' = {<<s, Flush>>} /\ begun' = begun \cup {s}
    /\ entered' = TRUE
    /\ StartGoes(s, IF entered THEN "rejected" ELSE "declaring")
    /\ UNCHANGED <<started, teardown, ticks, created, consuming, cancelled, link, work, faults>>

Declared(s) ==
    /\ starts[s] = "declaring" /\ connection = "ready"
    /\ created' = TRUE
    /\ StartGoes(s, "waiting")
    /\ UNCHANGED <<started, teardown, timers, ticks, entered, consuming, cancelled, link, work, faults>>

(* The broker refuses, or stop has closed the connection.                  *)
DeclareFails(s) ==
    /\ starts[s] = "declaring"
    /\ IF connection = "closed" THEN UNCHANGED faults ELSE Fault
    /\ StartGoes(s, "rejected")
    /\ UNCHANGED <<started, teardown, timers, ticks, flags, link, work>>

Waiting == {s \in StartCall : starts[s] = "waiting"}
-----------------------------------------------------------------------------
(* The client library has the consumer attached: at first, and again after *)
(* a reconnection or a cancellation.  A start that has rejected does not   *)
(* keep it from trying.                                                    *)
Joining == created /\ ~attached /\ stop = "none"

(* The event "ready".                                                      *)
Ready ==
    /\ Joining /\ connection = "ready"
    /\ attached' = TRUE /\ rejoining' = FALSE
    /\ consuming' = TRUE /\ cancelled' = FALSE
    /\ starts' = [s \in StartCall |-> IF s \in Waiting THEN "resolved" ELSE starts[s]]
    /\ started' = (started \/ Waiting # {})
    /\ UNCHANGED <<teardown, timers, ticks, entered, created, connection, work, faults>>

(* Seeded fault: the event does not reset what the last "ready" has set.   *)
ErrorKeepsConsuming ==
    /\ consuming' = consuming
    /\ cancelled' = cancelled
    /\ starts' = [s \in StartCall |-> IF s \in Waiting THEN "rejected" ELSE starts[s]]

(* The event "error".                                                      *)
ErrorEvent ==
    /\ consuming' = FALSE
    /\ cancelled' = (cancelled \/ consuming)
    /\ starts' = [s \in StartCall |-> IF s \in Waiting THEN "rejected" ELSE starts[s]]

(* The broker refuses, or no channel is to be had in time, the connection  *)
(* being lost.  What a consumer made on a connection that closes does is up*)
(* to the client library.                                                  *)
SetupFails ==
    /\ \/ Joining /\ Fault
       \/ connection = "closed" /\ Waiting # {} /\ UNCHANGED faults
    /\ ErrorEvent
    /\ rejoining' = FALSE
    /\ UNCHANGED <<started, teardown, timers, ticks, entered, created, connection, attached, work>>

(* The queue has been deleted, for instance.                               *)
BrokerCancels ==
    /\ attached /\ Fault
    /\ ErrorEvent
    /\ attached' = FALSE
    /\ UNCHANGED <<started, teardown, timers, ticks, entered, created, connection, rejoining, work>>

(* No event of the consumer comes with either.                             *)
Connects ==
    /\ connection = "lost"
    /\ connection' = "ready"
    /\ UNCHANGED <<calls, teardown, timers, ticks, flags, attached, rejoining, work, faults>>

ConnectionLost ==
    /\ connection = "ready" /\ Fault
    /\ connection' = "lost" /\ attached' = FALSE
    /\ rejoining' = (rejoining \/ attached)
    /\ UNCHANGED <<calls, teardown, timers, ticks, flags, work>>
-----------------------------------------------------------------------------
JobStep(j, stage) ==
    /\ JobGoes(j, stage)
    /\ UNCHANGED <<calls, teardown, timers, ticks, flags, link, refused, faults>>

(* A delivery calls its handler; the first chunk that of its stream.       *)
Delivered(j) == attached /\ jobs[j] = "none" /\ JobStep(j, "running")

(* Seeded fault: a stopped bus does not time requests out.                 *)
TimesOutUnlessStopped(j) == jobs[j] = "asking" /\ ~stopped /\ JobStep(j, "running")

(* The reply is a delivery too; without it the request times out.          *)
Asks(j) == jobs[j] = "running" /\ JobStep(j, "asking")
Answered(j) == jobs[j] = "asking" /\ attached /\ JobStep(j, "running")
TimesOut(j) == jobs[j] = "asking" /\ JobStep(j, "running")

AwaitsChunk(j) == j \in Stream /\ jobs[j] = "running" /\ JobStep(j, "waiting")
Chunk(j) == jobs[j] = "waiting" /\ attached /\ JobStep(j, "running")
Ends(j) == jobs[j] = "running" /\ JobStep(j, "done")

(* An interval elapses.  A poller skips it while a tick is under way; the  *)
(* flush timer does not, and then knows only of its latest tick.           *)
TickBegins(t) ==
    LET n == 1 + Max({last[u] : u \in Timer}) IN
    /\ t \in on /\ n \in Tick
    /\ t[2] \in Store => \A r \in running : r[1] # t
    /\ running' = running \cup {<<t, n>>}
    /\ last' = [last EXCEPT ![t] = n]
    /\ UNCHANGED <<calls, teardown, timers, flags, link, work, faults>>

TickEnds(r) ==
    /\ running' = running \ {r}
    /\ UNCHANGED <<calls, teardown, timers, last, flags, link, work, faults>>
-----------------------------------------------------------------------------
Teardown(from, to) ==
    /\ stop = from /\ stop' = to
    /\ UNCHANGED <<calls, begun, ticks, entered, created, consuming, cancelled, rejoining, faults>>

(* Nothing to close while start declares.  The broker delivers no more.    *)
StopBus ==
    /\ Teardown("none", IF created THEN "closing" ELSE "disposing")
    /\ stopped' = TRUE /\ attached' = FALSE
    /\ UNCHANGED <<pollers, closed, on, flushTimer, connection, work>>

(* Seeded fault: it does not wait for the handlers.                        *)
ConsumerClosesAtOnce ==
    /\ Teardown("closing", "disposing")
    /\ UNCHANGED <<pollers, stopped, closed, on, flushTimer, connection, attached, work>>

(* consumer.close ends when the callbacks have.                            *)
ConsumerCloses ==
    /\ \A d \in Delivery : ~Active(d)
    /\ Teardown("closing", "disposing")
    /\ UNCHANGED <<pollers, stopped, closed, on, flushTimer, connection, attached, work>>

(* The end of asyncDispose; stop of each poller clears its interval.       *)
ConnectionCloses ==
    /\ Teardown("disposing", "pollers")
    /\ connection' = "closed"
    /\ on' = on \ pollers
    /\ UNCHANGED <<pollers, stopped, closed, flushTimer, attached, work>>

PollersStop ==
    /\ \A r \in running : r[1] \notin pollers
    /\ Teardown("pollers", "flush")
    /\ pollers' = {} /\ on' = on \ flushTimer
    /\ UNCHANGED <<stopped, closed, flushTimer, connection, attached, work>>

(* The latest tick only; then shutdown, which rejects what is pending.     *)
FlushStops ==
    /\ \A t \in flushTimer : <<t, last[t]>> \notin running
    /\ Teardown("flush", "draining")
    /\ flushTimer' = {}
    /\ jobs' = [j \in Job |-> IF jobs[j] = "asking" THEN "running" ELSE jobs[j]]
    /\ refused' = refused \cup {j \in Job : jobs[j] = "asking"}
    /\ UNCHANGED <<pollers, stopped, closed, on, connection, attached>>

(* drain.                                                                  *)
StreamsEnd ==
    /\ \A x \in Stream : ~Active(x)
    /\ Teardown("draining", "producer")
    /\ UNCHANGED <<pollers, stopped, closed, on, flushTimer, connection, attached, work>>

ProducerCloses ==
    /\ Teardown("producer", "done")
    /\ closed' = TRUE
    /\ UNCHANGED <<pollers, stopped, on, flushTimer, connection, attached, work>>

(* A close rejects: so does stop, with the rest not done, and no call of   *)
(* stop will do it.                                                        *)
StopFails ==
    /\ stop \in {"closing", "disposing", "producer"} /\ Fault
    /\ stop' = "failed"
    /\ UNCHANGED <<calls, stopped, closed, timers, ticks, flags, link, work>>

StopGoesOn == \/ ConsumerCloses \/ ConnectionCloses \/ PollersStop \/ FlushStops
              \/ StreamsEnd \/ ProducerCloses
-----------------------------------------------------------------------------
JobGoesOn(j) == TimesOut(j) \/ AwaitsChunk(j) \/ Ends(j)

BusNext ==
    \/ \E s \in StartCall : \/ StartStopped(s) \/ StartAgain(s) \/ StartBus(s)
                       \/ Declared(s) \/ DeclareFails(s)
    \/ Ready \/ SetupFails \/ BrokerCancels \/ Connects \/ ConnectionLost
    \/ \E j \in Job : Delivered(j) \/ Asks(j) \/ Answered(j) \/ Chunk(j) \/ JobGoesOn(j)
    \/ \E t \in Timer : TickBegins(t)
    \/ \E r \in running : TickEnds(r)
    \/ StopBus \/ StopGoesOn \/ StopFails

(* Closes of the client library end or fail, a request has a timeout, and  *)
(* ticks and handlers end, or await a chunk, if they are not for ever      *)
(* asking.                                                                 *)
BusFairness ==
    /\ WF_busVars(StopGoesOn)
    /\ \A j \in Job : WF_busVars(TimesOut(j)) /\ SF_busVars(AwaitsChunk(j) \/ Ends(j))
    /\ \A t \in Timer, n \in Tick : WF_busVars(<<t, n>> \in running /\ TickEnds(<<t, n>>))

BusSpec == BusInit /\ [][BusNext]_busVars /\ BusFairness
-----------------------------------------------------------------------------
(* isConnected and the check consumerConnectivity.                         *)
IsConnected == connection = "ready" /\ consuming /\ ~cancelled
ConsumerConnectivity ==
    IF cancelled \/ ~IsConnected THEN "unhealthy" ELSE "healthy"

(* When stop has returned no handler and no poller runs or ever will, nor  *)
(* does the flush timer: unless start was called again before the first    *)
(* call was through, which loses the first call's flush timer, or a tick   *)
(* of it was slower than the interval, of which stop awaits only the next. *)
NothingRunsAfterStop ==
    stop = "done" =>
        /\ ~attached /\ \A j \in Job : ~Active(j)
        /\ \A t \in on : t[2] = Flush /\ \E s \in begun : s # t[1]
        /\ \A r \in running : /\ r[1][2] = Flush
                              /\ r[2] < last[r[1]] \/ \E s \in begun : s # r[1][1]

(* The teardown takes from nobody what he still uses: when the requests    *)
(* are rejected and when the producer is closed, no handler of a message   *)
(* and no poller is left that would notice.  A handler of a stream may     *)
(* find its request rejected, and never the producer closed.               *)
TornDownInOrder ==
    /\ refused \subseteq Stream
    /\ stop \in {"draining", "producer", "done"} =>
         /\ \A d \in Delivery : ~Active(d)
         /\ \A r \in running : r[1][2] = Flush
    /\ closed => \A x \in Stream : ~Active(x)

(* The consumer is reported healthy only while the broker delivers to it,  *)
(* while it rejoins after a lost connection, or while stop closes it; and  *)
(* it is reported whenever it is not healthy.                              *)
HealthIsTruthful ==
    /\ ConsumerConnectivity = "healthy" =>
         attached \/ rejoining \/ stop \in {"closing", "disposing", "failed"}
    /\ attached => ConsumerConnectivity = "healthy"

(* stop returns, unless the handler of a stream awaits a chunk: with the   *)
(* consumer stopped there will be none.                                    *)
Stuck == stop = "draining" /\ \E x \in Stream : jobs[x] = "waiting"
StopReturns == stop # "none" ~> (stop \in {"done", "failed"} \/ Stuck)
=============================================================================
