---------------------------- MODULE RequestReply ----------------------------
(***************************************************************************)
(* Requests and their replies: the RequestReplyManager of                  *)
(* core/src/request-reply.ts, the three calls of bus.ts that register with *)
(* it (sendRequest, sendRequestMulti, publishRequest) and the stop() that  *)
(* shuts it down.  Everything between two awaits is one step; the awaits   *)
(* are the outgoing filters, the transport send and the pending promise.   *)
(*                                                                         *)
(* The manager's Map is the set `pending`; the fields of an entry are in   *)
(* `call`, `replies`, `timer` and `listening`.  `promise` is the promise   *)
(* that the entry settles, `caller` what the caller of the bus gets.       *)
(***************************************************************************)
EXTENDS Naturals

CONSTANTS
    Req,          \* requests, each with its own requestMessageId
    Signal,       \* AbortSignals callers pass; requests may share one
    NoSignal,     \* options.signal is undefined
    Calls,        \* Req -> the calls it may be
    MaxExpected,  \* bound: the largest expectedReplyCount
    MaxReplies    \* bound: replies that arrive for one request

(* A call of the bus; sendRequest ("single") has no expectedReplyCount.     *)
Call == [kind: {"single", "multi", "callback"}, expected: 0..MaxExpected,
         signal: Signal \cup {NoSignal}]

ASSUME RequestReplyAssumption ==
    /\ NoSignal \notin Signal
    /\ Calls \in [Req -> SUBSET Call]
    /\ MaxExpected \in Nat
    /\ MaxReplies \in Nat

VARIABLES
    phase,      \* Req -> where the call is suspended
    call,       \* Req -> its kind, expectedReplyCount (0: none) and signal
    pending,    \* keys of the manager's Map
    replies,    \* Req -> length of entry.replies (for single: 0 or 1)
    timer,      \* armed timeouts
    listening,  \* requests with an abort listener on their signal
    promise,    \* Req -> state of the registration's promise
    caller,     \* Req -> result or error the caller gets
    aborted,    \* signals that have been aborted
    bus,        \* how far stop() has got
    reached,    \* requests the broker has accepted
    arrived,    \* history: Req -> replies that came back, saturating
    heard       \* history: Req -> onReply invocations or collected replies

vars == <<phase, call, pending, replies, timer, listening, promise, caller,
          aborted, bus, reached, arrived, heard>>
entries == <<pending, timer, listening, promise>>
traffic == <<reached, arrived, heard>>
-----------------------------------------------------------------------------
(* tryRouteReply and the timer compare replies.length with this; a single  *)
(* request is settled by its first reply.                                  *)
Needed(r) == IF call[r].kind = "single" THEN 1 ELSE call[r].expected

Listeners(s) == {r \in listening : call[r].signal = s}

(* Seeded fault: settle() does not delete the entry from the Map.          *)
SettleKeepsEntry(S, how) ==
    /\ promise' = [r \in Req |-> IF r \in S \cap pending THEN how ELSE promise[r]]
    /\ UNCHANGED <<pending, timer, listening>>

(* settle(): a no-op unless the entry is pending, so that of a reply, a    *)
(* timer, an abort, a cancel and a shutdown only the first one counts.     *)
settle(S, how) ==
    LET T == S \cap pending
    IN /\ promise' = [r \in Req |-> IF r \in T THEN how ELSE promise[r]]
       /\ pending' = pending \ T
       /\ timer' = timer \ T
       /\ listening' = listening \ T

(* Seeded faults: an aborted signal is only noticed if it aborts later; no *)
(* timer is armed.                                                         *)
RegisterMissesAbort(r, c) ==
    /\ promise' = [promise EXCEPT ![r] = "pending"]
    /\ pending' = pending \cup {r}
    /\ timer' = timer \cup {r}
    /\ listening' = IF c.signal \in Signal THEN listening \cup {r} ELSE listening

RegisterUntimed(r, c) ==
    /\ promise' = [promise EXCEPT ![r] = IF c.signal \in aborted THEN "aborted" ELSE "pending"]
    /\ pending' = IF c.signal \in aborted THEN pending ELSE pending \cup {r}
    /\ listening' = IF c.signal \in Signal \ aborted THEN listening \cup {r} ELSE listening
    /\ UNCHANGED timer

(* registerSingle, registerMulti, registerCallback.                        *)
register(r, c) ==
    IF c.signal \in aborted
    THEN /\ promise' = [promise EXCEPT ![r] = "aborted"]
         /\ UNCHANGED <<pending, timer, listening>>
    ELSE /\ promise' = [promise EXCEPT ![r] = "pending"]
         /\ pending' = pending \cup {r}
         /\ timer' = timer \cup {r}
         /\ listening' = IF c.signal \in Signal THEN listening \cup {r} ELSE listening

Return(r, result) ==
    /\ phase' = [phase EXCEPT ![r] = "returned"]
    /\ caller' = [caller EXCEPT ![r] = result]
-----------------------------------------------------------------------------
Init ==
    /\ phase = [r \in Req |-> "idle"]
    /\ call \in [Req -> Call] /\ \A r \in Req : call[r] \in Calls[r]
    /\ pending = {}
    /\ replies = [r \in Req |-> 0]
    /\ timer = {}
    /\ listening = {}
    /\ promise = [r \in Req |-> "none"]
    /\ caller = [r \in Req |-> "none"]
    /\ aborted = {}
    /\ bus = "running"
    /\ reached = {}
    /\ arrived = [r \in Req |-> 0]
    /\ heard = [r \in Req |-> 0]

(* A stopped bus, an unregistered type or a bad option: thrown at once.    *)
Refuse(r) ==
    /\ phase[r] = "idle"
    /\ Return(r, IF bus # "running" THEN "busStopped" ELSE "badRequest")
    /\ UNCHANGED <<call, entries, replies, aborted, bus, traffic>>

(* The synchronous head of the call, up to the await of the filters.       *)
Begin(r) ==
    /\ phase[r] = "idle"
    /\ bus = "running"
    /\ register(r, call[r])
    /\ phase' = [phase EXCEPT ![r] = "filtering"]
    /\ UNCHANGED <<call, replies, caller, aborted, bus, traffic>>

(* serialize() throws after the registration and outside the try: nothing  *)
(* cancels the entry, only its timer will.                                 *)
SerializeThrows(r) ==
    /\ phase[r] = "idle"
    /\ bus = "running"
    /\ register(r, call[r])
    /\ Return(r, "serializeError")
    /\ UNCHANGED <<call, replies, aborted, bus, traffic>>

FiltersPass(r) ==
    /\ phase[r] = "filtering"
    /\ phase' = [phase EXCEPT ![r] = "sending"]
    /\ UNCHANGED <<call, entries, replies, caller, aborted, bus, traffic>>

(* Seeded faults: the catch block rethrows without cancelling; it throws   *)
(* the cancellation instead of the cause.                                  *)
FailsUncancelled(r, error) ==
    /\ Return(r, error)
    /\ UNCHANGED <<call, entries, replies, aborted, bus, traffic>>

(* The catch block: cancel() the entry, then rethrow the original error.   *)
Fails(r, error) ==
    /\ settle({r}, "cancelled")
    /\ Return(r, error)
    /\ UNCHANGED <<call, replies, aborted, bus, traffic>>

(* An outgoing filter answers Stop or throws.                              *)
FiltersBlock(r) == phase[r] = "filtering" /\ Fails(r, "blocked")

(* The broker has the request, whose confirm the call still awaits.        *)
Reach(r) ==
    /\ phase[r] = "sending"
    /\ bus # "closed"
    /\ r \notin reached
    /\ reached' = reached \cup {r}
    /\ UNCHANGED <<phase, call, entries, replies, caller, aborted, bus, arrived, heard>>

SendOk(r) ==
    /\ phase[r] = "sending"
    /\ r \in reached
    /\ phase' = [phase EXCEPT ![r] = "awaiting"]
    /\ UNCHANGED <<call, entries, replies, caller, aborted, bus, traffic>>

(* The send fails: before the broker, or because the confirm got lost.     *)
SendFails(r) == phase[r] = "sending" /\ Fails(r, "sendError")

(* `return promise`.                                                       *)
Await(r) ==
    /\ phase[r] = "awaiting"
    /\ promise[r] # "pending"
    /\ Return(r, promise[r])
    /\ UNCHANGED <<call, entries, replies, aborted, bus, traffic>>
-----------------------------------------------------------------------------
(* The bus's own consumer still dispatches; stop() drains it before it     *)
(* shuts the manager down.                                                 *)
Dispatching == bus \in {"running", "stopping"}

(* Seeded fault: one reply short of the expected number is enough.         *)
EnoughOneShort(r) == Needed(r) > 0 /\ replies[r] + 2 >= Needed(r)

(* With this reply the expected number is reached.                         *)
Enough(r) == Needed(r) > 0 /\ replies[r] + 1 >= Needed(r)

(* A reply nobody waits for: tryRouteReply returns false and dispatch goes *)
(* on to sagas, aggregators and handlers as for any other message.         *)
Unmatched(r) ==
    /\ r \notin pending
    /\ UNCHANGED <<entries, replies, aborted, heard>>

Collect(r) ==
    /\ replies' = [replies EXCEPT ![r] = @ + 1]
    /\ heard' = [heard EXCEPT ![r] = @ + 1]
    /\ settle(IF Enough(r) THEN {r} ELSE {}, "reply")
    /\ UNCHANGED aborted

OnReplyThrows(r) ==
    /\ call[r].kind = "callback"
    /\ settle({r}, "callbackThrew")
    /\ heard' = [heard EXCEPT ![r] = @ + 1]
    /\ UNCHANGED <<replies, aborted>>

(* onReply aborts its own signal: every listener runs inside the call, and *)
(* what follows (push and settle, or catch and settle) finds the entry     *)
(* settled.                                                                *)
OnReplyAborts(r) ==
    /\ call[r].kind = "callback"
    /\ call[r].signal \in Signal \ aborted
    /\ aborted' = aborted \cup {call[r].signal}
    /\ settle(Listeners(call[r].signal), "aborted")
    /\ heard' = [heard EXCEPT ![r] = @ + 1]
    /\ replies' \in {replies, [replies EXCEPT ![r] = @ + 1]}

(* tryRouteReply, for a reply to r (or a redelivered one).                 *)
tryRouteReply(r) ==
    /\ Dispatching
    /\ r \in reached
    /\ arrived[r] < MaxReplies
    /\ arrived' = [arrived EXCEPT ![r] = @ + 1]
    /\ \/ Unmatched(r)
       \/ r \in pending /\ (Collect(r) \/ OnReplyThrows(r) \/ OnReplyAborts(r))
    /\ UNCHANGED <<phase, call, caller, bus, reached>>

(* A gather with an expected count is rejected when it is short; without   *)
(* one it resolves with what there is.                                     *)
AtTimeout(r) == IF replies[r] < Needed(r) THEN "timeout" ELSE "reply"

TimerFires(r) ==
    /\ r \in timer
    /\ settle({r}, AtTimeout(r))
    /\ UNCHANGED <<phase, call, replies, caller, aborted, bus, traffic>>

Abort(s) ==
    /\ s \notin aborted
    /\ aborted' = aborted \cup {s}
    /\ settle(Listeners(s), "aborted")
    /\ UNCHANGED <<phase, call, replies, caller, bus, traffic>>

(* stop(): refuse new calls; drain the consumer; reject what is pending;   *)
(* dispose of the producer.                                                *)
Stop ==
    /\ bus = "running" /\ bus' = "stopping"
    /\ UNCHANGED <<phase, call, entries, replies, caller, aborted, traffic>>

ConsumerDisposed ==
    /\ bus = "stopping" /\ bus' = "drained"
    /\ UNCHANGED <<phase, call, entries, replies, caller, aborted, traffic>>

Shutdown ==
    /\ bus = "drained" /\ bus' = "shutDown"
    /\ settle(pending, "shutdown")
    /\ UNCHANGED <<phase, call, replies, caller, aborted, traffic>>

ProducerDisposed ==
    /\ bus = "shutDown" /\ bus' = "closed"
    /\ UNCHANGED <<phase, call, entries, replies, caller, aborted, traffic>>
-----------------------------------------------------------------------------
Filter(r) == FiltersPass(r) \/ FiltersBlock(r)
Send(r) == Reach(r) \/ SendOk(r) \/ SendFails(r)

Next ==
    \/ \E r \in Req : \/ Refuse(r) \/ Begin(r) \/ SerializeThrows(r)
                      \/ Filter(r) \/ Send(r) \/ Await(r)
                      \/ tryRouteReply(r) \/ TimerFires(r)
    \/ \E s \in Signal : Abort(s)
    \/ Stop \/ ConsumerDisposed \/ Shutdown \/ ProducerDisposed

Spec == Init /\ [][Next]_vars

(* Filters and sends complete (a closed producer fails), timers fire, and  *)
(* the event loop resumes the caller.  Nothing makes a reply arrive, a     *)
(* signal abort or the bus stop.                                           *)
Fairness ==
    \A r \in Req : /\ WF_vars(Filter(r)) /\ WF_vars(Send(r))
                   /\ WF_vars(TimerFires(r)) /\ WF_vars(Await(r))

FairSpec == Spec /\ Fairness
-----------------------------------------------------------------------------
Settlement == {"reply", "timeout", "aborted", "cancelled", "shutdown", "callbackThrew"}
Error == {"busStopped", "badRequest", "serializeError", "blocked", "sendError"}

TypeOK ==
    /\ phase \in [Req -> {"idle", "filtering", "sending", "awaiting", "returned"}]
    /\ call \in [Req -> Call]
    /\ pending \subseteq Req
    /\ replies \in [Req -> Nat]
    /\ timer \subseteq Req
    /\ listening \subseteq Req
    /\ promise \in [Req -> {"none", "pending"} \cup Settlement]
    /\ caller \in [Req -> {"none"} \cup Settlement \cup Error]
    /\ aborted \subseteq Signal
    /\ bus \in {"running", "stopping", "drained", "shutDown", "closed"}
    /\ reached \subseteq Req
    /\ arrived \in [Req -> 0..MaxReplies]
    /\ heard \in [Req -> Nat]

(* No entry, timer or abort listener outlives its promise, and no promise  *)
(* is left without the timer that will settle it: whichever of reply,      *)
(* timer, abort, cancel and shutdown comes first, settle() releases all.   *)
NothingLeaks ==
    /\ pending = {r \in Req : promise[r] = "pending"}
    /\ timer = pending
    /\ listening = {r \in pending : call[r].signal # NoSignal}
    /\ \A r \in listening : call[r].signal \notin aborted

(* stop() leaves nothing behind: once the manager is shut down no request  *)
(* is pending and none can become pending.                                 *)
ShutdownIsFinal == bus \in {"shutDown", "closed"} => pending = {} /\ timer = {}

(* A promise is settled for the reason it gives: a resolved gather has the *)
(* replies it was told to expect, a timed-out one has fewer, a pending one *)
(* is still short, and none has more (duplicates and stragglers included). *)
SettledForItsReason ==
    \A r \in Req :
        /\ promise[r] = "reply" => Needed(r) = 0 \/ replies[r] = Needed(r)
        /\ promise[r] = "pending" => Needed(r) = 0 \/ replies[r] < Needed(r)
        /\ promise[r] = "timeout" => replies[r] < Needed(r)
        /\ promise[r] = "aborted" => call[r].signal \in aborted
        /\ promise[r] = "shutdown" => bus \in {"shutDown", "closed"}
        /\ promise[r] = "cancelled" => caller[r] \in {"blocked", "sendError"}

(* cancellation.mdx:34: RequestSendCancelledError is internal and never    *)
(* surfaces; and a caller that gets a promise's outcome gets that of a     *)
(* request the broker has accepted.                                        *)
CancelledNeverSurfaces ==
    \A r \in Req :
        /\ caller[r] # "cancelled"
        /\ caller[r] \in Settlement => promise[r] = caller[r] /\ r \in reached

(* A promise is settled once, and onReply is never invoked again after the *)
(* promise settled nor after the call returned to its caller.              *)
SettledOnce ==
    [][\A r \in Req : promise[r] \in Settlement =>
          promise'[r] = promise[r] /\ heard'[r] = heard[r] /\ replies'[r] = replies[r]]_vars
NoReplyAfterReturn ==
    [][\A r \in Req : heard'[r] # heard[r] => phase[r] \in {"sending", "awaiting"}]_vars

Promised == INSTANCE Conversation
              WITH open <- {r \in Req : phase[r] \in {"filtering", "sending", "awaiting"}},
                   returned <- {r \in Req : phase[r] = "returned"}

(* Calls return once and replies reach the caller only while the call is   *)
(* open, whatever order replies, timers, aborts and stop() come in.        *)
ImplementsConversation == Promised!Spec

(* Every call returns, whatever responders do.                             *)
EveryCallReturns == \A r \in Req : phase[r] = "filtering" ~> phase[r] = "returned"
=============================================================================
