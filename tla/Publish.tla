------------------------------- MODULE Publish -------------------------------
(***************************************************************************)
(* How a message gets from the callers of `publish` and `sendToMany` to    *)
(* handlers: bus.ts and rabbitmq/src/producer.ts, which send a copy to the *)
(* exchange of the type and of each of its ancestors; the topology that    *)
(* consumers declare at start; handlers/registry.ts, which finds the       *)
(* handlers of a type and of its ancestors.                                *)
(*                                                                         *)
(* One producer.  Exchanges are durable and nobody deletes them, and the   *)
(* exchange of a type is identified with the type: names that differ only  *)
(* in their dots are not used.  What becomes of a copy whose handlers fail *)
(* is in Dispatcher and Delivery.                                          *)
(***************************************************************************)
EXTENDS Naturals, Sequences, Functions

CONSTANTS
    Type, Handler,
    Host,             \* services; a host is also the name of its queue
    Absent,           \* endpoints that no queue exists for
    Parents,          \* parentsOf of the producer: Type -> sequence of types
    ParentsAt,        \* parentsOf of each host's registry
    Known,            \* Host -> the types its registry has
    Registrations,    \* Host -> Type -> sequence of handlers, at first
    Others,           \* Host -> types of its sagas and aggregators
    Published, Sent,  \* types that callers publish, and send
    Endpoints,        \* lists of endpoints that callers send to
    Changeable,       \* <<h, t, r>>: what callers register while h runs, or take back
    Call,             \* bound: calls of publish and sendToMany
    MaxAttempts,      \* options.producer.maxAttempts, of the client library
    MaxFaults,        \* bound: calls to the broker that fail
    MaxChanges        \* bound: handlers added or removed at run time

Target == Type \cup Host \cup Absent

ASSUME PublishAssumption ==
    /\ Type \cap Host = {} /\ Type \cap Absent = {} /\ Host \cap Absent = {}
    /\ Type \cap Handler = {}
    /\ Parents \in [Type -> Seq(Type)]
    /\ ParentsAt \in [Host -> [Type -> Seq(Type)]]
    /\ Known \in [Host -> SUBSET Type]
    /\ Registrations \in [Host -> [Type -> Seq(Handler)]]
    /\ Others \in [Host -> SUBSET Type]
    /\ Published \cup Sent \subseteq Type
    /\ Endpoints \subseteq Seq(Host \cup Absent) \ {<<>>}
    /\ Changeable \subseteq Host \X Type \X Handler
    /\ MaxAttempts \in Nat \ {0} /\ MaxFaults \in Nat /\ MaxChanges \in Nat

VARIABLES
    exchanges,    \* type exchanges that exist
    bindings,     \* <<x, h>>: what is sent to x goes to the queue of h; <<h, h>>
                  \* is the binding every queue has to the default exchange
    declared,     \* declaredExchanges, the producer's memo
    closed,       \* the producer has been disposed of
    calls,        \* Call -> its locals
    since,        \* history: the bindings when a call began
    doubtful,     \* history: calls with a send whose outcome was not known
    copies,       \* history: copies that queues have taken
    consumed,     \* those that a host has dispatched
    hosts,        \* Host -> how far its start is
    registry,     \* Host -> byType of its handler registry
    jobs,         \* Host -> the dispatch in progress
    changes, faults

broker == <<exchanges, bindings, copies>>
producer == <<declared, closed>>
outgoing == <<calls, since, doubtful>>
consumers == <<hosts, registry, jobs, consumed, changes>>
vars == <<broker, producer, outgoing, consumers, faults>>
-----------------------------------------------------------------------------
(* The locals of a call: stack and out of ancestorClosure (out has the     *)
(* members of seen), then the position in what it sends to.                *)
CallStages == {"outgoing", "closure", "declare", "send", "resolved", "rejected"}
CallRecord == [stage: CallStages, multi: BOOLEAN, type: Type, stack: Seq(Type),
               out: Seq(Target), next: Nat, tries: 0..MaxAttempts - 1, errors: SUBSET Nat,
               aborted: BOOLEAN]

(* A copy: the call, the position in its list of targets, the attempt and  *)
(* the queue that took it.                                                 *)
Copy == Call \X Nat \X Nat \X Host

(* A dispatch: what `walk` has still to visit, and what it found.          *)
Job == [at: {"walk"}, copy: Copy, todo: Seq(Type \cup Handler),
        visited: SUBSET Type, resolved: Seq(Handler)]
Idle == [at |-> "idle"]

(* What declareTopology has still to do: the types whose exchange it has   *)
(* not declared and those it has not bound.                                *)
Topology == [at: {"off", "starting", "on"}, declare: SUBSET Type, bind: SUBSET Type]
Off == [at |-> "off", declare |-> {}, bind |-> {}]

Unused == [stage |-> "none"]
NewCall(t) == [stage |-> "outgoing", multi |-> FALSE, type |-> t, stack |-> <<>>,
               out |-> <<>>, next |-> 1, tries |-> 0, errors |-> {}, aborted |-> FALSE]

Init ==
    /\ exchanges = {} /\ bindings = {} /\ declared = {} /\ closed = FALSE
    /\ calls = [c \in Call |-> Unused]
    /\ since = [c \in Call |-> {}]
    /\ doubtful = {} /\ copies = {} /\ consumed = {}
    /\ hosts = [h \in Host |-> Off]
    /\ registry = Registrations
    /\ jobs = [h \in Host |-> Idle]
    /\ changes = 0 /\ faults = 0

Fault == faults < MaxFaults /\ faults' = faults + 1

Settled(c) == calls[c] # Unused /\ calls[c].stage \in {"resolved", "rejected"}
Becomes(c, r) == calls' = [calls EXCEPT ![c] = r]
Goes(c, stage) == Becomes(c, [calls[c] EXCEPT !.stage = stage])
-----------------------------------------------------------------------------
(* Which of the unused calls it is makes no difference.                    *)
Begins(c, r) ==
    /\ calls[c] = Unused /\ c = CHOOSE d \in Call : calls[d] = Unused
    /\ Becomes(c, r)
    /\ since' = [since EXCEPT ![c] = bindings]
    /\ UNCHANGED <<broker, producer, doubtful, consumers, faults>>

PublishCall(c, t) == Begins(c, NewCall(t))

(* One endpoint is `send`.                                                 *)
SendToMany(c, t, list) == Begins(c, [NewCall(t) EXCEPT !.multi = TRUE, !.out = list])

(* The type is not registered, an outgoing filter stops the message or     *)
(* throws, the signal is aborted already, the body is too large: rejected  *)
(* with nothing sent.  sendToMany collects the last two per endpoint, as   *)
(* it does every error (SendFails).                                        *)
Refused(c) ==
    /\ calls[c].stage = "outgoing"
    /\ Goes(c, "rejected")
    /\ UNCHANGED <<broker, producer, since, doubtful, consumers, faults>>

OutgoingPasses(c) ==
    /\ calls[c].stage = "outgoing"
    /\ IF calls[c].multi
         THEN Goes(c, "send")
         ELSE /\ ~calls[c].aborted
              /\ Becomes(c, [calls[c] EXCEPT !.stage = "closure", !.stack = <<calls[c].type>>])
    /\ UNCHANGED <<broker, producer, since, doubtful, consumers, faults>>

(* An iteration of ancestorClosure.                                        *)
VisitType(c) ==
    /\ calls[c].stage = "closure" /\ calls[c].stack # <<>>
    /\ LET r == calls[c]
           t == r.stack[Len(r.stack)]
           rest == SubSeq(r.stack, 1, Len(r.stack) - 1)
       IN  Becomes(c, IF t \in Range(r.out)
                        THEN [r EXCEPT !.stack = rest]
                        ELSE [r EXCEPT !.stack = rest \o Parents[t], !.out = Append(@, t)])
    /\ UNCHANGED <<broker, producer, since, doubtful, consumers, faults>>

ClosureDone(c) ==
    /\ calls[c].stage = "closure" /\ calls[c].stack = <<>>
    /\ Goes(c, "declare")
    /\ UNCHANGED <<broker, producer, since, doubtful, consumers, faults>>

Current(c) == calls[c].out[calls[c].next]

(* ensureExchangeDeclared: nothing is declared that is remembered; then the*)
(* signal again.                                                           *)
Declare(c) ==
    /\ calls[c].stage = "declare"
    /\ \/ Current(c) \in declared /\ UNCHANGED <<exchanges, declared>>
       \/ /\ Current(c) \notin declared /\ ~closed
          /\ exchanges' = exchanges \cup {Current(c)}
          /\ declared' = declared \cup {Current(c)}
    /\ Goes(c, IF calls[c].aborted THEN "rejected" ELSE "send")
    /\ UNCHANGED <<bindings, copies, closed, since, doubtful, consumers, faults>>

(* Seeded fault: the exchange is remembered before it is declared.         *)
DeclareFailsRemembered(c) ==
    /\ calls[c].stage = "declare" /\ Current(c) \notin declared
    /\ Fault
    /\ declared' = declared \cup {Current(c)}
    /\ Goes(c, "rejected")
    /\ UNCHANGED <<broker, closed, since, doubtful, consumers>>
-----------------------------------------------------------------------------
(* A target that no queue is bound to takes nothing, without an error.     *)
Routed(c) == {<<c, calls[c].next, calls[c].tries, h>> :
                 h \in {g \in Host : <<Current(c), g>> \in bindings}}

(* The broker may have declared it all the same.                           *)
DeclareFails(c) ==
    /\ calls[c].stage = "declare" /\ Current(c) \notin declared
    /\ IF closed THEN UNCHANGED faults ELSE Fault
    /\ exchanges' \in {exchanges, exchanges \cup {Current(c)}}
    /\ closed => exchanges' = exchanges
    /\ Goes(c, "rejected")
    /\ UNCHANGED <<bindings, copies, producer, since, doubtful, consumers>>

(* Seeded fault: the loop ends with the first error.                       *)
AdvancesUntilError(c, errors) ==
    LET r == [calls[c] EXCEPT !.next = @ + 1, !.tries = 0, !.errors = errors] IN
    Becomes(c, [r EXCEPT !.stage =
        IF r.next <= Len(r.out) /\ errors = {} THEN IF r.multi THEN "send" ELSE "declare"
        ELSE "resolved"])

(* The rest of the loop: a failed send ends a publish, and sendToMany goes *)
(* on to the next endpoint and rejects at the end.                         *)
Advances(c, errors) ==
    LET r == [calls[c] EXCEPT !.next = @ + 1, !.tries = 0, !.errors = errors] IN
    Becomes(c, [r EXCEPT !.stage =
        IF r.next <= Len(r.out) /\ (r.multi \/ errors = {})
          THEN IF r.multi THEN "send" ELSE "declare"
          ELSE IF errors = {} THEN "resolved" ELSE "rejected"])

Sends(c) == calls[c].stage = "send"

(* With a confirm.                                                         *)
Send(c) ==
    /\ Sends(c) /\ ~closed
    /\ Current(c) \in Type => Current(c) \in exchanges
    /\ copies' = copies \cup Routed(c)
    /\ Advances(c, calls[c].errors)
    /\ UNCHANGED <<exchanges, bindings, producer, since, doubtful, consumers, faults>>

(* publisher.send of the client library tries again, up to maxAttempts.    *)
Again(c) ==
    LET r == calls[c] IN
    IF r.tries + 1 < MaxAttempts THEN Becomes(c, [r EXCEPT !.tries = @ + 1])
    ELSE Advances(c, r.errors \cup {r.next})

(* Not a copy has come through: the producer is closed, the exchange does  *)
(* not exist, or the connection is lost.                                   *)
SendFails(c) ==
    /\ Sends(c)
    /\ IF closed \/ Current(c) \in Type \ exchanges THEN UNCHANGED faults ELSE Fault
    /\ Again(c)
    /\ UNCHANGED <<broker, producer, since, doubtful, consumers>>

(* The broker has taken the message, and the connection is lost before it  *)
(* says so.                                                                *)
Unconfirmed(c) ==
    /\ Sends(c) /\ ~closed
    /\ Current(c) \in Type => Current(c) \in exchanges
    /\ Fault
    /\ copies' = copies \cup Routed(c)
    /\ doubtful' = doubtful \cup {c}
    /\ Again(c)
    /\ UNCHANGED <<exchanges, bindings, producer, since, consumers>>

(* The signal of ITransportProducer.publish; the bus itself passes none.   *)
Abort(c) ==
    /\ calls[c] # Unused /\ ~Settled(c) /\ ~calls[c].multi /\ ~calls[c].aborted
    /\ Fault
    /\ Becomes(c, [calls[c] EXCEPT !.aborted = TRUE])
    /\ UNCHANGED <<broker, producer, since, doubtful, consumers>>

(* asyncDispose.                                                           *)
Dispose ==
    /\ ~closed /\ Fault
    /\ closed' = TRUE
    /\ UNCHANGED <<broker, declared, outgoing, consumers>>
-----------------------------------------------------------------------------
StartGoes(h, r) == hosts' = [hosts EXCEPT ![h] = r]

(* consumedTypes: what the registry has handlers for when start is called. *)
ConsumedTypes(h) == {t \in Type : registry[h][t] # <<>>} \cup Others[h]

(* The order of the list, that of the registry's map.                      *)
IsFirst(t, types) == t \in types /\ t = CHOOSE u \in types : TRUE

(* declareTopology: the queue, then the exchanges, then the bindings.      *)
StartHost(h) ==
    /\ hosts[h].at = "off"
    /\ bindings' = bindings \cup {<<h, h>>}
    /\ StartGoes(h, [at |-> "starting", declare |-> ConsumedTypes(h), bind |-> ConsumedTypes(h)])
    /\ UNCHANGED <<exchanges, copies, producer, outgoing, registry, jobs, consumed, changes, faults>>

DeclareType(h, t) ==
    /\ IsFirst(t, hosts[h].declare)
    /\ exchanges' = exchanges \cup {t}
    /\ StartGoes(h, [hosts[h] EXCEPT !.declare = @ \ {t}])
    /\ UNCHANGED <<bindings, copies, producer, outgoing, registry, jobs, consumed, changes, faults>>

(* Seeded fault: the base types of what is handled are bound as well.      *)
BindTypeAndParents(h, t) ==
    /\ hosts[h].declare = {} /\ IsFirst(t, hosts[h].bind)
    /\ bindings' = bindings \cup {<<u, h>> : u \in {t} \cup Range(ParentsAt[h][t])}
    /\ StartGoes(h, [hosts[h] EXCEPT !.bind = @ \ {t}])
    /\ UNCHANGED <<exchanges, copies, producer, outgoing, registry, jobs, consumed, changes, faults>>

BindType(h, t) ==
    /\ hosts[h].declare = {} /\ IsFirst(t, hosts[h].bind)
    /\ bindings' = bindings \cup {<<t, h>>}
    /\ StartGoes(h, [hosts[h] EXCEPT !.bind = @ \ {t}])
    /\ UNCHANGED <<exchanges, copies, producer, outgoing, registry, jobs, consumed, changes, faults>>

Ready(h) ==
    /\ hosts[h].at = "starting" /\ hosts[h].declare = {} /\ hosts[h].bind = {}
    /\ StartGoes(h, [hosts[h] EXCEPT !.at = "on"])
    /\ UNCHANGED <<broker, producer, outgoing, registry, jobs, consumed, changes, faults>>

(* start() rejects, or the process ends; what it declared remains, and a   *)
(* new process registers what the first did.                               *)
HostFails(h) ==
    /\ hosts[h].at # "off" /\ Fault
    /\ StartGoes(h, Off)
    /\ registry' = [registry EXCEPT ![h] = Registrations[h]]
    /\ jobs' = [jobs EXCEPT ![h] = Idle]
    /\ UNCHANGED <<broker, producer, outgoing, consumed, changes>>
-----------------------------------------------------------------------------
(* Which of the copies in the queue of h is next makes no difference.      *)
Queue(h) == {c \in copies \ consumed : c[4] = h}
IsNext(h, c) ==
    /\ hosts[h].at = "on" /\ jobs[h] = Idle
    /\ c \in Queue(h) /\ c = CHOOSE d \in Queue(h) : TRUE

(* A dispatch, of a type the host knows, calls handlersFor.                *)
Take(h, c) ==
    /\ IsNext(h, c)
    /\ calls[c[1]].type \in Known[h]
    /\ jobs' = [jobs EXCEPT ![h] = [at |-> "walk", copy |-> c, todo |-> <<calls[c[1]].type>>,
                                   visited |-> {}, resolved |-> <<>>]]
    /\ UNCHANGED <<broker, producer, outgoing, hosts, registry, consumed, changes, faults>>

(* A type the host does not know is not handled.                           *)
TakeUnknown(h, c) ==
    /\ IsNext(h, c)
    /\ calls[c[1]].type \notin Known[h]
    /\ consumed' = consumed \cup {c}
    /\ UNCHANGED <<broker, producer, outgoing, hosts, registry, jobs, changes, faults>>

Walks(h, j) ==
    /\ jobs' = [jobs EXCEPT ![h] = j]
    /\ UNCHANGED <<broker, producer, outgoing, hosts, registry, consumed, changes, faults>>

(* walk: the registrations of a type, then each of its parents.  A todo    *)
(* list in place of the recursion, in the same order.                      *)
WalkType(h) ==
    /\ jobs[h] # Idle
    /\ LET j == jobs[h] IN
       /\ j.todo # <<>> /\ Head(j.todo) \in Type
       /\ LET t == Head(j.todo) IN
          Walks(h, IF t \in j.visited THEN [j EXCEPT !.todo = Tail(@)]
                   ELSE [j EXCEPT !.visited = @ \cup {t},
                                  !.todo = registry[h][t] \o ParentsAt[h][t] \o Tail(@)])

(* Seeded fault: one call for each registration.                           *)
WalkRegistrationAgain(h) ==
    /\ jobs[h] # Idle
    /\ LET j == jobs[h] IN
       /\ j.todo # <<>> /\ Head(j.todo) \in Handler
       /\ Walks(h, [j EXCEPT !.todo = Tail(@), !.resolved = Append(@, Head(j.todo))])

(* A handler registered for several of the types is called once.           *)
WalkRegistration(h) ==
    /\ jobs[h] # Idle
    /\ LET j == jobs[h] IN
       /\ j.todo # <<>> /\ Head(j.todo) \in Handler
       /\ Walks(h, IF Head(j.todo) \in Range(j.resolved) THEN [j EXCEPT !.todo = Tail(@)]
                   ELSE [j EXCEPT !.todo = Tail(@), !.resolved = Append(@, Head(j.todo))])

(* handlersFor returns; what is done with the handlers is in Dispatcher.   *)
Dispatched(h) ==
    /\ jobs[h] # Idle /\ jobs[h].todo = <<>>
    /\ consumed' = consumed \cup {jobs[h].copy}
    /\ jobs' = [jobs EXCEPT ![h] = Idle]
    /\ UNCHANGED <<broker, producer, outgoing, hosts, registry, changes, faults>>

(* bus.handle and unhandle while the bus runs, which bind nothing.  The    *)
(* walk is synchronous: neither comes in the middle of it.                 *)
Changes(h, t, list) ==
    /\ changes < MaxChanges /\ changes' = changes + 1
    /\ hosts[h].at # "off" /\ jobs[h] = Idle
    /\ registry' = [registry EXCEPT ![h][t] = list]
    /\ UNCHANGED <<broker, producer, outgoing, hosts, jobs, consumed, faults>>

Handle(h, t, r) == t \in Known[h] /\ Changes(h, t, Append(registry[h][t], r))

(* list.filter; the positions that stay, in their order, stand for it.     *)
Unhandle(h, t, r) ==
    LET list == registry[h][t] IN
    /\ r \in Range(list)
    /\ \E n \in 0..Len(list) : \E kept \in [1..n -> DOMAIN list] :
         /\ Range(kept) = {i \in DOMAIN list : list[i] # r}
         /\ \A i, j \in 1..n : i < j => kept[i] < kept[j]
         /\ Changes(h, t, [i \in 1..n |-> list[kept[i]]])
-----------------------------------------------------------------------------
(* Loops without an await: nothing that they read or write is anybody      *)
(* else's until they end, so no other step comes between theirs.           *)
Loops(c) == VisitType(c) \/ ClosureDone(c)
Walk(h) == WalkType(h) \/ WalkRegistration(h) \/ Dispatched(h)
InLoop == \/ \E c \in Call : calls[c].stage = "closure"
          \/ \E h \in Host : jobs[h] # Idle

CallStep(c) ==
    /\ ~InLoop
    /\ \/ Refused(c) \/ OutgoingPasses(c) \/ Declare(c) \/ DeclareFails(c)
       \/ Send(c) \/ SendFails(c)

HostStep(h) ==
    /\ ~InLoop
    /\ \/ StartHost(h)
       \/ \E t \in Type : DeclareType(h, t) \/ BindType(h, t)
       \/ Ready(h)
       \/ \E c \in copies : Take(h, c) \/ TakeUnknown(h, c)

Environment ==
    /\ ~InLoop
    /\ \/ \E c \in Call :
             \/ \E t \in Published : PublishCall(c, t)
             \/ \E t \in Sent, list \in Endpoints : SendToMany(c, t, list)
             \/ Unconfirmed(c) \/ Abort(c)
       \/ Dispose
       \/ \E h \in Host :
             \/ HostFails(h)
             \/ \E t \in Type, r \in Handler :
                  <<h, t, r>> \in Changeable /\ (Handle(h, t, r) \/ Unhandle(h, t, r))

Next ==
    \/ \E c \in Call : Loops(c) \/ CallStep(c)
    \/ \E h \in Host : Walk(h) \/ HostStep(h)
    \/ Environment

Spec == Init /\ [][Next]_vars
-----------------------------------------------------------------------------
(* The types a message of type t is: the least set with t and, with each   *)
(* of its members, the member's parents.                                   *)
Closed(S, parents) == \A u \in S : Range(parents[u]) \subseteq S
Ancestors(t, parents) ==
    {u \in Type : \A S \in SUBSET Type : t \in S /\ Closed(S, parents) => u \in S}

CopiesOf(c) == {x \in copies : x[1] = c}
TargetOf(x) == calls[x[1]].out[x[2]]

(* Types; a send is not attempted more often than maxAttempts.             *)
TypeOK ==
    /\ exchanges \subseteq Type /\ declared \subseteq Type
    /\ bindings \subseteq (Type \cup Host) \X Host
    /\ closed \in BOOLEAN
    /\ calls \in [Call -> CallRecord \cup {Unused}]
    /\ since \in [Call -> SUBSET ((Type \cup Host) \X Host)]
    /\ doubtful \subseteq Call
    /\ copies \subseteq Copy /\ consumed \subseteq copies
    /\ hosts \in [Host -> Topology]
    /\ registry \in [Host -> [Type -> Seq(Handler)]]
    /\ jobs \in [Host -> Job \cup {Idle}]
    /\ changes \in 0..MaxChanges /\ faults \in 0..MaxFaults

(* Whatever fails, the exchanges the producer remembers do exist, and it   *)
(* sends to no exchange that it has not declared.                          *)
MemoIsTrue ==
    /\ declared \subseteq exchanges
    /\ \A c \in Call :
         calls[c] # Unused /\ ~calls[c].multi /\ calls[c].stage = "send" => Current(c) \in declared

(* A publish that resolves has gone to every ancestor of its type, and     *)
(* sendToMany has tried every endpoint and rejects if one failed; each     *)
(* send without an error has reached every queue that was bound to its     *)
(* target when the call began.                                             *)
ReachesEverySubscriber ==
    \A c \in Call : Settled(c) =>
        LET r == calls[c]
            sent == IF r.stage = "resolved" \/ (r.multi /\ r.errors # {})
                      THEN DOMAIN r.out \ r.errors ELSE {}
        IN  /\ r.stage = "resolved" => r.errors = {}
            /\ r.stage = "resolved" /\ ~r.multi => Range(r.out) = Ancestors(r.type, Parents)
            /\ \A i \in sent, h \in Host : <<r.out[i], h>> \in since[c] =>
                 \E x \in CopiesOf(c) : x[2] = i /\ x[4] = h

(* A host has a copy of a published message only for a type it consumes    *)
(* that the message is; and one for each, unless the confirm of a send was *)
(* lost, which it then also has for the attempt that followed.             *)
OneCopyPerConsumedType ==
    \A x \in copies : ~calls[x[1]].multi =>
        /\ TargetOf(x) \in Ancestors(calls[x[1]].type, Parents)
        /\ Registrations[x[4]][TargetOf(x)] # <<>> \/ TargetOf(x) \in Others[x[4]]
        /\ \A y \in copies : y[1] = x[1] /\ y[4] = x[4] /\ TargetOf(y) = TargetOf(x)
                             /\ x[1] \notin doubtful => y = x

(* handlersFor finds each handler that is registered for the type or for   *)
(* an ancestor, and once, with any parents and cycles among them.          *)
HandlersExact ==
    \A h \in Host : jobs[h] # Idle /\ jobs[h].todo = <<>> =>
        LET j == jobs[h]
            types == Ancestors(calls[j.copy[1]].type, ParentsAt[h])
        IN  /\ Range(j.resolved) = UNION {Range(registry[h][t]) : t \in types}
            /\ \A a, b \in DOMAIN j.resolved : j.resolved[a] = j.resolved[b] => a = b
=============================================================================
