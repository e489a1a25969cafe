-------------------------------- MODULE Saga --------------------------------
(***************************************************************************)
(* Process managers: runSagaBranch of core/src/process/dispatch.ts, run    *)
(* concurrently by several workers over the saga stores of                 *)
(* persistence-memory and persistence-mongodb.                             *)
(*                                                                         *)
(* One correlation id is modelled; a message goes to one or more processes *)
(* (its registrations), each with a row of its own in the store the process*)
(* was registered with. The data of a row is the sequence of messages whose*)
(* handlers changed it. Every await of the code is a point where other     *)
(* workers run.                                                            *)
(***************************************************************************)
EXTENDS Naturals, Sequences

CONSTANTS
    Msg,          \* messages with the correlation id of the sagas
    Process,      \* registered processes
    Worker,       \* deliveries handled at a time, in any number of hosts
    Regs,         \* Msg -> the processes registered for its type, in order
    Starts,       \* <<m, p>>: p is registered for m with startsWith
    Completes,    \* <<m, p>>: the handler of p for m may call markComplete()
    Store,        \* Process -> "memory" (tokens are UUIDs) or "mongo" (versions)
    NoRow, Idle,
    MaxAttempts,  \* attempts the transport gives a message
    MaxFaults     \* bound: crashes, lost channels, store errors

(* A stored row; a run of runSagaBranch with the row it loaded.            *)
Row == [data: Seq(Msg), token: Nat]
Run == [msg: Msg, at: Nat \ {0}, stage: {"find", "insert", "handle", "update", "delete"},
        data: Seq(Msg), token: Nat, timeout: BOOLEAN, ran: BOOLEAN, live: BOOLEAN]

ASSUME SagaAssumption ==
    /\ Regs \in [Msg -> Seq(Process)]
    /\ Starts \subseteq Msg \X Process /\ Completes \subseteq Msg \X Process
    /\ Store \in [Process -> {"memory", "mongo"}]
    /\ MaxAttempts \in Nat \ {0} /\ MaxFaults \in Nat
    /\ NoRow \notin Row \cup Seq(Msg)
    /\ Idle \notin Run

VARIABLES
    rows,       \* Process -> NoRow or the stored row
    run,        \* Worker -> Idle or its run of runSagaBranch
    queue,      \* Msg -> where the message is
    attempts,   \* Msg -> failed attempts
    failedAt,   \* history: Msg -> the registrations at which one failed
    issued,     \* tokens issued so far (UUIDs are never repeated)
    applied,    \* history: Process -> Msg -> commits of the message
    scheduled,  \* Process -> messages that scheduled a timeout
    armed,      \* history: Process -> commits that asked for a timeout
    disturbed,  \* history: messages a fault made the code handle again
    faults

vars == <<rows, run, queue, attempts, failedAt, issued, applied, scheduled, armed, disturbed, faults>>
-----------------------------------------------------------------------------
ProcessOf(w) == Regs[run[w].msg][run[w].at]
RowOf(w) == rows[ProcessOf(w)]
At(w, stage) == run[w] # Idle /\ run[w].stage = stage

(* The token of a new row and of an updated one.                           *)
InsertToken(p) == IF Store[p] = "memory" THEN issued ELSE 0

UpdateToken(p) == IF Store[p] = "memory" THEN issued ELSE rows[p].token + 1

(* Seeded fault: the update does not look at the token.                    *)
MatchesAny(w) == RowOf(w) # NoRow

(* update()'s filter: the row exists and still has the expected token.     *)
Matches(w) == RowOf(w) # NoRow /\ RowOf(w).token = run[w].token

(* The transport's disposition of a delivery that is still its own.        *)
Settle(w, outcome) ==
    /\ run' = [run EXCEPT ![w] = Idle]
    /\ queue' = IF run[w].live THEN [queue EXCEPT ![run[w].msg] = outcome] ELSE queue

(* A non-terminal failure, a lost race as any other: retried while there   *)
(* are attempts left, from the first registration on.  Nothing remembers   *)
(* which registrations have committed.                                     *)
Failure(w) ==
    LET m == run[w].msg IN
    /\ IF run[w].live
       THEN /\ attempts' = [attempts EXCEPT ![m] = @ + 1]
            /\ failedAt' = [failedAt EXCEPT ![m] = @ \cup {run[w].at}]
       ELSE UNCHANGED <<attempts, failedAt>>
    /\ Settle(w, IF attempts[m] + 1 < MaxAttempts THEN "queued" ELSE "dead")

(* The next registration, or the result when this was the last one.        *)
Advance(w, ran) ==
    /\ UNCHANGED <<attempts, failedAt>>
    /\ IF run[w].at < Len(Regs[run[w].msg])
       THEN /\ run' = [run EXCEPT ![w].at = @ + 1, ![w].stage = "find",
                                  ![w].timeout = FALSE, ![w].ran = ran]
            /\ UNCHANGED queue
       ELSE Settle(w, IF ran THEN "done" ELSE "unhandled")
-----------------------------------------------------------------------------
Init ==
    /\ rows = [p \in Process |-> NoRow]
    /\ run = [w \in Worker |-> Idle]
    /\ queue = [m \in Msg |-> "queued"]
    /\ attempts = [m \in Msg |-> 0]
    /\ failedAt = [m \in Msg |-> {}]
    /\ issued = 0
    /\ applied = [p \in Process |-> [m \in Msg |-> 0]]
    /\ scheduled = [p \in Process |-> {}]
    /\ armed = [p \in Process |-> {}]
    /\ disturbed = {}
    /\ faults = 0

(* A delivery whose type has registrations enters the saga branch.         *)
Consume(w, m) ==
    /\ run[w] = Idle
    /\ queue[m] = "queued"
    /\ Regs[m] # <<>>
    /\ queue' = [queue EXCEPT ![m] = "unacked"]
    /\ run' = [run EXCEPT ![w] = [msg |-> m, at |-> 1, stage |-> "find", data |-> <<>>,
                                  token |-> 0, timeout |-> FALSE, ran |-> FALSE, live |-> TRUE]]
    /\ UNCHANGED <<rows, attempts, failedAt, issued, applied, scheduled, armed, disturbed, faults>>

(* findByCorrelationId: load the row, or go on to insert one, or skip a    *)
(* registration that does not start sagas.                                 *)
Find(w) ==
    /\ At(w, "find")
    /\ \/ /\ RowOf(w) # NoRow
          /\ run' = [run EXCEPT ![w].stage = "handle", ![w].data = RowOf(w).data,
                                ![w].token = RowOf(w).token]
          /\ UNCHANGED <<queue, attempts, failedAt>>
       \/ /\ RowOf(w) = NoRow /\ <<run[w].msg, ProcessOf(w)>> \in Starts
          /\ run' = [run EXCEPT ![w].stage = "insert"]
          /\ UNCHANGED <<queue, attempts, failedAt>>
       \/ /\ RowOf(w) = NoRow /\ <<run[w].msg, ProcessOf(w)>> \notin Starts
          /\ Advance(w, run[w].ran)
    /\ UNCHANGED <<rows, issued, applied, scheduled, armed, disturbed, faults>>

Inserted(w) ==
    /\ At(w, "insert")
    /\ RowOf(w) = NoRow
    /\ rows' = [rows EXCEPT ![ProcessOf(w)] = [data |-> <<>>, token |-> InsertToken(ProcessOf(w))]]
    /\ issued' = issued + 1
    /\ UNCHANGED <<applied, armed>>

InsertOk(w) ==
    /\ Inserted(w)
    /\ run' = [run EXCEPT ![w].stage = "handle", ![w].data = <<>>, ![w].token = InsertToken(ProcessOf(w))]
    /\ UNCHANGED <<queue, attempts, failedAt, scheduled, disturbed, faults>>

(* Seeded fault: a duplicate is taken for a message already handled.       *)
InsertDuplicateIgnored(w) ==
    /\ At(w, "insert")
    /\ RowOf(w) # NoRow
    /\ Advance(w, TRUE)
    /\ UNCHANGED <<rows, issued, applied, scheduled, armed, disturbed, faults>>

(* DuplicateSagaError: another worker inserted the row meanwhile.          *)
InsertDuplicate(w) ==
    /\ At(w, "insert")
    /\ RowOf(w) # NoRow
    /\ Failure(w)
    /\ UNCHANGED <<rows, issued, applied, scheduled, armed, disturbed, faults>>

(* Seeded fault: the timeout is not awaited and gets lost.                 *)
RequestTimeoutUnawaited(w) ==
    /\ At(w, "handle") /\ ~run[w].timeout
    /\ run' = [run EXCEPT ![w].timeout = TRUE]
    /\ UNCHANGED <<rows, queue, attempts, failedAt, issued, applied, scheduled, armed, disturbed, faults>>

(* ctx.requestTimeout inside the handler: stored at once, whatever becomes *)
(* of the handler and of the row.                                          *)
RequestTimeout(w) ==
    /\ At(w, "handle") /\ ~run[w].timeout
    /\ scheduled' = [scheduled EXCEPT ![ProcessOf(w)] = @ \cup {run[w].msg}]
    /\ run' = [run EXCEPT ![w].timeout = TRUE]
    /\ UNCHANGED <<rows, queue, attempts, failedAt, issued, applied, armed, disturbed, faults>>

(* The handler returns, with or without markComplete().                    *)
Handle(w) ==
    /\ At(w, "handle")
    /\ \E stage \in {"update", "delete"} :
         /\ stage = "delete" => <<run[w].msg, ProcessOf(w)>> \in Completes
         /\ run' = [run EXCEPT ![w].stage = stage]
    /\ UNCHANGED <<rows, queue, attempts, failedAt, issued, applied, scheduled, armed, disturbed, faults>>

HandlerThrows(w) ==
    /\ At(w, "handle")
    /\ Failure(w)
    /\ UNCHANGED <<rows, issued, applied, scheduled, armed, disturbed, faults>>

Committed(w) ==
    LET p == ProcessOf(w) m == run[w].msg
    IN /\ applied' = [applied EXCEPT ![p][m] = @ + 1]
       /\ armed' = IF run[w].timeout THEN [armed EXCEPT ![p] = @ \cup {m}] ELSE armed

Updated(w) ==
    /\ At(w, "update")
    /\ Matches(w)
    /\ rows' = [rows EXCEPT ![ProcessOf(w)] = [data |-> Append(run[w].data, run[w].msg),
                                               token |-> UpdateToken(ProcessOf(w))]]
    /\ issued' = issued + 1
    /\ Committed(w)

UpdateOk(w) ==
    /\ Updated(w)
    /\ Advance(w, TRUE)
    /\ UNCHANGED <<scheduled, disturbed, faults>>

(* Seeded faults: the store writes before it checks; the stale update is   *)
(* repeated in place.                                                      *)
UpdateConflictAfterWrite(w) ==
    /\ At(w, "update") /\ RowOf(w) # NoRow
    /\ ~Matches(w)
    /\ rows' = [rows EXCEPT ![ProcessOf(w)].data = Append(run[w].data, run[w].msg)]
    /\ Committed(w)
    /\ Failure(w)
    /\ UNCHANGED <<issued, scheduled, disturbed, faults>>
UpdateConflictRepeated(w) == At(w, "update") /\ ~Matches(w) /\ UNCHANGED vars

(* ConcurrencyError: somebody else's update, or deletion, came first.      *)
UpdateConflict(w) ==
    /\ At(w, "update")
    /\ ~Matches(w)
    /\ Failure(w)
    /\ UNCHANGED <<rows, issued, applied, scheduled, armed, disturbed, faults>>

(* markComplete(): the row is deleted whatever its token is by now.        *)
Deleted(w) ==
    /\ At(w, "delete")
    /\ rows' = [rows EXCEPT ![ProcessOf(w)] = NoRow]
    /\ UNCHANGED issued
    /\ Committed(w)

DeleteOk(w) ==
    /\ Deleted(w)
    /\ Advance(w, TRUE)
    /\ UNCHANGED <<scheduled, disturbed, faults>>
-----------------------------------------------------------------------------
Fault == faults < MaxFaults /\ faults' = faults + 1

(* A store call fails before it has had any effect.                        *)
StoreFails(w) ==
    /\ Fault
    /\ run[w] # Idle
    /\ Failure(w)
    /\ UNCHANGED <<rows, issued, applied, scheduled, armed, disturbed>>

(* A store call takes effect, but its answer is lost.                      *)
AnswerLost(w) ==
    /\ Fault
    /\ Inserted(w) \/ Updated(w) \/ Deleted(w)
    /\ Failure(w)
    /\ disturbed' = disturbed \cup {run[w].msg}
    /\ UNCHANGED scheduled

(* The host dies; or only its channel, and the run goes on as a stale one. *)
Crash(w) ==
    /\ Fault
    /\ run[w] # Idle
    /\ Settle(w, "queued")
    /\ disturbed' = disturbed \cup {run[w].msg}
    /\ UNCHANGED <<rows, attempts, failedAt, issued, applied, scheduled, armed>>

ChannelLost(w) ==
    /\ Fault
    /\ run[w] # Idle /\ run[w].live
    /\ run' = [run EXCEPT ![w].live = FALSE]
    /\ queue' = [queue EXCEPT ![run[w].msg] = "queued"]
    /\ disturbed' = disturbed \cup {run[w].msg}
    /\ UNCHANGED <<rows, attempts, failedAt, issued, applied, scheduled, armed>>
-----------------------------------------------------------------------------
Step(w) == \/ Find(w) \/ InsertOk(w) \/ InsertDuplicate(w)
           \/ Handle(w) \/ HandlerThrows(w)
           \/ UpdateOk(w) \/ UpdateConflict(w) \/ DeleteOk(w)

Next ==
    \/ \E w \in Worker, m \in Msg : Consume(w, m)
    \/ \E w \in Worker : \/ Step(w) \/ RequestTimeout(w)
                         \/ StoreFails(w) \/ AnswerLost(w) \/ Crash(w) \/ ChannelLost(w)

Spec == Init /\ [][Next]_vars

(* Workers go on, handlers return or throw, the broker delivers again.     *)
Fairness ==
    /\ \A w \in Worker : WF_vars(Step(w))
    /\ \A m \in Msg : SF_vars(\E w \in Worker : Consume(w, m))

FairSpec == Spec /\ Fairness
-----------------------------------------------------------------------------
TypeOK ==
    /\ rows \in [Process -> Row \cup {NoRow}]
    /\ run \in [Worker -> Run \cup {Idle}]
    /\ queue \in [Msg -> {"queued", "unacked", "done", "unhandled", "dead"}]
    /\ attempts \in [Msg -> 0..MaxAttempts]
    /\ failedAt \in [Msg -> SUBSET (Nat \ {0})]
    /\ issued \in Nat
    /\ applied \in [Process -> [Msg -> Nat]]
    /\ scheduled \in [Process -> SUBSET Msg]
    /\ armed \in [Process -> SUBSET Msg]
    /\ disturbed \subseteq Msg
    /\ faults \in 0..MaxFaults

(* A message that no crash, lost channel or lost answer made the code      *)
(* handle again changes a saga more than once only if an attempt of it     *)
(* failed at a later registration of the message, which an ordinary lost   *)
(* race suffices for; and at most once per attempt.  The saga of its last  *)
(* registration it changes at most once, however often it lost a race.     *)
RepeatedOnlyIfHalfDone ==
    \A m \in Msg \ disturbed : \A i \in DOMAIN Regs[m] :
        LET times == applied[Regs[m][i]][m] IN
        /\ times <= attempts[m] + 1
        /\ times > 1 => \E j \in failedAt[m] : j > i

(* A message is only acknowledged as done when every saga it starts or     *)
(* continues by startsWith has taken it, no update of which was lost.      *)
DoneMeansApplied ==
    \A m \in Msg : queue[m] = "done" =>
        \A i \in DOMAIN Regs[m] : <<m, Regs[m][i]>> \in Starts => applied[Regs[m][i]][m] > 0

(* A saga that has moved on expecting a timeout has that timeout stored.   *)
TimeoutsScheduled == \A p \in Process : armed[p] \subseteq scheduled[p]

Promise == INSTANCE AtomicSaga
             WITH NoSaga <- NoRow,
                  saga <- [p \in Process |-> IF rows[p] = NoRow THEN NoRow ELSE rows[p].data]

(* Rows change as if messages were applied one at a time: no update        *)
(* overwrites another and no state of a completed saga comes back.  (A     *)
(* completion takes with it whatever the row holds by then.)               *)
ImplementsAtomicSaga == Promise!Spec

(* What the documentation says of a store: update() rejects when the row   *)
(* was changed since it was loaded.                                        *)
ChangedRowConflicts == [][\A w \in Worker : Updated(w) => RowOf(w).data = run[w].data]_vars

(* Every message is eventually settled, with contention and faults.        *)
EveryMessageSettles == \A m \in Msg : <>[](queue[m] \in {"done", "unhandled", "dead"})

=============================================================================
