----------------------------- MODULE Aggregator -----------------------------
(***************************************************************************)
(* Aggregators: the consumer branch of core/src/aggregator/dispatch.ts,    *)
(* which buffers a message and runs a batch that is full, the ticks of     *)
(* core/src/aggregator/flush-timer.ts, which run what has waited too long, *)
(* and the leased buffer of the memory and MongoDB stores they share.      *)
(*                                                                         *)
(* One message type: the stores keep the types apart, and a tick that      *)
(* first runs another type's batch is a slow tick.  A message the broker   *)
(* delivers again is buffered again, so an entry is <<message, how many    *)
(* times it was appended>>.  Dates are replaced by what is asked of them:  *)
(* an entry is due or not (appendedAt), under a lease or not               *)
(* (claimExpiresAt), and a caller has missed the leases that ended after   *)
(* it read the clock.                                                      *)
(***************************************************************************)
EXTENDS Integers, FiniteSets

CONSTANTS
    Message,    \* messages of the aggregated type
    Worker,     \* deliveries handled at a time, on all hosts
    Tick,       \* flush ticks under way at a time: none waits for the last
    NoMessage,
    Nobody,     \* claimedBy of an entry that was never claimed
    Gone,       \* claimedBy of a snapshot nobody works on any more
    Stores,     \* which stores' ways to claim: "memory" at once, "mongo" in calls
    BatchSize,  \* batchSize()
    MaxFaults   \* bound: crashes, failed calls and runs that outlast their lease

ASSUME AggregatorAssumption ==
    /\ Worker \cap Tick = {} /\ {Nobody, Gone} \cap (Worker \cup Tick) = {}
    /\ Nobody # Gone /\ NoMessage \notin Message
    /\ Stores \subseteq {"memory", "mongo"}
    /\ BatchSize \in Nat \ {0} /\ MaxFaults \in Nat

VARIABLES
    broker,     \* Message -> where the broker has it
    appends,    \* Message -> times it was buffered
    buffer,     \* entries in the store
    leased,     \* entries whose claimExpiresAt is still to come
    due,        \* entries older than timeout()
    owner,      \* Entry -> the runner of the snapshot claimedBy names
    orphans,    \* leased snapshots nobody works on: a set of sets of entries
    runner,     \* Runner -> the delivery or tick it is busy with
    executed,   \* history: Entry -> times execute() returned with it
    disturbed,  \* history: entries a fault left executed but not removed
    faults

vars == <<broker, appends, buffer, leased, due, owner, orphans, runner, executed, disturbed, faults>>
store == <<appends, buffer, leased, due, owner, orphans>>
-----------------------------------------------------------------------------
Runner == Worker \cup Tick
Entry == Message \X (1..MaxFaults + 1)

Run == [stage: {"idle", "find", "lease", "read", "execute", "release"},
        message: Message \cup {NoMessage}, batch: SUBSET Entry,
        missed: SUBSET Entry, overdue: BOOLEAN]

Idle == [stage |-> "idle", message |-> NoMessage, batch |-> {}, missed |-> {},
         overdue |-> FALSE]

(* The entries a runner has in its hands, those its snapshot still owns.   *)
Held(r) == IF runner[r].stage \in {"execute", "release"} THEN runner[r].batch ELSE {}
Owned(r) == {e \in buffer : owner[e] = r}

(* Seeded fault: a claimed entry looks free.                               *)
FreeIgnoresLease(missed) == buffer \ missed

(* Seeded fault: a claim is for ever.                                      *)
FreeNeverClaimed(missed) == {e \in buffer : owner[e] = Nobody}

(* Neither claimed nor under a lease, as seen by a caller that has missed  *)
(* the end of some leases.                                                 *)
Free(missed) == buffer \ (leased \cup missed)

(* The BatchSize oldest entries of S, if there are as many.                *)
Oldest(S) ==
    {T \in SUBSET S : /\ Cardinality(T) = BatchSize
                      /\ \A e \in S \ T, f \in T : e \in due => f \in due}

(* A new snapshot for S.                                                   *)
ClaimFor(r, S) == owner' = [e \in Entry |-> IF e \in S THEN r ELSE owner[e]]

(* A runner leaves its snapshot behind; the lease stays.                   *)
Abandon(r) ==
    /\ owner' = [e \in Entry |-> IF owner[e] = r THEN Gone ELSE owner[e]]
    /\ orphans' = IF Owned(r) = {} \/ runner[r].overdue THEN orphans ELSE orphans \cup {Owned(r)}

Remove(S) ==
    /\ buffer' = buffer \ S
    /\ leased' = leased \ S
    /\ due' = due \ S
    /\ owner' = [e \in Entry |-> IF e \in S THEN Nobody ELSE owner[e]]

(* The branch returns: success lets the broker forget the message, for a   *)
(* failure the transport delivers it again or moves it to the error queue. *)
Ack(r) == broker' = [m \in Message |-> IF m = runner[r].message THEN "acked" ELSE broker[m]]
Nack(r) == \E fate \in {"queued", "dead"} :
    broker' = [m \in Message |-> IF m = runner[r].message THEN fate ELSE broker[m]]
Requeue(r) == broker' = [m \in Message |-> IF m = runner[r].message THEN "queued" ELSE broker[m]]
Return(r) == runner' = [runner EXCEPT ![r] = Idle]
-----------------------------------------------------------------------------
Init ==
    /\ broker = [m \in Message |-> "queued"]
    /\ appends = [m \in Message |-> 0]
    /\ buffer = {} /\ leased = {} /\ due = {} /\ orphans = {}
    /\ owner = [e \in Entry |-> Nobody]
    /\ runner = [r \in Runner |-> Idle]
    /\ executed = [e \in Entry |-> 0]
    /\ disturbed = {}
    /\ faults = 0

NewEntry(m) == <<m, appends[m] + 1>>
Delivered(w, m) == runner[w].stage = "idle" /\ broker[m] = "queued"

(* The memory store appends and claims in one turn of the event loop.      *)
AppendAndClaimInMemory(w, m) ==
    /\ "memory" \in Stores
    /\ Delivered(w, m)
    /\ appends' = [appends EXCEPT ![m] = @ + 1]
    /\ buffer' = buffer \cup {NewEntry(m)}
    /\ LET batches == Oldest(Free({}) \cup {NewEntry(m)})
       IN \/ /\ batches = {}
             /\ broker' = [broker EXCEPT ![m] = "acked"]
             /\ UNCHANGED <<leased, owner, runner>>
          \/ \E S \in batches :
                /\ broker' = [broker EXCEPT ![m] = "delivered"]
                /\ leased' = leased \cup S
                /\ ClaimFor(w, S)
                /\ runner' = [runner EXCEPT ![w] = [Idle EXCEPT !.stage = "execute",
                                                    !.message = m, !.batch = S]]
    /\ UNCHANGED <<due, orphans, executed, disturbed, faults>>

(* MongoDB: insert, find the candidates, claim those still free, read back.*)
Append(w, m) ==
    /\ "mongo" \in Stores
    /\ Delivered(w, m)
    /\ appends' = [appends EXCEPT ![m] = @ + 1]
    /\ buffer' = buffer \cup {NewEntry(m)}
    /\ broker' = [broker EXCEPT ![m] = "delivered"]
    /\ runner' = [runner EXCEPT ![w] = [Idle EXCEPT !.stage = "find", !.message = m]]
    /\ UNCHANGED <<leased, due, owner, orphans, executed, disturbed, faults>>

FindBatch(w) ==
    /\ runner[w].stage = "find"
    /\ LET batches == Oldest(Free(runner[w].missed))
       IN \/ /\ batches = {}
             /\ Ack(w) /\ Return(w)
          \/ \E S \in batches :
                /\ runner' = [runner EXCEPT ![w] = [@ EXCEPT !.stage = "lease", !.batch = S,
                                                             !.missed = {}]]
                /\ UNCHANGED broker
    /\ UNCHANGED <<store, executed, disturbed, faults>>

(* A flush tick: the memory store claims all there is if the oldest is due;*)
(* MongoDB looks for the oldest first, then for all.                       *)
FlushInMemory(t) ==
    /\ "memory" \in Stores
    /\ runner[t].stage = "idle"
    /\ Free({}) \cap due # {}
    /\ leased' = leased \cup Free({})
    /\ ClaimFor(t, Free({}))
    /\ runner' = [runner EXCEPT ![t] = [Idle EXCEPT !.stage = "execute", !.batch = Free({})]]
    /\ UNCHANGED <<broker, appends, buffer, due, orphans, executed, disturbed, faults>>

LookForDue(t) ==
    /\ "mongo" \in Stores
    /\ runner[t].stage = "idle"
    /\ Free({}) \cap due # {}
    /\ runner' = [runner EXCEPT ![t] = [Idle EXCEPT !.stage = "find"]]
    /\ UNCHANGED <<broker, store, executed, disturbed, faults>>

FindAll(t) ==
    /\ runner[t].stage = "find"
    /\ LET all == Free(runner[t].missed)
       IN runner' = [runner EXCEPT ![t] = IF all = {} THEN Idle
                                          ELSE [@ EXCEPT !.stage = "lease", !.batch = all,
                                                         !.missed = {}]]
    /\ UNCHANGED <<broker, store, executed, disturbed, faults>>

(* updateMany claims the candidates that are still free.                   *)
Lease(r) ==
    /\ runner[r].stage = "lease"
    /\ LET S == runner[r].batch \cap Free(runner[r].missed)
       IN IF S = {} THEN Ack(r) /\ Return(r) /\ UNCHANGED <<leased, owner>>
          ELSE /\ leased' = IF runner[r].overdue THEN leased ELSE leased \cup S
               /\ ClaimFor(r, S)
               /\ runner' = [runner EXCEPT ![r] = [@ EXCEPT !.stage = "read", !.batch = {},
                                                            !.missed = {}]]
               /\ UNCHANGED broker
    /\ UNCHANGED <<appends, buffer, due, orphans, executed, disturbed, faults>>

(* The claim is what still carries the snapshot's id.                      *)
ReadBack(r) ==
    /\ runner[r].stage = "read"
    /\ IF Owned(r) = {} THEN Ack(r) /\ Return(r) /\ UNCHANGED disturbed
       ELSE /\ runner' = [runner EXCEPT ![r] = [@ EXCEPT !.stage = "execute", !.batch = Owned(r)]]
            /\ disturbed' = IF runner[r].overdue THEN disturbed \cup Owned(r) ELSE disturbed
            /\ UNCHANGED broker
    /\ UNCHANGED <<store, executed, faults>>

Execute(r) ==
    /\ runner[r].stage = "execute"
    /\ executed' = [e \in Entry |-> IF e \in runner[r].batch THEN executed[e] + 1 ELSE executed[e]]
    /\ runner' = [runner EXCEPT ![r].stage = "release"]
    /\ UNCHANGED <<broker, store, disturbed, faults>>

(* Seeded fault: the snapshot is not released.                             *)
ReleaseForgotten(r) ==
    /\ runner[r].stage = "release"
    /\ Ack(r) /\ Return(r) /\ Abandon(r)
    /\ UNCHANGED <<appends, buffer, leased, due, executed, disturbed, faults>>

(* releaseSnapshot removes what the snapshot still owns.                   *)
Release(r) ==
    /\ runner[r].stage = "release"
    /\ Remove(Owned(r))
    /\ Ack(r) /\ Return(r)
    /\ UNCHANGED <<appends, orphans, executed, disturbed, faults>>
-----------------------------------------------------------------------------
Fault == faults < MaxFaults /\ faults' = faults + 1

(* The insert fails: nothing is buffered and the broker tries again.       *)
AppendFails(w, m) ==
    /\ Fault
    /\ "mongo" \in Stores
    /\ Delivered(w, m)
    /\ \E fate \in {"queued", "dead"} : broker' = [broker EXCEPT ![m] = fate]
    /\ UNCHANGED <<store, runner, executed, disturbed>>

(* A call of the store fails, or loses its answer.                         *)
ClaimFails(r) ==
    /\ Fault
    /\ runner[r].stage \in {"find", "lease", "read"}
    /\ Nack(r) /\ Return(r) /\ Abandon(r)
    /\ UNCHANGED <<appends, buffer, leased, due, executed, disturbed>>

(* Seeded fault: a failed batch is released all the same.                  *)
ExecuteFailsAndReleases(r) ==
    /\ Fault
    /\ runner[r].stage = "execute"
    /\ Remove(Owned(r))
    /\ Nack(r) /\ Return(r)
    /\ UNCHANGED <<appends, orphans, executed, disturbed>>

(* execute throws: the lease is left, the consumer also reports failure.   *)
ExecuteFails(r) ==
    /\ Fault
    /\ runner[r].stage = "execute"
    /\ Nack(r) /\ Return(r) /\ Abandon(r)
    /\ UNCHANGED <<appends, buffer, leased, due, executed, disturbed>>

(* releaseSnapshot throws, before or after the batch is removed: to the    *)
(* branch this is a failure of execute.                                    *)
ReleaseFails(r) ==
    /\ Fault
    /\ "mongo" \in Stores
    /\ runner[r].stage = "release"
    /\ Nack(r) /\ Return(r)
    /\ \/ Abandon(r) /\ UNCHANGED <<buffer, leased, due>>
       \/ Remove(Owned(r)) /\ UNCHANGED orphans
    /\ disturbed' = disturbed \cup runner[r].batch
    /\ UNCHANGED <<appends, executed>>

(* The host dies: the broker takes the message back.  (A memory store dies *)
(* with its host; what that loses is not modelled.)                        *)
Crash(r) ==
    /\ Fault
    /\ "mongo" \in Stores
    /\ runner[r].stage # "idle"
    /\ Requeue(r) /\ Return(r) /\ Abandon(r)
    /\ disturbed' = IF runner[r].stage = "release" THEN disturbed \cup runner[r].batch
                    ELSE disturbed
    /\ UNCHANGED <<appends, buffer, leased, due, executed>>
-----------------------------------------------------------------------------
Age(e) ==
    /\ e \in buffer \ due
    /\ due' = due \cup {e}
    /\ UNCHANGED <<broker, appends, buffer, leased, owner, orphans, runner, executed, disturbed, faults>>

(* Leases end; who read the clock before has missed it.                    *)
LeasesEnd(S) == leased' = leased \ S
Missed(S) == [r \in Runner |-> IF runner[r].stage \in {"find", "lease"}
                                THEN [runner[r] EXCEPT !.missed = @ \cup S] ELSE runner[r]]

(* The lease of an abandoned snapshot ends.                                *)
LeaseEnds(S) ==
    /\ S \in orphans
    /\ orphans' = orphans \ {S}
    /\ LeasesEnd(S)
    /\ runner' = Missed(S)
    /\ UNCHANGED <<broker, appends, buffer, due, owner, executed, disturbed, faults>>

(* A runner is slower than its lease.                                      *)
Outlasts(r) ==
    /\ Fault
    /\ runner[r].stage \in {"lease", "read", "execute", "release"} /\ ~runner[r].overdue
    /\ LeasesEnd(Owned(r))
    /\ runner' = [Missed(Owned(r) \cap leased) EXCEPT ![r].overdue = TRUE]
    /\ disturbed' = disturbed \cup Held(r)
    /\ UNCHANGED <<broker, appends, buffer, due, owner, orphans, executed>>
-----------------------------------------------------------------------------
Deliver(w) == \E m \in Message : AppendAndClaimInMemory(w, m) \/ Append(w, m)
Flush(t) == FlushInMemory(t) \/ LookForDue(t)
Find(r) == (r \in Worker /\ FindBatch(r)) \/ (r \in Tick /\ FindAll(r))
Go(r) == Find(r) \/ Lease(r) \/ ReadBack(r) \/ Execute(r) \/ Release(r)
Fail(r) == ClaimFails(r) \/ ExecuteFails(r) \/ ReleaseFails(r) \/ Crash(r) \/ Outlasts(r)
TimePasses == (\E e \in Entry : Age(e)) \/ (\E S \in orphans : LeaseEnds(S))

Next ==
    \/ \E w \in Worker : Deliver(w) \/ \E m \in Message : AppendFails(w, m)
    \/ \E t \in Tick : Flush(t)
    \/ \E r \in Runner : Go(r) \/ Fail(r)
    \/ TimePasses

Spec == Init /\ [][Next]_vars

(* Entries age and leases end with time, the flush timer keeps ticking and *)
(* calls return.                                                           *)
Fairness ==
    /\ WF_vars(TimePasses)
    /\ \A t \in Tick : WF_vars(Flush(t))
    /\ \A r \in Runner : WF_vars(Go(r))

FairSpec == Spec /\ Fairness
-----------------------------------------------------------------------------
TypeOK ==
    /\ broker \in [Message -> {"queued", "delivered", "acked", "dead"}]
    /\ appends \in [Message -> 0..MaxFaults + 1]
    /\ buffer \subseteq Entry
    /\ leased \subseteq buffer /\ due \subseteq buffer
    /\ owner \in [Entry -> Runner \cup {Nobody, Gone}]
    /\ orphans \subseteq SUBSET Entry
    /\ runner \in [Runner -> Run]
    /\ executed \in [Entry -> Nat]
    /\ disturbed \subseteq Entry
    /\ faults \in 0..MaxFaults

Appended == {e \in Entry : e[2] <= appends[e[1]]}

(* What was buffered stays so until execute() has returned with it, and    *)
(* the broker may forget a message only once it is buffered.               *)
NothingLost ==
    /\ \A e \in Appended : e \in buffer \/ executed[e] > 0
    /\ \A m \in Message : broker[m] = "acked" => appends[m] > 0

(* Two batches that are being executed share an entry only if one of the   *)
(* runners has outlasted its lease.                                        *)
Exclusive ==
    \A r, s \in Runner : r # s /\ Held(r) \cap Held(s) # {} =>
        runner[r].overdue \/ runner[s].overdue

(* An entry is executed once, unless its batch was executed but not        *)
(* removed in time.                                                        *)
ExecutedOnceUndisturbed == \A e \in Entry \ disturbed : executed[e] <= 1

(* Every buffered entry is executed and removed, faults or not.            *)
EveryEntryExecuted ==
    \A e \in Entry : e \in buffer ~> executed[e] > 0 /\ e \notin buffer
=============================================================================
