--------------------------- MODULE TimeoutPoller ---------------------------
(***************************************************************************)
(* Saga timeouts: the TimeoutPoller of core/src/process/timeout-poller.ts, *)
(* one per bus and store, and the claimDue leases of the memory and        *)
(* MongoDB timeout stores that the pollers share.                          *)
(*                                                                         *)
(* Time is relative: dueIn and lease count down to runAt and claimedUntil, *)
(* and a poller's age is the time since the new Date() of its tick, which  *)
(* is the `now` of the whole claim.  All three saturate at Lease, so that  *)
(* time needs no bound; "unclaimed" is a lease that is long over.          *)
(***************************************************************************)
EXTENDS Integers, FiniteSets

CONSTANTS
    Record,     \* timeout records
    Poller,     \* pollers that share the store, one per host
    NoRecord, NoPoller,
    Stores,     \* the stores' ways to claim: "memory" at once, "mongo" in three calls
    Lease,      \* leaseMs
    Limit,      \* claimDue's limit, 100 in the code
    MaxDelay,   \* bound: the furthest runAt
    MaxFaults   \* bound: crashes, stops, failed sends and store calls

ASSUME TimeoutAssumption ==
    /\ NoRecord \notin Record /\ NoPoller \notin Poller
    /\ Stores \subseteq {"memory", "mongo"}
    /\ Lease \in Nat \ {0} /\ Limit \in Nat \ {0}
    /\ MaxDelay \in Nat /\ MaxFaults \in Nat

VARIABLES
    scheduled,  \* history: records that schedule() has stored
    stored,     \* records in the store
    dueIn,      \* Record -> time until runAt
    lease,      \* Record -> time until claimedUntil
    token,      \* Record -> the poller whose last claim leased it
    poller,     \* Poller -> its tick
    published,  \* Record -> times the broker got it
    disturbed,  \* history: records a fault or an expired lease released
    faults

vars == <<scheduled, stored, dueIn, lease, token, poller, published, disturbed, faults>>
store == <<scheduled, stored, dueIn, lease, token>>
-----------------------------------------------------------------------------
(* A tick: the records it has found or claimed, the one it is busy with.   *)
Tick == [stage: {"off", "idle", "lease", "read", "publish", "delete"}, age: 0..Lease,
         batch: SUBSET Record, current: Record \cup {NoRecord}, stopping: BOOLEAN]

Resting(stage) == [stage |-> stage, age |-> 0, batch |-> {}, current |-> NoRecord,
                   stopping |-> FALSE]

(* What a poller will publish or is publishing.                            *)
Held(p) == IF poller[p].stage \in {"publish", "delete"}
           THEN poller[p].batch \cup ({poller[p].current} \ {NoRecord}) ELSE {}

(* Seeded fault: leases are not looked at.                                 *)
UnleasedIgnored(r, age) == TRUE

(* claimedUntil is absent or not after `now`, `age` ago.                   *)
Unleased(r, age) == lease[r] <= -age

(* The records claimDue may take, and the choice it makes among them: at   *)
(* most Limit, the ones due longest.                                       *)
Eligible(age) == {r \in stored : dueIn[r] <= -age /\ Unleased(r, age)}
Picks(age) ==
    {S \in SUBSET Eligible(age) :
        /\ Cardinality(S) <= Limit
        /\ \A r \in Eligible(age) \ S : /\ Cardinality(S) = Limit
                                        /\ \A s \in S : dueIn[s] <= dueIn[r]}

(* Leasing S; the token is new, so whatever else p leased in an earlier    *)
(* tick no longer counts as its.                                           *)
LeaseTo(p, S) ==
    /\ lease' = [r \in Record |-> IF r \in S THEN Lease - poller[p].age ELSE lease[r]]
    /\ token' = [r \in Record |-> IF r \in S THEN p ELSE IF token[r] = p THEN NoPoller ELSE token[r]]

(* Seeded fault: a tick that failed is never taken off `inflight`.         *)
GoOnHung(p) ==
    poller' = [poller EXCEPT ![p].stage = "publish", ![p].current = NoRecord]

(* The loop over the batch goes on, or the tick ends; a poller that was    *)
(* stopped meanwhile has nothing more to do.                               *)
GoOn(p) ==
    poller' = [poller EXCEPT ![p] =
                 IF @.batch # {} THEN [@ EXCEPT !.stage = "publish", !.current = NoRecord]
                 ELSE Resting(IF @.stopping THEN "off" ELSE "idle")]
-----------------------------------------------------------------------------
Init ==
    /\ scheduled = {} /\ stored = {}
    /\ dueIn \in [Record -> 0..MaxDelay]
    /\ lease = [r \in Record |-> -Lease]
    /\ token = [r \in Record |-> NoPoller]
    /\ poller = [p \in Poller |-> Resting("off")]
    /\ published = [r \in Record |-> 0]
    /\ disturbed = {}
    /\ faults = 0

(* A handler asks for a timeout, in time or late.                          *)
schedule(r) ==
    /\ r \notin scheduled
    /\ scheduled' = scheduled \cup {r}
    /\ stored' = stored \cup {r}
    /\ UNCHANGED <<dueIn, lease, token, poller, published, disturbed, faults>>

Start(p) ==
    /\ poller[p].stage = "off"
    /\ poller' = [poller EXCEPT ![p] = Resting("idle")]
    /\ UNCHANGED <<store, published, disturbed, faults>>

(* The memory store claims in the same turn of the event loop.             *)
ClaimInMemory(p) ==
    /\ "memory" \in Stores
    /\ poller[p].stage = "idle"
    /\ \E S \in Picks(0) \ {{}} :
         /\ LeaseTo(p, S)
         /\ poller' = [poller EXCEPT ![p].stage = "publish", ![p].batch = S]
    /\ UNCHANGED <<scheduled, stored, dueIn, published, disturbed, faults>>

(* MongoDB: find the candidates, lease those that are still free, read     *)
(* back the ones that carry this call's token.                             *)
FindCandidates(p) ==
    /\ "mongo" \in Stores
    /\ poller[p].stage = "idle"
    /\ \E S \in Picks(0) \ {{}} :
         poller' = [poller EXCEPT ![p].stage = "lease", ![p].batch = S]
    /\ UNCHANGED <<store, published, disturbed, faults>>

LeaseCandidates(p) ==
    /\ poller[p].stage = "lease"
    /\ LeaseTo(p, {r \in poller[p].batch \cap stored : Unleased(r, poller[p].age)})
    /\ poller' = [poller EXCEPT ![p].stage = "read", ![p].batch = {}]
    /\ UNCHANGED <<scheduled, stored, dueIn, published, disturbed, faults>>

ReadBack(p) ==
    /\ poller[p].stage = "read"
    /\ LET claimed == {r \in stored : token[r] = p}
       IN /\ poller' = [poller EXCEPT ![p] =
                          IF claimed # {} THEN [@ EXCEPT !.stage = "publish", !.batch = claimed]
                          ELSE Resting(IF @.stopping THEN "off" ELSE "idle")]
          /\ disturbed' = IF poller[p].age = Lease THEN disturbed \cup claimed ELSE disturbed
    /\ UNCHANGED <<store, published, faults>>

(* The next record of the batch, in the order of runAt.                    *)
IsNext(p, r) == r \in poller[p].batch /\ \A s \in poller[p].batch : dueIn[r] <= dueIn[s]

Publishing(p, r) ==
    /\ poller[p].stage = "publish" /\ poller[p].current = NoRecord
    /\ IsNext(p, r)

PublishOk(p, r) ==
    /\ Publishing(p, r)
    /\ published' = [published EXCEPT ![r] = @ + 1]
    /\ poller' = [poller EXCEPT ![p].stage = "delete", ![p].batch = @ \ {r}, ![p].current = r]
    /\ UNCHANGED <<store, disturbed, faults>>

(* Seeded fault: the record is published again by every later claim.       *)
DeleteSkipped(p) ==
    /\ poller[p].stage = "delete"
    /\ GoOn(p)
    /\ UNCHANGED <<store, published, disturbed, faults>>

Delete(p) ==
    /\ poller[p].stage = "delete"
    /\ stored' = stored \ {poller[p].current}
    /\ GoOn(p)
    /\ UNCHANGED <<scheduled, dueIn, lease, token, published, disturbed, faults>>
-----------------------------------------------------------------------------
Fault == faults < MaxFaults /\ faults' = faults + 1

Skip(p, r) ==
    poller' = [poller EXCEPT ![p] =
                 IF poller[p].batch # {r} THEN [@ EXCEPT !.batch = poller[p].batch \ {r}]
                 ELSE Resting(IF @.stopping THEN "off" ELSE "idle")]

(* Seeded fault: no `continue` after a failed publish.                     *)
PublishFailsThenDeletes(p, r) ==
    /\ Fault
    /\ Publishing(p, r)
    /\ stored' = stored \ {r}
    /\ Skip(p, r)
    /\ UNCHANGED <<scheduled, dueIn, lease, token, published, disturbed>>

(* The send fails before the broker has it, or after: the tick goes on     *)
(* with the next record and leaves this one leased.                        *)
PublishFails(p, r) ==
    /\ Fault
    /\ Publishing(p, r)
    /\ Skip(p, r)
    /\ \/ UNCHANGED <<published, disturbed>>
       \/ /\ published' = [published EXCEPT ![r] = @ + 1]
          /\ disturbed' = disturbed \cup {r}
    /\ UNCHANGED store

DeleteFails(p) ==
    /\ Fault
    /\ poller[p].stage = "delete"
    /\ disturbed' = disturbed \cup {poller[p].current}
    /\ GoOn(p)
    /\ UNCHANGED <<store, published>>

(* A call of claimDue fails: the tick is over, what it leased stays leased.*)
ClaimFails(p) ==
    /\ Fault
    /\ poller[p].stage \in {"lease", "read"}
    /\ poller' = [poller EXCEPT ![p] = Resting(IF @.stopping THEN "off" ELSE "idle")]
    /\ UNCHANGED <<store, published, disturbed>>

(* stop() of the bus lets the tick finish; a crash does not.               *)
Stop(p) ==
    /\ Fault
    /\ poller[p].stage # "off" /\ ~poller[p].stopping
    /\ poller' = [poller EXCEPT ![p] = IF @.stage = "idle" THEN Resting("off")
                                       ELSE [@ EXCEPT !.stopping = TRUE]]
    /\ UNCHANGED <<store, published, disturbed>>

Crash(p) ==
    /\ Fault
    /\ poller[p].stage # "off"
    /\ poller' = [poller EXCEPT ![p] = Resting("off")]
    /\ disturbed' = IF poller[p].stage = "delete" THEN disturbed \cup {poller[p].current}
                    ELSE disturbed
    /\ UNCHANGED <<store, published>>
-----------------------------------------------------------------------------
Down(t) == IF t > -Lease THEN t - 1 ELSE t
Aged(t) == [t EXCEPT !.age = IF t.stage \notin {"off", "idle"} /\ @ < Lease THEN @ + 1 ELSE @]

(* Time passes.  A lease that runs out under a tick frees what it holds.   *)
Clock ==
    /\ dueIn' = [r \in Record |-> Down(dueIn[r])]
    /\ lease' = [r \in Record |-> Down(lease[r])]
    /\ poller' = [p \in Poller |-> Aged(poller[p])]
    /\ disturbed' = disturbed \cup UNION {Held(p) : p \in {q \in Poller : poller'[q].age = Lease}}
    /\ UNCHANGED <<scheduled, stored, token, published, faults>>
-----------------------------------------------------------------------------
Claim(p) == ClaimInMemory(p) \/ FindCandidates(p)
Step(p) == \/ LeaseCandidates(p) \/ ReadBack(p) \/ Delete(p)
           \/ \E r \in Record : PublishOk(p, r)

Next ==
    \/ \E r \in Record : schedule(r)
    \/ \E p \in Poller : \/ Start(p) \/ Claim(p) \/ Step(p)
                         \/ DeleteFails(p) \/ ClaimFails(p) \/ Stop(p) \/ Crash(p)
                         \/ \E r \in Record : PublishFails(p, r)
    \/ Clock

Spec == Init /\ [][Next]_vars

(* Time passes, hosts come back, the poll interval elapses, calls return;  *)
(* and a claim that is made again and again is one day read back before    *)
(* its lease runs out (60 s in the code, against one call of the store).   *)
ReadBackInTime(p) == ReadBack(p) /\ poller'[p].batch # {}

Fairness ==
    /\ WF_vars(Clock)
    /\ \A p \in Poller : WF_vars(Start(p)) /\ WF_vars(Claim(p)) /\ WF_vars(Step(p))
    /\ \A p \in Poller : SF_vars(ReadBackInTime(p))

FairSpec == Spec /\ Fairness
-----------------------------------------------------------------------------
TypeOK ==
    /\ scheduled \subseteq Record
    /\ stored \subseteq scheduled
    /\ dueIn \in [Record -> -Lease..MaxDelay]
    /\ lease \in [Record -> -Lease..Lease]
    /\ token \in [Record -> Poller \cup {NoPoller}]
    /\ poller \in [Poller -> Tick]
    /\ published \in [Record -> Nat]
    /\ disturbed \subseteq Record
    /\ faults \in 0..MaxFaults

(* A requested timeout stays in the store until the broker has it, however *)
(* many pollers claim, crash, stop or fail on the way.                     *)
NeverLost == \A r \in scheduled : r \in stored \/ published[r] > 0

(* Two pollers have a record in hand at the same time only if the lease of *)
(* one of them has run out.                                                *)
Exclusive ==
    \A p, q \in Poller : p # q /\ Held(p) \cap Held(q) # {} =>
        poller[p].age = Lease \/ poller[q].age = Lease

(* A timeout is fired once, unless its send or delete went wrong, its      *)
(* poller crashed in between, or its lease ran out in the middle.          *)
FiredOnceUndisturbed == \A r \in Record \ disturbed : published[r] <= 1

(* Every requested timeout is fired and then removed, faults or not.       *)
EveryTimeoutFires == \A r \in Record : r \in scheduled ~> published[r] > 0 /\ r \notin stored
=============================================================================
