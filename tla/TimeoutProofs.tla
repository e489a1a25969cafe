--------------------------- MODULE TimeoutProofs ---------------------------
(***************************************************************************)
(* Proofs about TimeoutPoller, for any records, pollers, lease, limit and  *)
(* number of faults, and for both stores.  The invariant says what a valid *)
(* lease is worth: as long as a tick is younger than its lease, what it    *)
(* holds carries its token and a lease that ends with the tick's (Leased), *)
(* so nobody else can have claimed it.                                     *)
(***************************************************************************)
EXTENDS TimeoutPoller, TLAPS

Stage(p) == poller[p].stage
Valid(p) == poller[p].age < Lease
LeasedTo(p, r) == token[r] = p /\ lease[r] = Lease - poller[p].age

(* A tick is busy with what it is busy with, and with scheduled records.   *)
Busy(p) ==
    /\ Stage(p) \in {"off", "idle"} => poller[p].age = 0
    /\ Stage(p) = "delete" => /\ poller[p].current \in scheduled
                              /\ published[poller[p].current] > 0
                              /\ poller[p].current \notin poller[p].batch
    /\ Stage(p) # "delete" => poller[p].current = NoRecord
    /\ poller[p].batch \subseteq scheduled

Leased(p) ==
    Valid(p) => /\ \A r \in Held(p) : LeasedTo(p, r)
                /\ Stage(p) = "read" => \A r \in Record : token[r] = p => LeasedTo(p, r)

(* What is held longer than its lease is disturbed.                        *)
Expired(p) == ~Valid(p) => Held(p) \subseteq disturbed

PollerInv(p) == Busy(p) /\ Leased(p) /\ Expired(p)

Known == \A r \in Record : published[r] > 0 => r \in scheduled

(* A record no fault touched is published by its one owner, who deletes it.*)
Batched(p) == IF Stage(p) \in {"publish", "delete"} THEN poller[p].batch ELSE {}
Once ==
    \A r \in Record \ disturbed :
        /\ published[r] \in {0, 1}
        /\ published[r] = 1 /\ r \in stored =>
             \E p \in Poller : Stage(p) = "delete" /\ poller[p].current = r
        /\ \A p \in Poller : r \in Batched(p) => published[r] = 0

Inv == TypeOK /\ (\A p \in Poller : PollerInv(p)) /\ Known /\ NeverLost /\ Once
-----------------------------------------------------------------------------
LEMMA HeldTypes ==
    ASSUME TypeOK, NEW p \in Poller
    PROVE  /\ poller[p] \in Tick /\ Held(p) \subseteq Record
           /\ poller[p].age \in 0..Lease /\ poller[p].age \in Nat /\ Lease \in Nat \ {0}
           /\ poller[p].batch \subseteq Record /\ poller[p].current \in Record \cup {NoRecord}
           /\ poller[p].stopping \in BOOLEAN
  <1>1. poller[p] \in Tick
    BY DEF TypeOK
  <1>2. /\ poller[p].batch \subseteq Record /\ poller[p].current \in Record \cup {NoRecord}
        /\ poller[p].age \in 0..Lease /\ poller[p].stopping \in BOOLEAN
    BY <1>1 DEF Tick
  <1>3. Held(p) \subseteq Record
    BY <1>2 DEF Held
  <1> QED
    BY <1>1, <1>2, <1>3, TimeoutAssumption

LEMMA RestingFields ==
    ASSUME NEW stage \in {"off", "idle"}
    PROVE  /\ Resting(stage) \in Tick /\ Resting(stage).stage = stage /\ Resting(stage).age = 0
           /\ Resting(stage).batch = {} /\ Resting(stage).current = NoRecord
           /\ Resting(stage).stopping = FALSE
  BY TimeoutAssumption DEF Resting, Tick

LEMMA InitInv == Init => Inv
  <1> SUFFICES ASSUME Init PROVE Inv
    OBVIOUS
  <1> USE TimeoutAssumption DEF Init
  <1>1. Resting("off") \in Tick /\ Resting("off").stage = "off" /\ Resting("off").age = 0
        /\ Resting("off").batch = {} /\ Resting("off").current = NoRecord
    BY RestingFields
  <1>2. TypeOK
    BY <1>1 DEF TypeOK
  <1>3. \A p \in Poller : Held(p) = {} /\ Stage(p) = "off" /\ Batched(p) = {}
    BY <1>1 DEF Held, Stage, Batched
  <1>4. \A p \in Poller : PollerInv(p)
    BY <1>1, <1>3 DEF PollerInv, Busy, Leased, Expired, Valid
  <1>5. Known /\ NeverLost /\ Once
    BY <1>3 DEF Known, NeverLost, Once
  <1> QED
    BY <1>2, <1>4, <1>5 DEF Inv

(* An owner with a valid lease is the only one.                            *)
LEMMA OneOwner ==
    ASSUME Inv, NEW p \in Poller, NEW q \in Poller, NEW r \in Held(p) \cap Held(q), Valid(p), Valid(q)
    PROVE  p = q
  BY DEF Inv, PollerInv, Leased, LeasedTo

(* Nobody can lease what a valid owner holds.                              *)
LEMMA HeldIsNotFree ==
    ASSUME Inv, NEW p \in Poller, Valid(p), NEW r \in Held(p), NEW age \in 0..Lease
    PROVE  lease[r] > 0 /\ ~Unleased(r, age)
  <1>1. lease[r] = Lease - poller[p].age
    BY DEF Inv, PollerInv, Leased, LeasedTo
  <1>2. poller[p].age \in 0..Lease /\ Lease \in Nat /\ poller[p].age < Lease
    BY HeldTypes DEF Inv, Valid
  <1>3. lease[r] > 0 /\ lease[r] \in Int
    BY <1>1, <1>2
  <1>4. -age <= 0 /\ -age \in Int
    BY <1>2
  <1> QED
    BY <1>3, <1>4 DEF Unleased

(* A record of a tick that no fault touched has a valid owner.             *)
LEMMA UndisturbedIsValid ==
    ASSUME Inv, NEW p \in Poller, NEW r \in Held(p), r \notin disturbed
    PROVE  Valid(p)
  BY DEF Inv, PollerInv, Expired
-----------------------------------------------------------------------------
(* What a step of poller p may do to the leases.                           *)
Releases(p, r) == \/ lease'[r] = lease[r] /\ token'[r] = token[r]
                  \/ lease[r] <= 0 /\ token'[r] = p
                  \/ token[r] = p /\ token'[r] = NoPoller /\ lease'[r] = lease[r]

Alone(p) ==
    /\ \A q \in Poller \ {p} : poller'[q] = poller[q]
    /\ \A r \in Record : Releases(p, r)
    /\ \A r \in Record : published'[r] \in Nat /\ published'[r] >= published[r]
    /\ scheduled \subseteq scheduled' /\ disturbed \subseteq disturbed'

LEMMA OthersKeep ==
    ASSUME Inv, NEW p \in Poller, Alone(p), NEW q \in Poller \ {p}
    PROVE  PollerInv(q)' /\ Held(q)' = Held(q) /\ Batched(q)' = Batched(q) /\ Stage(q)' = Stage(q)
  <1> USE DEF Inv, Alone
  <1>1. poller'[q] = poller[q] /\ PollerInv(q)
    OBVIOUS
  <1>2. Held(q)' = Held(q) /\ Batched(q)' = Batched(q) /\ Stage(q)' = Stage(q) /\ Valid(q)' = Valid(q)
    BY <1>1 DEF Held, Batched, Stage, Valid
  <1>3. Busy(q)'
    <2>1. Stage(q) = "delete" => poller[q].current \in Record /\ published[poller[q].current] \in Nat
      BY <1>1 DEF PollerInv, Busy, TypeOK
    <2>2. Stage(q) = "delete" => published'[poller[q].current] > 0
      <3>1. Stage(q) = "delete" => published[poller[q].current] > 0
        BY <1>1 DEF PollerInv, Busy
      <3> QED
        BY <2>1, <3>1
    <2> QED
      BY <1>1, <1>2, <2>2 DEF PollerInv, Busy
  <1>4. Expired(q)'
    BY <1>1, <1>2 DEF PollerInv, Expired
  <1>5. Leased(q)'
    <2> SUFFICES ASSUME Valid(q) PROVE Leased(q)'
      BY <1>2 DEF Leased
    <2>1. ASSUME NEW r \in Held(q) PROVE LeasedTo(q, r)'
      <3>1. LeasedTo(q, r) /\ r \in Record /\ lease[r] > 0
        BY <1>1, HeldTypes, HeldIsNotFree, TimeoutAssumption DEF PollerInv, Leased
      <3>2. lease'[r] = lease[r] /\ token'[r] = token[r]
        BY <3>1, TimeoutAssumption DEF Releases, LeasedTo, TypeOK
      <3> QED
        BY <1>1, <3>1, <3>2 DEF LeasedTo
    <2>2. ASSUME Stage(q) = "read", NEW r \in Record, token'[r] = q PROVE LeasedTo(q, r)'
      <3>1. lease'[r] = lease[r] /\ token'[r] = token[r]
        BY <2>2, TimeoutAssumption DEF Releases
      <3> QED
        BY <1>1, <2>2, <3>1 DEF PollerInv, Leased, LeasedTo
    <2> QED
      BY <1>2, <2>1, <2>2 DEF Leased
  <1> QED
    BY <1>2, <1>3, <1>4, <1>5 DEF PollerInv

(* So of a step of p only p's part, and the history, is left to show.      *)
LEMMA AloneInv ==
    ASSUME Inv, TypeOK', NEW p \in Poller, Alone(p), PollerInv(p)', Known', NeverLost', Once'
    PROVE  Inv'
  BY OthersKeep DEF Inv
-----------------------------------------------------------------------------
(* Once and Known after a step that publishes nothing and touches only     *)
(* disturbed records' owners.                                              *)
LEMMA QuietHistory ==
    ASSUME Inv, NEW p \in Poller, Alone(p), published' = published,
           \A r \in stored' \ stored : r \notin scheduled,
           \A r \in Record \ disturbed' :
               /\ r \in Batched(p)' => published[r] = 0
               /\ Stage(p) = "delete" /\ poller[p].current = r /\ r \in stored'
                    => Stage(p)' = "delete" /\ poller'[p].current = r
    PROVE  Known' /\ Once'
  <1> USE DEF Inv
  <1>1. Known'
    BY DEF Known, Alone
  <1>2. ASSUME NEW r \in Record \ disturbed' PROVE r \in Record \ disturbed /\ published[r] \in {0, 1}
    BY <1>2 DEF Alone, Once
  <1>3. ASSUME NEW r \in Record \ disturbed', published[r] = 1, r \in stored'
        PROVE  \E q \in Poller : Stage(q)' = "delete" /\ poller'[q].current = r
    <2>1. r \in stored
      BY <1>2, <1>3 DEF Known
    <2>2. PICK q \in Poller : Stage(q) = "delete" /\ poller[q].current = r
      BY <1>2, <1>3, <2>1 DEF Once
    <2>3. CASE q = p
      BY <1>3, <2>2, <2>3
    <2>4. CASE q # p
      BY <2>2, <2>4, OthersKeep DEF Alone
    <2> QED
      BY <2>3, <2>4
  <1>4. ASSUME NEW r \in Record \ disturbed', NEW q \in Poller, r \in Batched(q)'
        PROVE  published[r] = 0
    <2>1. CASE q = p
      BY <1>4, <2>1
    <2>2. CASE q # p
      BY <1>2, <1>4, <2>2, OthersKeep DEF Once
    <2> QED
      BY <2>1, <2>2
  <1>5. Once'
    BY <1>2, <1>3, <1>4 DEF Once
  <1> QED
    BY <1>1, <1>5

(* A poller that comes to rest.                                            *)
LEMMA Rests ==
    ASSUME TypeOK, NEW p \in Poller, NEW stage \in {"off", "idle"},
           poller' = [poller EXCEPT ![p] = Resting(stage)]
    PROVE  /\ poller' \in [Poller -> Tick]
           /\ \A q \in Poller \ {p} : poller'[q] = poller[q]
           /\ PollerInv(p)' /\ Stage(p)' = stage /\ Batched(p)' = {} /\ Held(p)' = {}
  <1>1. /\ poller'[p] = Resting(stage) /\ \A q \in Poller \ {p} : poller'[q] = poller[q]
        /\ poller' \in [Poller -> Tick]
    BY RestingFields DEF TypeOK
  <1>2. /\ poller'[p].stage = stage /\ poller'[p].age = 0 /\ poller'[p].batch = {}
        /\ poller'[p].current = NoRecord
    BY <1>1, RestingFields
  <1>3. Stage(p)' = stage /\ Batched(p)' = {} /\ Held(p)' = {}
    BY <1>2 DEF Stage, Batched, Held
  <1>4. PollerInv(p)'
    BY <1>2, <1>3 DEF PollerInv, Busy, Leased, Expired
  <1> QED
    BY <1>1, <1>3, <1>4

(* A poller whose tick takes a new value, of another stage.                *)
LEMMA Moves ==
    ASSUME TypeOK, NEW p \in Poller, NEW t \in Tick, poller' = [poller EXCEPT ![p] = t]
    PROVE  /\ poller' \in [Poller -> Tick] /\ poller'[p] = t
           /\ \A q \in Poller \ {p} : poller'[q] = poller[q]
  BY DEF TypeOK

(* What LeaseTo does, whoever's leases it meets.                           *)
LEMMA Leases ==
    ASSUME TypeOK, NEW p \in Poller, NEW S \in SUBSET Record, LeaseTo(p, S),
           \A r \in S : lease[r] <= 0
    PROVE  /\ lease' \in [Record -> -Lease..Lease] /\ token' \in [Record -> Poller \cup {NoPoller}]
           /\ \A r \in Record : Releases(p, r)
           /\ \A r \in S : token'[r] = p /\ lease'[r] = Lease - poller[p].age
           /\ \A r \in Record : token'[r] = p => r \in S
  <1>1. poller[p].age \in 0..Lease /\ Lease \in Nat
    BY HeldTypes
  <1>2. Lease - poller[p].age \in -Lease..Lease
    BY <1>1
  <1>3. lease' \in [Record -> -Lease..Lease] /\ token' \in [Record -> Poller \cup {NoPoller}]
    BY <1>2 DEF LeaseTo, TypeOK
  <1>4. \A r \in Record : Releases(p, r)
    BY DEF LeaseTo, Releases, TypeOK
  <1>5. \A r \in S : token'[r] = p /\ lease'[r] = Lease - poller[p].age
    BY DEF LeaseTo
  <1>6. \A r \in Record : token'[r] = p => r \in S
    BY TimeoutAssumption DEF LeaseTo
  <1> QED
    BY <1>3, <1>4, <1>5, <1>6
-----------------------------------------------------------------------------
(* A step of p that schedules and publishes nothing.                       *)
LEMMA QuietStep ==
    ASSUME Inv, NEW p \in Poller,
           poller' \in [Poller -> Tick], \A q \in Poller \ {p} : poller'[q] = poller[q],
           scheduled' = scheduled, dueIn' = dueIn, published' = published,
           lease' \in [Record -> -Lease..Lease], token' \in [Record -> Poller \cup {NoPoller}],
           \A r \in Record : Releases(p, r),
           stored' \subseteq stored, \A r \in stored \ stored' : published[r] > 0,
           disturbed \subseteq disturbed', disturbed' \subseteq Record, faults' \in 0..MaxFaults,
           PollerInv(p)',
           \A r \in Record \ disturbed' :
               /\ r \in Batched(p)' => published[r] = 0
               /\ Stage(p) = "delete" /\ poller[p].current = r /\ r \in stored'
                    => Stage(p)' = "delete" /\ poller'[p].current = r
    PROVE  Inv'
  <1>1. TypeOK'
    BY DEF Inv, TypeOK
  <1>2. Alone(p)
    BY DEF Alone, Inv, TypeOK
  <1>3. NeverLost'
    BY DEF Inv, NeverLost
  <1>4. Known' /\ Once'
    BY <1>2, QuietHistory
  <1> QED
    BY <1>1, <1>2, <1>3, <1>4, AloneInv

(* A step of p that touches no lease and ends its tick.                    *)
LEMMA RestStep ==
    ASSUME Inv, NEW p \in Poller, NEW stage \in {"off", "idle"},
           poller' = [poller EXCEPT ![p] = Resting(stage)],
           UNCHANGED <<scheduled, dueIn, lease, token, published>>,
           stored' \subseteq stored, \A r \in stored \ stored' : published[r] > 0,
           disturbed \subseteq disturbed', disturbed' \subseteq Record, faults' \in 0..MaxFaults,
           Stage(p) = "delete" => poller[p].current \in disturbed' \/ poller[p].current \notin stored'
    PROVE  Inv'
  <1>1. /\ poller' \in [Poller -> Tick] /\ \A q \in Poller \ {p} : poller'[q] = poller[q]
        /\ PollerInv(p)' /\ Batched(p)' = {}
    BY Rests DEF Inv
  <1>2. \A r \in Record : Releases(p, r)
    BY DEF Releases
  <1>3. lease' \in [Record -> -Lease..Lease] /\ token' \in [Record -> Poller \cup {NoPoller}]
    BY DEF Inv, TypeOK
  <1> QED
    BY <1>1, <1>2, <1>3, QuietStep

(* The fields of a tick that goes on.                                      *)
LEMMA TickFields ==
    ASSUME TypeOK, NEW p \in Poller, NEW stage \in {"lease", "read", "publish", "delete"},
           NEW batch \in SUBSET Record, NEW current \in Record \cup {NoRecord}, NEW t,
           t = [poller[p] EXCEPT !.stage = stage, !.batch = batch, !.current = current],
           poller' = [poller EXCEPT ![p] = t]
    PROVE  /\ poller' \in [Poller -> Tick] /\ \A q \in Poller \ {p} : poller'[q] = poller[q]
           /\ poller'[p].stage = stage /\ poller'[p].batch = batch /\ poller'[p].current = current
           /\ poller'[p].age = poller[p].age /\ Stage(p)' = stage /\ Valid(p)' = Valid(p)
  <1>1. poller[p] \in Tick
    BY HeldTypes
  <1>2. /\ t \in Tick /\ t.stage = stage /\ t.batch = batch /\ t.current = current
        /\ t.age = poller[p].age
    BY <1>1 DEF Tick
  <1>3. /\ poller' \in [Poller -> Tick] /\ poller'[p] = t
        /\ \A q \in Poller \ {p} : poller'[q] = poller[q]
    BY <1>2, Moves
  <1> QED
    BY <1>2, <1>3 DEF Stage, Valid
-----------------------------------------------------------------------------
(* A tick that goes on with the rest of what it held.                      *)
LEMMA TickGoesOn ==
    ASSUME Inv, NEW p \in Poller, Stage(p) \in {"publish", "delete"},
           NEW batch \in SUBSET poller[p].batch, NEW t,
           t = [poller[p] EXCEPT !.stage = "publish", !.batch = batch, !.current = NoRecord],
           poller' = [poller EXCEPT ![p] = t],
           UNCHANGED <<scheduled, lease, token>>, disturbed \subseteq disturbed'
    PROVE  /\ poller' \in [Poller -> Tick] /\ \A q \in Poller \ {p} : poller'[q] = poller[q]
           /\ PollerInv(p)' /\ Batched(p)' = batch /\ Stage(p)' = "publish"
  <1>1. TypeOK /\ batch \in SUBSET Record
    BY HeldTypes DEF Inv
  <1>2. /\ poller' \in [Poller -> Tick] /\ \A q \in Poller \ {p} : poller'[q] = poller[q]
        /\ poller'[p].stage = "publish" /\ poller'[p].batch = batch /\ poller'[p].current = NoRecord
        /\ poller'[p].age = poller[p].age /\ Stage(p)' = "publish" /\ Valid(p)' = Valid(p)
    BY <1>1, TickFields
  <1>3. Held(p)' = batch /\ batch \subseteq Held(p) /\ Batched(p)' = batch
    BY <1>2 DEF Held, Batched, Stage
  <1>4. Busy(p)'
    BY <1>2 DEF Busy, Inv, PollerInv
  <1>5. Leased(p)' /\ Expired(p)'
    BY <1>2, <1>3 DEF Leased, LeasedTo, Expired, Inv, PollerInv
  <1> QED
    BY <1>2, <1>3, <1>4, <1>5 DEF PollerInv
-----------------------------------------------------------------------------
LEMMA StartInv == ASSUME Inv, NEW p \in Poller, Start(p) PROVE Inv'
  BY RestStep DEF Start, store, Stage, Inv, TypeOK

LEMMA FindCandidatesInv == ASSUME Inv, NEW p \in Poller, FindCandidates(p) PROVE Inv'
  <1>1. PICK S \in Picks(0) \ {{}} :
          poller' = [poller EXCEPT ![p].stage = "lease", ![p].batch = S]
    BY DEF FindCandidates
  <1>2. S \subseteq stored /\ S \subseteq Record /\ S \subseteq scheduled
    BY <1>1 DEF Picks, Eligible, Inv, TypeOK
  <1>3. /\ poller[p] \in Tick /\ Stage(p) = "idle" /\ poller[p].current = NoRecord
        /\ poller[p].age = 0
    BY HeldTypes DEF FindCandidates, Stage, Inv, PollerInv, Busy
  <1>4. PICK t : t = [poller[p] EXCEPT !.stage = "lease", !.batch = S, !.current = NoRecord]
    OBVIOUS
  <1>5. t = [poller[p] EXCEPT !.stage = "lease", !.batch = S]
    BY <1>3, <1>4 DEF Tick
  <1>6. poller' = [poller EXCEPT ![p] = t]
    BY <1>1, <1>5 DEF Inv, TypeOK
  <1>7. /\ poller' \in [Poller -> Tick] /\ \A q \in Poller \ {p} : poller'[q] = poller[q]
        /\ poller'[p].batch = S /\ poller'[p].current = NoRecord /\ Stage(p)' = "lease"
    <2>1. t \in Tick /\ t.stage = "lease" /\ t.batch = S /\ t.current = NoRecord /\ t.age = poller[p].age
      BY <1>2, <1>3, <1>4 DEF Tick
    <2> QED
      BY <1>6, <2>1, Moves DEF Inv, Stage, Valid
  <1>8. Held(p)' = {} /\ Batched(p)' = {}
    BY <1>7 DEF Held, Batched, Stage
  <1>9. PollerInv(p)'
    BY <1>2, <1>7, <1>8 DEF PollerInv, Busy, Leased, Expired, FindCandidates, store
  <1>10. \A r \in Record : Releases(p, r)
    BY DEF FindCandidates, store, Releases
  <1>11. /\ UNCHANGED <<scheduled, stored, dueIn, published, disturbed>> /\ faults' \in 0..MaxFaults
         /\ disturbed \subseteq Record /\ lease' \in [Record -> -Lease..Lease]
         /\ token' \in [Record -> Poller \cup {NoPoller}]
    BY DEF FindCandidates, store, Inv, TypeOK
  <1>12. \A r \in Record \ disturbed' :
           /\ r \in Batched(p)' => published[r] = 0
           /\ ~ (Stage(p) = "delete")
    BY <1>3, <1>8
  <1> QED
    BY <1>7, <1>9, <1>10, <1>11, <1>12, QuietStep

(* The records a claim can take: none that a valid owner holds, so none    *)
(* that was published and is undisturbed.                                  *)
LEMMA FreeIsUnpublished ==
    ASSUME Inv, NEW r \in stored \ disturbed, NEW age \in 0..Lease, Unleased(r, age)
    PROVE  published[r] = 0
  <1> SUFFICES ASSUME published[r] # 0 PROVE FALSE
    OBVIOUS
  <1>1. r \in Record \ disturbed /\ published[r] = 1
    BY DEF Inv, TypeOK, Once
  <1>2. PICK q \in Poller : Stage(q) = "delete" /\ poller[q].current = r
    BY <1>1 DEF Inv, Once
  <1>3. r \in Held(q)
    BY <1>1, <1>2, TimeoutAssumption DEF Held, Stage
  <1>4. Valid(q)
    BY <1>1, <1>3, UndisturbedIsValid
  <1> QED
    BY <1>3, <1>4, HeldIsNotFree

LEMMA UnleasedIsOver ==
    ASSUME TypeOK, NEW r \in Record, NEW age \in 0..Lease, Unleased(r, age)
    PROVE  lease[r] <= 0
  <1>1. lease[r] \in -Lease..Lease /\ age \in Nat /\ Lease \in Nat
    BY TimeoutAssumption DEF TypeOK
  <1>2. lease[r] \in Int /\ lease[r] <= -age
    BY <1>1 DEF Unleased
  <1> QED
    BY <1>1, <1>2

LEMMA ClaimInMemoryInv == ASSUME Inv, NEW p \in Poller, ClaimInMemory(p) PROVE Inv'
  <1>1. PICK S \in Picks(0) \ {{}} :
          /\ LeaseTo(p, S)
          /\ poller' = [poller EXCEPT ![p].stage = "publish", ![p].batch = S]
    BY DEF ClaimInMemory
  <1>2. S \subseteq stored /\ S \subseteq Record /\ S \subseteq scheduled /\ \A r \in S : Unleased(r, 0)
    BY <1>1 DEF Picks, Eligible, Inv, TypeOK
  <1>3. /\ poller[p] \in Tick /\ Stage(p) = "idle" /\ poller[p].current = NoRecord
        /\ poller[p].age = 0 /\ 0 \in 0..Lease /\ 0 < Lease
    BY HeldTypes DEF ClaimInMemory, Stage, Inv, PollerInv, Busy
  <1>4. PICK t : t = [poller[p] EXCEPT !.stage = "publish", !.batch = S, !.current = NoRecord]
    OBVIOUS
  <1>5. t = [poller[p] EXCEPT !.stage = "publish", !.batch = S]
    BY <1>3, <1>4 DEF Tick
  <1>6. poller' = [poller EXCEPT ![p] = t]
    BY <1>1, <1>5 DEF Inv, TypeOK
  <1>7. /\ poller' \in [Poller -> Tick] /\ \A q \in Poller \ {p} : poller'[q] = poller[q]
        /\ poller'[p].batch = S /\ poller'[p].current = NoRecord /\ Stage(p)' = "publish"
        /\ poller'[p].age = poller[p].age /\ Valid(p)' = Valid(p) /\ poller'[p].stage = "publish"
    <2>1. t \in Tick /\ t.stage = "publish" /\ t.batch = S /\ t.current = NoRecord /\ t.age = poller[p].age
      BY <1>2, <1>3, <1>4 DEF Tick
    <2> QED
      BY <1>6, <2>1, Moves DEF Inv, Stage, Valid
  <1>8. Held(p)' = S /\ Batched(p)' = S
    BY <1>7 DEF Held, Batched, Stage
  <1>9. /\ lease' \in [Record -> -Lease..Lease] /\ token' \in [Record -> Poller \cup {NoPoller}]
        /\ \A r \in Record : Releases(p, r)
        /\ \A r \in S : token'[r] = p /\ lease'[r] = Lease - poller[p].age
    BY <1>1, <1>2, <1>3, UnleasedIsOver, Leases DEF Inv
  <1>10. Valid(p) /\ Valid(p)'
    BY <1>3, <1>7 DEF Valid
  <1>11. PollerInv(p)'
    BY <1>2, <1>7, <1>8, <1>9, <1>10 DEF PollerInv, Busy, Leased, LeasedTo, Expired, ClaimInMemory
  <1>12. \A r \in Record \ disturbed' : r \in Batched(p)' => published[r] = 0
    BY <1>2, <1>3, <1>8, FreeIsUnpublished DEF ClaimInMemory
  <1>13. /\ UNCHANGED <<scheduled, stored, dueIn, published, disturbed>> /\ faults' \in 0..MaxFaults
         /\ disturbed \subseteq Record
    BY DEF ClaimInMemory, Inv, TypeOK
  <1> QED
    BY <1>3, <1>7, <1>9, <1>11, <1>12, <1>13, QuietStep

LEMMA LeaseCandidatesInv == ASSUME Inv, NEW p \in Poller, LeaseCandidates(p) PROVE Inv'
  <1>1. PICK S : S = {r \in poller[p].batch \cap stored : Unleased(r, poller[p].age)}
    OBVIOUS
  <1>2. LeaseTo(p, S) /\ poller' = [poller EXCEPT ![p].stage = "read", ![p].batch = {}]
    BY <1>1 DEF LeaseCandidates
  <1>3. /\ poller[p] \in Tick /\ Stage(p) = "lease" /\ poller[p].current = NoRecord
        /\ poller[p].age \in 0..Lease
    BY HeldTypes DEF LeaseCandidates, Stage, Inv, PollerInv, Busy
  <1>4. S \subseteq Record /\ \A r \in S : Unleased(r, poller[p].age)
    BY <1>1 DEF Inv, TypeOK
  <1>5. PICK t : t = [poller[p] EXCEPT !.stage = "read", !.batch = {}, !.current = NoRecord]
    OBVIOUS
  <1>6. t = [poller[p] EXCEPT !.stage = "read", !.batch = {}]
    BY <1>3, <1>5 DEF Tick
  <1>7. poller' = [poller EXCEPT ![p] = t]
    BY <1>2, <1>6 DEF Inv, TypeOK
  <1>8. /\ poller' \in [Poller -> Tick] /\ \A q \in Poller \ {p} : poller'[q] = poller[q]
        /\ poller'[p].batch = {} /\ poller'[p].current = NoRecord /\ Stage(p)' = "read"
        /\ poller'[p].age = poller[p].age /\ poller'[p].stage = "read"
    <2>1. t \in Tick /\ t.stage = "read" /\ t.batch = {} /\ t.current = NoRecord /\ t.age = poller[p].age
      BY <1>3, <1>5 DEF Tick
    <2> QED
      BY <1>7, <2>1, Moves DEF Inv, Stage, Valid
  <1>9. Held(p)' = {} /\ Batched(p)' = {}
    BY <1>8 DEF Held, Batched, Stage
  <1>10. /\ lease' \in [Record -> -Lease..Lease] /\ token' \in [Record -> Poller \cup {NoPoller}]
         /\ \A r \in Record : Releases(p, r)
         /\ \A r \in S : token'[r] = p /\ lease'[r] = Lease - poller[p].age
         /\ \A r \in Record : token'[r] = p => r \in S
    BY <1>2, <1>3, <1>4, UnleasedIsOver, Leases DEF Inv
  <1>11. PollerInv(p)'
    BY <1>8, <1>9, <1>10 DEF PollerInv, Busy, Leased, LeasedTo, Expired
  <1>12. /\ UNCHANGED <<scheduled, stored, dueIn, published, disturbed>> /\ faults' \in 0..MaxFaults
         /\ disturbed \subseteq Record
    BY DEF LeaseCandidates, Inv, TypeOK
  <1> QED
    BY <1>3, <1>8, <1>9, <1>10, <1>11, <1>12, QuietStep

LEMMA RestKind == ASSUME NEW b \in BOOLEAN PROVE (IF b THEN "off" ELSE "idle") \in {"off", "idle"}
  OBVIOUS

LEMMA ReadBackInv == ASSUME Inv, NEW p \in Poller, ReadBack(p) PROVE Inv'
  <1>1. PICK S : S = {r \in stored : token[r] = p}
    OBVIOUS
  <1>2. /\ poller[p] \in Tick /\ Stage(p) = "read" /\ poller[p].current = NoRecord
        /\ poller[p].age \in 0..Lease /\ poller[p].stopping \in BOOLEAN /\ Lease \in Nat
    BY HeldTypes DEF ReadBack, Stage, Inv, PollerInv, Busy
  <1>3. S \subseteq stored /\ S \subseteq Record /\ S \subseteq scheduled /\ \A r \in S : token[r] = p
    BY <1>1 DEF Inv, TypeOK
  <1>4. /\ UNCHANGED <<scheduled, stored, dueIn, lease, token, published, faults>>
        /\ disturbed' = IF poller[p].age = Lease THEN disturbed \cup S ELSE disturbed
        /\ faults' \in 0..MaxFaults
    BY <1>1 DEF ReadBack, store, Inv, TypeOK
  <1>5. disturbed \subseteq disturbed' /\ disturbed' \subseteq Record
    BY <1>3, <1>4 DEF Inv, TypeOK
  <1>6. CASE S = {}
    <2>1. PICK stage \in {"off", "idle"} : poller' = [poller EXCEPT ![p] = Resting(stage)]
      BY <1>1, <1>2, <1>6, RestKind DEF ReadBack
    <2> QED
      BY <1>2, <1>4, <1>5, <2>1, RestStep
  <1>7. CASE S # {}
    <2>1. PICK t : t = [poller[p] EXCEPT !.stage = "publish", !.batch = S]
      OBVIOUS
    <2>2. poller' = [poller EXCEPT ![p] = t]
      BY <1>1, <1>7, <2>1 DEF ReadBack
    <2>3. /\ t \in Tick /\ t.stage = "publish" /\ t.batch = S /\ t.current = NoRecord
          /\ t.age = poller[p].age
      BY <1>2, <1>3, <2>1 DEF Tick
    <2>4. /\ poller' \in [Poller -> Tick] /\ \A q \in Poller \ {p} : poller'[q] = poller[q]
          /\ poller'[p].batch = S /\ poller'[p].current = NoRecord /\ Stage(p)' = "publish"
          /\ poller'[p].age = poller[p].age /\ Valid(p)' = Valid(p) /\ poller'[p].stage = "publish"
      BY <2>2, <2>3, Moves DEF Inv, Stage, Valid
    <2>5. Held(p)' = S /\ Batched(p)' = S
      BY <2>4 DEF Held, Batched, Stage
    <2>6. Valid(p) => \A r \in S : LeasedTo(p, r)
      BY <1>2, <1>3 DEF Inv, PollerInv, Leased
    <2>7. ~Valid(p) => S \subseteq disturbed'
      BY <1>2, <1>4 DEF Valid
    <2>8. PollerInv(p)'
      BY <1>3, <1>4, <2>4, <2>5, <2>6, <2>7 DEF PollerInv, Busy, Leased, LeasedTo, Expired
    <2>9. ASSUME NEW r \in S, r \notin disturbed' PROVE published[r] = 0
      <3>1. Valid(p) /\ token[r] = p /\ lease[r] = Lease - poller[p].age /\ r \in stored \ disturbed
        BY <1>3, <1>5, <2>6, <2>7, <2>9 DEF LeasedTo
      <3>2. SUFFICES ASSUME published[r] # 0 PROVE FALSE
        OBVIOUS
      <3>3. r \in Record \ disturbed /\ published[r] = 1
        BY <3>1, <3>2, <1>3, <2>9 DEF Inv, Once
      <3>4. PICK q \in Poller : Stage(q) = "delete" /\ poller[q].current = r
        BY <3>1, <3>3 DEF Inv, Once
      <3>5. r \in Held(q)
        BY <3>3, <3>4, TimeoutAssumption DEF Held, Stage
      <3>6. Valid(q)
        BY <3>3, <3>5, UndisturbedIsValid
      <3>7. token[r] = q
        BY <3>5, <3>6 DEF Inv, PollerInv, Leased, LeasedTo
      <3> QED
        BY <1>2, <3>1, <3>4, <3>7
    <2>10. \A r \in Record : Releases(p, r)
      BY <1>4 DEF Releases
    <2>11. lease' \in [Record -> -Lease..Lease] /\ token' \in [Record -> Poller \cup {NoPoller}]
      BY <1>4 DEF Inv, TypeOK
    <2> QED
      BY <1>2, <1>4, <1>5, <2>4, <2>5, <2>8, <2>9, <2>10, <2>11, QuietStep
  <1> QED
    BY <1>6, <1>7

(* The end of a delete, done or failed.                                    *)
LEMMA GoOnInv ==
    ASSUME Inv, NEW p \in Poller, Stage(p) = "delete", GoOn(p),
           UNCHANGED <<scheduled, dueIn, lease, token, published>>, faults' \in 0..MaxFaults,
           disturbed \subseteq disturbed', disturbed' \subseteq Record,
           stored' \subseteq stored, \A r \in stored \ stored' : r = poller[p].current,
           poller[p].current \in disturbed' \/ poller[p].current \notin stored'
    PROVE  Inv'
  <1>1. published[poller[p].current] > 0 /\ poller[p] \in Tick /\ poller[p].stopping \in BOOLEAN
    BY HeldTypes DEF Inv, PollerInv, Busy
  <1>2. CASE poller[p].batch = {}
    <2>1. PICK stage \in {"off", "idle"} : poller' = [poller EXCEPT ![p] = Resting(stage)]
      BY <1>1, <1>2, RestKind DEF GoOn
    <2> QED
      BY <1>1, <2>1, RestStep
  <1>3. CASE poller[p].batch # {}
    <2>1. PICK t : t = [poller[p] EXCEPT !.stage = "publish", !.batch = poller[p].batch, !.current = NoRecord]
      OBVIOUS
    <2>2. t = [poller[p] EXCEPT !.stage = "publish", !.current = NoRecord]
      BY <1>1, <2>1 DEF Tick
    <2>3. poller' = [poller EXCEPT ![p] = t]
      BY <1>3, <2>2 DEF GoOn
    <2>4. /\ poller' \in [Poller -> Tick] /\ \A q \in Poller \ {p} : poller'[q] = poller[q]
          /\ PollerInv(p)' /\ Batched(p)' = poller[p].batch
      BY <2>1, <2>3, TickGoesOn
    <2>5. \A r \in Record : Releases(p, r)
      BY DEF Releases
    <2>6. lease' \in [Record -> -Lease..Lease] /\ token' \in [Record -> Poller \cup {NoPoller}]
      BY DEF Inv, TypeOK
    <2>7. \A r \in Record \ disturbed' : r \in Batched(p)' => published[r] = 0
      BY <2>4 DEF Inv, Once, Batched
    <2> QED
      BY <1>1, <2>4, <2>5, <2>6, <2>7, QuietStep
  <1> QED
    BY <1>2, <1>3

LEMMA DeleteInv == ASSUME Inv, NEW p \in Poller, Delete(p) PROVE Inv'
  <1>1. Stage(p) = "delete" /\ GoOn(p)
    BY DEF Delete, Stage
  <1>2. /\ UNCHANGED <<scheduled, dueIn, lease, token, published>> /\ faults' \in 0..MaxFaults
        /\ disturbed' = disturbed /\ disturbed \subseteq Record
        /\ stored' = stored \ {poller[p].current}
    BY DEF Delete, Inv, TypeOK
  <1> QED
    BY <1>1, <1>2, GoOnInv

LEMMA FaultBound == ASSUME Inv, Fault PROVE faults' \in 0..MaxFaults
  BY TimeoutAssumption DEF Fault, Inv, TypeOK

LEMMA DeleteFailsInv == ASSUME Inv, NEW p \in Poller, DeleteFails(p) PROVE Inv'
  <1>1. Stage(p) = "delete" /\ GoOn(p) /\ faults' \in 0..MaxFaults
    BY FaultBound DEF DeleteFails, Stage
  <1>2. poller[p].current \in Record
    BY <1>1 DEF Inv, PollerInv, Busy, TypeOK
  <1>3. /\ UNCHANGED <<scheduled, stored, dueIn, lease, token, published>>
        /\ disturbed' = disturbed \cup {poller[p].current} /\ disturbed \subseteq Record
    BY DEF DeleteFails, store, Inv, TypeOK
  <1> QED
    BY <1>1, <1>2, <1>3, GoOnInv

LEMMA ClaimFailsInv == ASSUME Inv, NEW p \in Poller, ClaimFails(p) PROVE Inv'
  <1>1. poller[p].stopping \in BOOLEAN /\ Stage(p) # "delete" /\ faults' \in 0..MaxFaults
    BY HeldTypes, FaultBound DEF ClaimFails, Stage, Inv
  <1>2. PICK stage \in {"off", "idle"} : poller' = [poller EXCEPT ![p] = Resting(stage)]
    BY <1>1, RestKind DEF ClaimFails
  <1>3. UNCHANGED <<scheduled, stored, dueIn, lease, token, published, disturbed>> /\ disturbed \subseteq Record
    BY DEF ClaimFails, store, Inv, TypeOK
  <1> QED
    BY <1>1, <1>2, <1>3, RestStep

LEMMA CrashInv == ASSUME Inv, NEW p \in Poller, Crash(p) PROVE Inv'
  <1>1. poller' = [poller EXCEPT ![p] = Resting("off")] /\ faults' \in 0..MaxFaults
    BY FaultBound DEF Crash
  <1>2. Stage(p) = "delete" => poller[p].current \in Record
    BY DEF Inv, PollerInv, Busy, TypeOK
  <1>3. /\ UNCHANGED <<scheduled, stored, dueIn, lease, token, published>>
        /\ disturbed \subseteq disturbed' /\ disturbed' \subseteq Record
        /\ Stage(p) = "delete" => poller[p].current \in disturbed'
    BY <1>2 DEF Crash, store, Stage, Inv, TypeOK
  <1> QED
    BY <1>1, <1>3, RestStep

LEMMA StopInv == ASSUME Inv, NEW p \in Poller, Stop(p) PROVE Inv'
  <1>1. /\ UNCHANGED <<scheduled, stored, dueIn, lease, token, published, disturbed>>
        /\ disturbed \subseteq Record /\ faults' \in 0..MaxFaults
        /\ lease \in [Record -> -Lease..Lease] /\ token \in [Record -> Poller \cup {NoPoller}]
    BY FaultBound DEF Stop, store, Inv, TypeOK
  <1>2. CASE Stage(p) = "idle"
    <2>1. poller' = [poller EXCEPT ![p] = Resting("off")]
      BY <1>2 DEF Stop, Stage
    <2> QED
      BY <1>1, <1>2, <2>1, RestStep
  <1>3. CASE Stage(p) # "idle"
    <2>1. PICK t : t = [poller[p] EXCEPT !.stopping = TRUE]
      OBVIOUS
    <2>2. poller[p] \in Tick
      BY HeldTypes DEF Inv
    <2>3. poller' = [poller EXCEPT ![p] = t]
      BY <1>3, <2>1 DEF Stop, Stage
    <2>4. /\ t \in Tick /\ t.stage = poller[p].stage /\ t.batch = poller[p].batch
          /\ t.current = poller[p].current /\ t.age = poller[p].age
      BY <2>1, <2>2 DEF Tick
    <2>5. /\ poller' \in [Poller -> Tick] /\ \A q \in Poller \ {p} : poller'[q] = poller[q]
          /\ poller'[p] = t
      BY <2>3, <2>4, Moves DEF Inv
    <2>6. /\ Held(p)' = Held(p) /\ Batched(p)' = Batched(p) /\ Stage(p)' = Stage(p)
          /\ Valid(p)' = Valid(p)
      BY <2>4, <2>5 DEF Held, Batched, Stage, Valid
    <2>7. PollerInv(p)'
      BY <1>1, <2>4, <2>5, <2>6 DEF PollerInv, Busy, Leased, LeasedTo, Expired, Inv
    <2>8. \A r \in Record : Releases(p, r)
      BY <1>1 DEF Releases
    <2>9. \A r \in Record \ disturbed' : r \in Batched(p)' => published[r] = 0
      BY <1>1, <2>6 DEF Inv, Once
    <2> QED
      BY <1>1, <2>4, <2>5, <2>6, <2>7, <2>8, <2>9, QuietStep
  <1> QED
    BY <1>2, <1>3
-----------------------------------------------------------------------------
LEMMA PublishingHolds ==
    ASSUME Inv, NEW p \in Poller, NEW r \in Record, Publishing(p, r)
    PROVE  /\ r \in poller[p].batch /\ r \in Held(p) /\ r \in Batched(p) /\ Stage(p) = "publish"
           /\ poller[p].current = NoRecord /\ r # NoRecord /\ r \in scheduled
           /\ r \notin disturbed => published[r] = 0 /\ Valid(p)
  <1>1. /\ r \in poller[p].batch /\ r \in Held(p) /\ r \in Batched(p) /\ Stage(p) = "publish"
        /\ poller[p].current = NoRecord /\ r # NoRecord
    BY TimeoutAssumption DEF Publishing, IsNext, Held, Batched, Stage
  <1>2. r \in scheduled
    BY <1>1 DEF Inv, PollerInv, Busy
  <1>3. r \notin disturbed => published[r] = 0 /\ Valid(p)
    BY <1>1, UndisturbedIsValid DEF Inv, Once
  <1> QED
    BY <1>1, <1>2, <1>3

(* A record that nobody disturbed is in the batch of one poller only.      *)
LEMMA OneBatch ==
    ASSUME Inv, NEW p \in Poller, NEW q \in Poller \ {p}, NEW r \in Held(p), r \notin disturbed
    PROVE  r \notin Batched(q)
  <1> SUFFICES ASSUME r \in Batched(q) PROVE FALSE
    OBVIOUS
  <1>1. r \in Held(q)
    BY DEF Batched, Held, Stage
  <1>2. Valid(p) /\ Valid(q)
    BY <1>1, UndisturbedIsValid
  <1> QED
    BY <1>1, <1>2, OneOwner

(* The broker has a record once more: its send is answered, and p is about *)
(* to delete it, or it is not, and the record is disturbed.                *)
LEMMA PublishedInv ==
    ASSUME Inv, NEW p \in Poller, NEW r \in Record, Publishing(p, r),
           poller' \in [Poller -> Tick], \A q \in Poller \ {p} : poller'[q] = poller[q],
           UNCHANGED <<scheduled, stored, dueIn, lease, token>>, faults' \in 0..MaxFaults,
           published' = [published EXCEPT ![r] = @ + 1],
           disturbed \subseteq disturbed', disturbed' \subseteq Record,
           PollerInv(p)', Batched(p)' = poller[p].batch \ {r},
           r \in disturbed' \/ (Stage(p)' = "delete" /\ poller'[p].current = r)
    PROVE  Inv'
  <1>1. published \in [Record -> Nat] /\ published' \in [Record -> Nat]
    BY DEF Inv, TypeOK
  <1>2. /\ published'[r] = published[r] + 1 /\ published'[r] > 0
        /\ \A s \in Record \ {r} : published'[s] = published[s]
        /\ \A s \in Record : published'[s] >= published[s]
    BY <1>1
  <1>3. TypeOK'
    BY <1>1 DEF Inv, TypeOK
  <1>4. Alone(p)
    BY <1>1, <1>2 DEF Alone, Releases
  <1>5. r \in scheduled /\ Stage(p) = "publish" /\ r \in Held(p)
    BY PublishingHolds
  <1>6. Known' /\ NeverLost'
    <2>1. Known'
      BY <1>2, <1>5 DEF Known, Inv
    <2>2. ASSUME NEW s \in scheduled PROVE s \in stored' \/ published'[s] > 0
      BY <1>1, <1>2, s \in Record DEF Inv, NeverLost, TypeOK
    <2> QED
      BY <2>1, <2>2 DEF NeverLost
  <1>7. ASSUME NEW s \in Record \ disturbed'
        PROVE  /\ published'[s] \in {0, 1}
               /\ published'[s] = 1 /\ s \in stored' =>
                    \E q \in Poller : Stage(q)' = "delete" /\ poller'[q].current = s
               /\ \A q \in Poller : s \in Batched(q)' => published'[s] = 0
    <2>1. s \notin disturbed
      BY <1>7
    <2>2. CASE s = r
      <3>1. published[r] = 0 /\ published'[r] = 1 /\ Stage(p)' = "delete" /\ poller'[p].current = r
        BY <1>2, <1>7, <2>1, <2>2, PublishingHolds
      <3>2. r \notin Batched(p)'
        OBVIOUS
      <3>3. \A q \in Poller \ {p} : r \notin Batched(q)'
        BY <1>4, <1>5, <2>1, <2>2, OneBatch, OthersKeep
      <3> QED
        BY <2>2, <3>1, <3>2, <3>3
    <2>3. CASE s # r
      <3>1. published'[s] = published[s] /\ published[s] \in {0, 1}
        BY <1>2, <2>1, <2>3 DEF Inv, Once
      <3>2. ASSUME published[s] = 1, s \in stored
            PROVE  \E q \in Poller : Stage(q)' = "delete" /\ poller'[q].current = s
        <4>1. PICK q \in Poller : Stage(q) = "delete" /\ poller[q].current = s
          BY <2>1, <3>2 DEF Inv, Once
        <4>2. q # p
          BY <1>5, <4>1
        <4> QED
          BY <1>4, <4>1, <4>2, OthersKeep
      <3>3. ASSUME NEW q \in Poller, s \in Batched(q)' PROVE published[s] = 0
        <4>1. s \in Batched(q)
          <5>1. CASE q = p
            BY <1>5, <3>3, <5>1 DEF Batched
          <5>2. CASE q # p
            BY <1>4, <3>3, <5>2, OthersKeep
          <5> QED
            BY <5>1, <5>2
        <4> QED
          BY <2>1, <4>1 DEF Inv, Once
      <3> QED
        BY <3>1, <3>2, <3>3
    <2> QED
      BY <2>2, <2>3
  <1>8. Once'
    BY <1>7 DEF Once
  <1> QED
    BY <1>3, <1>4, <1>6, <1>8, AloneInv

LEMMA PublishOkInv ==
    ASSUME Inv, NEW p \in Poller, NEW r \in Record, PublishOk(p, r) PROVE Inv'
  <1>1. /\ Publishing(p, r) /\ published' = [published EXCEPT ![r] = @ + 1]
        /\ UNCHANGED <<scheduled, stored, dueIn, lease, token, disturbed>>
        /\ faults' \in 0..MaxFaults /\ disturbed \subseteq Record
    BY DEF PublishOk, store, Inv, TypeOK
  <1>2. /\ poller[p] \in Tick /\ r \in poller[p].batch /\ Stage(p) = "publish" /\ r # NoRecord
        /\ poller[p].batch \subseteq Record /\ r \in scheduled /\ r \in Held(p)
    BY <1>1, HeldTypes, PublishingHolds DEF Inv
  <1>3. PICK t : t = [poller[p] EXCEPT !.stage = "delete", !.batch = poller[p].batch \ {r}, !.current = r]
    OBVIOUS
  <1>4. poller' = [poller EXCEPT ![p] = t]
    BY <1>2, <1>3 DEF PublishOk, Inv, TypeOK
  <1>5. /\ t \in Tick /\ t.stage = "delete" /\ t.batch = poller[p].batch \ {r} /\ t.current = r
        /\ t.age = poller[p].age
    BY <1>2, <1>3 DEF Tick
  <1>6. /\ poller' \in [Poller -> Tick] /\ \A q \in Poller \ {p} : poller'[q] = poller[q]
        /\ poller'[p] = t /\ Stage(p)' = "delete" /\ Valid(p)' = Valid(p)
    BY <1>4, <1>5, Moves DEF Inv, Stage, Valid
  <1>7. Held(p)' = Held(p) /\ Batched(p)' = poller[p].batch \ {r}
    <2>1. Held(p) = poller[p].batch
      BY <1>1 DEF Held, Publishing
    <2>2. Held(p)' = (poller[p].batch \ {r}) \cup {r} /\ Batched(p)' = poller[p].batch \ {r}
      BY <1>2, <1>5, <1>6 DEF Held, Batched, Stage
    <2> QED
      BY <1>2, <2>1, <2>2
  <1>8. published'[r] > 0
    <2>1. published[r] \in Nat /\ published'[r] = published[r] + 1
      BY <1>1 DEF Inv, TypeOK
    <2> QED
      BY <2>1
  <1>9. Busy(p)'
    BY <1>1, <1>2, <1>5, <1>6, <1>8 DEF Busy, Inv, PollerInv
  <1>10. Leased(p)' /\ Expired(p)'
    BY <1>1, <1>5, <1>6, <1>7 DEF Leased, LeasedTo, Expired, Inv, PollerInv
  <1> QED
    BY <1>1, <1>5, <1>6, <1>7, <1>9, <1>10, PublishedInv DEF PollerInv

(* The batch without r.                                                    *)
LEMMA SkipGoesOn ==
    ASSUME Inv, NEW p \in Poller, NEW r \in Record, Publishing(p, r), Skip(p, r),
           UNCHANGED <<scheduled, lease, token>>, disturbed \subseteq disturbed'
    PROVE  /\ poller' \in [Poller -> Tick] /\ \A q \in Poller \ {p} : poller'[q] = poller[q]
           /\ PollerInv(p)' /\ Batched(p)' = poller[p].batch \ {r}
  <1>1. /\ poller[p] \in Tick /\ r \in poller[p].batch /\ Stage(p) = "publish"
        /\ poller[p].current = NoRecord /\ poller[p].stopping \in BOOLEAN
    BY HeldTypes, PublishingHolds DEF Inv
  <1>2. CASE poller[p].batch = {r}
    <2>1. PICK stage \in {"off", "idle"} : poller' = [poller EXCEPT ![p] = Resting(stage)]
      BY <1>1, <1>2, RestKind DEF Skip
    <2> QED
      BY <1>2, <2>1, Rests DEF Inv
  <1>3. CASE poller[p].batch # {r}
    <2>1. PICK t : t = [poller[p] EXCEPT !.stage = "publish", !.batch = poller[p].batch \ {r}, !.current = NoRecord]
      OBVIOUS
    <2>2. t = [poller[p] EXCEPT !.batch = poller[p].batch \ {r}]
      BY <1>1, <2>1 DEF Tick, Stage
    <2>3. poller' = [poller EXCEPT ![p] = t]
      BY <1>3, <2>2 DEF Skip
    <2> QED
      BY <1>1, <2>1, <2>3, TickGoesOn
  <1> QED
    BY <1>2, <1>3

LEMMA PublishFailsInv ==
    ASSUME Inv, NEW p \in Poller, NEW r \in Record, PublishFails(p, r) PROVE Inv'
  <1>1. /\ Publishing(p, r) /\ Skip(p, r) /\ UNCHANGED <<scheduled, stored, dueIn, lease, token>>
        /\ faults' \in 0..MaxFaults /\ disturbed \subseteq Record /\ disturbed \subseteq disturbed'
    BY FaultBound DEF PublishFails, store, Inv, TypeOK
  <1>2. /\ poller' \in [Poller -> Tick] /\ \A q \in Poller \ {p} : poller'[q] = poller[q]
        /\ PollerInv(p)' /\ Batched(p)' = poller[p].batch \ {r}
    BY <1>1, SkipGoesOn
  <1>3. CASE UNCHANGED <<published, disturbed>>
    <2>1. \A s \in Record \ disturbed' : s \in Batched(p)' => published[s] = 0
      BY <1>1, <1>2, <1>3, PublishingHolds DEF Inv, Once, Batched
    <2>2. \A s \in Record : Releases(p, s)
      BY <1>1 DEF Releases
    <2>3. /\ lease' \in [Record -> -Lease..Lease] /\ token' \in [Record -> Poller \cup {NoPoller}]
          /\ Stage(p) # "delete"
      BY <1>1, PublishingHolds DEF Inv, TypeOK
    <2> QED
      BY <1>1, <1>2, <1>3, <2>1, <2>2, <2>3, QuietStep
  <1>4. CASE published' = [published EXCEPT ![r] = @ + 1] /\ disturbed' = disturbed \cup {r}
    BY <1>1, <1>2, <1>4, PublishedInv
  <1> QED
    BY <1>3, <1>4 DEF PublishFails
-----------------------------------------------------------------------------
LEMMA ScheduleInv == ASSUME Inv, NEW r \in Record, schedule(r) PROVE Inv'
  <1>1. /\ r \notin scheduled /\ scheduled' = scheduled \cup {r} /\ stored' = stored \cup {r}
        /\ UNCHANGED <<dueIn, lease, token, poller, published, disturbed, faults>>
    BY DEF schedule
  <1>2. published[r] = 0
    BY <1>1 DEF Inv, Known, TypeOK
  <1>3. TypeOK'
    BY <1>1 DEF Inv, TypeOK
  <1>4. \A p \in Poller : PollerInv(p)'
    <2> SUFFICES ASSUME NEW p \in Poller PROVE PollerInv(p)'
      OBVIOUS
    <2>1. /\ Held(p)' = Held(p) /\ Stage(p)' = Stage(p) /\ Valid(p)' = Valid(p)
      BY <1>1 DEF Held, Stage, Valid
    <2> QED
      BY <1>1, <2>1 DEF PollerInv, Busy, Leased, LeasedTo, Expired, Inv
  <1>5. Known' /\ NeverLost'
    BY <1>1 DEF Inv, Known, NeverLost
  <1>6. Once'
    <2>1. \A p \in Poller : Batched(p)' = Batched(p) /\ Stage(p)' = Stage(p)
      BY <1>1 DEF Batched, Stage
    <2> QED
      BY <1>1, <1>2, <2>1 DEF Once, Inv
  <1> QED
    BY <1>3, <1>4, <1>5, <1>6 DEF Inv

LEMMA StutterInv == ASSUME Inv, UNCHANGED vars PROVE Inv'
  <1> USE DEF vars
  <1>1. TypeOK' /\ Known' /\ NeverLost'
    BY DEF Inv, TypeOK, Known, NeverLost
  <1>2. \A p \in Poller : Held(p)' = Held(p) /\ Stage(p)' = Stage(p) /\ Batched(p)' = Batched(p)
    BY DEF Held, Stage, Batched
  <1>3. \A p \in Poller : PollerInv(p)'
    BY <1>2 DEF Inv, PollerInv, Busy, Leased, LeasedTo, Expired, Valid
  <1>4. Once'
    BY <1>2 DEF Inv, Once
  <1> QED
    BY <1>1, <1>3, <1>4 DEF Inv

(* Time passes for everybody at once: a valid tick that grows older has a  *)
(* lease that shortens as much, and one that expires is disturbed.         *)
LEMMA AgedFields ==
    ASSUME TypeOK, Clock, NEW p \in Poller
    PROVE  /\ poller'[p] \in Tick /\ poller'[p].stage = poller[p].stage
           /\ poller'[p].batch = poller[p].batch /\ poller'[p].current = poller[p].current
           /\ poller'[p].age = IF poller[p].stage \notin {"off", "idle"} /\ poller[p].age < Lease
                               THEN poller[p].age + 1 ELSE poller[p].age
           /\ Held(p)' = Held(p) /\ Batched(p)' = Batched(p) /\ Stage(p)' = Stage(p)
  <1>1. poller[p] \in Tick /\ poller[p].age \in 0..Lease /\ Lease \in Nat
    BY HeldTypes
  <1>2. PICK t : t = poller[p]
    OBVIOUS
  <1>3. poller'[p] = Aged(t)
    BY <1>2 DEF Clock
  <1>4. PICK n : n = IF t.stage \notin {"off", "idle"} /\ t.age < Lease THEN t.age + 1 ELSE t.age
    OBVIOUS
  <1>5. n \in 0..Lease
    BY <1>1, <1>2, <1>4
  <1>6. poller'[p] = [t EXCEPT !.age = n]
    BY <1>3, <1>4, <1>1, <1>2 DEF Aged, Tick
  <1>7. /\ poller'[p] \in Tick /\ poller'[p].stage = poller[p].stage
        /\ poller'[p].batch = poller[p].batch /\ poller'[p].current = poller[p].current
        /\ poller'[p].age = n
    BY ONLY <1>1, <1>2, <1>5, <1>6 DEF Tick
  <1>8. Held(p)' = Held(p) /\ Batched(p)' = Batched(p) /\ Stage(p)' = Stage(p)
    BY <1>7 DEF Held, Batched, Stage
  <1> QED
    BY <1>2, <1>4, <1>7, <1>8

LEMMA ClockInv == ASSUME Inv, Clock PROVE Inv'
  <1> USE DEF Inv
  <1>1. /\ UNCHANGED <<scheduled, stored, token, published, faults>>
        /\ \A r \in Record : dueIn'[r] = Down(dueIn[r]) /\ lease'[r] = Down(lease[r])
    BY DEF Clock
  <1>2. disturbed \subseteq disturbed' /\ disturbed' \subseteq Record
        /\ \A p \in Poller : poller'[p].age = Lease => Held(p) \subseteq disturbed'
    <2>1. PICK E : E = UNION {Held(p) : p \in {q \in Poller : poller'[q].age = Lease}}
      OBVIOUS
    <2>2. \A p \in Poller : poller'[p].age = Lease => Held(p) \subseteq E
      BY <2>1
    <2>3. E \subseteq Record
      BY <2>1, HeldTypes
    <2>4. disturbed' = disturbed \cup E /\ disturbed \subseteq Record
      BY <2>1 DEF Clock, TypeOK
    <2> QED
      BY <2>2, <2>3, <2>4
  <1>3. TypeOK'
    <2>1. Lease \in Nat /\ MaxDelay \in Nat
      BY TimeoutAssumption
    <2>2. ASSUME NEW t \in -Lease..Lease PROVE Down(t) \in -Lease..Lease
      BY <2>1, <2>2 DEF Down
    <2>3. ASSUME NEW t \in -Lease..MaxDelay PROVE Down(t) \in -Lease..MaxDelay
      BY <2>1, <2>3 DEF Down
    <2>4. dueIn' \in [Record -> -Lease..MaxDelay] /\ lease' \in [Record -> -Lease..Lease]
      BY <2>2, <2>3 DEF Clock, TypeOK
    <2>5. poller' \in [Poller -> Tick]
      BY AgedFields DEF Clock
    <2> QED
      BY <1>1, <1>2, <2>4, <2>5 DEF TypeOK
  <1>4. ASSUME NEW p \in Poller PROVE PollerInv(p)'
    <2>1. /\ poller[p].age \in 0..Lease /\ Lease \in Nat \ {0}
          /\ Held(p)' = Held(p) /\ Stage(p)' = Stage(p) /\ poller'[p].batch = poller[p].batch
          /\ poller'[p].current = poller[p].current
          /\ poller'[p].age = IF poller[p].stage \notin {"off", "idle"} /\ poller[p].age < Lease
                              THEN poller[p].age + 1 ELSE poller[p].age
      BY AgedFields, HeldTypes
    <2>2. Busy(p)'
      BY <1>1, <2>1 DEF PollerInv, Busy, Stage
    <2>3. Expired(p)'
      <3>1. ~Valid(p)' => poller'[p].age = Lease
        BY <2>1 DEF Valid
      <3> QED
        BY <1>2, <2>1, <3>1 DEF Expired
    <2>4. ASSUME Valid(p)', Stage(p) \notin {"off", "idle"}, NEW r \in Record, LeasedTo(p, r)
          PROVE  LeasedTo(p, r)'
      <3>1. poller'[p].age = poller[p].age + 1 /\ poller[p].age < Lease
        BY <2>1, <2>4 DEF Valid, Stage
      <3>2. lease[r] = Lease - poller[p].age /\ lease[r] > 0
        BY <2>1, <2>4, <3>1 DEF LeasedTo
      <3>3. lease'[r] = lease[r] - 1
        BY <1>1, <2>1, <3>2 DEF Down
      <3> QED
        BY <1>1, <2>1, <2>4, <3>1, <3>2, <3>3 DEF LeasedTo
    <2>5. Valid(p)' => Valid(p)
      BY <2>1 DEF Valid
    <2>6. Leased(p)'
      <3>1. Held(p) \subseteq Record /\ (Held(p) # {} => Stage(p) \notin {"off", "idle"})
        BY HeldTypes DEF Held, Stage
      <3> QED
        BY <1>1, <2>1, <2>4, <2>5, <3>1 DEF PollerInv, Leased
    <2> QED
      BY <2>2, <2>3, <2>6 DEF PollerInv
  <1>5. Known' /\ NeverLost'
    BY <1>1 DEF Known, NeverLost
  <1>6. Once'
    BY <1>1, <1>2, AgedFields DEF Once
  <1> QED
    BY <1>3, <1>4, <1>5, <1>6

(* The invariant holds from one state to the next.                         *)
LEMMA NextInv == ASSUME Inv, [Next]_vars PROVE Inv'
  <1>1. CASE UNCHANGED vars
    BY <1>1, StutterInv
  <1>2. CASE Clock
    BY <1>2, ClockInv
  <1>3. CASE \E r \in Record : schedule(r)
    BY <1>3, ScheduleInv
  <1>4. ASSUME NEW p \in Poller, Claim(p) PROVE Inv'
    BY <1>4, ClaimInMemoryInv, FindCandidatesInv DEF Claim
  <1>5. ASSUME NEW p \in Poller, Step(p) PROVE Inv'
    BY <1>5, LeaseCandidatesInv, ReadBackInv, DeleteInv, PublishOkInv DEF Step
  <1>6. ASSUME NEW p \in Poller,
               \/ Start(p) \/ DeleteFails(p) \/ ClaimFails(p) \/ Stop(p) \/ Crash(p)
               \/ \E r \in Record : PublishFails(p, r)
        PROVE  Inv'
    BY <1>6, StartInv, DeleteFailsInv, ClaimFailsInv, StopInv, CrashInv, PublishFailsInv
  <1> QED
    BY <1>1, <1>2, <1>3, <1>4, <1>5, <1>6 DEF Next
-----------------------------------------------------------------------------
(* The inductive invariant: what a valid lease is worth (see above).       *)
THEOREM TimeoutInvariant == Spec => []Inv
  <1>1. Init => Inv
    BY InitInv
  <1>2. Inv /\ [Next]_vars => Inv'
    BY NextInv
  <1> QED
    BY <1>1, <1>2, PTL DEF Spec

(* Every variable keeps its type: no lease is longer than Lease.           *)
THEOREM TimeoutTypeCorrect == Spec => []TypeOK
  <1>1. Inv => TypeOK
    BY DEF Inv
  <1> QED
    BY <1>1, TimeoutInvariant, PTL

(* tick and both claimDue: a requested timeout is stored until the broker  *)
(* has it, for any number of pollers, crashes, stops and failed calls.     *)
THEOREM TimeoutNeverLost == Spec => []NeverLost
  <1>1. Inv => NeverLost
    BY DEF Inv
  <1> QED
    BY <1>1, TimeoutInvariant, PTL

(* claimDue's lease, atomic or in three calls: of two pollers with the     *)
(* same record in hand, one has overrun its lease.                         *)
THEOREM TimeoutExclusive == Spec => []Exclusive
  <1>1. Inv => Exclusive
    <2> SUFFICES ASSUME Inv, NEW p \in Poller, NEW q \in Poller, p # q, NEW r \in Held(p) \cap Held(q)
                 PROVE  poller[p].age = Lease \/ poller[q].age = Lease
      BY DEF Exclusive
    <2>1. ~Valid(p) \/ ~Valid(q)
      BY OneOwner
    <2>2. poller[p].age \in 0..Lease /\ poller[q].age \in 0..Lease /\ Lease \in Nat
      BY HeldTypes DEF Inv
    <2> QED
      BY <2>1, <2>2 DEF Valid
  <1> QED
    BY <1>1, TimeoutInvariant, PTL

(* tick: without a failed send or delete, a crash in between, or a lease   *)
(* that runs out under it, no timeout is fired twice.                      *)
THEOREM TimeoutFiredOnce == Spec => []FiredOnceUndisturbed
  <1>1. Inv => FiredOnceUndisturbed
    BY DEF Inv, Once, FiredOnceUndisturbed
  <1> QED
    BY <1>1, TimeoutInvariant, PTL
=============================================================================
