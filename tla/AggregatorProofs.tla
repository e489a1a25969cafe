-------------------------- MODULE AggregatorProofs --------------------------
(***************************************************************************)
(* Proofs about Aggregator, for any messages, deliveries, flush ticks,     *)
(* batch size and number of faults, and for both stores.  The invariant    *)
(* says that a runner that has not outlasted its lease is the claimedBy of *)
(* all it executes, and that all of it is leased (Secure): so nobody else  *)
(* can have claimed it, and the release that follows removes it.           *)
(***************************************************************************)
EXTENDS Aggregator, TLAPS

Stage(r) == runner[r].stage
Timely(r) == ~runner[r].overdue
Owns(r, e) == owner[e] = r

Secure(r) ==
    Timely(r) =>
        /\ \A e \in Held(r) : Owns(r, e) /\ e \in leased
        /\ Stage(r) \in {"read", "execute", "release"} =>
             \A e \in Entry : Owns(r, e) => e \in leased

(* A runner owns what it executes, and before it claims nothing; what it   *)
(* releases has been executed.                                             *)
Honest(r) ==
    /\ Stage(r) \in {"idle", "find", "lease"} => \A e \in Entry : ~Owns(r, e)
    /\ Stage(r) \in {"execute", "release"} => \A e \in Entry : Owns(r, e) => e \in runner[r].batch
    /\ Held(r) \subseteq Appended
    /\ Stage(r) = "release" => \A e \in runner[r].batch : executed[e] > 0
    /\ runner[r].message \in Message => appends[runner[r].message] > 0

Late(r) == ~Timely(r) => Held(r) \subseteq disturbed

RunnerInv(r) == Secure(r) /\ Honest(r) /\ Late(r)

Buffered ==
    /\ \A e \in Entry : owner[e] # Nobody => e \in buffer
    /\ buffer \subseteq Appended
    /\ \A e \in Entry : executed[e] > 0 => e \in Appended

(* The snapshots nobody works on are disjoint and leased.                  *)
Orphaned ==
    /\ \A S \in orphans : \A e \in S : owner[e] = Gone /\ e \in leased
    /\ \A S, T \in orphans : S = T \/ S \cap T = {}

(* Only a fault makes the broker deliver again.                            *)
Counted ==
    \A m \in Message : /\ appends[m] <= faults + 1
                       /\ broker[m] = "queued" => appends[m] <= faults

(* An entry no fault touched is executed by its one owner, who removes it. *)
Once ==
    \A e \in Entry \ disturbed :
        /\ executed[e] \in {0, 1}
        /\ executed[e] = 1 /\ e \in buffer =>
             \E r \in Runner : Stage(r) = "release" /\ e \in runner[r].batch
        /\ \A r \in Runner : Stage(r) = "execute" /\ e \in runner[r].batch => executed[e] = 0

Inv == /\ TypeOK /\ (\A r \in Runner : RunnerInv(r))
       /\ Buffered /\ Orphaned /\ Counted /\ NothingLost /\ Once
-----------------------------------------------------------------------------
LEMMA RunnerIsNotASnapshotMark ==
    ASSUME NEW r \in Runner PROVE r # Nobody /\ r # Gone
  BY AggregatorAssumption DEF Runner

LEMMA RunTypes ==
    ASSUME TypeOK, NEW r \in Runner
    PROVE  /\ runner[r] \in Run /\ runner[r].batch \subseteq Entry /\ runner[r].missed \subseteq Entry
           /\ runner[r].message \in Message \cup {NoMessage} /\ runner[r].overdue \in BOOLEAN
           /\ Stage(r) \in {"idle", "find", "lease", "read", "execute", "release"}
           /\ Held(r) \subseteq Entry /\ Owned(r) \subseteq Entry
  <1>1. runner[r] \in Run
    BY DEF TypeOK
  <1>2. /\ runner[r].batch \subseteq Entry /\ runner[r].missed \subseteq Entry
        /\ runner[r].message \in Message \cup {NoMessage} /\ runner[r].overdue \in BOOLEAN
        /\ Stage(r) \in {"idle", "find", "lease", "read", "execute", "release"}
    BY <1>1 DEF Run, Stage
  <1> QED
    BY <1>1, <1>2 DEF Held, Owned, TypeOK

LEMMA IdleFields ==
    /\ Idle \in Run /\ Idle.stage = "idle" /\ Idle.message = NoMessage /\ Idle.batch = {}
    /\ Idle.missed = {} /\ Idle.overdue = FALSE
  BY DEF Idle, Run

LEMMA InitInv == Init => Inv
  <1> SUFFICES ASSUME Init PROVE Inv
    OBVIOUS
  <1> USE AggregatorAssumption DEF Init
  <1>1. TypeOK
    BY IdleFields DEF TypeOK
  <1>2. \A r \in Runner : Stage(r) = "idle" /\ Held(r) = {} /\ runner[r].message = NoMessage
                          /\ Timely(r)
    BY IdleFields DEF Stage, Held, Timely
  <1>3. \A r \in Runner, e \in Entry : ~Owns(r, e)
    BY RunnerIsNotASnapshotMark DEF Owns
  <1>4. \A r \in Runner : RunnerInv(r)
    BY <1>2, <1>3 DEF RunnerInv, Secure, Honest, Late
  <1>5. Buffered /\ Orphaned /\ Counted
    BY DEF Buffered, Orphaned, Counted
  <1>6. NothingLost
    BY DEF NothingLost, Appended, Entry
  <1>7. Once
    BY <1>2 DEF Once
  <1> QED
    BY <1>1, <1>4, <1>5, <1>6, <1>7 DEF Inv

(* What a runner holds in time nobody else can hold in time.               *)
LEMMA OneOwner ==
    ASSUME Inv, NEW r \in Runner, NEW s \in Runner, NEW e \in Held(r) \cap Held(s),
           Timely(r), Timely(s)
    PROVE  r = s
  BY DEF Inv, RunnerInv, Secure, Owns

LEMMA UndisturbedIsTimely ==
    ASSUME Inv, NEW r \in Runner, NEW e \in Held(r), e \notin disturbed
    PROVE  Timely(r) /\ Owns(r, e) /\ e \in leased
  BY DEF Inv, RunnerInv, Late, Secure

(* An entry that can be claimed, and that no fault touched, has not been   *)
(* executed.                                                               *)
LEMMA FreeIsUnexecuted ==
    ASSUME Inv, NEW e \in buffer \ disturbed, e \notin leased
    PROVE  executed[e] = 0
  <1> SUFFICES ASSUME executed[e] # 0 PROVE FALSE
    OBVIOUS
  <1>1. e \in Entry \ disturbed /\ executed[e] = 1
    BY DEF Inv, TypeOK, Once
  <1>2. PICK r \in Runner : Stage(r) = "release" /\ e \in runner[r].batch
    BY <1>1 DEF Inv, Once
  <1>3. e \in Held(r)
    BY <1>2 DEF Held, Stage
  <1> QED
    BY <1>1, <1>3, UndisturbedIsTimely
-----------------------------------------------------------------------------
(* What a step of runner r may do to the store and to the other runners.   *)
Same(s) == /\ Stage(s)' = Stage(s) /\ runner'[s].batch = runner[s].batch
           /\ runner'[s].overdue = runner[s].overdue /\ runner'[s].message = runner[s].message

OwnerMoves(r, e) ==
    \/ owner'[e] = owner[e]
    \/ owner'[e] = r /\ e \notin leased
    \/ owner[e] = r /\ owner'[e] \in {Gone, Nobody}

Alone(r) ==
    /\ \A s \in Runner \ {r} : Same(s)
    /\ \A e \in Entry : OwnerMoves(r, e)
    /\ \A e \in leased : owner[e] = r \/ e \in leased'
    /\ \A e \in Entry : executed'[e] >= executed[e]
    /\ Appended \subseteq Appended' /\ disturbed \subseteq disturbed'
    /\ \A m \in Message : appends'[m] >= appends[m]

LEMMA OthersKeep ==
    ASSUME Inv, TypeOK', NEW r \in Runner, Alone(r), NEW s \in Runner \ {r}
    PROVE  RunnerInv(s)' /\ Held(s)' = Held(s)
  <1> USE DEF Inv, Alone
  <1>1. Same(s) /\ RunnerInv(s) /\ s # Gone /\ s # Nobody
    BY RunnerIsNotASnapshotMark
  <1>2. Held(s)' = Held(s) /\ Timely(s)' = Timely(s) /\ Held(s) \subseteq Entry
    BY <1>1, RunTypes DEF Held, Timely, Same, Stage
  <1>3. \A e \in Entry : Owns(s, e)' => Owns(s, e)
    BY <1>1 DEF OwnerMoves, Owns
  <1>4. \A e \in Entry : Owns(s, e) /\ e \in leased => Owns(s, e)' /\ e \in leased'
    BY <1>1 DEF OwnerMoves, Owns
  <1>5. Secure(s)'
    BY <1>1, <1>2, <1>3, <1>4 DEF RunnerInv, Secure, Same
  <1>6. Late(s)'
    BY <1>1, <1>2 DEF RunnerInv, Late
  <1>7. Honest(s)'
    <2>1. Stage(s)' = "release" => \A e \in runner'[s].batch : executed'[e] > 0
      <3> SUFFICES ASSUME Stage(s) = "release", NEW e \in runner[s].batch PROVE executed'[e] > 0
        BY <1>1 DEF Same
      <3>1. executed[e] > 0 /\ e \in Entry
        BY <1>1, RunTypes DEF RunnerInv, Honest
      <3>2. executed[e] \in Nat /\ executed'[e] \in Nat /\ executed'[e] >= executed[e]
        BY <3>1 DEF TypeOK
      <3> QED
        BY <3>1, <3>2
    <2>2. runner'[s].message \in Message => appends'[runner'[s].message] > 0
      <3> SUFFICES ASSUME NEW m \in Message, m = runner[s].message PROVE appends'[m] > 0
        BY <1>1 DEF Same
      <3>1. appends[m] > 0 /\ appends'[m] >= appends[m]
        BY <1>1 DEF RunnerInv, Honest
      <3>2. appends[m] \in Int /\ appends'[m] \in Int
        BY DEF TypeOK
      <3> QED
        BY <3>1, <3>2
    <2>3. Held(s)' \subseteq Appended'
      BY <1>1, <1>2 DEF RunnerInv, Honest
    <2>4. /\ Stage(s)' \in {"idle", "find", "lease"} => \A e \in Entry : ~Owns(s, e)'
          /\ Stage(s)' \in {"execute", "release"} =>
               \A e \in Entry : Owns(s, e)' => e \in runner'[s].batch
      BY <1>1, <1>3 DEF RunnerInv, Honest, Same
    <2> QED
      BY <2>1, <2>2, <2>3, <2>4 DEF Honest
  <1> QED
    BY <1>2, <1>5, <1>6, <1>7 DEF RunnerInv

(* Once after a step of r that executes nothing.                           *)
LEMMA QuietOnce ==
    ASSUME Inv, TypeOK', NEW r \in Runner, Alone(r), executed' = executed,
           \A e \in buffer' \ buffer : executed[e] = 0,
           \A e \in Entry \ disturbed' :
               /\ Stage(r)' = "execute" /\ e \in runner'[r].batch => executed[e] = 0
               /\ Stage(r) = "release" /\ e \in runner[r].batch /\ e \in buffer' =>
                    Stage(r)' = "release" /\ e \in runner'[r].batch
    PROVE  Once'
  <1> USE DEF Inv, Alone
  <1>1. SUFFICES ASSUME NEW e \in Entry \ disturbed'
        PROVE  /\ executed[e] \in {0, 1}
               /\ executed[e] = 1 /\ e \in buffer' =>
                    \E s \in Runner : Stage(s)' = "release" /\ e \in runner'[s].batch
               /\ \A s \in Runner : Stage(s)' = "execute" /\ e \in runner'[s].batch => executed[e] = 0
    BY DEF Once
  <1>2. e \in Entry \ disturbed
    BY <1>1
  <1>3. executed[e] \in {0, 1}
    BY <1>2 DEF Once
  <1>4. ASSUME executed[e] = 1, e \in buffer'
        PROVE  \E s \in Runner : Stage(s)' = "release" /\ e \in runner'[s].batch
    <2>1. e \in buffer
      BY <1>4
    <2>2. PICK s \in Runner : Stage(s) = "release" /\ e \in runner[s].batch
      BY <1>2, <1>4, <2>1 DEF Once
    <2>3. CASE s = r
      BY <1>1, <1>4, <2>2, <2>3
    <2>4. CASE s # r
      BY <2>2, <2>4 DEF Same
    <2> QED
      BY <2>3, <2>4
  <1>5. ASSUME NEW s \in Runner, Stage(s)' = "execute", e \in runner'[s].batch
        PROVE  executed[e] = 0
    <2>1. CASE s = r
      BY <1>1, <1>5, <2>1
    <2>2. CASE s # r
      BY <1>2, <1>5, <2>2 DEF Same, Once
    <2> QED
      BY <2>1, <2>2
  <1> QED
    BY <1>3, <1>4, <1>5

LEMMA QuietStep ==
    ASSUME Inv, TypeOK', NEW r \in Runner, Alone(r), RunnerInv(r)',
           Buffered', Orphaned', Counted', NothingLost', executed' = executed,
           \A e \in buffer' \ buffer : executed[e] = 0,
           \A e \in Entry \ disturbed' :
               /\ Stage(r)' = "execute" /\ e \in runner'[r].batch => executed[e] = 0
               /\ Stage(r) = "release" /\ e \in runner[r].batch /\ e \in buffer' =>
                    Stage(r)' = "release" /\ e \in runner'[r].batch
    PROVE  Inv'
  <1>1. Once'
    BY QuietOnce
  <1>2. \A s \in Runner : RunnerInv(s)'
    BY OthersKeep
  <1> QED
    BY <1>1, <1>2 DEF Inv
-----------------------------------------------------------------------------
(* The ways a runner leaves its snapshot, and what the broker learns.      *)
Leaves(r) ==
    \/ UNCHANGED <<buffer, leased, due, owner, orphans>> /\ \A e \in Entry : ~Owns(r, e)
    \/ Abandon(r) /\ UNCHANGED <<buffer, leased, due>>
    \/ Stage(r) = "release" /\ Remove(Owned(r)) /\ UNCHANGED orphans

Tells(r) ==
    /\ broker' \in [Message -> {"queued", "delivered", "acked", "dead"}]
    /\ \A m \in Message : \/ broker'[m] = broker[m]
                          \/ m = runner[r].message /\ (broker'[m] = "queued" => faults' = faults + 1)

LEMMA LeavesStore ==
    ASSUME Inv, NEW r \in Runner, Leaves(r)
    PROVE  /\ buffer' \subseteq buffer /\ leased' \subseteq buffer' /\ due' \subseteq buffer'
           /\ owner' \in [Entry -> Runner \cup {Nobody, Gone}] /\ orphans' \subseteq SUBSET Entry
           /\ \A e \in Entry : OwnerMoves(r, e) /\ owner'[e] # r
           /\ \A e \in leased : owner[e] = r \/ e \in leased'
           /\ \A e \in Entry : owner'[e] # Nobody => e \in buffer'
           /\ \A e \in buffer \ buffer' : executed[e] > 0 /\ Stage(r) = "release"
           /\ Orphaned'
  <1> USE DEF Inv
  <1>0. /\ TypeOK /\ r # Nobody /\ r # Gone /\ Nobody # Gone /\ Owned(r) \subseteq Entry
        /\ buffer \subseteq Entry
    BY RunnerIsNotASnapshotMark, RunTypes, AggregatorAssumption DEF TypeOK
  <1>1. \A e \in Entry : Owns(r, e) <=> e \in Owned(r)
    BY <1>0, RunnerIsNotASnapshotMark DEF Owns, Owned, Buffered
  <1>2. CASE UNCHANGED <<buffer, leased, due, owner, orphans>> /\ \A e \in Entry : ~Owns(r, e)
    BY <1>0, <1>2 DEF TypeOK, OwnerMoves, Owns, Buffered, Orphaned
  <1>3. CASE Abandon(r) /\ UNCHANGED <<buffer, leased, due>>
    <2>1. /\ owner' \in [Entry -> Runner \cup {Nobody, Gone}]
          /\ \A e \in Entry : owner'[e] = IF owner[e] = r THEN Gone ELSE owner[e]
      BY <1>3 DEF Abandon, TypeOK
    <2>2. \A e \in Entry : OwnerMoves(r, e) /\ owner'[e] # r
      BY <1>0, <2>1 DEF OwnerMoves
    <2>3. \A e \in Entry : owner'[e] # Nobody => e \in buffer'
      BY <1>0, <1>3, <2>1 DEF Buffered
    <2>4. orphans' = orphans \/ (orphans' = orphans \cup {Owned(r)} /\ Timely(r) /\ Owned(r) # {})
      BY <1>3 DEF Abandon, Timely
    <2>5. Timely(r) => \A e \in Owned(r) : e \in leased
      <3> SUFFICES ASSUME Timely(r), NEW e \in Owned(r) PROVE e \in leased
        OBVIOUS
      <3>1. Owns(r, e) /\ RunnerInv(r) /\ e \in Entry
        BY <1>0, <1>1
      <3>2. Stage(r) \in {"read", "execute", "release"}
        BY <1>0, <3>1, RunTypes DEF RunnerInv, Honest
      <3> QED
        BY <3>1, <3>2 DEF RunnerInv, Secure
    <2>6. \A S \in orphans : S \cap Owned(r) = {}
      BY <1>0 DEF Orphaned, Owned
    <2>7. \A S \in orphans : \A e \in S : owner'[e] = Gone /\ e \in leased'
      BY <1>0, <1>3, <2>1 DEF Orphaned, TypeOK
    <2>8. Timely(r) => \A e \in Owned(r) : owner'[e] = Gone /\ e \in leased'
      BY <1>0, <1>3, <2>1, <2>5 DEF Owned
    <2>9. Orphaned'
      BY <2>4, <2>6, <2>7, <2>8 DEF Orphaned
    <2>10. orphans' \subseteq SUBSET Entry
      BY <1>0, <2>4 DEF TypeOK
    <2> QED
      BY <1>0, <1>3, <2>1, <2>2, <2>3, <2>9, <2>10 DEF TypeOK
  <1>4. CASE Stage(r) = "release" /\ Remove(Owned(r)) /\ UNCHANGED orphans
    <2>1. /\ owner' \in [Entry -> Runner \cup {Nobody, Gone}]
          /\ \A e \in Entry : owner'[e] = IF e \in Owned(r) THEN Nobody ELSE owner[e]
          /\ buffer' = buffer \ Owned(r) /\ leased' = leased \ Owned(r) /\ due' = due \ Owned(r)
      BY <1>4 DEF Remove, TypeOK
    <2>2. \A e \in Entry : OwnerMoves(r, e) /\ owner'[e] # r
      BY <1>0, <1>1, <2>1 DEF OwnerMoves, Owns
    <2>3. \A e \in Entry : owner'[e] # Nobody => e \in buffer'
      BY <1>0, <2>1 DEF Buffered
    <2>4. \A e \in leased : owner[e] = r \/ e \in leased'
      BY <2>1 DEF Owned
    <2>5. \A e \in buffer \ buffer' : executed[e] > 0
      BY <1>0, <1>1, <1>4, <2>1 DEF RunnerInv, Honest
    <2>6. \A S \in orphans : \A e \in S : owner'[e] = Gone /\ e \in leased'
      BY <1>0, <2>1 DEF Orphaned, Owned, TypeOK
    <2>7. Orphaned'
      BY <1>4, <2>6 DEF Orphaned
    <2> QED
      BY <1>0, <1>4, <2>1, <2>2, <2>3, <2>4, <2>5, <2>7 DEF TypeOK
  <1> QED
    BY <1>2, <1>3, <1>4 DEF Leaves

LEMMA ReturnStep ==
    ASSUME Inv, NEW r \in Runner, Leaves(r), Tells(r), Return(r),
           UNCHANGED <<appends, executed>>,
           disturbed \subseteq disturbed', disturbed' \subseteq Entry,
           faults' \in 0..MaxFaults, faults' >= faults,
           Stage(r) = "release" => \/ runner[r].batch \subseteq disturbed'
                                   \/ Remove(Owned(r))
    PROVE  Inv'
  <1> USE DEF Inv
  <1>1. /\ runner' \in [Runner -> Run] /\ runner'[r] = Idle
        /\ \A s \in Runner \ {r} : runner'[s] = runner[s]
    BY IdleFields DEF Return, TypeOK
  <1>2. TypeOK'
    <2>1. appends' \in [Message -> 0..MaxFaults + 1] /\ executed' \in [Entry -> Nat]
      BY DEF TypeOK
    <2>2. buffer' \subseteq Entry
      BY LeavesStore DEF TypeOK
    <2> QED
      BY <1>1, <2>1, <2>2, LeavesStore DEF TypeOK, Tells
  <1>3. /\ Stage(r)' = "idle" /\ Held(r)' = {} /\ runner'[r].message = NoMessage /\ Timely(r)'
        /\ runner'[r].batch = {}
    BY <1>1, IdleFields DEF Stage, Held, Timely
  <1>4. RunnerInv(r)'
    <2>1. \A e \in Entry : ~Owns(r, e)'
      BY LeavesStore DEF Owns
    <2> QED
      BY <1>3, <2>1, AggregatorAssumption DEF RunnerInv, Secure, Honest, Late
  <1>5. Alone(r)
    <2>1. \A s \in Runner \ {r} : Same(s)
      BY <1>1 DEF Same, Stage
    <2>2. Appended' = Appended
      BY DEF Appended
    <2>3. /\ \A e \in Entry : executed'[e] >= executed[e]
          /\ \A m \in Message : appends'[m] >= appends[m]
      BY DEF TypeOK
    <2> QED
      BY <2>1, <2>2, <2>3, LeavesStore DEF Alone
  <1>6. Buffered' /\ Orphaned'
    <2>1. Appended' = Appended
      BY DEF Appended
    <2> QED
      BY <2>1, LeavesStore DEF Buffered
  <1>7. Counted'
    <2> SUFFICES ASSUME NEW m \in Message
                 PROVE  appends[m] <= faults' + 1 /\ (broker'[m] = "queued" => appends[m] <= faults')
      BY DEF Counted
    <2>1. appends[m] \in Nat /\ faults \in Nat /\ faults' \in Nat
      BY AggregatorAssumption DEF TypeOK
    <2>2. appends[m] <= faults + 1 /\ (broker[m] = "queued" => appends[m] <= faults)
      BY DEF Counted
    <2>3. broker'[m] = broker[m] \/ (broker'[m] = "queued" => faults' = faults + 1)
      BY DEF Tells
    <2> QED
      BY <2>1, <2>2, <2>3
  <1>8. NothingLost'
    <2>1. Appended' = Appended
      BY DEF Appended
    <2>2. \A e \in Appended : e \in buffer' \/ executed[e] > 0
      BY LeavesStore DEF NothingLost
    <2>3. \A m \in Message : broker'[m] = "acked" => appends[m] > 0
      BY DEF Tells, NothingLost, RunnerInv, Honest
    <2> QED
      BY <2>1, <2>2, <2>3 DEF NothingLost
  <1>9. /\ \A e \in buffer' \ buffer : executed[e] = 0
        /\ \A e \in Entry \ disturbed' :
               Stage(r) = "release" /\ e \in runner[r].batch => e \notin buffer'
    <2>1. ASSUME NEW e \in Entry \ disturbed', Stage(r) = "release", e \in runner[r].batch
          PROVE  e \notin buffer'
      <3>1. e \in Held(r) /\ Remove(Owned(r))
        BY <2>1 DEF Held, Stage
      <3>2. Owns(r, e)
        BY <2>1, <3>1, UndisturbedIsTimely
      <3> QED
        BY <3>1, <3>2 DEF Remove, Owned, Owns
    <2> QED
      BY <2>1, LeavesStore
  <1> QED
    BY <1>2, <1>3, <1>4, <1>5, <1>6, <1>7, <1>8, <1>9, QuietStep

LEMMA Acks ==
    ASSUME TypeOK, NEW r \in Runner, Ack(r) PROVE Tells(r)
  BY DEF Ack, Tells, TypeOK

LEMMA Nacks ==
    ASSUME TypeOK, NEW r \in Runner, Nack(r) \/ Requeue(r), Fault PROVE Tells(r)
  BY DEF Nack, Requeue, Fault, Tells, TypeOK

LEMMA FaultCounts ==
    ASSUME TypeOK, Fault PROVE faults' \in 0..MaxFaults /\ faults' >= faults /\ faults' = faults + 1
  BY AggregatorAssumption DEF TypeOK, Fault
-----------------------------------------------------------------------------
LEMMA ReleaseInv == ASSUME Inv, NEW r \in Runner, Release(r) PROVE Inv'
  <1>1. Leaves(r) /\ Tells(r)
    BY Acks DEF Release, Leaves, Stage, Inv
  <1> QED
    BY <1>1, ReturnStep DEF Release, Inv, TypeOK

LEMMA ClaimFailsInv == ASSUME Inv, NEW r \in Runner, ClaimFails(r) PROVE Inv'
  <1>1. Leaves(r) /\ Tells(r) /\ faults' \in 0..MaxFaults /\ faults' >= faults /\ Stage(r) # "release"
    BY Nacks, FaultCounts DEF ClaimFails, Leaves, Stage, Inv
  <1> QED
    BY <1>1, ReturnStep DEF ClaimFails, Inv, TypeOK

LEMMA ExecuteFailsInv == ASSUME Inv, NEW r \in Runner, ExecuteFails(r) PROVE Inv'
  <1>1. Leaves(r) /\ Tells(r) /\ faults' \in 0..MaxFaults /\ faults' >= faults /\ Stage(r) # "release"
    BY Nacks, FaultCounts DEF ExecuteFails, Leaves, Stage, Inv
  <1> QED
    BY <1>1, ReturnStep DEF ExecuteFails, Inv, TypeOK

LEMMA ReleaseFailsInv == ASSUME Inv, NEW r \in Runner, ReleaseFails(r) PROVE Inv'
  <1>1. Leaves(r) /\ Tells(r) /\ faults' \in 0..MaxFaults /\ faults' >= faults
    BY Nacks, FaultCounts DEF ReleaseFails, Leaves, Stage, Inv
  <1>2. disturbed' \subseteq Entry /\ disturbed \subseteq disturbed' /\ runner[r].batch \subseteq disturbed'
    BY RunTypes DEF ReleaseFails, Inv, TypeOK
  <1> QED
    BY <1>1, <1>2, ReturnStep DEF ReleaseFails

LEMMA CrashInv == ASSUME Inv, NEW r \in Runner, Crash(r) PROVE Inv'
  <1>1. Leaves(r) /\ Tells(r) /\ faults' \in 0..MaxFaults /\ faults' >= faults
    BY Nacks, FaultCounts DEF Crash, Leaves, Stage, Inv
  <1>2. /\ disturbed' \subseteq Entry /\ disturbed \subseteq disturbed'
        /\ Stage(r) = "release" => runner[r].batch \subseteq disturbed'
    BY RunTypes DEF Crash, Inv, TypeOK, Stage
  <1> QED
    BY <1>1, <1>2, ReturnStep DEF Crash

(* A claim that comes to nothing: the runner owns nothing and returns.     *)
LEMMA NothingClaimed ==
    ASSUME Inv, NEW r \in Runner, Ack(r), Return(r), \A e \in Entry : ~Owns(r, e),
           Stage(r) # "release", UNCHANGED <<store, executed, disturbed, faults>>
    PROVE  Inv'
  <1>1. Leaves(r) /\ Tells(r)
    BY Acks DEF Leaves, store, Inv
  <1> QED
    BY <1>1, ReturnStep, AggregatorAssumption DEF store, Inv, TypeOK
-----------------------------------------------------------------------------
(* A claim of entries that are not leased disturbs nobody's lease.         *)
LEMMA Claims ==
    ASSUME Inv, NEW r \in Runner, NEW S \in SUBSET Entry, S \cap leased = {}, ClaimFor(r, S),
           leased' = leased \/ leased' = leased \cup S,
           buffer \subseteq buffer', S \subseteq buffer', orphans' = orphans
    PROVE  /\ owner' \in [Entry -> Runner \cup {Nobody, Gone}] /\ leased' \subseteq buffer'
           /\ \A e \in Entry : OwnerMoves(r, e)
           /\ \A e \in leased : e \in leased'
           /\ \A e \in Entry : owner'[e] # Nobody => e \in buffer'
           /\ \A e \in S : owner'[e] = r
           /\ \A e \in Entry : owner'[e] = r => owner[e] = r \/ e \in S
           /\ Orphaned'
  <1> USE DEF Inv
  <1>1. /\ owner' \in [Entry -> Runner \cup {Nobody, Gone}]
        /\ \A e \in Entry : owner'[e] = IF e \in S THEN r ELSE owner[e]
    BY DEF ClaimFor, TypeOK
  <1>2. \A e \in Entry : OwnerMoves(r, e)
    BY <1>1 DEF OwnerMoves
  <1>3. \A e \in Entry : owner'[e] # Nobody => e \in buffer'
    BY <1>1 DEF Buffered
  <1>4. \A T \in orphans : \A e \in T : owner'[e] = Gone /\ e \in leased'
    BY <1>1 DEF Orphaned, TypeOK
  <1>5. Orphaned'
    BY <1>4 DEF Orphaned
  <1> QED
    BY <1>1, <1>2, <1>3, <1>5 DEF TypeOK

(* A step of r that appends, executes and releases nothing.                *)
LEMMA ClaimStep ==
    ASSUME Inv, NEW r \in Runner, NEW t \in Run, runner' = [runner EXCEPT ![r] = t],
           NEW S \in SUBSET Entry, S \cap leased = {}, ClaimFor(r, S), S \subseteq buffer,
           leased' = leased \/ leased' = leased \cup S,
           UNCHANGED <<broker, appends, buffer, due, orphans, executed, faults>>,
           disturbed \subseteq disturbed', disturbed' \subseteq Entry,
           RunnerInv(r)', Stage(r) # "release",
           \A e \in Entry \ disturbed' :
               Stage(r)' = "execute" /\ e \in runner'[r].batch => executed[e] = 0
    PROVE  Inv'
  <1> USE DEF Inv
  <1>1. /\ owner' \in [Entry -> Runner \cup {Nobody, Gone}] /\ leased' \subseteq buffer'
        /\ \A e \in Entry : OwnerMoves(r, e)
        /\ \A e \in leased : e \in leased'
        /\ \A e \in Entry : owner'[e] # Nobody => e \in buffer'
        /\ Orphaned'
    BY Claims
  <1>2. runner' \in [Runner -> Run] /\ \A s \in Runner \ {r} : runner'[s] = runner[s]
    BY DEF TypeOK
  <1>3. TypeOK'
    <2>1. /\ appends' \in [Message -> 0..MaxFaults + 1] /\ executed' \in [Entry -> Nat]
          /\ broker' \in [Message -> {"queued", "delivered", "acked", "dead"}]
          /\ buffer' \subseteq Entry /\ due' \subseteq buffer' /\ orphans' \subseteq SUBSET Entry
          /\ faults' \in 0..MaxFaults
      BY DEF TypeOK
    <2> QED
      BY <1>1, <1>2, <2>1 DEF TypeOK
  <1>4. Appended' = Appended
    BY DEF Appended
  <1>5. Alone(r)
    <2>1. \A s \in Runner \ {r} : Same(s)
      BY <1>2 DEF Same, Stage
    <2>2. /\ \A e \in Entry : executed'[e] >= executed[e]
          /\ \A m \in Message : appends'[m] >= appends[m]
      BY DEF TypeOK
    <2> QED
      BY <1>1, <1>4, <2>1, <2>2 DEF Alone
  <1>6. Buffered' /\ Counted' /\ NothingLost'
    BY <1>1, <1>4 DEF Buffered, Counted, NothingLost
  <1> QED
    BY <1>1, <1>3, <1>5, <1>6, QuietStep

(* The same when it claims nothing either.                                 *)
LEMMA LookStep ==
    ASSUME Inv, NEW r \in Runner, NEW t \in Run, runner' = [runner EXCEPT ![r] = t],
           UNCHANGED <<broker, store, executed, faults>>,
           disturbed \subseteq disturbed', disturbed' \subseteq Entry,
           RunnerInv(r)', Stage(r) # "release",
           \A e \in Entry \ disturbed' :
               Stage(r)' = "execute" /\ e \in runner'[r].batch => executed[e] = 0
    PROVE  Inv'
  <1>1. ClaimFor(r, {})
    BY DEF ClaimFor, store, Inv, TypeOK
  <1>2. PICK S \in SUBSET Entry : S = {}
    OBVIOUS
  <1>3. /\ S \cap leased = {} /\ ClaimFor(r, S) /\ S \subseteq buffer /\ leased' = leased
        /\ UNCHANGED <<broker, appends, buffer, due, orphans, executed, faults>>
    BY <1>1, <1>2 DEF store
  <1> QED
    BY <1>3, ClaimStep

(* A runner that has nothing in its hands yet.                             *)
LEMMA Looking ==
    ASSUME Inv, NEW r \in Runner, NEW t \in Run, runner' = [runner EXCEPT ![r] = t],
           t.stage \in {"find", "lease"}, t.message \in {NoMessage, runner[r].message},
           \A e \in Entry : ~Owns(r, e), UNCHANGED <<appends, owner>>
    PROVE  RunnerInv(r)' /\ Stage(r)' \in {"find", "lease"} /\ Held(r)' = {}
  <1>1. /\ Stage(r)' \in {"find", "lease"} /\ Held(r)' = {} /\ runner'[r] = t
    BY DEF Stage, Held, Inv, TypeOK
  <1>2. \A e \in Entry : ~Owns(r, e)'
    BY DEF Owns
  <1>3. runner'[r].message \in Message => appends'[runner'[r].message] > 0
    BY <1>1, AggregatorAssumption DEF Inv, RunnerInv, Honest
  <1> QED
    BY <1>1, <1>2, <1>3 DEF RunnerInv, Secure, Honest, Late

LEMMA FreeTypes ==
    ASSUME TypeOK, NEW missed PROVE Free(missed) \subseteq buffer /\ Free(missed) \subseteq Entry
                                     /\ Free(missed) \cap leased = {}
  BY DEF Free, TypeOK

(* A runner that now executes what it owns, all leased unless it is late.  *)
LEMMA Executing ==
    ASSUME TypeOK', NEW r \in Runner, runner'[r].stage = "execute",
           \A e \in Entry : Owns(r, e)' <=> e \in runner'[r].batch,
           runner'[r].batch \subseteq Appended',
           Timely(r)' => runner'[r].batch \subseteq leased',
           ~Timely(r)' => runner'[r].batch \subseteq disturbed',
           runner'[r].message \in Message => appends'[runner'[r].message] > 0
    PROVE  RunnerInv(r)'
  <1>1. Held(r)' = runner'[r].batch /\ Stage(r)' = "execute" /\ Held(r)' \subseteq Entry
    BY DEF Held, Stage, Appended
  <1> QED
    BY <1>1 DEF RunnerInv, Secure, Honest, Late
-----------------------------------------------------------------------------
LEMMA LookForDueInv == ASSUME Inv, NEW r \in Tick, LookForDue(r) PROVE Inv'
  <1> USE DEF Inv, LookForDue
  <1>0. r \in Runner
    BY DEF Runner
  <1>1. PICK t : t = [Idle EXCEPT !.stage = "find"]
    OBVIOUS
  <1>2. t \in Run /\ t.stage = "find" /\ t.message = NoMessage
    BY <1>1 DEF Idle, Run
  <1>3. runner' = [runner EXCEPT ![r] = t]
    BY <1>1
  <1>4. Stage(r) = "idle" /\ \A e \in Entry : ~Owns(r, e)
    BY <1>0 DEF Stage, RunnerInv, Honest
  <1>5. RunnerInv(r)' /\ Stage(r)' \in {"find", "lease"}
    BY <1>0, <1>2, <1>3, <1>4, Looking DEF store
  <1>6. disturbed' \subseteq Entry
    BY DEF TypeOK
  <1> QED
    BY <1>0, <1>2, <1>3, <1>4, <1>5, <1>6, LookStep

(* From looking for candidates to claiming them.                           *)
LEMMA FoundInv ==
    ASSUME Inv, NEW r \in Runner, NEW S \in SUBSET Entry, Stage(r) = "find",
           runner' = [runner EXCEPT ![r] = [@ EXCEPT !.stage = "lease", !.batch = S, !.missed = {}]],
           UNCHANGED <<broker, store, executed, disturbed, faults>>
    PROVE  Inv'
  <1> USE DEF Inv
  <1>1. PICK t : t = [runner[r] EXCEPT !.stage = "lease", !.batch = S, !.missed = {}]
    OBVIOUS
  <1>2. t \in Run /\ t.stage = "lease" /\ t.message = runner[r].message
    BY <1>1, RunTypes DEF Run
  <1>3. runner' = [runner EXCEPT ![r] = t]
    BY <1>1
  <1>4. \A e \in Entry : ~Owns(r, e)
    BY DEF RunnerInv, Honest
  <1>5. RunnerInv(r)' /\ Stage(r)' \in {"find", "lease"}
    BY <1>2, <1>3, <1>4, Looking DEF store
  <1>6. disturbed' \subseteq Entry
    BY DEF TypeOK
  <1> QED
    BY <1>2, <1>3, <1>5, <1>6, LookStep

LEMMA FindBatchInv == ASSUME Inv, NEW r \in Worker, FindBatch(r) PROVE Inv'
  <1> USE DEF Inv, FindBatch
  <1>0. r \in Runner /\ Stage(r) = "find" /\ \A e \in Entry : ~Owns(r, e)
    BY DEF Runner, Stage, RunnerInv, Honest
  <1>1. CASE Ack(r) /\ Return(r)
    BY <1>0, <1>1, NothingClaimed
  <1>2. CASE \E S \in Oldest(Free(runner[r].missed)) :
               /\ runner' = [runner EXCEPT ![r] = [@ EXCEPT !.stage = "lease", !.batch = S,
                                                            !.missed = {}]]
               /\ UNCHANGED broker
    <2>1. PICK S \in Oldest(Free(runner[r].missed)) :
               /\ runner' = [runner EXCEPT ![r] = [@ EXCEPT !.stage = "lease", !.batch = S,
                                                            !.missed = {}]]
               /\ UNCHANGED broker
      BY <1>2
    <2>2. S \in SUBSET Entry
      BY FreeTypes DEF Oldest
    <2> QED
      BY <1>0, <2>1, <2>2, FoundInv
  <1> QED
    BY <1>1, <1>2

LEMMA FindAllInv == ASSUME Inv, NEW r \in Tick, FindAll(r) PROVE Inv'
  <1> USE DEF Inv, FindAll
  <1>0. r \in Runner /\ Stage(r) = "find" /\ \A e \in Entry : ~Owns(r, e)
    BY DEF Runner, Stage, RunnerInv, Honest
  <1>1. CASE Free(runner[r].missed) = {}
    <2>1. Return(r)
      BY <1>1 DEF Return
    <2>2. Leaves(r) /\ Tells(r)
      BY <1>0 DEF Leaves, store, Tells, TypeOK
    <2> QED
      BY <1>0, <2>1, <2>2, ReturnStep, AggregatorAssumption DEF store, TypeOK
  <1>2. CASE Free(runner[r].missed) # {}
    <2>1. Free(runner[r].missed) \in SUBSET Entry
      BY FreeTypes
    <2> QED
      BY <1>0, <1>2, <2>1, FoundInv
  <1> QED
    BY <1>1, <1>2
-----------------------------------------------------------------------------
LEMMA LeaseInv == ASSUME Inv, NEW r \in Runner, Lease(r) PROVE Inv'
  <1> USE DEF Inv, Lease
  <1>0. Stage(r) = "lease" /\ \A e \in Entry : ~Owns(r, e)
    BY DEF Stage, RunnerInv, Honest
  <1> DEFINE S == runner[r].batch \cap Free(runner[r].missed)
  <1>1. CASE S = {}
    BY <1>0, <1>1, NothingClaimed DEF store
  <1>2. CASE S # {}
    <2>1. PICK t : t = [runner[r] EXCEPT !.stage = "read", !.batch = {}, !.missed = {}]
      OBVIOUS
    <2>2. t \in Run /\ t.stage = "read" /\ t.message = runner[r].message /\ t.overdue = runner[r].overdue
      BY <2>1, RunTypes DEF Run
    <2>3. runner' = [runner EXCEPT ![r] = t]
      BY <1>2, <2>1
    <2>4. PICK T \in SUBSET Entry : T = S
      BY FreeTypes
    <2>5. T \cap leased = {} /\ T \subseteq buffer
      BY <2>4, FreeTypes
    <2>6. /\ ClaimFor(r, T) /\ leased' = IF runner[r].overdue THEN leased ELSE leased \cup T
          /\ UNCHANGED <<broker, appends, buffer, due, orphans, executed, disturbed, faults>>
      BY <1>2, <2>4
    <2>7. runner'[r] = t /\ Stage(r)' = "read" /\ Held(r)' = {} /\ Timely(r)' = Timely(r)
      BY <2>2, <2>3 DEF Stage, Held, Timely, TypeOK
    <2>8. \A e \in Entry : owner'[e] = r => e \in T
      BY <1>0, <2>6 DEF ClaimFor, Owns
    <2>9. RunnerInv(r)'
      <3>1. Timely(r) => \A e \in Entry : Owns(r, e)' => e \in leased'
        BY <2>6, <2>8 DEF Timely, Owns
      <3>2. runner'[r].message \in Message => appends'[runner'[r].message] > 0
        BY <2>2, <2>6, <2>7 DEF RunnerInv, Honest
      <3> QED
        BY <2>7, <3>1, <3>2 DEF RunnerInv, Secure, Honest, Late
    <2>10. disturbed' \subseteq Entry /\ disturbed \subseteq disturbed'
      BY <2>6 DEF TypeOK
    <2> QED
      BY <1>0, <2>2, <2>3, <2>5, <2>6, <2>7, <2>9, <2>10, ClaimStep
  <1> QED
    BY <1>1, <1>2

LEMMA ReadBackInv == ASSUME Inv, NEW r \in Runner, ReadBack(r) PROVE Inv'
  <1> USE DEF Inv, ReadBack
  <1>0. Stage(r) = "read" /\ Owned(r) \subseteq Entry /\ \A e \in Entry : Owns(r, e) <=> e \in Owned(r)
    BY RunTypes, RunnerIsNotASnapshotMark DEF Stage, Owned, Owns, Buffered
  <1>1. CASE Owned(r) = {}
    BY <1>0, <1>1, NothingClaimed
  <1>2. CASE Owned(r) # {}
    <2>1. PICK t : t = [runner[r] EXCEPT !.stage = "execute", !.batch = Owned(r)]
      OBVIOUS
    <2>2. /\ t \in Run /\ t.stage = "execute" /\ t.message = runner[r].message /\ t.batch = Owned(r)
          /\ t.overdue = runner[r].overdue
      BY <1>0, <2>1, RunTypes DEF Run
    <2>3. runner' = [runner EXCEPT ![r] = t] /\ UNCHANGED <<broker, store, executed, faults>>
      BY <1>2, <2>1
    <2>4. disturbed' = IF runner[r].overdue THEN disturbed \cup Owned(r) ELSE disturbed
      BY <1>2
    <2>5. /\ runner'[r] = t /\ Stage(r)' = "execute" /\ runner'[r].batch = Owned(r)
          /\ runner'[r].message = runner[r].message
      BY <2>2, <2>3 DEF Stage, TypeOK
    <2>6. Timely(r)' = Timely(r)
      BY <2>2, <2>5 DEF Timely
    <2>7. Timely(r) => Owned(r) \subseteq leased
      BY <1>0 DEF RunnerInv, Secure
    <2>8. TypeOK'
      <3>1. runner' \in [Runner -> Run] /\ disturbed' \subseteq Entry
        BY <1>0, <2>2, <2>3, <2>4 DEF TypeOK
      <3> QED
        BY <2>3, <3>1 DEF TypeOK, store
    <2>9. RunnerInv(r)'
      <3>1. runner'[r].stage = "execute" /\ \A e \in Entry : Owns(r, e)' <=> e \in runner'[r].batch
        BY <1>0, <2>3, <2>5 DEF Owns, store, Stage
      <3>2. runner'[r].batch \subseteq Appended'
        BY <2>3, <2>5 DEF Buffered, Owned, Appended, store
      <3>3. Timely(r)' => runner'[r].batch \subseteq leased'
        BY <2>3, <2>5, <2>6, <2>7 DEF store
      <3>4. ~Timely(r)' => runner'[r].batch \subseteq disturbed'
        BY <2>4, <2>5, <2>6 DEF Timely
      <3>5. runner'[r].message \in Message => appends'[runner'[r].message] > 0
        BY <2>3, <2>5 DEF RunnerInv, Honest, store
      <3> QED
        BY <2>8, <3>1, <3>2, <3>3, <3>4, <3>5, Executing
    <2>10. ASSUME NEW e \in Entry \ disturbed', e \in Owned(r) PROVE executed[e] = 0
      <3>1. e \in Entry \ disturbed /\ Timely(r) /\ e \in leased /\ e \in buffer
        BY <2>4, <2>7, <2>10 DEF Timely, Owned
      <3> SUFFICES ASSUME executed[e] # 0 PROVE FALSE
        OBVIOUS
      <3>2. executed[e] = 1
        BY <3>1 DEF Once
      <3>3. PICK s \in Runner : Stage(s) = "release" /\ e \in runner[s].batch
        BY <3>1, <3>2 DEF Once
      <3>4. e \in Held(s)
        BY <3>3 DEF Held, Stage
      <3>5. Owns(s, e)
        BY <3>1, <3>4, UndisturbedIsTimely
      <3> QED
        BY <1>0, <2>10, <3>3, <3>5 DEF Owned, Owns
    <2>11. disturbed \subseteq disturbed' /\ disturbed' \subseteq Entry
      BY <2>4, <2>8 DEF TypeOK
    <2> QED
      BY <1>0, <2>2, <2>3, <2>5, <2>9, <2>10, <2>11, LookStep
  <1> QED
    BY <1>1, <1>2

LEMMA FlushInMemoryInv == ASSUME Inv, NEW r \in Tick, FlushInMemory(r) PROVE Inv'
  <1> USE DEF Inv, FlushInMemory
  <1>0. /\ r \in Runner /\ Stage(r) = "idle" /\ \A e \in Entry : ~Owns(r, e)
    BY DEF Runner, Stage, RunnerInv, Honest
  <1>1. PICK S \in SUBSET Entry : S = Free({})
    BY FreeTypes
  <1>2. S \cap leased = {} /\ S \subseteq buffer
    BY <1>1, FreeTypes
  <1>3. PICK t : t = [Idle EXCEPT !.stage = "execute", !.batch = S]
    OBVIOUS
  <1>4. /\ t \in Run /\ t.stage = "execute" /\ t.message = NoMessage /\ t.batch = S
        /\ t.overdue = FALSE
    BY <1>3 DEF Idle, Run
  <1>5. /\ runner' = [runner EXCEPT ![r] = t] /\ ClaimFor(r, S) /\ leased' = leased \cup S
        /\ UNCHANGED <<broker, appends, buffer, due, orphans, executed, disturbed, faults>>
    BY <1>1, <1>3
  <1>6. /\ runner'[r] = t /\ Stage(r)' = "execute" /\ runner'[r].batch = S /\ Timely(r)'
        /\ runner'[r].message = NoMessage
    BY <1>0, <1>4, <1>5 DEF Stage, Timely, TypeOK
  <1>7. /\ owner' \in [Entry -> Runner \cup {Nobody, Gone}] /\ leased' \subseteq buffer'
        /\ \A e \in Entry : owner'[e] = r <=> e \in S
    <2>1. orphans' = orphans /\ buffer \subseteq buffer' /\ S \subseteq buffer'
      BY <1>2, <1>5
    <2> QED
      BY <1>0, <1>2, <1>5, <2>1, Claims DEF Owns
  <1>8. RunnerInv(r)'
    <2>1. runner' \in [Runner -> Run]
      BY <1>4, <1>5 DEF TypeOK
    <2>2. TypeOK'
      BY <1>5, <1>7, <2>1 DEF TypeOK
    <2>3. runner'[r].batch \subseteq Appended'
      BY <1>2, <1>5, <1>6 DEF Buffered, Appended
    <2>4. runner'[r].batch \subseteq leased' /\ runner'[r].message \notin Message
      BY <1>5, <1>6, AggregatorAssumption
    <2>5. runner'[r].stage = "execute" /\ \A e \in Entry : Owns(r, e)' <=> e \in runner'[r].batch
      BY <1>6, <1>7 DEF Owns, Stage
    <2> QED
      BY <1>0, <1>6, <2>2, <2>3, <2>4, <2>5, Executing
  <1>9. \A e \in Entry \ disturbed' : e \in S => executed[e] = 0
    BY <1>2, <1>5, FreeIsUnexecuted
  <1>10. disturbed' \subseteq Entry /\ disturbed \subseteq disturbed'
    BY <1>5 DEF TypeOK
  <1> QED
    BY <1>0, <1>2, <1>4, <1>5, <1>6, <1>8, <1>9, <1>10, ClaimStep
-----------------------------------------------------------------------------
LEMMA ExecuteInv == ASSUME Inv, NEW r \in Runner, Execute(r) PROVE Inv'
  <1> USE DEF Inv, Execute
  <1>1. PICK t : t = [runner[r] EXCEPT !.stage = "release"]
    OBVIOUS
  <1>2. /\ t \in Run /\ t.stage = "release" /\ t.batch = runner[r].batch
        /\ t.message = runner[r].message /\ t.overdue = runner[r].overdue
    BY <1>1, RunTypes DEF Run
  <1>3. runner' = [runner EXCEPT ![r] = t]
    BY <1>1 DEF TypeOK
  <1>4. /\ runner' \in [Runner -> Run] /\ runner'[r] = t
        /\ \A s \in Runner \ {r} : runner'[s] = runner[s]
    BY <1>2, <1>3 DEF TypeOK
  <1>5. /\ Stage(r) = "execute" /\ Stage(r)' = "release" /\ runner'[r].batch = runner[r].batch
        /\ Held(r) = runner[r].batch /\ Held(r)' = runner[r].batch /\ Timely(r)' = Timely(r)
        /\ runner'[r].message = runner[r].message /\ runner[r].batch \subseteq Entry
    BY <1>2, <1>4, RunTypes DEF Stage, Held, Timely
  <1>6. /\ executed' \in [Entry -> Nat]
        /\ \A e \in Entry : executed'[e] = IF e \in runner[r].batch THEN executed[e] + 1
                                                                  ELSE executed[e]
    BY DEF TypeOK
  <1>7. TypeOK' /\ Appended' = Appended
    BY <1>4, <1>6 DEF TypeOK, store, Appended
  <1>8. Alone(r)
    <2>1. \A s \in Runner \ {r} : Same(s)
      BY <1>4 DEF Same, Stage
    <2>2. /\ \A e \in Entry : executed'[e] >= executed[e]
          /\ \A m \in Message : appends'[m] >= appends[m]
      BY <1>6 DEF TypeOK, store
    <2> QED
      BY <1>7, <2>1, <2>2 DEF Alone, OwnerMoves, store
  <1>9. RunnerInv(r)'
    <2>1. \A e \in runner'[r].batch : executed'[e] > 0
      BY <1>5, <1>6 DEF TypeOK
    <2>2. Secure(r)' /\ Late(r)'
      BY <1>5 DEF RunnerInv, Secure, Late, Owns, store
    <2>3. Honest(r)'
      BY <1>5, <1>7, <2>1 DEF RunnerInv, Honest, Owns, store
    <2> QED
      BY <2>2, <2>3 DEF RunnerInv
  <1>10. Buffered' /\ Orphaned' /\ Counted' /\ NothingLost'
    <2>1. \A e \in Entry : executed'[e] > 0 => e \in Appended
      BY <1>5, <1>6 DEF Buffered, RunnerInv, Honest
    <2>2. \A e \in Entry : executed[e] > 0 => executed'[e] > 0
      BY <1>6 DEF TypeOK
    <2>3. Buffered' /\ Orphaned' /\ Counted'
      BY <1>7, <2>1 DEF Buffered, Orphaned, Counted, store
    <2> QED
      BY <1>7, <2>2, <2>3 DEF NothingLost, store, Appended
  <1>11. Once'
    <2> SUFFICES ASSUME NEW e \in Entry \ disturbed
        PROVE  /\ executed'[e] \in {0, 1}
               /\ executed'[e] = 1 /\ e \in buffer =>
                    \E s \in Runner : Stage(s)' = "release" /\ e \in runner'[s].batch
               /\ \A s \in Runner : Stage(s)' = "execute" /\ e \in runner'[s].batch => executed'[e] = 0
      BY DEF Once, store
    <2>1. CASE e \in runner[r].batch
      <3>1. executed[e] = 0 /\ executed'[e] = 1
        BY <1>5, <1>6, <2>1 DEF Once
      <3>2. ASSUME NEW s \in Runner, Stage(s)' = "execute", e \in runner'[s].batch PROVE FALSE
        <4>1. s # r /\ e \in Held(s) /\ e \in Held(r)
          BY <1>4, <1>5, <2>1, <3>2 DEF Held, Stage
        <4>2. Timely(s) /\ Timely(r)
          BY <4>1, UndisturbedIsTimely
        <4> QED
          BY <4>1, <4>2, OneOwner
      <3> QED
        BY <1>5, <2>1, <3>1, <3>2
    <2>2. CASE e \notin runner[r].batch
      BY <1>4, <1>5, <1>6, <2>2 DEF Once, Stage
    <2> QED
      BY <2>1, <2>2
  <1>12. \A s \in Runner : RunnerInv(s)'
    BY <1>7, <1>8, <1>9, OthersKeep
  <1> QED
    BY <1>7, <1>10, <1>11, <1>12

(* Reading the end of a lease into `missed` moves no runner.               *)
LEMMA MissedFields ==
    ASSUME TypeOK, NEW S \in SUBSET Entry
    PROVE  /\ Missed(S) \in [Runner -> Run]
           /\ \A r \in Runner : /\ Missed(S)[r].stage = runner[r].stage
                                /\ Missed(S)[r].batch = runner[r].batch
                                /\ Missed(S)[r].message = runner[r].message
                                /\ Missed(S)[r].overdue = runner[r].overdue
  <1> SUFFICES ASSUME NEW r \in Runner
               PROVE  /\ Missed(S)[r] \in Run
                      /\ Missed(S)[r].stage = runner[r].stage
                      /\ Missed(S)[r].batch = runner[r].batch
                      /\ Missed(S)[r].message = runner[r].message
                      /\ Missed(S)[r].overdue = runner[r].overdue
    BY DEF Missed
  <1>1. runner[r] \in Run /\ runner[r].missed \cup S \subseteq Entry
    BY RunTypes
  <1>2. PICK u : u = runner[r].missed \cup S
    OBVIOUS
  <1>3. Missed(S)[r] = runner[r] \/ Missed(S)[r] = [runner[r] EXCEPT !.missed = u]
    BY <1>2 DEF Missed
  <1> QED
    BY <1>1, <1>2, <1>3 DEF Run

LEMMA OutlastsInv == ASSUME Inv, NEW r \in Runner, Outlasts(r) PROVE Inv'
  <1> USE DEF Inv, Outlasts
  <1>1. /\ Held(r) \subseteq Entry /\ Owned(r) \cap leased \in SUBSET Entry
        /\ faults' \in 0..MaxFaults /\ faults' >= faults
    BY RunTypes, FaultCounts
  <1>2. PICK M : M = Missed(Owned(r) \cap leased)
    OBVIOUS
  <1>3. /\ M \in [Runner -> Run]
        /\ \A s \in Runner : /\ M[s].stage = runner[s].stage /\ M[s].batch = runner[s].batch
                             /\ M[s].message = runner[s].message /\ M[s].overdue = runner[s].overdue
    BY <1>1, <1>2, MissedFields
  <1>4. PICK t : t = [M[r] EXCEPT !.overdue = TRUE]
    OBVIOUS
  <1>5. /\ t \in Run /\ t.stage = runner[r].stage /\ t.batch = runner[r].batch
        /\ t.message = runner[r].message /\ t.overdue = TRUE
    BY <1>3, <1>4 DEF Run
  <1>6. runner' = [M EXCEPT ![r] = t]
    BY <1>2, <1>3, <1>4
  <1>7. /\ runner' \in [Runner -> Run] /\ runner'[r] = t
        /\ \A s \in Runner \ {r} : runner'[s] = M[s]
    BY <1>3, <1>5, <1>6
  <1>8. /\ Stage(r)' = Stage(r) /\ runner'[r].batch = runner[r].batch /\ ~Timely(r)'
        /\ runner'[r].message = runner[r].message /\ Held(r)' = Held(r)
        /\ Stage(r) \in {"lease", "read", "execute", "release"}
    BY <1>5, <1>7 DEF Stage, Timely, Held
  <1>9. leased' = leased \ Owned(r) /\ disturbed' = disturbed \cup Held(r)
    BY DEF LeasesEnd
  <1>10. TypeOK' /\ Appended' = Appended
    BY <1>1, <1>7, <1>9 DEF TypeOK, Appended
  <1>11. Alone(r)
    <2>1. \A s \in Runner \ {r} : Same(s)
      BY <1>3, <1>7 DEF Same, Stage
    <2>2. /\ \A e \in Entry : executed'[e] >= executed[e]
          /\ \A m \in Message : appends'[m] >= appends[m]
      BY DEF TypeOK
    <2> QED
      BY <1>9, <1>10, <2>1, <2>2 DEF Alone, OwnerMoves, Owned
  <1>12. RunnerInv(r)'
    <2>1. Honest(r)'
      BY <1>8, <1>10 DEF RunnerInv, Honest, Owns
    <2> QED
      BY <1>8, <1>9, <2>1 DEF RunnerInv, Secure, Late
  <1>13. Orphaned'
    <2>1. \A S \in orphans : \A e \in S : owner[e] = Gone /\ e \in leased'
      BY <1>9, RunnerIsNotASnapshotMark DEF Orphaned, Owned
    <2> QED
      BY <2>1 DEF Orphaned
  <1>14. Counted'
    <2> SUFFICES ASSUME NEW m \in Message
                 PROVE  appends[m] <= faults' + 1 /\ (broker[m] = "queued" => appends[m] <= faults')
      BY DEF Counted
    <2>1. appends[m] \in Nat /\ faults \in Nat /\ faults' \in Nat
      BY <1>1, AggregatorAssumption DEF TypeOK
    <2> QED
      BY <1>1, <2>1 DEF Counted
  <1>15. Buffered' /\ NothingLost'
    BY <1>10 DEF Buffered, NothingLost
  <1>16. \A e \in Entry \ disturbed' :
           /\ Stage(r)' = "execute" /\ e \in runner'[r].batch => executed[e] = 0
           /\ ~(Stage(r) = "release" /\ e \in runner[r].batch)
    BY <1>8, <1>9 DEF Once, Held, Stage
  <1> QED
    BY <1>10, <1>11, <1>12, <1>13, <1>14, <1>15, <1>16, QuietStep

LEMMA LeaseEndsInv == ASSUME Inv, NEW S \in orphans, LeaseEnds(S) PROVE Inv'
  <1> USE DEF Inv, LeaseEnds
  <1>1. /\ runner' \in [Runner -> Run]
        /\ \A r \in Runner : /\ Stage(r)' = Stage(r) /\ runner'[r].batch = runner[r].batch
                             /\ runner'[r].message = runner[r].message
                             /\ Timely(r)' = Timely(r)
    BY MissedFields DEF TypeOK, Stage, Timely
  <1>2. leased' = leased \ S /\ \A e \in S : owner[e] = Gone
    BY DEF LeasesEnd, Orphaned
  <1>3. TypeOK' /\ Appended' = Appended
    BY <1>1, <1>2 DEF TypeOK, Appended
  <1>4. ASSUME NEW r \in Runner PROVE RunnerInv(r)'
    <2>1. Held(r)' = Held(r)
      BY <1>1 DEF Held, Stage
    <2>2. \A e \in Entry : Owns(r, e) => e \notin S
      BY <1>2, RunnerIsNotASnapshotMark DEF Owns
    <2>3. \A e \in Entry : Owns(r, e)' = Owns(r, e)
      BY DEF Owns
    <2>4. Held(r) \subseteq Entry
      BY RunTypes
    <2>5. Secure(r)'
      BY <1>1, <1>2, <2>1, <2>2, <2>3, <2>4 DEF RunnerInv, Secure
    <2>6. Honest(r)'
      BY <1>1, <1>3, <2>1, <2>3 DEF RunnerInv, Honest
    <2>7. Late(r)'
      BY <1>1, <2>1 DEF RunnerInv, Late
    <2> QED
      BY <2>5, <2>6, <2>7 DEF RunnerInv
  <1>5. Orphaned'
    BY <1>2 DEF Orphaned
  <1>6. Buffered' /\ Counted' /\ NothingLost'
    BY <1>3 DEF Buffered, Counted, NothingLost
  <1>7. Once'
    BY <1>1 DEF Once
  <1> QED
    BY <1>3, <1>4, <1>5, <1>6, <1>7

(* A step that moves no runner and no claim.                               *)
LEMMA StillStep ==
    ASSUME Inv, TypeOK', Counted', NothingLost',
           UNCHANGED <<appends, buffer, leased, owner, orphans, runner, executed, disturbed>>
    PROVE  Inv'
  <1> USE DEF Inv
  <1>1. ASSUME NEW r \in Runner PROVE RunnerInv(r)'
    BY DEF RunnerInv, Secure, Honest, Late, Held, Timely, Stage, Owns, Appended
  <1>2. Buffered' /\ Orphaned' /\ Once'
    BY DEF Buffered, Orphaned, Once, Appended, Stage
  <1> QED
    BY <1>1, <1>2

LEMMA AgeInv == ASSUME Inv, NEW e \in Entry, Age(e) PROVE Inv'
  <1> USE DEF Inv, Age
  <1>1. TypeOK'
    BY DEF TypeOK
  <1>2. Counted' /\ NothingLost'
    BY DEF Counted, NothingLost, Appended
  <1> QED
    BY <1>1, <1>2, StillStep

LEMMA AppendFailsInv ==
    ASSUME Inv, NEW w \in Worker, NEW m \in Message, AppendFails(w, m) PROVE Inv'
  <1> USE DEF Inv, AppendFails
  <1>1. faults' \in 0..MaxFaults /\ faults' >= faults
    BY FaultCounts
  <1>2. PICK fate \in {"queued", "dead"} : broker' = [broker EXCEPT ![m] = fate]
    OBVIOUS
  <1>3. TypeOK'
    BY <1>1, <1>2 DEF TypeOK, store
  <1>4. /\ broker[m] = "queued"
        /\ \A n \in Message : broker'[n] \in {"queued", "acked"} => broker'[n] = broker[n]
    BY <1>2 DEF Delivered, TypeOK
  <1>5. Counted'
    <2> SUFFICES ASSUME NEW n \in Message
                 PROVE  appends[n] <= faults' + 1 /\ (broker'[n] = "queued" => appends[n] <= faults')
      BY DEF Counted, store
    <2>1. appends[n] \in Nat /\ faults \in Nat /\ faults' \in Nat
      BY <1>1, AggregatorAssumption DEF TypeOK
    <2>2. appends[n] <= faults + 1 /\ (broker[n] = "queued" => appends[n] <= faults)
      BY DEF Counted
    <2>3. broker'[n] = "queued" => broker[n] = "queued"
      BY <1>4
    <2> QED
      BY <1>1, <2>1, <2>2, <2>3
  <1>6. NothingLost'
    BY <1>4 DEF NothingLost, Appended, store
  <1> QED
    BY <1>3, <1>5, <1>6, StillStep DEF store
-----------------------------------------------------------------------------
(* A delivery buffers an entry that was never there before.                *)
Appends(m) ==
    /\ broker[m] = "queued"
    /\ appends' = [appends EXCEPT ![m] = @ + 1]
    /\ buffer' = buffer \cup {NewEntry(m)}
    /\ \E b \in {"acked", "delivered"} : broker' = [broker EXCEPT ![m] = b]
    /\ UNCHANGED <<due, orphans, executed, disturbed, faults>>

LEMMA NewEntryIsNew ==
    ASSUME Inv, NEW m \in Message, Appends(m)
    PROVE  /\ NewEntry(m) \in Entry /\ NewEntry(m) \notin buffer /\ NewEntry(m) \notin leased
           /\ executed[NewEntry(m)] = 0 /\ owner[NewEntry(m)] = Nobody
           /\ Appended' = Appended \cup {NewEntry(m)}
           /\ appends' \in [Message -> 0..MaxFaults + 1]
           /\ \A n \in Message : appends'[n] >= appends[n] /\ (n = m => appends'[n] > 0)
           /\ broker' \in [Message -> {"queued", "delivered", "acked", "dead"}]
           /\ Counted' /\ \A n \in Message : broker'[n] = "acked" => appends'[n] > 0
  <1> USE DEF Inv, Appends
  <1> DEFINE e0 == <<m, appends[m] + 1>>
  <1>0. NewEntry(m) = e0 /\ MaxFaults \in Nat
    BY AggregatorAssumption DEF NewEntry
  <1>1. /\ \A n \in Message : appends[n] \in Nat /\ appends[n] <= MaxFaults + 1
        /\ appends[m] <= faults /\ faults <= MaxFaults /\ faults \in Nat
    BY <1>0 DEF TypeOK, Counted
  <1>2. appends[m] + 1 \in 1..MaxFaults + 1
    BY <1>0, <1>1
  <1>3. e0 \in Entry /\ e0[1] = m /\ e0[2] = appends[m] + 1
    BY <1>2 DEF Entry
  <1>4. e0 \notin Appended
    BY <1>1, <1>3 DEF Appended
  <1>5. e0 \notin buffer /\ e0 \notin leased /\ owner[e0] = Nobody
    BY <1>3, <1>4 DEF Buffered, TypeOK
  <1>6. executed[e0] = 0
    BY <1>3, <1>4 DEF Buffered, TypeOK
  <1>7. /\ appends' \in [Message -> 0..MaxFaults + 1]
        /\ \A n \in Message : appends'[n] = IF n = m THEN appends[n] + 1 ELSE appends[n]
    BY <1>0, <1>1, <1>2 DEF TypeOK
  <1>8. Appended' = Appended \cup {e0}
    <2>1. ASSUME NEW e \in Entry PROVE e[2] <= appends'[e[1]] <=> e[2] <= appends[e[1]] \/ e = e0
      <3>1. PICK n \in Message, k \in 1..MaxFaults + 1 : e = <<n, k>>
        BY DEF Entry
      <3>2. e[1] = n /\ e[2] = k /\ k \in Nat
        BY <1>0, <3>1
      <3>3. CASE n = m
        BY <1>1, <1>7, <3>1, <3>2, <3>3
      <3>4. CASE n # m
        BY <1>7, <3>1, <3>2, <3>4
      <3> QED
        BY <3>3, <3>4
    <2> QED
      BY <1>3, <2>1 DEF Appended
  <1>9. \A n \in Message : appends'[n] >= appends[n] /\ (n = m => appends'[n] > 0)
    BY <1>1, <1>7
  <1>10. /\ broker' \in [Message -> {"queued", "delivered", "acked", "dead"}]
         /\ broker'[m] # "queued" /\ \A n \in Message \ {m} : broker'[n] = broker[n]
    BY DEF TypeOK
  <1>11. Counted'
    <2> SUFFICES ASSUME NEW n \in Message
                 PROVE  appends'[n] <= faults + 1 /\ (broker'[n] = "queued" => appends'[n] <= faults)
      BY DEF Counted
    <2>1. CASE n = m
      BY <1>1, <1>7, <1>10, <2>1
    <2>2. CASE n # m
      BY <1>7, <1>10, <2>2 DEF Counted
    <2> QED
      BY <2>1, <2>2
  <1>12. \A n \in Message : broker'[n] = "acked" => appends'[n] > 0
    BY <1>7, <1>9, <1>10 DEF NothingLost
  <1> QED
    BY <1>0, <1>3, <1>5, <1>6, <1>7, <1>8, <1>9, <1>10, <1>11, <1>12

(* A step of w that buffers m, and may claim a batch S.                    *)
LEMMA AppendStep ==
    ASSUME Inv, NEW w \in Worker, NEW m \in Message, Appends(m),
           NEW t \in Run, runner' = [runner EXCEPT ![w] = t], Stage(w) # "release",
           NEW S \in SUBSET Entry, S \cap leased = {}, S \subseteq buffer',
           ClaimFor(w, S), leased' = leased \cup S,
           TypeOK' => RunnerInv(w)',
           \A e \in Entry \ disturbed' :
               Stage(w)' = "execute" /\ e \in runner'[w].batch => executed[e] = 0
    PROVE  Inv'
  <1> USE DEF Inv
  <1>0. w \in Runner /\ UNCHANGED <<due, orphans, executed, disturbed, faults>>
        /\ buffer' = buffer \cup {NewEntry(m)}
    BY DEF Runner, Appends
  <1>1. /\ owner' \in [Entry -> Runner \cup {Nobody, Gone}] /\ leased' \subseteq buffer'
        /\ \A e \in Entry : OwnerMoves(w, e)
        /\ \A e \in leased : e \in leased'
        /\ \A e \in Entry : owner'[e] # Nobody => e \in buffer'
        /\ Orphaned'
    <2>1. (leased' = leased \/ leased' = leased \cup S) /\ buffer \subseteq buffer' /\ orphans' = orphans
      BY <1>0
    <2> QED
      BY <1>0, <2>1, Claims
  <1>2. runner' \in [Runner -> Run] /\ \A s \in Runner \ {w} : runner'[s] = runner[s]
    BY DEF TypeOK
  <1>3. TypeOK'
    <2>1. buffer' \subseteq Entry /\ due' \subseteq buffer'
      BY <1>0, NewEntryIsNew DEF TypeOK
    <2>2. /\ orphans' \subseteq SUBSET Entry /\ executed' \in [Entry -> Nat]
          /\ disturbed' \subseteq Entry /\ faults' \in 0..MaxFaults
      BY <1>0 DEF TypeOK
    <2> QED
      BY <1>1, <1>2, <2>1, <2>2, NewEntryIsNew DEF TypeOK
  <1>4. Alone(w)
    <2>1. \A s \in Runner \ {w} : Same(s)
      BY <1>2 DEF Same, Stage
    <2>2. /\ \A e \in Entry : executed'[e] >= executed[e]
          /\ Appended \subseteq Appended' /\ \A n \in Message : appends'[n] >= appends[n]
      BY <1>0, NewEntryIsNew DEF TypeOK
    <2> QED
      BY <1>0, <1>1, <2>1, <2>2 DEF Alone
  <1>5. Buffered' /\ Counted' /\ NothingLost'
    <2>1. buffer' \subseteq Appended' /\ \A e \in Entry : executed[e] > 0 => e \in Appended'
      BY <1>0, NewEntryIsNew DEF Buffered
    <2>2. \A e \in Appended' : e \in buffer' \/ executed[e] > 0
      BY <1>0, NewEntryIsNew DEF NothingLost
    <2> QED
      BY <1>0, <1>1, <2>1, <2>2, NewEntryIsNew DEF Buffered, NothingLost
  <1>6. \A e \in buffer' \ buffer : executed[e] = 0
    BY <1>0, NewEntryIsNew
  <1> QED
    BY <1>0, <1>1, <1>3, <1>4, <1>5, <1>6, QuietStep

LEMMA StaysIdle ==
    ASSUME Inv, NEW r \in Runner, runner'[r] = runner[r], Stage(r) = "idle",
           \A e \in Entry : ~Owns(r, e)', appends' \in [Message -> 0..MaxFaults + 1],
           \A n \in Message : appends'[n] >= appends[n]
    PROVE  RunnerInv(r)'
  <1>1. Stage(r)' = "idle" /\ Held(r)' = {}
    BY DEF Stage, Held
  <1>2. ASSUME NEW n \in Message, n = runner[r].message PROVE appends'[n] > 0
    <2>1. appends[n] > 0 /\ appends'[n] >= appends[n]
      BY <1>2 DEF Inv, RunnerInv, Honest
    <2>2. appends[n] \in Int /\ appends'[n] \in Int
      BY AggregatorAssumption DEF Inv, TypeOK
    <2> QED
      BY <2>1, <2>2
  <1> QED
    BY <1>1, <1>2 DEF RunnerInv, Secure, Honest, Late

LEMMA AppendInv == ASSUME Inv, NEW w \in Worker, NEW m \in Message, Append(w, m) PROVE Inv'
  <1> USE DEF Inv, Append
  <1>0. w \in Runner /\ Stage(w) = "idle" /\ \A e \in Entry : ~Owns(w, e)
    BY DEF Runner, Stage, RunnerInv, Honest, Delivered
  <1>1. Appends(m)
    BY DEF Appends, Delivered
  <1>2. PICK t : t = [Idle EXCEPT !.stage = "find", !.message = m]
    OBVIOUS
  <1>3. t \in Run /\ t.stage = "find" /\ t.message = m /\ t.overdue = FALSE
    BY <1>2 DEF Idle, Run
  <1>4. runner' = [runner EXCEPT ![w] = t]
    BY <1>2
  <1>5. runner'[w] = t /\ Stage(w)' = "find" /\ Held(w)' = {} /\ Timely(w)'
    BY <1>0, <1>3, <1>4 DEF Stage, Held, Timely, TypeOK
  <1>6. RunnerInv(w)'
    <2>1. \A e \in Entry : ~Owns(w, e)'
      BY <1>0 DEF Owns
    <2>2. appends'[m] > 0
      BY <1>1, NewEntryIsNew
    <2> QED
      BY <1>3, <1>5, <2>1, <2>2 DEF RunnerInv, Secure, Honest, Late
  <1>7. PICK S \in SUBSET Entry : S = {}
    OBVIOUS
  <1>8. S \cap leased = {} /\ S \subseteq buffer' /\ ClaimFor(w, S) /\ leased' = leased \cup S
    BY <1>7 DEF ClaimFor, TypeOK
  <1> QED
    BY <1>0, <1>1, <1>3, <1>4, <1>5, <1>6, <1>8, AppendStep

LEMMA AppendAndClaimInMemoryInv ==
    ASSUME Inv, NEW w \in Worker, NEW m \in Message, AppendAndClaimInMemory(w, m) PROVE Inv'
  <1> USE DEF Inv, AppendAndClaimInMemory
  <1>0. w \in Runner /\ Stage(w) = "idle" /\ \A e \in Entry : ~Owns(w, e)
    BY DEF Runner, Stage, RunnerInv, Honest, Delivered
  <1>1. Appends(m)
    BY DEF Appends, Delivered
  <1> DEFINE batches == Oldest(Free({}) \cup {NewEntry(m)})
  <1>2. CASE UNCHANGED <<leased, owner, runner>>
    <2>1. PICK t \in Run : t = runner[w]
      BY <1>0, RunTypes
    <2>2. runner' = [runner EXCEPT ![w] = t]
      BY <1>2, <2>1 DEF TypeOK
    <2>3. Stage(w)' = "idle" /\ Held(w)' = {} /\ runner'[w] = runner[w]
      BY <1>0, <1>2 DEF Stage, Held
    <2>4. RunnerInv(w)'
      <3>1. \A e \in Entry : ~Owns(w, e)'
        BY <1>0, <1>2 DEF Owns
      <3>2. appends' \in [Message -> 0..MaxFaults + 1] /\ \A n \in Message : appends'[n] >= appends[n]
        BY <1>1, NewEntryIsNew
      <3> QED
        BY <1>0, <2>3, <3>1, <3>2, StaysIdle
    <2>5. PICK S \in SUBSET Entry : S = {}
      OBVIOUS
    <2>6. S \cap leased = {} /\ S \subseteq buffer' /\ ClaimFor(w, S) /\ leased' = leased \cup S
      BY <1>2, <2>5 DEF ClaimFor, TypeOK
    <2> QED
      BY <1>0, <1>1, <2>2, <2>3, <2>4, <2>6, AppendStep
  <1>3. ASSUME NEW S \in batches, leased' = leased \cup S, ClaimFor(w, S),
               runner' = [runner EXCEPT ![w] = [Idle EXCEPT !.stage = "execute", !.message = m,
                                                            !.batch = S]]
        PROVE  Inv'
    <2>1. S \subseteq Free({}) \cup {NewEntry(m)}
      BY <1>3 DEF Oldest
    <2>2. /\ S \in SUBSET Entry /\ S \cap leased = {} /\ S \subseteq buffer'
          /\ \A e \in S : e = NewEntry(m) \/ (e \in buffer /\ e \notin leased)
      <3>1. NewEntry(m) \in Entry /\ NewEntry(m) \notin leased /\ buffer' = buffer \cup {NewEntry(m)}
        BY <1>1, NewEntryIsNew DEF Appends
      <3>2. Free({}) \subseteq buffer /\ Free({}) \subseteq Entry /\ Free({}) \cap leased = {}
        BY FreeTypes
      <3> QED
        BY <2>1, <3>1, <3>2
    <2>3. PICK t : t = [Idle EXCEPT !.stage = "execute", !.message = m, !.batch = S]
      OBVIOUS
    <2>4. t \in Run /\ t.stage = "execute" /\ t.message = m /\ t.batch = S /\ t.overdue = FALSE
      BY <2>2, <2>3 DEF Idle, Run
    <2>5. runner' = [runner EXCEPT ![w] = t]
      BY <1>3, <2>3
    <2>6. /\ runner'[w] = t /\ Stage(w)' = "execute" /\ runner'[w].batch = S /\ Timely(w)'
          /\ runner'[w].message = m
      BY <1>0, <2>4, <2>5 DEF Stage, Timely, TypeOK
    <2>7. \A e \in Entry : owner'[e] = w <=> e \in S
      BY <1>0, <1>3 DEF ClaimFor, Owns
    <2>8. ASSUME TypeOK' PROVE RunnerInv(w)'
      <3>1. runner'[w].batch \subseteq Appended'
        <4>1. Appended' = Appended \cup {NewEntry(m)} /\ buffer \subseteq Appended
          BY <1>1, NewEntryIsNew DEF Buffered
        <4> QED
          BY <2>2, <2>6, <4>1
      <3>2. runner'[w].batch \subseteq leased' /\ appends'[m] > 0
        BY <1>1, <1>3, <2>6, NewEntryIsNew
      <3>3. runner'[w].stage = "execute" /\ \A e \in Entry : Owns(w, e)' <=> e \in runner'[w].batch
        BY <2>6, <2>7 DEF Owns, Stage
      <3> QED
        BY <1>0, <2>6, <2>8, <3>1, <3>2, <3>3, Executing
    <2>9. \A e \in Entry \ disturbed' : e \in S => executed[e] = 0
      BY <1>1, <2>2, NewEntryIsNew, FreeIsUnexecuted DEF Appends
    <2> QED
      BY <1>0, <1>1, <1>3, <2>2, <2>4, <2>5, <2>6, <2>8, <2>9, AppendStep
  <1> QED
    BY <1>2, <1>3
-----------------------------------------------------------------------------
LEMMA NextInv == Inv /\ [Next]_vars => Inv'
  <1> SUFFICES ASSUME Inv, [Next]_vars PROVE Inv'
    OBVIOUS
  <1>1. ASSUME NEW w \in Worker, Deliver(w) PROVE Inv'
    BY <1>1, AppendInv, AppendAndClaimInMemoryInv DEF Deliver
  <1>2. ASSUME NEW w \in Worker, NEW m \in Message, AppendFails(w, m) PROVE Inv'
    BY <1>2, AppendFailsInv
  <1>3. ASSUME NEW t \in Tick, Flush(t) PROVE Inv'
    BY <1>3, FlushInMemoryInv, LookForDueInv DEF Flush
  <1>4. ASSUME NEW r \in Runner, Go(r) PROVE Inv'
    BY <1>4, FindBatchInv, FindAllInv, LeaseInv, ReadBackInv, ExecuteInv, ReleaseInv DEF Go, Find
  <1>5. ASSUME NEW r \in Runner, Fail(r) PROVE Inv'
    BY <1>5, ClaimFailsInv, ExecuteFailsInv, ReleaseFailsInv, CrashInv, OutlastsInv DEF Fail
  <1>6. ASSUME TimePasses PROVE Inv'
    BY <1>6, AgeInv, LeaseEndsInv DEF TimePasses
  <1>7. CASE UNCHANGED vars
    <2>1. TypeOK' /\ Counted' /\ NothingLost'
      BY <1>7 DEF vars, Inv, TypeOK, Counted, NothingLost, Appended
    <2> QED
      BY <1>7, <2>1, StillStep DEF vars
  <1> QED
    BY <1>1, <1>2, <1>3, <1>4, <1>5, <1>6, <1>7 DEF Next

(* The buffer, its leases and the runners that share it keep Inv.          *)
THEOREM AggregatorInvariant == Spec => []Inv
  BY InitInv, NextInv, PTL DEF Spec

(* Every variable keeps its type; a message is buffered at most once for   *)
(* its first delivery and once for every fault.                            *)
THEOREM AggregatorTypeCorrect == Spec => []TypeOK
  <1>1. Inv => TypeOK
    BY DEF Inv
  <1> QED
    BY <1>1, AggregatorInvariant, PTL

(* What a delivery buffered stays so until execute() has returned with it, *)
(* whatever runners fail, crash or outlast their lease, in both stores.    *)
THEOREM AggregatorNothingLost == Spec => []NothingLost
  <1>1. Inv => NothingLost
    BY DEF Inv
  <1> QED
    BY <1>1, AggregatorInvariant, PTL

(* Of two runners that execute the same entry at the same time one has     *)
(* outlasted its lease.                                                    *)
THEOREM AggregatorExclusive == Spec => []Exclusive
  <1>1. Inv => Exclusive
    BY OneOwner DEF Exclusive, Timely
  <1> QED
    BY <1>1, AggregatorInvariant, PTL

(* An entry is executed once unless a fault, or a lease that ended under   *)
(* its runner, left it executed and not removed.                           *)
THEOREM AggregatorExecutedOnce == Spec => []ExecutedOnceUndisturbed
  <1>1. Inv => ExecutedOnceUndisturbed
    BY DEF Inv, Once, ExecutedOnceUndisturbed
  <1> QED
    BY <1>1, AggregatorInvariant, PTL
=============================================================================
