-------------------------- MODULE DispatcherProofs --------------------------
(***************************************************************************)
(* Proofs about Dispatcher, for any hosts, itineraries, numbers of         *)
(* handlers, attempts, workers, slots and faults.  An instance carries the *)
(* suffix of its route behind the hop it is at (AtHop), and a call that    *)
(* reports success leaves its message accounted for or at a later hop      *)
(* (Passed), which is why the acknowledgement may remove its instance.     *)
(***************************************************************************)
EXTENDS Dispatcher, TLAPS

(* An instance is at the hop its slip says, its slip is the rest of the    *)
(* route, and the hops before were processed.                              *)
AtHop(c) ==
    /\ Len(c.slip) < Len(route[c.msg])
    /\ c.at = route[c.msg][Hop(c)]
    /\ \A i \in 1..Len(c.slip) : c.slip[i] = route[c.msg][Hop(c) + i]
    /\ \A n \in 1..Hop(c) - 1 : <<c.msg, n>> \in done

CopiesAtHop == \A s \in Slot : copy[s] # Free => AtHop(copy[s])
JobsAtHop == \A j \in jobs : AtHop(j)

(* Message m ended for a good reason, or is in a queue beyond hop p.       *)
Beyond(m, p, s) == copy[s] # Free /\ copy[s].msg = m /\ Hop(copy[s]) > p
Passed(m, p) == Accounted(m) \/ \E s \in Slot : Beyond(m, p, s)

(* The stages before any handler runs.                                     *)
Early == {"before", "stream", "decode", "reply", "saga", "aggregator", "resolve"}

(* What a call has run, by its stage.                                      *)
StagesOK(j) ==
    /\ j.stage = "settle" =>
         j.afters = (IF j.at \in Registered /\ j.result # "thrown" THEN 1 ELSE 0)
    /\ j.stage # "settle" => j.afters = 0 /\ j.at \in Registered /\ j.result # "thrown"
    /\ j.stage \in Early => j.ran = 0 /\ ~j.onSuccess /\ ~j.sentOn
    /\ j.stage = "handlers" => j.ran < Handlers[j.at]
    /\ j.stage = "onSuccess" => j.ran = Handlers[j.at]
    /\ j.onSuccess => j.ran = Handlers[j.at] /\ j.stage \in {"forward", "after", "settle"}
    /\ j.sentOn => j.result \in Success /\ j.stage \in {"after", "settle"}
    /\ j.stage \in {"forward", "after", "settle"} => j.result # "none"

(* A success is recorded before the forward, and has passed its hop after. *)
SuccessOK(j) ==
    j.result \in Success =>
        /\ j.stage = "forward" => <<j.msg, Hop(j)>> \in done
        /\ j.stage \in {"after", "settle"} => Passed(j.msg, Hop(j))

JobsOK == \A j \in jobs : StagesOK(j) /\ SuccessOK(j)

(* Chunks and replies have a single hop.                                   *)
OthersAreShort == \A m \in Msg : kind[m] # "plain" => Len(route[m]) = 1

(* A job with its channel owns its instance, and shares it with no other.  *)
Owns(j) == j.live =>
    /\ copy[j.slot] # Free
    /\ copy[j.slot].msg = j.msg /\ copy[j.slot].slip = j.slip /\ copy[j.slot].held
LiveJobsOwn == \A j \in jobs : Owns(j)
LiveJobsDistinct == \A j, k \in jobs : j.live /\ k.live /\ j.slot = k.slot => j = k

KeptAll == \A m \in Msg : route[m] # <<>> => Passed(m, 0)

IInv == /\ TypeOK /\ CopiesAtHop /\ JobsAtHop /\ JobsOK /\ OthersAreShort
        /\ LiveJobsOwn /\ LiveJobsDistinct /\ KeptAll

(* The part of the type that only records history.                         *)
HistoryOK ==
    /\ done \subseteq Msg \X Nat /\ started \subseteq Msg \X Nat
    /\ dead \subseteq Msg \X Nat
    /\ repeated \cup filtered \cup forwardLost \cup disturbed \subseteq Msg
    /\ faults \in Nat
Grows == /\ done \subseteq done' /\ dead \subseteq dead'
         /\ filtered \subseteq filtered' /\ forwardLost \subseteq forwardLost'
-----------------------------------------------------------------------------
(* Constants.                                                              *)
LEMMA Constants ==
    /\ Host \cap Absent = {} /\ Host \cap Invalid = {}
    /\ Itineraries \subseteq Seq(Dest) /\ Registered \subseteq Host
    /\ Handlers \in [Host -> Nat] /\ Attempts \in Nat \ {0} /\ MaxFaults \in Nat
    /\ Host \subseteq Dest
  BY DispatcherAssumption DEF DispatcherAssumption, Dest

(* A free slot is no instance.                                             *)
LEMMA CopiesTyped ==
    ASSUME TypeOK, NEW s \in Slot, copy[s] # Free
    PROVE  /\ copy[s] \in Copy /\ copy[s].msg \in Msg /\ copy[s].at \in Host
           /\ copy[s].slip \in Seq(Dest) /\ copy[s].tries \in 0..Attempts - 1
           /\ copy[s].held \in BOOLEAN
  BY DEF TypeOK, Copy

LEMMA NewCopyTyped ==
    ASSUME NEW m \in Msg, NEW h \in Host, NEW r \in Seq(Dest), NEW t \in 0..Attempts - 1
    PROVE  /\ NewCopy(m, h, r, t) \in Copy /\ NewCopy(m, h, r, t) # Free
           /\ NewCopy(m, h, r, t).msg = m /\ NewCopy(m, h, r, t).at = h
           /\ NewCopy(m, h, r, t).slip = r
           /\ [NewCopy(m, h, r, t) EXCEPT !.held = TRUE] \in Copy
  <1>1. NewCopy(m, h, r, t) \in Copy
    BY DEF NewCopy, Copy
  <1>2. "msg" \in DOMAIN NewCopy(m, h, r, t) /\ "msg" \notin DOMAIN Free
    BY DEF NewCopy, Free
  <1> QED
    BY <1>1, <1>2 DEF NewCopy, Copy

(* The fields of a job.                                                    *)
LEMMA JobsTyped ==
    ASSUME NEW j \in Job
    PROVE  /\ j.slot \in Slot /\ j.by \in Worker /\ j.live \in BOOLEAN /\ j.msg \in Msg
           /\ j.at \in Host /\ j.slip \in Seq(Dest) /\ j.tries \in 0..Attempts - 1
           /\ j.stage \in Stages /\ j.result \in Results /\ j.ran \in Nat
           /\ j.onSuccess \in BOOLEAN /\ j.sentOn \in BOOLEAN /\ j.afters \in Nat
  BY DEF Job

(* The arithmetic of hops.                                                 *)
LEMMA HopArithmetic ==
    ASSUME NEW a \in Nat, NEW b \in Nat, b < a, NEW h, h = a - b
    PROVE  h \in 1..a /\ h \in Nat /\ a = h + b /\ a # 0
  OBVIOUS

(* An instance is at one of the hops of its route.                         *)
LEMMA HopInRoute ==
    ASSUME TypeOK, NEW c, c.msg \in Msg, c.slip \in Seq(Dest), AtHop(c)
    PROVE  /\ Hop(c) \in 1..Len(route[c.msg]) /\ Hop(c) \in DOMAIN route[c.msg]
           /\ route[c.msg] # <<>> /\ route[c.msg] \in Seq(Dest)
           /\ Len(route[c.msg]) = Hop(c) + Len(c.slip) /\ Len(c.slip) \in Nat
  <1>1. route[c.msg] \in Seq(Dest)
    BY DEF TypeOK
  <1>2. Len(route[c.msg]) \in Nat /\ Len(c.slip) \in Nat
    BY <1>1
  <1>3. Hop(c) = Len(route[c.msg]) - Len(c.slip) /\ Len(c.slip) < Len(route[c.msg])
    BY DEF AtHop, Hop
  <1>4. /\ Hop(c) \in 1..Len(route[c.msg]) /\ Len(route[c.msg]) = Hop(c) + Len(c.slip)
        /\ Len(route[c.msg]) # 0
    BY ONLY <1>2, <1>3, HopArithmetic
  <1>5. route[c.msg] # <<>>
    BY <1>4
  <1> QED
    BY <1>1, <1>2, <1>4, <1>5

(* The copy a forward sends is at the next hop.                            *)
LEMMA NextHop ==
    ASSUME TypeOK, NEW c, c.msg \in Msg, c.slip \in Seq(Dest), AtHop(c),
           c.slip # <<>>, <<c.msg, Hop(c)>> \in done,
           NEW d, d.msg = c.msg, d.at = Head(c.slip), d.slip = Tail(c.slip)
    PROVE  AtHop(d) /\ Hop(d) = Hop(c) + 1 /\ route[c.msg][Hop(c) + 1] = Head(c.slip)
  <1>1. Hop(c) \in Nat /\ Len(route[c.msg]) = Hop(c) + Len(c.slip) /\ Len(c.slip) \in Nat
    BY HopInRoute
  <1>2. /\ Len(c.slip) >= 1 /\ Head(c.slip) = c.slip[1]
        /\ Len(Tail(c.slip)) = Len(c.slip) - 1
        /\ \A i \in 1..Len(c.slip) - 1 : Tail(c.slip)[i] = c.slip[i + 1]
    BY <1>1
  <1>3. Hop(d) = Hop(c) + 1
    <2>1. Hop(d) = Len(route[c.msg]) - (Len(c.slip) - 1)
      BY <1>2 DEF Hop
    <2> HIDE DEF Hop
    <2> QED
      BY <1>1, <2>1
  <1>4. d.at = route[d.msg][Hop(d)]
    <2>1. 1 \in 1..Len(c.slip)
      BY <1>1, <1>2
    <2>2. c.slip[1] = route[c.msg][Hop(c) + 1]
      BY <2>1 DEF AtHop
    <2> QED
      BY <1>2, <1>3, <2>2
  <1>5. ASSUME NEW i \in 1..Len(d.slip) PROVE d.slip[i] = route[d.msg][Hop(d) + i]
    <2>1. i + 1 \in 1..Len(c.slip) /\ d.slip[i] = c.slip[i + 1]
      BY <1>1, <1>2
    <2>2. c.slip[i + 1] = route[c.msg][Hop(c) + (i + 1)]
      BY <2>1 DEF AtHop
    <2>3. Hop(c) + (i + 1) = Hop(d) + i
      BY <1>1, <1>3
    <2> QED
      BY <2>1, <2>2, <2>3
  <1>6. ASSUME NEW n \in 1..Hop(d) - 1 PROVE <<d.msg, n>> \in done
    <2>1. n \in 1..Hop(c) - 1 \/ n = Hop(c)
      BY <1>1, <1>3
    <2> QED
      BY <2>1 DEF AtHop
  <1>7. Len(d.slip) < Len(route[d.msg])
    BY <1>1, <1>2
  <1> QED
    BY <1>3, <1>4, <1>5, <1>6, <1>7 DEF AtHop
-----------------------------------------------------------------------------
(* What a message is accounted for by stays.                               *)
LEMMA AccountedGrows ==
    ASSUME Grows, NEW m \in Msg, route'[m] = route[m], Accounted(m)
    PROVE  Accounted(m)'
  BY DEF Grows, Accounted, Unroutable, TypeUnknown

(* Hops stay what they are while routes do.                                *)
LEMMA AtHopStays ==
    ASSUME Grows, NEW c, route'[c.msg] = route[c.msg]
    PROVE  Hop(c)' = Hop(c) /\ (AtHop(c) => AtHop(c)')
  BY DEF Grows, AtHop, Hop

(* What has passed a hop stays so in a step that fills a free slot or      *)
(* turns an instance into another of the message at the same hop.          *)
LEMMA PassedKept ==
    ASSUME Grows, NEW m \in Msg, route'[m] = route[m], NEW p, Passed(m, p),
           \A s \in Slot : copy[s] # Free =>
               copy'[s] # Free /\ copy'[s].msg = copy[s].msg /\ copy'[s].slip = copy[s].slip
    PROVE  Passed(m, p)'
  <1>1. Accounted(m) => Accounted(m)'
    BY AccountedGrows
  <1>2. ASSUME NEW s \in Slot, Beyond(m, p, s) PROVE Beyond(m, p, s)'
    BY <1>2 DEF Beyond, Hop
  <1> QED
    BY <1>1, <1>2 DEF Passed

(* A call moves on and the broker holds what it held: k follows j.         *)
Follows(j, k) ==
    /\ k \in Job
    /\ k.slot = j.slot /\ k.by = j.by /\ k.live = j.live /\ k.msg = j.msg
    /\ k.at = j.at /\ k.slip = j.slip /\ k.tries = j.tries
Moves(j, k) ==
    /\ Follows(j, k) /\ Becomes(j, k)
    /\ Grows /\ HistoryOK'

(* Instances stay, and new ones are at their hop.                          *)
Fills ==
    /\ copy' \in [Slot -> Copy \cup {Free}]
    /\ \A s \in Slot : copy[s] # Free => copy'[s] = copy[s]
    /\ \A s \in Slot : copy[s] = Free /\ copy'[s] # Free => AtHop(copy[s])'

LEMMA MoveKeeps ==
    ASSUME IInv, NEW j \in jobs, NEW k, Moves(j, k), Fills, UNCHANGED <<route, kind>>,
           StagesOK(k), SuccessOK(k)'
    PROVE  IInv'
  <1> USE DEF Moves
  <1>0. j \in Job /\ k \in Job /\ jobs' = (jobs \ {j}) \cup {k} /\ jobs' \subseteq Job
    BY DEF IInv, TypeOK, Follows, Becomes
  <1>1. TypeOK'
    BY <1>0 DEF IInv, TypeOK, HistoryOK, Fills
  <1>2. CopiesAtHop'
    <2> SUFFICES ASSUME NEW s \in Slot, copy'[s] # Free PROVE AtHop(copy[s])'
      BY DEF CopiesAtHop
    <2>1. CASE copy[s] = Free
      BY <2>1 DEF Fills
    <2>2. CASE copy[s] # Free
      <3>1. copy'[s] = copy[s] /\ AtHop(copy[s])
        BY <2>2 DEF Fills, IInv, CopiesAtHop
      <3> QED
        BY <3>1 DEF AtHop, Hop, Grows
    <2> QED
      BY <2>1, <2>2
  <1>3. JobsAtHop'
    <2>1. AtHop(k)
      BY DEF IInv, JobsAtHop, AtHop, Hop, Follows
    <2> QED
      BY <1>0, <2>1, AtHopStays DEF IInv, JobsAtHop
  <1>4. ASSUME NEW m \in Msg, NEW p, Passed(m, p) PROVE Passed(m, p)'
    <2>1. \A s \in Slot : copy[s] # Free =>
             copy'[s] # Free /\ copy'[s].msg = copy[s].msg /\ copy'[s].slip = copy[s].slip
      BY DEF Fills
    <2> QED
      BY <1>4, <2>1, PassedKept
  <1>5. JobsOK'
    <2>1. ASSUME NEW i \in jobs PROVE StagesOK(i)' /\ SuccessOK(i)'
      <3>1. StagesOK(i) /\ SuccessOK(i) /\ i \in Job /\ i.msg \in Msg
        BY JobsTyped DEF IInv, JobsOK, TypeOK
      <3>2. Hop(i)' = Hop(i)
        BY DEF Hop
      <3>3. Passed(i.msg, Hop(i)) => Passed(i.msg, Hop(i))'
        BY <1>4, <3>1, <3>2 DEF Passed, Beyond
      <3> QED
        BY <3>1, <3>2, <3>3 DEF StagesOK, SuccessOK, Grows
    <2>2. StagesOK(k)'
      BY DEF StagesOK
    <2> QED
      BY <1>0, <2>1, <2>2 DEF JobsOK
  <1>6. OthersAreShort'
    BY DEF IInv, OthersAreShort
  <1>7. LiveJobsOwn'
    BY <1>0 DEF IInv, LiveJobsOwn, Owns, Follows, Fills, TypeOK, Job
  <1>8. LiveJobsDistinct'
    BY <1>0 DEF IInv, LiveJobsDistinct, Follows
  <1>9. KeptAll'
    BY <1>4 DEF IInv, KeptAll
  <1> QED
    BY <1>1, <1>2, <1>3, <1>5, <1>6, <1>7, <1>8, <1>9 DEF IInv
-----------------------------------------------------------------------------
(* The record a stage leaves.                                              *)
LEMMA GoesFields ==
    ASSUME NEW j \in Job, NEW stage \in Stages
    PROVE  /\ Follows(j, Goes(j, stage)) /\ Goes(j, stage).stage = stage
           /\ Goes(j, stage).result = j.result /\ Goes(j, stage).ran = j.ran
           /\ Goes(j, stage).onSuccess = j.onSuccess /\ Goes(j, stage).sentOn = j.sentOn
           /\ Goes(j, stage).afters = j.afters
  BY DEF Goes, Job, Follows

LEMMA ReportsFields ==
    ASSUME NEW j \in Job, NEW result \in Results, NEW stage \in Stages
    PROVE  /\ Follows(j, Reports(j, result, stage))
           /\ Reports(j, result, stage).stage = stage
           /\ Reports(j, result, stage).result = result
           /\ Reports(j, result, stage).ran = j.ran
           /\ Reports(j, result, stage).onSuccess = j.onSuccess
           /\ Reports(j, result, stage).sentOn = j.sentOn
           /\ Reports(j, result, stage).afters = j.afters
  BY DEF Reports, Goes, Job, Follows

(* What is known of a call at the start of a step.                         *)
LEMMA JobKnown ==
    ASSUME IInv, NEW j \in jobs
    PROVE  /\ j \in Job /\ j.msg \in Msg /\ j.at \in Host /\ j.slip \in Seq(Dest)
           /\ j.ran \in Nat /\ j.afters \in Nat
           /\ StagesOK(j) /\ SuccessOK(j) /\ AtHop(j) /\ Hop(j) \in Nat
           /\ Hop(j) \in DOMAIN route[j.msg] /\ HistoryOK
           /\ <<j.msg, Hop(j)>> \in Msg \X Nat
  <1>1. /\ j \in Job /\ j.msg \in Msg /\ j.at \in Host /\ j.slip \in Seq(Dest)
        /\ j.ran \in Nat /\ j.afters \in Nat
    BY JobsTyped DEF IInv, TypeOK
  <1>2. StagesOK(j) /\ SuccessOK(j) /\ AtHop(j)
    BY DEF IInv, JobsOK, JobsAtHop
  <1>3. Hop(j) \in DOMAIN route[j.msg] /\ Hop(j) \in 1..Len(route[j.msg])
    BY <1>1, <1>2, HopInRoute DEF IInv
  <1>4. HistoryOK
    BY DEF IInv, TypeOK, HistoryOK
  <1> QED
    BY <1>1, <1>2, <1>3, <1>4

(* A step that records nothing but misfortune.                             *)
LEMMA MoveOnly ==
    ASSUME IInv, NEW j \in jobs, NEW k, Follows(j, k), Becomes(j, k),
           UNCHANGED <<broker, callers>>, Grows, HistoryOK',
           StagesOK(k), k.result \in Success => SuccessOK(k)'
    PROVE  IInv'
  <1>1. Moves(j, k)
    BY DEF Moves
  <1>2. SuccessOK(k)'
    BY DEF SuccessOK
  <1>3. Fills
    BY DEF Fills, IInv, TypeOK, broker
  <1> QED
    BY <1>1, <1>2, <1>3, MoveKeeps DEF callers

(* The four ways on: to the next stage, to a failure, to a success whose   *)
(* hop is recorded, to a success whose message needs no forward.           *)
LEMMA GoesOn ==
    ASSUME IInv, NEW j \in jobs, NEW stage \in Early, j.stage \in Early,
           Becomes(j, Goes(j, stage)), UNCHANGED <<broker, callers>>, Grows, HistoryOK'
    PROVE  IInv'
  <1> DEFINE k == Goes(j, stage)
  <1>1. /\ Follows(j, k) /\ k.stage = stage /\ k.result = j.result /\ k.ran = j.ran
        /\ k.onSuccess = j.onSuccess /\ k.sentOn = j.sentOn /\ k.afters = j.afters
    <2>1. j \in Job /\ stage \in Stages
      BY JobKnown DEF Early, Stages
    <2> QED
      BY <2>1, GoesFields
  <1>2. StagesOK(j) /\ k.at = j.at
    BY <1>1, JobKnown DEF Follows
  <1> HIDE DEF k
  <1>3. StagesOK(k)
    BY <1>1, <1>2 DEF StagesOK, Early
  <1>4. SuccessOK(k)'
    BY <1>1 DEF SuccessOK, Early
  <1> QED
    BY <1>1, <1>3, <1>4, MoveOnly DEF k

LEMMA Fails ==
    ASSUME IInv, NEW j \in jobs, NEW result \in {"failed", "terminal", "thrown"},
           NEW stage \in {"forward", "after", "settle"},
           result = "thrown" <=> stage = "settle",
           j.stage \in Early \cup {"handlers"},
           Becomes(j, Reports(j, result, stage)), UNCHANGED <<broker, callers>>,
           Grows, HistoryOK'
    PROVE  IInv'
  <1> DEFINE k == Reports(j, result, stage)
  <1>1. /\ Follows(j, k) /\ k.stage = stage /\ k.result = result /\ k.ran = j.ran
        /\ k.onSuccess = j.onSuccess /\ k.sentOn = j.sentOn /\ k.afters = j.afters
    <2>1. j \in Job /\ stage \in Stages /\ result \in Results
      BY JobKnown DEF Results, Stages
    <2> QED
      BY <2>1, ReportsFields
  <1>2. StagesOK(j) /\ k.at = j.at
    BY <1>1, JobKnown DEF Follows
  <1> HIDE DEF k
  <1>3. StagesOK(k) /\ k.result \notin Success
    BY <1>1, <1>2 DEF StagesOK, Early, Success
  <1> QED
    BY <1>1, <1>3, MoveOnly DEF k

LEMMA Succeeds ==
    ASSUME IInv, NEW j \in jobs, NEW result \in Success, NEW stage \in {"forward", "after"},
           j.stage \in Early,
           Becomes(j, Reports(j, result, stage)), UNCHANGED <<broker, callers>>,
           Grows, HistoryOK',
           stage = "forward" => <<j.msg, Hop(j)>> \in done',
           stage = "after" => Accounted(j.msg)'
    PROVE  IInv'
  <1> DEFINE k == Reports(j, result, stage)
  <1>1. /\ Follows(j, k) /\ k.stage = stage /\ k.result = result /\ k.ran = j.ran
        /\ k.onSuccess = j.onSuccess /\ k.sentOn = j.sentOn /\ k.afters = j.afters
    <2>1. j \in Job /\ stage \in Stages /\ result \in Results
      BY JobKnown DEF Results, Stages, Success
    <2> QED
      BY <2>1, ReportsFields
  <1>2. StagesOK(j) /\ k.at = j.at /\ k.msg = j.msg /\ Hop(k)' = Hop(j)
    BY <1>1, JobKnown DEF Follows, Hop, callers
  <1> HIDE DEF k
  <1>3. StagesOK(k)
    BY <1>1, <1>2 DEF StagesOK, Early, Success
  <1>4. SuccessOK(k)'
    BY <1>1, <1>2 DEF SuccessOK, Passed
  <1> QED
    BY <1>1, <1>3, <1>4, MoveOnly DEF k

(* A hop recorded at the end of a route of one accounts for the message.   *)
LEMMA LastHopEnds ==
    ASSUME IInv, NEW j \in jobs, Hop(j) = Len(route[j.msg]), Succeed(j), UNCHANGED route
    PROVE  Accounted(j.msg)'
  BY DEF Accounted, Succeed

-----------------------------------------------------------------------------
(* beforeConsuming: on a Stop the message is accounted for as filtered.    *)
LEMMA BeforeKeeps ==
    ASSUME IInv, NEW j \in jobs, BeforeConsuming(j)
    PROVE  IInv'
  <1>1. j.msg \in Msg /\ j.stage \in Early /\ HistoryOK
    BY JobKnown DEF BeforeConsuming, Early
  <1>2. UNCHANGED <<broker, callers>> /\ UNCHANGED <<progress, forwardLost, faults>>
    BY DEF BeforeConsuming
  <1>3. PICK v \in Verdicts :
          /\ Becomes(j, CASE v = "continue" -> Goes(j, "stream")
                          [] v = "stop" -> Reports(j, "handled", "after")
                          [] v = "throw" -> Reports(j, "failed", "after"))
          /\ filtered' = IF v = "stop" THEN filtered \cup {j.msg} ELSE filtered
          /\ disturbed' = IF v = "throw" THEN disturbed \cup {j.msg} ELSE disturbed
    BY DEF BeforeConsuming
  <1>4. Grows /\ HistoryOK'
    BY <1>1, <1>2, <1>3 DEF Grows, HistoryOK, broker, progress
  <1>5. CASE v = "continue"
    <2>1. Becomes(j, Goes(j, "stream")) /\ "stream" \in Early
      BY <1>3, <1>5 DEF Early
    <2> QED
      BY <1>1, <1>2, <1>4, <2>1, GoesOn
  <1>6. CASE v = "stop"
    <2>1. Becomes(j, Reports(j, "handled", "after")) /\ "handled" \in Success
      BY <1>3, <1>6 DEF Success
    <2>2. Accounted(j.msg)'
      BY <1>3, <1>6 DEF Accounted
    <2> QED
      BY <1>1, <1>2, <1>4, <2>1, <2>2, Succeeds
  <1>7. CASE v = "throw"
    <2>1. Becomes(j, Reports(j, "failed", "after"))
      BY <1>3, <1>7
    <2> QED
      BY <1>1, <1>2, <1>4, <2>1, Fails
  <1> QED
    BY <1>5, <1>6, <1>7 DEF Verdicts, MiddlewareVerdicts

(* A branch that rejects skips forward and afterConsuming.                 *)
LEMMA ThrowsKeeps ==
    ASSUME IInv, NEW j \in jobs, Throws(j)
    PROVE  IInv'
  <1>1. j.msg \in Msg /\ j.stage \in Early /\ HistoryOK
    BY JobKnown DEF Throws, Early
  <1>2. /\ Becomes(j, Reports(j, "thrown", "settle")) /\ UNCHANGED <<broker, callers>>
        /\ Disturb(j) /\ UNCHANGED <<progress, filtered, forwardLost, faults>>
    BY DEF Throws
  <1>3. Grows /\ HistoryOK'
    BY <1>1, <1>2 DEF Grows, HistoryOK, Disturb, broker, progress
  <1> QED
    BY <1>1, <1>2, <1>3, Fails

(* Histories that only grow: what Begin, Succeed and Disturb add.          *)
LEMMA HistoriesGrow ==
    ASSUME IInv, NEW j \in jobs,
           done' = done \/ Succeed(j),
           UNCHANGED <<started, repeated>> \/ Begin(j),
           UNCHANGED disturbed \/ Disturb(j),
           UNCHANGED dead, filtered' = filtered, forwardLost' = forwardLost, faults' = faults
    PROVE  Grows /\ HistoryOK'
  <1>1. j.msg \in Msg /\ <<j.msg, Hop(j)>> \in Msg \X Nat /\ HistoryOK
    BY JobKnown
  <1>2. done \subseteq done' /\ done' \subseteq Msg \X Nat
    BY <1>1 DEF Succeed, HistoryOK
  <1>3. started' \subseteq Msg \X Nat /\ repeated' \subseteq Msg
    BY <1>1 DEF Begin, HistoryOK
  <1>4. disturbed' \subseteq Msg
    BY <1>1 DEF Disturb, HistoryOK
  <1> QED
    BY <1>1, <1>2, <1>3, <1>4 DEF Grows, HistoryOK

(* Chunks have one hop, so a chunk that is pushed has arrived.             *)
LEMMA StreamKeeps ==
    ASSUME IInv, NEW j \in jobs, StreamBranch(j)
    PROVE  IInv'
  <1>1. j.stage \in Early /\ UNCHANGED <<broker, callers>> /\ UNCHANGED route
    BY DEF StreamBranch, Early, callers
  <1>2. Grows /\ HistoryOK'
    <2>1. /\ done' = done \/ Succeed(j)
          /\ UNCHANGED <<started, repeated>>
          /\ UNCHANGED disturbed \/ Disturb(j)
          /\ UNCHANGED dead /\ filtered' = filtered /\ forwardLost' = forwardLost
          /\ faults' = faults
      BY DEF StreamBranch, progress, broker
    <2> QED
      BY <2>1, HistoriesGrow
  <1>3. CASE Becomes(j, Goes(j, "decode"))
    BY <1>1, <1>2, <1>3, GoesOn DEF Early
  <1>4. CASE kind[j.msg] = "chunk" /\ Becomes(j, Reports(j, "handled", "after")) /\ Succeed(j)
    <2>1. Accounted(j.msg)'
      <3>1. j.msg \in Msg /\ Len(route[j.msg]) = 1
        BY <1>4, JobKnown DEF IInv, OthersAreShort
      <3>2. Hop(j) \in 1..Len(route[j.msg])
        BY JobKnown, HopInRoute DEF IInv
      <3>3. Hop(j) = Len(route[j.msg])
        BY <3>1, <3>2
      <3> QED
        BY <1>1, <1>4, <3>3, LastHopEnds
    <2> QED
      BY <1>1, <1>2, <1>4, <2>1, Succeeds DEF Success
  <1>5. CASE Becomes(j, Reports(j, "terminal", "after"))
    BY <1>1, <1>2, <1>5, Fails
  <1> QED
    BY <1>3, <1>4, <1>5 DEF StreamBranch

LEMMA DeserializeKeeps ==
    ASSUME IInv, NEW j \in jobs, Deserialize(j)
    PROVE  IInv'
  <1>1. j.stage \in Early /\ UNCHANGED <<broker, callers>>
    BY DEF Deserialize, Early
  <1>2. Grows /\ HistoryOK'
    <2>1. /\ done' = done /\ UNCHANGED <<started, repeated>>
          /\ UNCHANGED disturbed \/ Disturb(j)
          /\ UNCHANGED dead /\ filtered' = filtered /\ forwardLost' = forwardLost
          /\ faults' = faults
      BY DEF Deserialize, progress, broker
    <2> QED
      BY <2>1, HistoriesGrow
  <1>3. CASE Becomes(j, Goes(j, "reply"))
    BY <1>1, <1>2, <1>3, GoesOn DEF Early
  <1>4. CASE \E r \in {"terminal", "failed"} : Becomes(j, Reports(j, r, "after"))
    BY <1>1, <1>2, <1>4, Fails
  <1> QED
    BY <1>3, <1>4 DEF Deserialize

(* Replies have one hop too.                                               *)
LEMMA ReplyKeeps ==
    ASSUME IInv, NEW j \in jobs, ReplyBranch(j)
    PROVE  IInv'
  <1>1. j.stage \in Early /\ UNCHANGED <<broker, callers>> /\ UNCHANGED route
    BY DEF ReplyBranch, Early, callers
  <1>2. Grows /\ HistoryOK'
    <2>1. /\ done' = done \/ Succeed(j)
          /\ UNCHANGED <<started, repeated>> /\ UNCHANGED disturbed
          /\ UNCHANGED dead /\ filtered' = filtered /\ forwardLost' = forwardLost
          /\ faults' = faults
      BY DEF ReplyBranch, mishaps, broker
    <2> QED
      BY <2>1, HistoriesGrow
  <1>3. CASE Becomes(j, Goes(j, "saga"))
    BY <1>1, <1>2, <1>3, GoesOn DEF Early
  <1>4. CASE kind[j.msg] = "reply" /\ Becomes(j, Reports(j, "handled", "after")) /\ Succeed(j)
    <2>1. Accounted(j.msg)'
      <3>1. j.msg \in Msg /\ Len(route[j.msg]) = 1
        BY <1>4, JobKnown DEF IInv, OthersAreShort
      <3>2. Hop(j) \in 1..Len(route[j.msg])
        BY JobKnown, HopInRoute DEF IInv
      <3>3. Hop(j) = Len(route[j.msg])
        BY <3>1, <3>2
      <3> QED
        BY <1>1, <1>4, <3>3, LastHopEnds
    <2> QED
      BY <1>1, <1>2, <1>4, <2>1, Succeeds DEF Success
  <1> QED
    BY <1>3, <1>4 DEF ReplyBranch

(* The exits of the saga branch record the hop before the forward.         *)
LEMMA SagaKeeps ==
    ASSUME IInv, NEW j \in jobs, SagaBranch(j)
    PROVE  IInv'
  <1>1. j.stage \in Early /\ UNCHANGED <<broker, callers>>
    BY DEF SagaBranch, Early
  <1>2. Grows /\ HistoryOK'
    <2>1. /\ done' = done \/ Succeed(j)
          /\ UNCHANGED <<started, repeated>> \/ Begin(j)
          /\ UNCHANGED disturbed \/ Disturb(j)
          /\ UNCHANGED dead /\ filtered' = filtered /\ forwardLost' = forwardLost
          /\ faults' = faults
      BY DEF SagaBranch, progress, broker
    <2> QED
      BY <2>1, HistoriesGrow
  <1>3. CASE Becomes(j, Goes(j, "aggregator"))
    BY <1>1, <1>2, <1>3, GoesOn DEF Early
  <1>4. CASE \E r \in Success : Becomes(j, Reports(j, r, "forward")) /\ Succeed(j)
    <2>1. <<j.msg, Hop(j)>> \in done'
      BY <1>4 DEF Succeed
    <2> QED
      BY <1>1, <1>2, <1>4, <2>1, Succeeds
  <1>5. CASE Becomes(j, Reports(j, "failed", "forward"))
    BY <1>1, <1>2, <1>5, Fails
  <1> QED
    BY <1>3, <1>4, <1>5 DEF SagaBranch, Success

LEMMA AggregatorKeeps ==
    ASSUME IInv, NEW j \in jobs, AggregatorBranch(j)
    PROVE  IInv'
  <1>1. j.stage \in Early /\ UNCHANGED <<broker, callers>>
    BY DEF AggregatorBranch, Early
  <1>2. Grows /\ HistoryOK'
    <2>1. /\ done' = done \/ Succeed(j)
          /\ UNCHANGED <<started, repeated>> \/ Begin(j)
          /\ UNCHANGED disturbed \/ Disturb(j)
          /\ UNCHANGED dead /\ filtered' = filtered /\ forwardLost' = forwardLost
          /\ faults' = faults
      BY DEF AggregatorBranch, progress, broker
    <2> QED
      BY <2>1, HistoriesGrow
  <1>3. CASE Becomes(j, Goes(j, "resolve"))
    BY <1>1, <1>2, <1>3, GoesOn DEF Early
  <1>4. CASE Becomes(j, Reports(j, "handled", "forward")) /\ Succeed(j)
    <2>1. <<j.msg, Hop(j)>> \in done'
      BY <1>4 DEF Succeed
    <2> QED
      BY <1>1, <1>2, <1>4, <2>1, Succeeds DEF Success
  <1>5. CASE Becomes(j, Reports(j, "failed", "forward"))
    BY <1>1, <1>2, <1>5, Fails
  <1> QED
    BY <1>3, <1>4, <1>5 DEF AggregatorBranch

(* A passive hop succeeds at once; with handlers the hop begins.           *)
LEMMA ResolveKeeps ==
    ASSUME IInv, NEW j \in jobs, ResolveHandlers(j)
    PROVE  IInv'
  <1>1. j.stage \in Early /\ UNCHANGED <<broker, callers>> /\ j.at \in Host
    BY JobKnown DEF ResolveHandlers, Early
  <1>2. Grows /\ HistoryOK'
    <2>1. /\ done' = done \/ Succeed(j)
          /\ UNCHANGED <<started, repeated>> \/ Begin(j)
          /\ UNCHANGED disturbed
          /\ UNCHANGED dead /\ filtered' = filtered /\ forwardLost' = forwardLost
          /\ faults' = faults
      BY DEF ResolveHandlers, mishaps, broker
    <2> QED
      BY <2>1, HistoriesGrow
  <1>3. CASE Becomes(j, Reports(j, "unhandled", "forward")) /\ Succeed(j)
    <2>1. <<j.msg, Hop(j)>> \in done'
      BY <1>3 DEF Succeed
    <2> QED
      BY <1>1, <1>2, <1>3, <2>1, Succeeds DEF Success
  <1>4. CASE Handlers[j.at] > 0 /\ Becomes(j, Goes(j, "handlers"))
    <2> DEFINE k == Goes(j, "handlers")
    <2>1. /\ Follows(j, k) /\ k.stage = "handlers" /\ k.result = j.result /\ k.ran = j.ran
          /\ k.onSuccess = j.onSuccess /\ k.sentOn = j.sentOn /\ k.afters = j.afters
      BY JobKnown, GoesFields DEF Stages
    <2>2. StagesOK(j) /\ k.at = j.at
      BY <2>1, JobKnown DEF Follows
    <2> HIDE DEF k
    <2>3. StagesOK(k)
      BY <1>1, <1>4, <2>1, <2>2 DEF StagesOK, Early
    <2>4. SuccessOK(k)'
      BY <2>1 DEF SuccessOK
    <2> QED
      BY <1>1, <1>2, <1>4, <2>1, <2>3, <2>4, MoveOnly DEF k
  <1> QED
    BY <1>3, <1>4 DEF ResolveHandlers

(* After the last handler, and only then, onConsumedSuccessfully is next.  *)
LEMMA HandlerReturnsKeeps ==
    ASSUME IInv, NEW j \in jobs, HandlerReturns(j)
    PROVE  IInv'
  <1> DEFINE stage == IF j.ran + 1 < Handlers[j.at] THEN "handlers" ELSE "onSuccess"
             k == [Goes(j, stage) EXCEPT !.ran = j.ran + 1]
  <1>1. /\ j.stage = "handlers" /\ UNCHANGED <<broker, callers>>
        /\ Becomes(j, k)
    <2>1. j \in Job /\ stage \in Stages
      BY JobKnown DEF Stages
    <2>2. Goes(j, stage).ran = j.ran /\ Goes(j, stage) \in Job
      BY <2>1, GoesFields DEF Follows
    <2>3. [Goes(j, stage) EXCEPT !.ran = @ + 1] = k
      BY <2>2 DEF Job
    <2> QED
      BY <2>3 DEF HandlerReturns
  <1>2. Grows /\ HistoryOK'
    <2>1. HistoryOK /\ UNCHANGED <<progress, mishaps, dead>>
      BY JobKnown DEF HandlerReturns, broker
    <2> QED
      BY <2>1 DEF Grows, HistoryOK, progress, mishaps
  <1>3. /\ Follows(j, k) /\ k.stage = stage /\ k.result = j.result /\ k.ran = j.ran + 1
        /\ k.onSuccess = j.onSuccess /\ k.sentOn = j.sentOn /\ k.afters = j.afters
    <2>1. j \in Job /\ stage \in Stages /\ j.ran \in Nat
      BY JobKnown DEF Stages
    <2>2. j.ran + 1 \in Nat
      BY <2>1
    <2> QED
      BY <2>1, <2>2 DEF Goes, Follows, Job
  <1>4. StagesOK(j) /\ k.at = j.at /\ j.ran \in Nat /\ Handlers[j.at] \in Nat
    BY <1>3, JobKnown, Constants DEF Follows
  <1>5. stage \in {"handlers", "onSuccess"} /\ (stage = "handlers" <=> j.ran + 1 < Handlers[j.at])
    OBVIOUS
  <1> HIDE DEF k, stage
  <1>6. StagesOK(k)
    BY <1>1, <1>3, <1>4, <1>5 DEF StagesOK, Early
  <1>7. SuccessOK(k)'
    BY <1>3, <1>5 DEF SuccessOK
  <1> QED
    BY <1>1, <1>2, <1>3, <1>6, <1>7, MoveOnly

LEMMA HandlerThrowsKeeps ==
    ASSUME IInv, NEW j \in jobs, HandlerThrows(j)
    PROVE  IInv'
  <1>1. /\ j.stage = "handlers" /\ UNCHANGED <<broker, callers>>
        /\ Becomes(j, Reports(j, "failed", "forward"))
    BY DEF HandlerThrows
  <1>2. Grows /\ HistoryOK'
    <2>1. /\ done' = done /\ UNCHANGED <<started, repeated>> /\ Disturb(j)
          /\ UNCHANGED dead /\ filtered' = filtered /\ forwardLost' = forwardLost
          /\ faults' = faults
      BY DEF HandlerThrows, progress, broker
    <2> QED
      BY <2>1, HistoriesGrow
  <1> QED
    BY <1>1, <1>2, Fails

(* All handlers returned; a success is recorded for the forward.           *)
LEMMA OnConsumedKeeps ==
    ASSUME IInv, NEW j \in jobs, OnConsumedSuccessfully(j)
    PROVE  IInv'
  <1>1. j.stage = "onSuccess" /\ UNCHANGED <<broker, callers>>
    BY DEF OnConsumedSuccessfully
  <1>2. Grows /\ HistoryOK'
    <2>1. /\ done' = done \/ Succeed(j)
          /\ UNCHANGED <<started, repeated>>
          /\ UNCHANGED disturbed \/ Disturb(j)
          /\ UNCHANGED dead /\ filtered' = filtered /\ forwardLost' = forwardLost
          /\ faults' = faults
      BY DEF OnConsumedSuccessfully, broker
    <2> QED
      BY <2>1, HistoriesGrow
  <1>3. ASSUME NEW r \in {"handled", "failed"},
               Becomes(j, [Reports(j, r, "forward") EXCEPT !.onSuccess = TRUE]),
               r = "handled" => <<j.msg, Hop(j)>> \in done'
        PROVE  IInv'
    <2> DEFINE k == [Reports(j, r, "forward") EXCEPT !.onSuccess = TRUE]
    <2>1. /\ Follows(j, k) /\ k.stage = "forward" /\ k.result = r /\ k.ran = j.ran
          /\ k.onSuccess /\ k.sentOn = j.sentOn /\ k.afters = j.afters
      BY JobKnown DEF Reports, Goes, Follows, Job, Stages, Results
    <2>2. StagesOK(j) /\ k.at = j.at /\ k.msg = j.msg /\ Hop(k)' = Hop(j)
      BY <1>1, <2>1, JobKnown DEF Follows, Hop, callers
    <2>3. Becomes(j, k)
      BY <1>3
    <2> HIDE DEF k
    <2>4. StagesOK(k)
      BY <1>1, <2>1, <2>2 DEF StagesOK, Early
    <2>5. SuccessOK(k)'
      BY <1>3, <2>1, <2>2 DEF SuccessOK, Success
    <2> QED
      BY <1>1, <1>2, <2>1, <2>3, <2>4, <2>5, MoveOnly
  <1>4. CASE \E v \in Verdicts :
               /\ Becomes(j, [Reports(j, "handled", "forward") EXCEPT !.onSuccess = TRUE])
               /\ Succeed(j)
    BY <1>3, <1>4 DEF Succeed
  <1>5. CASE \E v \in Verdicts :
               Becomes(j, [Reports(j, "failed", "forward") EXCEPT !.onSuccess = TRUE])
    BY <1>3, <1>5
  <1> QED
    BY <1>4, <1>5 DEF OnConsumedSuccessfully

(* Nothing to forward after a success: the route has ended here.           *)
LEMMA NoForwardKeeps ==
    ASSUME IInv, NEW j \in jobs, NoForward(j)
    PROVE  IInv'
  <1> DEFINE k == Goes(j, "after")
  <1>1. j.stage = "forward" /\ ~Forwards(j) /\ UNCHANGED <<broker, callers>> /\ Becomes(j, k)
    BY DEF NoForward
  <1>2. Grows /\ HistoryOK'
    <2>1. HistoryOK /\ UNCHANGED <<progress, mishaps, dead>>
      BY JobKnown DEF NoForward, broker
    <2> QED
      BY <2>1 DEF Grows, HistoryOK, progress, mishaps
  <1>3. /\ Follows(j, k) /\ k.stage = "after" /\ k.result = j.result /\ k.ran = j.ran
        /\ k.onSuccess = j.onSuccess /\ k.sentOn = j.sentOn /\ k.afters = j.afters
    BY JobKnown, GoesFields DEF Stages
  <1>4. StagesOK(j) /\ k.at = j.at /\ k.msg = j.msg
    BY <1>3, JobKnown DEF Follows
  <1> HIDE DEF k
  <1>5. StagesOK(k)
    BY <1>1, <1>3, <1>4 DEF StagesOK, Early
  <1>6. ASSUME k.result \in Success PROVE Accounted(j.msg)'
    <2>1. /\ <<j.msg, Hop(j)>> \in done /\ j.msg \in Msg /\ j.slip \in Seq(Dest) /\ AtHop(j)
      BY <1>1, <1>3, <1>6, JobKnown DEF SuccessOK
    <2>2. /\ Hop(j) \in 1..Len(route[j.msg]) /\ Len(route[j.msg]) = Hop(j) + Len(j.slip)
          /\ Len(j.slip) \in Nat
      BY <2>1, HopInRoute DEF IInv
    <2>3. CASE j.slip = <<>>
      <3>1. Hop(j) = Len(route[j.msg])
        BY <2>2, <2>3
      <3>2. Accounted(j.msg)
        BY <2>1, <3>1 DEF Accounted
      <3> QED
        BY <1>1, <1>2, <2>1, <3>2, AccountedGrows DEF callers
    <2>4. CASE j.slip # <<>> /\ Head(j.slip) \in Invalid
      <3>1. route[j.msg][Hop(j) + 1] \notin Host
        <4>1. Len(j.slip) >= 1 /\ Head(j.slip) = j.slip[1]
          BY <2>1, <2>4
        <4>2. j.slip[1] = route[j.msg][Hop(j) + 1]
          BY <2>2, <4>1, <2>1 DEF AtHop
        <4> QED
          BY <2>4, <4>1, <4>2, Constants
      <3>2. Hop(j) \in 1..Len(route[j.msg]) - 1
        BY <2>1, <2>2, <2>4
      <3>3. Accounted(j.msg)
        BY <2>1, <3>1, <3>2 DEF Accounted, Unroutable
      <3> QED
        BY <1>1, <1>2, <2>1, <3>3, AccountedGrows DEF callers
    <2> QED
      BY <1>1, <1>3, <1>6, <2>3, <2>4 DEF Forwards
  <1>7. k.result \in Success => SuccessOK(k)'
    BY <1>3, <1>4, <1>6 DEF SuccessOK, Passed
  <1> QED
    BY <1>1, <1>2, <1>3, <1>5, <1>7, MoveOnly

(* A forward that fails is recorded as the reason.                         *)
LEMMA ForwardFailsKeeps ==
    ASSUME IInv, NEW j \in jobs, ForwardFails(j)
    PROVE  IInv'
  <1> DEFINE k == Goes(j, "after")
  <1>1. /\ j.stage = "forward" /\ UNCHANGED <<broker, callers>> /\ Becomes(j, k)
        /\ forwardLost' = forwardLost \cup {j.msg}
    BY DEF ForwardFails
  <1>2. Grows /\ HistoryOK'
    <2>1. /\ HistoryOK /\ UNCHANGED <<progress, dead, filtered, disturbed>>
          /\ faults' = faults + 1 /\ j.msg \in Msg
      BY JobKnown DEF ForwardFails, Fault, broker
    <2> QED
      BY <1>1, <2>1 DEF Grows, HistoryOK, progress
  <1>3. /\ Follows(j, k) /\ k.stage = "after" /\ k.result = j.result /\ k.ran = j.ran
        /\ k.onSuccess = j.onSuccess /\ k.sentOn = j.sentOn /\ k.afters = j.afters
    BY JobKnown, GoesFields DEF Stages
  <1>4. StagesOK(j) /\ k.at = j.at /\ k.msg = j.msg
    BY <1>3, JobKnown DEF Follows
  <1> HIDE DEF k
  <1>5. StagesOK(k)
    BY <1>1, <1>3, <1>4 DEF StagesOK, Early
  <1>6. SuccessOK(k)'
    BY <1>1, <1>3, <1>4 DEF SuccessOK, Passed, Accounted
  <1> QED
    BY <1>1, <1>2, <1>3, <1>5, <1>6, MoveOnly

(* afterConsuming is counted once, on the way to the report.               *)
LEMMA AfterKeeps ==
    ASSUME IInv, NEW j \in jobs, AfterConsuming(j)
    PROVE  IInv'
  <1> DEFINE k == [Goes(j, "settle") EXCEPT !.afters = j.afters + 1]
  <1>1. j.stage = "after" /\ UNCHANGED <<broker, callers>> /\ Becomes(j, k)
    <2>1. j \in Job /\ "settle" \in Stages
      BY JobKnown DEF Stages
    <2>2. Goes(j, "settle").afters = j.afters /\ Goes(j, "settle") \in Job
      BY <2>1, GoesFields DEF Follows
    <2>3. [Goes(j, "settle") EXCEPT !.afters = @ + 1] = k
      BY <2>2 DEF Job
    <2> QED
      BY <2>3 DEF AfterConsuming
  <1>2. Grows /\ HistoryOK'
    <2>1. HistoryOK /\ UNCHANGED <<progress, mishaps, dead>>
      BY JobKnown DEF AfterConsuming, broker
    <2> QED
      BY <2>1 DEF Grows, HistoryOK, progress, mishaps
  <1>3. /\ Follows(j, k) /\ k.stage = "settle" /\ k.result = j.result /\ k.ran = j.ran
        /\ k.onSuccess = j.onSuccess /\ k.sentOn = j.sentOn /\ k.afters = j.afters + 1
    <2>1. j \in Job /\ j.afters \in Nat
      BY JobKnown
    <2>2. j.afters + 1 \in Nat
      BY <2>1
    <2> QED
      BY <2>1, <2>2 DEF Goes, Follows, Job, Stages
  <1>4. StagesOK(j) /\ k.at = j.at /\ k.msg = j.msg /\ Hop(k)' = Hop(j) /\ Hop(j)' = Hop(j)
    BY <1>1, <1>3, JobKnown DEF Follows, Hop, callers
  <1> HIDE DEF k
  <1>5. StagesOK(k)
    BY <1>1, <1>3, <1>4 DEF StagesOK, Early
  <1>6. k.result \in Success => SuccessOK(k)'
    <2>1. ASSUME k.result \in Success PROVE Passed(j.msg, Hop(j))'
      <3>1. Passed(j.msg, Hop(j)) /\ j.msg \in Msg
        BY <1>1, <1>3, <2>1, JobKnown DEF SuccessOK
      <3>2. UNCHANGED <<route, copy>>
        BY <1>1 DEF broker, callers
      <3>3. \A p : Passed(j.msg, p) => Passed(j.msg, p)'
        BY <1>2, <3>1, <3>2, PassedKept
      <3>4. Hop(j)' = Hop(j)
        BY <3>2 DEF Hop
      <3> QED
        BY <3>1, <3>3, <3>4 DEF Passed, Beyond
    <2> QED
      BY <1>3, <1>4, <2>1 DEF SuccessOK, Passed, Beyond
  <1> QED
    BY <1>1, <1>2, <1>3, <1>5, <1>6, MoveOnly

-----------------------------------------------------------------------------
(* The forward: its copy is beyond the hop of the call.                    *)
LEMMA ForwardKeeps ==
    ASSUME IInv, NEW j \in jobs, NEW s \in Slot, Forward(j, s)
    PROVE  IInv'
  <1> DEFINE k == [Goes(j, "after") EXCEPT !.sentOn = TRUE]
             d == NewCopy(j.msg, Head(j.slip), Tail(j.slip), 0)
  <1>1. /\ j.stage = "forward" /\ Becomes(j, k) /\ UNCHANGED <<route, kind>>
        /\ j.result \in Success /\ j.slip # <<>> /\ UNCHANGED <<dead, progress, mishaps>>
    BY DEF Forward, Forwards, callers
  <1>2. Grows /\ HistoryOK'
    <2>1. HistoryOK
      BY JobKnown
    <2> QED
      BY <1>1, <2>1 DEF Grows, HistoryOK, progress, mishaps
  <1>3. /\ Follows(j, k) /\ k.stage = "after" /\ k.result = j.result /\ k.ran = j.ran
        /\ k.onSuccess = j.onSuccess /\ k.sentOn /\ k.afters = j.afters
    <2>1. j \in Job
      BY JobKnown
    <2> QED
      BY <2>1 DEF Goes, Follows, Job, Stages
  <1>4. /\ StagesOK(j) /\ k.at = j.at /\ k.msg = j.msg /\ Hop(k)' = Hop(j)
        /\ <<j.msg, Hop(j)>> \in done /\ AtHop(j) /\ j.msg \in Msg /\ j.slip \in Seq(Dest)
        /\ Tail(j.slip) \in Seq(Dest) /\ Hop(j) \in Nat
    <2>1. /\ StagesOK(j) /\ AtHop(j) /\ SuccessOK(j) /\ j.msg \in Msg
          /\ j.slip \in Seq(Dest) /\ Hop(j) \in Nat
      BY JobKnown
    <2>2. k.at = j.at /\ k.msg = j.msg /\ k.slip = j.slip
      BY <1>3 DEF Follows
    <2>3. Hop(k)' = Hop(j)
      BY <1>1, <2>2 DEF Hop
    <2>4. <<j.msg, Hop(j)>> \in done
      BY <1>1, <2>1 DEF SuccessOK
    <2>5. Tail(j.slip) \in Seq(Dest)
      BY <1>1, <2>1
    <2> QED
      BY <2>1, <2>2, <2>3, <2>4, <2>5
  <1>5. /\ d.msg = j.msg /\ d.at = Head(j.slip) /\ d.slip = Tail(j.slip)
    BY DEF NewCopy
  <1> HIDE DEF k, d
  <1>6. StagesOK(k)
    BY <1>1, <1>3, <1>4 DEF StagesOK, Early
  <1>7. AtHop(d) /\ Hop(d) = Hop(j) + 1 /\ route[j.msg][Hop(j) + 1] = Head(j.slip)
    BY <1>1, <1>4, <1>5, NextHop DEF IInv
  <1>8. AtHop(d)' /\ Hop(d)' = Hop(j) + 1
    BY <1>1, <1>2, <1>7, AtHopStays
  <1>9. CASE Head(j.slip) \in Host /\ Takes(s) /\ copy' = [copy EXCEPT ![s] = d]
    <2>1. d \in Copy /\ d # Free
      <3>1. 0 \in 0..Attempts - 1
        BY Constants
      <3>2. Head(j.slip) \in Host /\ Tail(j.slip) \in Seq(Dest) /\ j.msg \in Msg
        BY <1>4, <1>9
      <3>3. d \in Copy
        BY <3>1, <3>2 DEF d, NewCopy, Copy
      <3>4. "msg" \in DOMAIN d /\ "msg" \notin DOMAIN Free
        BY DEF d, NewCopy, Free
      <3> QED
        BY <3>3, <3>4
    <2>2. Fills /\ copy'[s] = d
      BY <1>8, <1>9, <2>1 DEF Fills, IInv, TypeOK, Takes, AtHop, Hop
    <2>3. Beyond(j.msg, Hop(j), s)'
      <3>1. Hop(copy[s])' = Hop(j) + 1
        BY <1>8, <2>2 DEF Hop
      <3>2. Hop(j)' = Hop(j)
        BY <1>1 DEF Hop
      <3>3. Hop(copy[s])' > Hop(j)'
        BY <3>1, <3>2, <1>4
      <3> QED
        BY <1>5, <2>1, <2>2, <3>3 DEF Beyond
    <2>4. SuccessOK(k)'
      <3>1. Hop(j)' = Hop(j)
        BY <1>1 DEF Hop
      <3> QED
        BY <1>3, <1>4, <2>3, <3>1 DEF SuccessOK, Passed, Beyond
    <2> QED
      BY <1>1, <1>2, <1>3, <1>6, <2>2, <2>4, MoveKeeps DEF Moves
  <1>10. CASE Head(j.slip) \in Absent /\ UNCHANGED copy
    <2>1. Fills
      BY <1>10 DEF Fills, IInv, TypeOK
    <2>2. Accounted(j.msg)'
      <3>1. /\ Hop(j) \in 1..Len(route[j.msg]) /\ Len(route[j.msg]) = Hop(j) + Len(j.slip)
            /\ Len(j.slip) \in Nat
        BY <1>4, HopInRoute DEF IInv
      <3>2. Hop(j) \in 1..Len(route[j.msg]) - 1
        BY <1>1, <1>4, <3>1
      <3>3. Accounted(j.msg)
        BY <1>4, <1>7, <1>10, <3>2, Constants DEF Accounted, Unroutable
      <3> QED
        BY <1>1, <1>2, <1>4, <3>3, AccountedGrows
    <2>3. SuccessOK(k)'
      BY <1>3, <1>4, <2>2 DEF SuccessOK, Passed
    <2> QED
      BY <1>1, <1>2, <1>3, <1>6, <2>1, <2>3, MoveKeeps DEF Moves
  <1> QED
    BY <1>9, <1>10 DEF Forward, d

-----------------------------------------------------------------------------
(* An instance whose held bit changes is the same at the same hop.         *)
SameBut(s, b) == copy' = [copy EXCEPT ![s].held = b]

LEMMA HeldOnly ==
    ASSUME IInv, NEW s \in Slot, NEW b \in BOOLEAN, copy[s] # Free, SameBut(s, b),
           UNCHANGED route, Grows
    PROVE  /\ copy' \in [Slot -> Copy \cup {Free}]
           /\ CopiesAtHop'
           /\ \A t \in Slot : copy[t] # Free =>
                  copy'[t] # Free /\ copy'[t].msg = copy[t].msg /\ copy'[t].slip = copy[t].slip
           /\ \A t \in Slot : t # s => copy'[t] = copy[t]
           /\ copy'[s].held = b
           /\ \A m \in Msg : \A p : Passed(m, p) => Passed(m, p)'
  <1>1. /\ copy \in [Slot -> Copy \cup {Free}] /\ copy[s] \in Copy
        /\ copy' = [copy EXCEPT ![s] = [copy[s] EXCEPT !.held = b]]
    BY CopiesTyped DEF IInv, TypeOK, SameBut
  <1> DEFINE d == [copy[s] EXCEPT !.held = b]
  <1>2. /\ d \in Copy /\ d.msg = copy[s].msg /\ d.at = copy[s].at /\ d.slip = copy[s].slip
        /\ d.held = b
    BY <1>1 DEF Copy
  <1>3. d # Free
    <2>1. "msg" \in DOMAIN d /\ "msg" \notin DOMAIN Free
      BY <1>1 DEF Copy, Free
    <2> QED
      BY <2>1
  <1>4. copy' = [copy EXCEPT ![s] = d]
    BY <1>1
  <1> HIDE DEF d
  <1>5. /\ copy' \in [Slot -> Copy \cup {Free}] /\ copy'[s] = d
        /\ \A t \in Slot : t # s => copy'[t] = copy[t]
    BY <1>1, <1>2, <1>4
  <1>6. \A t \in Slot : copy[t] # Free =>
            /\ copy'[t] # Free /\ copy'[t].msg = copy[t].msg
            /\ copy'[t].slip = copy[t].slip /\ copy'[t].at = copy[t].at
    BY <1>2, <1>3, <1>5
  <1>7. CopiesAtHop'
    <2> SUFFICES ASSUME NEW t \in Slot, copy'[t] # Free PROVE AtHop(copy[t])'
      BY DEF CopiesAtHop
    <2>1. copy[t] # Free /\ AtHop(copy[t])
      BY <1>5 DEF IInv, CopiesAtHop
    <2> QED
      BY <1>6, <2>1 DEF AtHop, Hop, Grows
  <1>8. ASSUME NEW m \in Msg, NEW p, Passed(m, p) PROVE Passed(m, p)'
    BY <1>6, <1>8, PassedKept
  <1> QED
    BY <1>2, <1>5, <1>6, <1>7, <1>8

(* The invariant put together when the broker and the set of jobs change.  *)
LEMMA PutTogether ==
    ASSUME IInv, Grows, HistoryOK', UNCHANGED <<route, kind>>,
           copy' \in [Slot -> Copy \cup {Free}], jobs' \subseteq Job,
           CopiesAtHop', LiveJobsOwn', LiveJobsDistinct',
           \A m \in Msg : \A p \in Nat : Passed(m, p) => Passed(m, p)',
           \A i \in jobs' \ jobs : AtHop(i) /\ StagesOK(i) /\ SuccessOK(i)'
    PROVE  IInv'
  <1>1. TypeOK'
    BY DEF IInv, TypeOK, HistoryOK
  <1>2. JobsAtHop'
    BY AtHopStays DEF IInv, JobsAtHop
  <1>3. JobsOK'
    <2> SUFFICES ASSUME NEW i \in jobs' PROVE StagesOK(i)' /\ SuccessOK(i)'
      BY DEF JobsOK
    <2>1. CASE i \in jobs
      <3>1. StagesOK(i) /\ SuccessOK(i) /\ i.msg \in Msg /\ Hop(i) \in Nat
        BY <2>1, JobKnown
      <3>2. Hop(i)' = Hop(i)
        BY DEF Hop
      <3>3. Passed(i.msg, Hop(i)) => Passed(i.msg, Hop(i))'
        BY <3>1, <3>2 DEF Passed, Beyond
      <3> QED
        BY <3>1, <3>2, <3>3 DEF StagesOK, SuccessOK, Grows
    <2>2. CASE i \notin jobs
      BY <2>2 DEF StagesOK
    <2> QED
      BY <2>1, <2>2
  <1>4. OthersAreShort' /\ KeptAll'
    BY DEF IInv, OthersAreShort, KeptAll
  <1> QED
    BY <1>1, <1>2, <1>3, <1>4 DEF IInv

(* A delivery: nobody else held the instance.                              *)
LEMMA DeliverKeeps ==
    ASSUME IInv, NEW w \in Worker, NEW s \in Slot, Deliver(w, s)
    PROVE  IInv'
  <1> DEFINE known == copy[s].at \in Registered
  <1>0. PICK n : n =
          [slot |-> s, by |-> w, live |-> TRUE, msg |-> copy[s].msg, at |-> copy[s].at,
           slip |-> copy[s].slip, tries |-> copy[s].tries,
           stage |-> IF known THEN "before" ELSE "settle",
           result |-> IF known THEN "none" ELSE "unhandled",
           ran |-> 0, onSuccess |-> FALSE, sentOn |-> FALSE, afters |-> 0]
    OBVIOUS
  <1>1. /\ copy[s] # Free /\ ~copy[s].held /\ SameBut(s, TRUE) /\ jobs' = jobs \cup {n}
        /\ UNCHANGED <<dead, callers, progress, mishaps>> /\ UNCHANGED <<route, kind>>
    BY <1>0 DEF Deliver, SameBut, callers
  <1>2. Grows /\ HistoryOK'
    BY <1>1 DEF Grows, HistoryOK, progress, mishaps, IInv, TypeOK
  <1>3. /\ copy[s].msg \in Msg /\ copy[s].at \in Host /\ copy[s].slip \in Seq(Dest)
        /\ copy[s].tries \in 0..Attempts - 1
    BY <1>1, CopiesTyped DEF IInv
  <1>4. n \in Job
    BY <1>0, <1>3 DEF Job, Stages, Results
  <1>5. /\ n.slot = s /\ n.live /\ n.msg = copy[s].msg /\ n.at = copy[s].at
        /\ n.slip = copy[s].slip /\ n.ran = 0 /\ ~n.onSuccess /\ ~n.sentOn /\ n.afters = 0
        /\ n.stage = (IF known THEN "before" ELSE "settle")
        /\ n.result = (IF known THEN "none" ELSE "unhandled")
    BY <1>0
  <1>6. AtHop(n)
    <2>1. AtHop(copy[s])
      BY <1>1 DEF IInv, CopiesAtHop
    <2> QED
      BY <1>5, <2>1 DEF AtHop, Hop
  <1>7. StagesOK(n)
    BY <1>5 DEF StagesOK, Early
  <1>8. SuccessOK(n)'
    <2>1. CASE known
      BY <1>5, <2>1 DEF SuccessOK, Success
    <2>2. CASE ~known
      <3>1. Hop(n) \in 1..Len(route[n.msg]) /\ Hop(n) \in DOMAIN route[n.msg]
        BY <1>3, <1>5, <1>6, HopInRoute DEF IInv
      <3>2. route[n.msg][Hop(n)] \in Host \ Registered
        BY <1>3, <1>5, <1>6, <2>2 DEF AtHop
      <3>3. <<n.msg, Hop(n) - 1>> \in done \cup {<<n.msg, 0>>}
        <4>1. Hop(n) - 1 = 0 \/ Hop(n) - 1 \in 1..Hop(n) - 1
          BY <3>1
        <4> QED
          BY <1>6, <4>1 DEF AtHop
      <3>4. Accounted(n.msg)
        BY <3>1, <3>2, <3>3 DEF Accounted, TypeUnknown
      <3>5. Accounted(n.msg)'
        <4>1. n.msg \in Msg /\ route'[n.msg] = route[n.msg]
          BY <1>1, <1>3, <1>5
        <4> QED
          BY <1>2, <3>4, <4>1, AccountedGrows
      <3> QED
        BY <1>5, <2>2, <3>5 DEF SuccessOK, Passed
    <2> QED
      BY <2>1, <2>2
  <1>9. /\ copy' \in [Slot -> Copy \cup {Free}] /\ CopiesAtHop'
        /\ \A t \in Slot : copy[t] # Free =>
              copy'[t] # Free /\ copy'[t].msg = copy[t].msg /\ copy'[t].slip = copy[t].slip
        /\ \A t \in Slot : t # s => copy'[t] = copy[t]
        /\ copy'[s].held = TRUE
        /\ \A m \in Msg : \A p : Passed(m, p) => Passed(m, p)'
    BY <1>1, <1>2, HeldOnly
  <1>10. \A i \in jobs : i.live => i.slot # s /\ i.slot \in Slot
    BY <1>1, JobsTyped DEF IInv, LiveJobsOwn, Owns, TypeOK
  <1>11. LiveJobsOwn'
    <2> SUFFICES ASSUME NEW i \in jobs', i.live PROVE Owns(i)'
      BY DEF LiveJobsOwn, Owns
    <2>1. CASE i = n
      BY <1>1, <1>5, <1>9, <2>1 DEF Owns
    <2>2. CASE i \in jobs
      BY <1>9, <1>10, <2>2 DEF Owns, IInv, LiveJobsOwn
    <2> QED
      BY <1>1, <2>1, <2>2
  <1>12. LiveJobsDistinct'
    BY <1>1, <1>5, <1>10 DEF IInv, LiveJobsDistinct
  <1>13. jobs' \subseteq Job /\ \A i \in jobs' \ jobs : i = n
    BY <1>1, <1>4 DEF IInv, TypeOK
  <1> QED
    BY <1>1, <1>2, <1>6, <1>7, <1>8, <1>9, <1>11, <1>12, <1>13, PutTogether

(* A lost channel: the instance is the broker's again.                     *)
LEMMA ChannelLostKeeps ==
    ASSUME IInv, NEW j \in jobs, ChannelLost(j)
    PROVE  IInv'
  <1> DEFINE k == [j EXCEPT !.live = FALSE]
  <1>1. /\ j.live /\ jobs' = (jobs \ {j}) \cup {k} /\ SameBut(j.slot, FALSE)
        /\ UNCHANGED <<dead, callers, progress, filtered, forwardLost>>
        /\ UNCHANGED <<route, kind>> /\ faults' = faults + 1 /\ Disturb(j)
    BY DEF ChannelLost, Becomes, Requeue, SameBut, callers, Fault
  <1>2. /\ j \in Job /\ j.slot \in Slot /\ j.msg \in Msg /\ StagesOK(j) /\ SuccessOK(j)
        /\ AtHop(j) /\ HistoryOK /\ copy[j.slot] # Free
    BY <1>1, JobKnown, JobsTyped DEF IInv, LiveJobsOwn, Owns
  <1>3. Grows /\ HistoryOK'
    BY <1>1, <1>2 DEF Grows, HistoryOK, progress, Disturb
  <1>4. /\ k \in Job /\ ~k.live /\ k.msg = j.msg /\ k.at = j.at /\ k.slip = j.slip
        /\ k.stage = j.stage /\ k.result = j.result /\ k.ran = j.ran /\ k.sentOn = j.sentOn
        /\ k.onSuccess = j.onSuccess /\ k.afters = j.afters
    BY <1>2 DEF Job
  <1> HIDE DEF k
  <1>5. AtHop(k) /\ StagesOK(k) /\ Hop(k) = Hop(j) /\ Hop(k)' = Hop(j)
    BY <1>1, <1>2, <1>4 DEF AtHop, Hop, StagesOK
  <1>6. /\ copy' \in [Slot -> Copy \cup {Free}] /\ CopiesAtHop'
        /\ \A t \in Slot : t # j.slot => copy'[t] = copy[t]
        /\ \A m \in Msg : \A p : Passed(m, p) => Passed(m, p)'
    BY <1>1, <1>2, <1>3, HeldOnly
  <1>7. SuccessOK(k)'
    <2>1. Hop(j)' = Hop(j)
      BY <1>1 DEF Hop
    <2>2. Passed(j.msg, Hop(j)) => Passed(j.msg, Hop(j))'
      BY <1>2, <1>6, <2>1 DEF Passed, Beyond
    <2> QED
      BY <1>2, <1>3, <1>4, <1>5, <2>1, <2>2 DEF SuccessOK, Passed, Beyond, Grows
  <1>8. \A i \in jobs : i.live /\ i # j => i.slot # j.slot /\ i.slot \in Slot
    BY <1>1, JobsTyped DEF IInv, LiveJobsDistinct, TypeOK
  <1>9. LiveJobsOwn'
    BY <1>1, <1>4, <1>6, <1>8 DEF IInv, LiveJobsOwn, Owns
  <1>10. LiveJobsDistinct'
    BY <1>1, <1>4 DEF IInv, LiveJobsDistinct
  <1>11. jobs' \subseteq Job /\ \A i \in jobs' \ jobs : i = k
    BY <1>1, <1>4 DEF IInv, TypeOK
  <1> QED
    BY <1>1, <1>3, <1>5, <1>6, <1>7, <1>9, <1>10, <1>11, PutTogether

LEMMA CrashKeeps ==
    ASSUME IInv, NEW j \in jobs, Crash(j)
    PROVE  IInv'
  <1>1. /\ jobs' = jobs \ {j} /\ UNCHANGED <<route, kind>>
        /\ copy' = (IF j.live THEN Requeue(j) ELSE copy)
        /\ UNCHANGED <<dead, callers, progress, filtered, forwardLost>>
        /\ faults' = faults + 1 /\ Disturb(j)
    BY DEF Crash, callers, Fault
  <1>2. j \in Job /\ j.slot \in Slot /\ j.msg \in Msg /\ HistoryOK
    BY JobKnown, JobsTyped
  <1>3. Grows /\ HistoryOK'
    BY <1>1, <1>2 DEF Grows, HistoryOK, progress, Disturb
  <1>4. /\ copy' \in [Slot -> Copy \cup {Free}] /\ CopiesAtHop'
        /\ \A t \in Slot : ~(j.live /\ t = j.slot) => copy'[t] = copy[t]
        /\ \A m \in Msg : \A p : Passed(m, p) => Passed(m, p)'
    <2>1. CASE j.live
      <3>1. copy[j.slot] # Free /\ SameBut(j.slot, FALSE)
        BY <1>1, <2>1 DEF IInv, LiveJobsOwn, Owns, Requeue, SameBut
      <3> QED
        BY <1>1, <1>2, <1>3, <2>1, <3>1, HeldOnly
    <2>2. CASE ~j.live
      <3>1. copy' = copy
        BY <1>1, <2>2
      <3>2. CopiesAtHop'
        <4> SUFFICES ASSUME NEW t \in Slot, copy[t] # Free PROVE AtHop(copy[t])'
          BY <3>1 DEF CopiesAtHop
        <4>1. AtHop(copy[t])
          BY DEF IInv, CopiesAtHop
        <4> QED
          BY <1>1, <1>3, <3>1, <4>1 DEF AtHop, Hop, Grows
      <3>3. \A m \in Msg : \A p : Passed(m, p) => Passed(m, p)'
        BY <1>1, <1>3, <3>1, PassedKept
      <3> QED
        BY <3>1, <3>2, <3>3 DEF IInv, TypeOK
    <2> QED
      BY <2>1, <2>2
  <1>5. \A i \in jobs : i.live /\ i # j => (~(j.live /\ i.slot = j.slot)) /\ i.slot \in Slot
    BY JobsTyped DEF IInv, LiveJobsDistinct, TypeOK
  <1>6. LiveJobsOwn' /\ LiveJobsDistinct' /\ jobs' \subseteq Job /\ jobs' \ jobs = {}
    BY <1>1, <1>4, <1>5 DEF IInv, LiveJobsOwn, Owns, LiveJobsDistinct, TypeOK
  <1> QED
    BY <1>1, <1>3, <1>4, <1>6, PutTogether

(* The disposition.  An instance goes only when its message is accounted   *)
(* for, or has passed the hop of the call that reports.                    *)
LEMMA SettleKeeps ==
    ASSUME IInv, NEW j \in jobs, NEW s \in Slot, Settle(j, s)
    PROVE  IInv'
  <1> DEFINE again == j.result \in {"failed", "thrown"} /\ ~DeadLettered(j)
  <1>0. PICK d : d = IF again THEN Retried(j) ELSE Free
    OBVIOUS
  <1>1. /\ j.stage = "settle" /\ jobs' = jobs \ {j} /\ UNCHANGED <<route, kind>>
        /\ UNCHANGED <<progress, mishaps>>
        /\ IF j.live THEN s = j.slot ELSE copy[s] = Free
        /\ copy' = [copy EXCEPT ![s] = d]
        /\ dead' = IF DeadLettered(j) THEN dead \cup {<<j.msg, Hop(j)>>} ELSE dead
    BY <1>0 DEF Settle, callers, Takes
  <1>2. /\ j \in Job /\ j.msg \in Msg /\ j.at \in Host /\ j.slip \in Seq(Dest)
        /\ StagesOK(j) /\ SuccessOK(j) /\ AtHop(j) /\ HistoryOK
        /\ <<j.msg, Hop(j)>> \in Msg \X Nat
    BY JobKnown
  <1>3. Grows /\ HistoryOK'
    BY <1>1, <1>2 DEF Grows, HistoryOK, progress, mishaps
  <1>4. ASSUME again PROVE d \in Copy /\ d # Free /\ d.msg = j.msg /\ d.slip = j.slip /\ AtHop(d)
    <2>1. d = NewCopy(j.msg, j.at, j.slip, j.tries + 1)
      BY <1>0, <1>4 DEF Retried
    <2>2. j.tries + 1 \in 0..Attempts - 1
      <3>1. j.tries \in Nat /\ Attempts \in Nat
        BY <1>2, JobsTyped, Constants
      <3>2. ~(j.tries + 1 >= Attempts)
        BY <1>4 DEF DeadLettered
      <3> QED
        BY <3>1, <3>2
    <2>3. d \in Copy /\ d # Free /\ d.msg = j.msg /\ d.slip = j.slip /\ d.at = j.at
      BY <1>2, <2>1, <2>2 DEF NewCopy, Copy, Free
    <2> QED
      BY <1>2, <2>3 DEF AtHop, Hop
  <1>5. /\ copy' \in [Slot -> Copy \cup {Free}] /\ copy'[s] = d
        /\ \A t \in Slot : t # s => copy'[t] = copy[t]
    BY <1>0, <1>1, <1>4 DEF IInv, TypeOK
  <1>6. CopiesAtHop'
    <2> SUFFICES ASSUME NEW t \in Slot, copy'[t] # Free PROVE AtHop(copy[t])'
      BY DEF CopiesAtHop
    <2>1. CASE t = s
      <3>1. AtHop(d) /\ copy'[t] = d
        BY <1>0, <1>4, <1>5, <2>1
      <3> QED
        BY <1>1, <1>3, <3>1 DEF AtHop, Hop, Grows
    <2>2. CASE t # s
      <3>1. AtHop(copy[t]) /\ copy'[t] = copy[t]
        BY <1>5, <2>2 DEF IInv, CopiesAtHop
      <3> QED
        BY <1>1, <1>3, <3>1 DEF AtHop, Hop, Grows
    <2> QED
      BY <2>1, <2>2
  <1>7. ASSUME NEW m \in Msg, NEW p \in Nat, NEW t \in Slot, Beyond(m, p, t), t # s
        PROVE  Passed(m, p)'
    BY <1>1, <1>5, <1>7 DEF Beyond, Passed, Hop
  <1>8. ASSUME NEW m \in Msg, NEW p \in Nat, Accounted(m) PROVE Passed(m, p)'
    <2>1. Accounted(m)'
      BY <1>1, <1>3, <1>8, AccountedGrows
    <2> QED
      BY <2>1 DEF Passed
  <1>9. ASSUME NEW m \in Msg, NEW p \in Nat, Beyond(m, p, s) PROVE Passed(m, p)'
    <2>1. j.live /\ s = j.slot
      BY <1>1, <1>9 DEF Beyond
    <2>2. m = j.msg /\ Hop(copy[s]) = Hop(j) /\ Hop(j) > p
      BY <1>9, <2>1 DEF Beyond, IInv, LiveJobsOwn, Owns, Hop
    <2>3. CASE again
      <3>1. d # Free /\ d.msg = m /\ Hop(d)' = Hop(j)
        BY <1>1, <1>4, <2>2, <2>3 DEF Hop
      <3>2. Hop(copy[s])' = Hop(j)
        BY <1>5, <3>1 DEF Hop
      <3>3. Beyond(m, p, s)'
        BY <1>5, <2>2, <3>1, <3>2 DEF Beyond
      <3> QED
        BY <3>3 DEF Passed
    <2>4. CASE DeadLettered(j)
      <3>1. <<m, Hop(j)>> \in dead' /\ Hop(j) \in DOMAIN route'[m]
        BY <1>1, <2>2, <2>4, JobKnown
      <3>2. Accounted(m)'
        BY <3>1 DEF Accounted
      <3> QED
        BY <3>2 DEF Passed
    <2>5. CASE j.result \in Success
      <3>1. Passed(m, Hop(j))
        BY <1>1, <1>2, <2>2, <2>5 DEF SuccessOK
      <3>2. ASSUME NEW t \in Slot, Beyond(m, Hop(j), t) PROVE Passed(m, p)'
        <4>1. t # s
          <5>1. Hop(j) \in Nat
            BY JobKnown
          <5> QED
            BY <2>2, <3>2, <5>1 DEF Beyond
        <4>2. copy[t] # Free /\ copy[t].msg = m /\ Hop(copy[t]) > Hop(j) /\ Hop(j) > p
          BY <2>2, <3>2 DEF Beyond
        <4>3. Hop(copy[t]) \in Nat /\ Hop(j) \in Nat
          <5>1. PICK c : c = copy[t]
            OBVIOUS
          <5>2. c.msg \in Msg /\ c.slip \in Seq(Dest) /\ AtHop(c) /\ TypeOK
            BY <4>2, <5>1, CopiesTyped DEF IInv, CopiesAtHop
          <5>3. Hop(c) \in 1..Len(route[c.msg])
            BY <5>2, HopInRoute
          <5>4. Hop(c) \in Nat
            BY <5>3
          <5>5. Hop(j) \in Nat
            BY JobKnown
          <5> QED
            BY <5>1, <5>4, <5>5
        <4>4. Hop(copy[t]) > p
          BY <4>2, <4>3
        <4> QED
          BY <1>7, <4>1, <4>2, <4>4 DEF Beyond
      <3> QED
        BY <1>8, <3>1, <3>2 DEF Passed
    <2>6. j.result \in Success \/ DeadLettered(j) \/ again
      <3>1. j.result # "none" /\ j.result \in Results
        BY <1>1, <1>2, JobsTyped DEF StagesOK
      <3> QED
        BY <3>1 DEF Results, Success, DeadLettered
    <2> QED
      BY <2>3, <2>4, <2>5, <2>6
  <1>10. \A m \in Msg : \A p \in Nat : Passed(m, p) => Passed(m, p)'
    BY <1>7, <1>8, <1>9 DEF Passed
  <1>11. \A i \in jobs : i.live /\ i # j => i.slot # s /\ i.slot \in Slot
    BY <1>1, JobsTyped DEF IInv, LiveJobsDistinct, LiveJobsOwn, Owns, TypeOK
  <1>12. LiveJobsOwn' /\ LiveJobsDistinct' /\ jobs' \subseteq Job /\ jobs' \ jobs = {}
    BY <1>1, <1>5, <1>11 DEF IInv, LiveJobsOwn, Owns, LiveJobsDistinct, TypeOK
  <1> QED
    BY <1>1, <1>3, <1>5, <1>6, <1>10, <1>12, PutTogether

(* A message that is sent is at the first hop of its route.                *)
LEMMA SendsKeeps ==
    ASSUME IInv, NEW m \in Msg, NEW r \in Seq(Dest), NEW s \in Slot, Sends(m, r, s),
           \A x \in Msg : kind'[x] \in {"plain", "chunk", "reply"},
           kind' \in [Msg -> {"plain", "chunk", "reply"}],
           \A x \in Msg : x # m => kind'[x] = kind[x],
           kind'[m] = kind[m] \/ Len(r) = 1
    PROVE  IInv'
  <1> DEFINE d == NewCopy(m, Head(r), Tail(r), 0)
  <1>1. /\ route[m] = <<>> /\ copy[s] = Free /\ r # <<>> /\ Head(r) \in Host
        /\ copy' = [copy EXCEPT ![s] = d] /\ route' = [route EXCEPT ![m] = r]
        /\ UNCHANGED <<jobs, dead, progress, mishaps>>
    BY DEF Sends, Takes
  <1>2. Grows /\ HistoryOK'
    BY <1>1 DEF Grows, HistoryOK, progress, mishaps, IInv, TypeOK
  <1>3. /\ Len(r) \in Nat /\ Len(r) >= 1 /\ Head(r) = r[1] /\ Tail(r) \in Seq(Dest)
        /\ Len(Tail(r)) = Len(r) - 1 /\ \A i \in 1..Len(r) - 1 : Tail(r)[i] = r[i + 1]
    BY <1>1
  <1>4. d \in Copy /\ d # Free /\ d.msg = m /\ d.at = Head(r) /\ d.slip = Tail(r)
    <2>1. 0 \in 0..Attempts - 1
      BY Constants
    <2> QED
      BY <1>1, <1>3, <2>1 DEF NewCopy, Copy, Free
  <1> HIDE DEF d
  <1>5. /\ copy' \in [Slot -> Copy \cup {Free}] /\ copy'[s] = d
        /\ \A t \in Slot : t # s => copy'[t] = copy[t]
        /\ route' \in [Msg -> Seq(Dest)] /\ route'[m] = r
        /\ \A x \in Msg : x # m => route'[x] = route[x]
    BY <1>1, <1>4 DEF IInv, TypeOK
  <1>6. AtHop(d)' /\ Hop(d)' = 1
    <2>1. Hop(d)' = 1
      <3>1. Hop(d)' = Len(r) - (Len(r) - 1)
        BY <1>3, <1>4, <1>5 DEF Hop, d
      <3> QED
        BY <1>3, <3>1
    <2>2. Len(d.slip) < Len(route'[m]) /\ d.at = route'[m][1]
      BY <1>3, <1>4, <1>5
    <2>3. \A i \in 1..Len(d.slip) : d.slip[i] = route'[m][1 + i]
      BY <1>3, <1>4, <1>5
    <2>4. d' = d
      BY DEF d
    <2>5. \A n \in 1..Hop(d)' - 1 : FALSE
      BY <2>1
    <2> HIDE DEF Hop
    <2> QED
      BY <1>4, <2>1, <2>2, <2>3, <2>4, <2>5 DEF AtHop
  <1>7. ASSUME NEW c, c.msg \in Msg, c.slip \in Seq(Dest), AtHop(c)
        PROVE  c.msg # m /\ AtHop(c)' /\ Hop(c)' = Hop(c)
    <2>1. c.msg # m
      BY <1>1, <1>7, HopInRoute DEF IInv
    <2> QED
      BY <1>2, <1>5, <1>7, <2>1, AtHopStays
  <1>8. TypeOK'
    BY <1>1, <1>2, <1>5 DEF IInv, TypeOK, HistoryOK
  <1>9. CopiesAtHop'
    <2> SUFFICES ASSUME NEW t \in Slot, copy'[t] # Free PROVE AtHop(copy[t])'
      BY DEF CopiesAtHop
    <2>1. CASE t = s
      <3>1. copy'[t] = d /\ d' = d
        BY <1>5, <2>1 DEF d
      <3> QED
        BY <1>6, <3>1 DEF AtHop, Hop
    <2>2. CASE t # s
      <3>1. copy'[t] = copy[t] /\ copy[t] # Free
        BY <1>5, <2>2
      <3>2. PICK c : c = copy[t]
        OBVIOUS
      <3>3. c.msg \in Msg /\ c.slip \in Seq(Dest) /\ AtHop(c)
        BY <3>1, <3>2, CopiesTyped DEF IInv, CopiesAtHop
      <3>4. AtHop(c)' /\ copy'[t] = c
        BY <1>7, <3>1, <3>2, <3>3
      <3> QED
        BY <3>4 DEF AtHop, Hop
    <2> QED
      BY <2>1, <2>2
  <1>10. \A i \in jobs : i.msg \in Msg /\ i.msg # m /\ AtHop(i)' /\ Hop(i)' = Hop(i)
    BY <1>7, JobKnown
  <1>11. ASSUME NEW x \in Msg, x # m, NEW p, Passed(x, p) PROVE Passed(x, p)'
    <2>1. \A t \in Slot : copy[t] # Free => copy'[t] = copy[t]
      BY <1>1, <1>5
    <2> QED
      BY <1>2, <1>5, <1>11, <2>1, PassedKept
  <1>12. JobsAtHop' /\ JobsOK'
    <2>1. ASSUME NEW i \in jobs PROVE StagesOK(i)' /\ SuccessOK(i)'
      <3>1. StagesOK(i) /\ SuccessOK(i) /\ i.msg \in Msg /\ i.msg # m /\ Hop(i)' = Hop(i)
        BY <1>10, JobKnown
      <3>2. \A p : Passed(i.msg, p) => Passed(i.msg, p)'
        BY <1>11, <3>1
      <3>3. Passed(i.msg, Hop(i)) => Passed(i.msg, Hop(i))'
        BY <3>1, <3>2 DEF Passed, Beyond
      <3> QED
        BY <1>2, <3>1, <3>3 DEF StagesOK, SuccessOK, Grows
    <2> QED
      BY <1>1, <1>10, <2>1 DEF JobsAtHop, JobsOK
  <1>13. OthersAreShort'
    <2> SUFFICES ASSUME NEW x \in Msg, kind'[x] # "plain" PROVE Len(route'[x]) = 1
      BY DEF OthersAreShort
    <2>1. CASE x = m
      <3>1. kind[m] = "plain"
        <4>1. Len(route[m]) = 0
          BY <1>1
        <4> QED
          BY <4>1 DEF IInv, OthersAreShort
      <3> QED
        BY <1>5, <2>1, <3>1
    <2>2. CASE x # m
      BY <1>5, <2>2 DEF IInv, OthersAreShort
    <2> QED
      BY <2>1, <2>2
  <1>14. LiveJobsOwn' /\ LiveJobsDistinct'
    BY <1>1, <1>5, JobsTyped DEF IInv, LiveJobsOwn, Owns, LiveJobsDistinct, TypeOK
  <1>15. KeptAll'
    <2>1. Passed(m, 0)'
      <3>1. copy'[s] = d /\ d # Free /\ d.msg = m
        BY <1>4, <1>5
      <3>2. Hop(copy[s])' = 1
        BY <1>6, <3>1 DEF Hop, d
      <3>3. Beyond(m, 0, s)'
        BY <3>1, <3>2 DEF Beyond
      <3> QED
        BY <3>3 DEF Passed
    <2> QED
      BY <1>5, <1>11, <2>1 DEF IInv, KeptAll
  <1> QED
    BY <1>8, <1>9, <1>12, <1>13, <1>14, <1>15 DEF IInv
-----------------------------------------------------------------------------
LEMMA RouteKeeps ==
    ASSUME IInv, NEW m \in Msg, NEW r \in Itineraries, NEW s \in Slot,
           Route(m, r, s) \/ SendWithSlip(m, r, s)
    PROVE  IInv'
  <1>1. Sends(m, r, s) /\ kind' = kind /\ r \in Seq(Dest)
    BY Constants DEF Route, SendWithSlip
  <1> QED
    BY <1>1, SendsKeeps DEF IInv, TypeOK

LEMMA SendOtherKeeps ==
    ASSUME IInv, NEW m \in Msg, NEW k \in {"chunk", "reply"}, NEW h \in Host, NEW s \in Slot,
           SendOther(m, k, h, s)
    PROVE  IInv'
  <1>1. Sends(m, <<h>>, s) /\ kind' = [kind EXCEPT ![m] = k]
    BY DEF SendOther
  <1>2. <<h>> \in Seq(Dest) /\ Len(<<h>>) = 1
    BY Constants
  <1>3. /\ kind' \in [Msg -> {"plain", "chunk", "reply"}]
        /\ \A x \in Msg : x # m => kind'[x] = kind[x]
    BY <1>1 DEF IInv, TypeOK
  <1> QED
    BY <1>1, <1>2, <1>3, SendsKeeps

LEMMA InitIInv == Init => IInv
  <1> SUFFICES ASSUME Init PROVE IInv
    OBVIOUS
  <1>1. TypeOK
    BY DEF Init, TypeOK
  <1>2. CopiesAtHop /\ JobsAtHop /\ JobsOK
    BY DEF Init, CopiesAtHop, JobsAtHop, JobsOK
  <1>3. OthersAreShort /\ LiveJobsOwn /\ LiveJobsDistinct /\ KeptAll
    BY DEF Init, OthersAreShort, LiveJobsOwn, LiveJobsDistinct, KeptAll
  <1> QED
    BY <1>1, <1>2, <1>3 DEF IInv

(* One case per action.                                                    *)
LEMMA StepIInv == IInv /\ [Next]_vars => IInv'
  <1> SUFFICES ASSUME IInv, [Next]_vars PROVE IInv'
    OBVIOUS
  <1>1. ASSUME NEW m \in Msg, NEW s \in Slot, NEW r \in Itineraries,
               Route(m, r, s) \/ SendWithSlip(m, r, s)
        PROVE  IInv'
    BY <1>1, RouteKeeps
  <1>2. ASSUME NEW m \in Msg, NEW s \in Slot, NEW k \in {"chunk", "reply"}, NEW h \in Host,
               SendOther(m, k, h, s)
        PROVE  IInv'
    BY <1>2, SendOtherKeeps
  <1>3. ASSUME NEW w \in Worker, NEW s \in Slot, Deliver(w, s) PROVE IInv'
    BY <1>3, DeliverKeeps
  <1>4. ASSUME NEW j \in jobs, JobStep(j) PROVE IInv'
    <2>1. ASSUME NEW s \in Slot, Forward(j, s) \/ Settle(j, s) PROVE IInv'
      BY <2>1, ForwardKeeps, SettleKeeps
    <2>2. CASE BeforeConsuming(j) \/ Throws(j) \/ StreamBranch(j) \/ Deserialize(j)
               \/ ReplyBranch(j)
      BY <2>2, BeforeKeeps, ThrowsKeeps, StreamKeeps, DeserializeKeeps, ReplyKeeps
    <2>3. CASE SagaBranch(j) \/ AggregatorBranch(j) \/ ResolveHandlers(j)
      BY <2>3, SagaKeeps, AggregatorKeeps, ResolveKeeps
    <2>4. CASE HandlerReturns(j) \/ HandlerThrows(j) \/ OnConsumedSuccessfully(j)
      BY <2>4, HandlerReturnsKeeps, HandlerThrowsKeeps, OnConsumedKeeps
    <2>5. CASE NoForward(j) \/ AfterConsuming(j)
      BY <2>5, NoForwardKeeps, AfterKeeps
    <2> QED
      BY <1>4, <2>1, <2>2, <2>3, <2>4, <2>5 DEF JobStep
  <1>5. ASSUME NEW j \in jobs, ForwardFails(j) \/ ChannelLost(j) \/ Crash(j) PROVE IInv'
    BY <1>5, ForwardFailsKeeps, ChannelLostKeeps, CrashKeeps
  <1>6. CASE UNCHANGED vars
    <2> USE <1>6 DEF vars
    <2>1. TypeOK'
      BY DEF IInv, TypeOK
    <2>2. CopiesAtHop' /\ JobsAtHop'
      BY DEF IInv, CopiesAtHop, JobsAtHop, AtHop, Hop
    <2>3. ASSUME NEW m \in Msg, NEW p, Passed(m, p) PROVE Passed(m, p)'
      BY <2>3 DEF Passed, Beyond, Hop, Accounted, Unroutable, TypeUnknown
    <2>4. JobsOK'
      <3> SUFFICES ASSUME NEW i \in jobs PROVE StagesOK(i)' /\ SuccessOK(i)'
        BY DEF JobsOK
      <3>1. StagesOK(i) /\ SuccessOK(i) /\ i.msg \in Msg /\ Hop(i)' = Hop(i)
        BY JobKnown DEF Hop
      <3>2. Passed(i.msg, Hop(i)) => Passed(i.msg, Hop(i))'
        BY <2>3, <3>1 DEF Passed, Beyond
      <3> QED
        BY <3>1, <3>2 DEF StagesOK, SuccessOK
    <2>5. OthersAreShort' /\ LiveJobsOwn' /\ LiveJobsDistinct'
      BY DEF IInv, OthersAreShort, LiveJobsOwn, Owns, LiveJobsDistinct
    <2>6. KeptAll'
      BY <2>3 DEF IInv, KeptAll
    <2> QED
      BY <2>1, <2>2, <2>4, <2>5, <2>6 DEF IInv
  <1> QED
    BY <1>1, <1>2, <1>3, <1>4, <1>5, <1>6 DEF Next

LEMMA Invariance == Spec => []IInv
  BY InitIInv, StepIInv, PTL DEF Spec

(* Types of every variable: at no time more than Attempts deliveries are   *)
(* counted for an instance, whatever fails.                                *)
THEOREM DispatcherTypeCorrect == Spec => []TypeOK
  <1>1. IInv => TypeOK
    BY DEF IInv
  <1> QED
    BY <1>1, Invariance, PTL

(* dispatch.ts and routing/dispatch.ts: however often it is redelivered,   *)
(* an instance is at the hop its slip says, and the hops before it were    *)
(* processed with success.                                                 *)
THEOREM DispatcherHopsInOrder == Spec => []HopsInOrder
  <1>1. IInv => HopsInOrder
    <2> SUFFICES ASSUME IInv, NEW c \in Instances
                 PROVE  /\ Hop(c) \in DOMAIN route[c.msg] /\ c.at = route[c.msg][Hop(c)]
                        /\ \A n \in 1..Hop(c) - 1 : <<c.msg, n>> \in done
      BY DEF HopsInOrder
    <2>1. c.msg \in Msg /\ c.slip \in Seq(Dest) /\ AtHop(c)
      BY CopiesTyped, JobKnown DEF Instances, IInv, CopiesAtHop
    <2> QED
      BY <2>1, HopInRoute DEF AtHop, IInv
  <1> QED
    BY <1>1, Invariance, PTL

(* dispatch.ts:52: no exit of dispatch acknowledges a routed message with  *)
(* its itinerary forgotten, but for the reasons Accounted lists.           *)
THEOREM DispatcherItineraryKept == Spec => []ItineraryKept
  <1>1. IInv => ItineraryKept
    BY DEF IInv, KeptAll, Passed, Beyond, ItineraryKept
  <1> QED
    BY <1>1, Invariance, PTL

(* dispatch.ts: which pipelines and which handlers have run by the time a  *)
(* call reports its result.                                                *)
THEOREM DispatcherStagesAgree == Spec => []StagesAgree
  <1>1. IInv => StagesAgree
    BY DEF IInv, JobsOK, StagesOK, StagesAgree
  <1> QED
    BY <1>1, Invariance, PTL
-----------------------------------------------------------------------------
(* OnceUndisturbed.  An instance is spent when its call has sent the       *)
(* message on; until then it is fresh.  An undisturbed message has one     *)
(* fresh instance at most, and neither a later hop nor, before its call    *)
(* runs a branch or a handler, this one has begun.                         *)
Spent(s, m) == \E j \in jobs : j.slot = s /\ j.msg = m /\ j.sentOn
Fresh(s, m) == copy[s] # Free /\ copy[s].msg = m /\ ~Spent(s, m)
Untouched(m, n) == \A i \in Nat : i >= n => <<m, i>> \notin started

NeverFailed(m) == \A j \in jobs : j.msg = m => j.live /\ j.result \notin {"failed", "thrown"}
OneFresh(m) == \A s, t \in Slot : Fresh(s, m) /\ Fresh(t, m) => s = t
FreshBefore(m) ==
    \A s \in Slot : Fresh(s, m) =>
        /\ Untouched(m, Hop(copy[s]) + 1)
        /\ ~copy[s].held => <<m, Hop(copy[s])>> \notin started
EarlyBefore(m) ==
    \A j \in jobs : j.msg = m /\ j.stage \in Early => <<m, Hop(j)>> \notin started

OnceFor(m) ==
    /\ NeverFailed(m) /\ OneFresh(m) /\ FreshBefore(m) /\ EarlyBefore(m)
    /\ m \notin repeated
    /\ route[m] = <<>> => Untouched(m, 0)

Once == \A m \in Msg \ disturbed : OnceFor(m)

(* A step that is about another message.                                   *)
Elsewhere(n) ==
    /\ \A s \in Slot :
         (copy[s] # Free /\ copy[s].msg = n) \/ (copy'[s] # Free /\ copy'[s].msg = n)
           => copy'[s] = copy[s]
    /\ \A j \in jobs \cup jobs' : j.msg = n => (j \in jobs <=> j \in jobs')
    /\ \A i \in Nat : <<n, i>> \in started' => <<n, i>> \in started
    /\ n \in repeated' => n \in repeated
    /\ route'[n] = route[n]

LEMMA ElsewhereKeeps ==
    ASSUME NEW n \in Msg, OnceFor(n), Elsewhere(n), IInv, IInv'
    PROVE  OnceFor(n)'
  <1>1. \A s \in Slot : Spent(s, n)' <=> Spent(s, n)
    BY DEF Elsewhere, Spent
  <1>2. \A s \in Slot : Fresh(s, n)' => Fresh(s, n) /\ copy'[s] = copy[s]
    BY <1>1 DEF Elsewhere, Fresh
  <1>3. \A i \in Nat : Untouched(n, i) => Untouched(n, i)'
    BY DEF Elsewhere, Untouched
  <1>4. NeverFailed(n)' /\ OneFresh(n)'
    BY <1>2 DEF OnceFor, NeverFailed, OneFresh, Elsewhere
  <1>5. FreshBefore(n)'
    <2> SUFFICES ASSUME NEW s \in Slot, Fresh(s, n)'
                 PROVE  /\ Untouched(n, Hop(copy[s]) + 1)'
                        /\ ~copy'[s].held => <<n, Hop(copy[s])'>> \notin started'
      BY DEF FreshBefore
    <2>1. Fresh(s, n) /\ copy'[s] = copy[s] /\ copy[s].msg = n
      BY <1>2 DEF Fresh
    <2>2. Hop(copy[s])' = Hop(copy[s])
      BY <2>1 DEF Hop, Elsewhere
    <2>3. Hop(copy[s]) \in Nat
      BY <2>1, CopiesTyped, HopInRoute DEF IInv, CopiesAtHop, Fresh
    <2> QED
      BY <1>3, <2>1, <2>2, <2>3 DEF OnceFor, FreshBefore, Untouched, Elsewhere
  <1>6. EarlyBefore(n)'
    <2> SUFFICES ASSUME NEW j \in jobs', j.msg = n, j.stage \in Early
                 PROVE  <<n, Hop(j)'>> \notin started'
      BY DEF EarlyBefore
    <2>1. j \in jobs
      BY DEF Elsewhere
    <2>2. Hop(j)' = Hop(j) /\ Hop(j) \in Nat
      BY <2>1, JobKnown DEF Hop, Elsewhere
    <2> QED
      BY <2>1, <2>2 DEF OnceFor, EarlyBefore, Elsewhere
  <1> QED
    BY <1>3, <1>4, <1>5, <1>6 DEF OnceFor, Elsewhere

(* A step about message m.                                                 *)
LEMMA OnceKept ==
    ASSUME IInv, IInv', Once, disturbed \subseteq disturbed', NEW m \in Msg,
           \A n \in Msg \ {m} : Elsewhere(n),
           m \notin disturbed' => OnceFor(m)'
    PROVE  Once'
  BY ElsewhereKeeps DEF Once

(* A call whose message is undisturbed: its instance.                      *)
LEMMA UndisturbedJob ==
    ASSUME IInv, NEW m \in Msg, OnceFor(m), NEW j \in jobs, j.msg = m
    PROVE  /\ j.live /\ j.slot \in Slot /\ copy[j.slot] # Free /\ copy[j.slot].msg = m
           /\ copy[j.slot].held /\ Hop(copy[j.slot]) = Hop(j) /\ Hop(j) \in Nat
           /\ ~j.sentOn => Fresh(j.slot, m)
  <1>1. j.live /\ j \in Job /\ Hop(j) \in Nat /\ j.slot \in Slot
    BY JobKnown, JobsTyped DEF OnceFor, NeverFailed
  <1>2. /\ copy[j.slot] # Free /\ copy[j.slot].msg = m /\ copy[j.slot].slip = j.slip
        /\ copy[j.slot].held
    BY <1>1 DEF IInv, LiveJobsOwn, Owns
  <1>3. ASSUME ~j.sentOn, NEW i \in jobs, i.slot = j.slot, i.msg = m PROVE ~i.sentOn
    <2>1. i.live
      BY <1>3 DEF OnceFor, NeverFailed
    <2> QED
      BY <1>1, <1>3, <2>1 DEF IInv, LiveJobsDistinct
  <1> QED
    BY <1>1, <1>2, <1>3 DEF Fresh, Spent, Hop

(* Steps of a call that send nothing, k being the call after the step.     *)
Works(j, k) ==
    /\ Follows(j, k) /\ Becomes(j, k) /\ k.sentOn = j.sentOn
    /\ UNCHANGED <<broker, callers>> /\ disturbed \subseteq disturbed'
    /\ k.result \in {"failed", "thrown"} => j.msg \in disturbed'
    /\ \/ UNCHANGED <<started, repeated>> /\ (k.stage \in Early => j.stage \in Early)
       \/ Begin(j) /\ j.stage \in Early /\ k.stage \notin Early

LEMMA WorksKeeps ==
    ASSUME IInv, IInv', Once, NEW j \in jobs, NEW k, Works(j, k)
    PROVE  Once'
  <1> DEFINE m == j.msg
  <1>0. /\ m \in Msg /\ j \in Job /\ jobs' = (jobs \ {j}) \cup {k} /\ k.msg = m
        /\ k.slot = j.slot /\ k.slip = j.slip /\ k.live = j.live /\ k.sentOn = j.sentOn
        /\ copy' = copy /\ route' = route /\ Hop(j) \in Nat
    BY JobKnown DEF Works, Follows, Becomes, broker, callers
  <1>1. ASSUME NEW n \in Msg \ {m} PROVE Elsewhere(n)
    <2>1. \A i \in Nat : <<n, i>> \in started' => <<n, i>> \in started
      BY DEF Works, Begin
    <2>2. n \in repeated' => n \in repeated
      BY DEF Works, Begin
    <2> QED
      BY <1>0, <2>1, <2>2 DEF Elsewhere
  <1>2. ASSUME m \notin disturbed' PROVE OnceFor(m)'
    <2>0. OnceFor(m) /\ k.result \notin {"failed", "thrown"}
      BY <1>0, <1>2 DEF Once, Works
    <2>1. \A s \in Slot : Spent(s, m)' <=> Spent(s, m)
      BY <1>0 DEF Spent
    <2>2. \A s \in Slot : Fresh(s, m)' <=> Fresh(s, m)
      BY <1>0, <2>1 DEF Fresh
    <2>3. NeverFailed(m)' /\ OneFresh(m)'
      BY <1>0, <2>0, <2>2 DEF OnceFor, NeverFailed, OneFresh
    <2>4. \A c : Hop(c)' = Hop(c)
      BY <1>0 DEF Hop
    <2>5. CASE UNCHANGED <<started, repeated>> /\ (k.stage \in Early => j.stage \in Early)
      <3>1. FreshBefore(m)'
        BY <1>0, <2>0, <2>2, <2>4, <2>5 DEF OnceFor, FreshBefore, Untouched
      <3>2. EarlyBefore(m)'
        BY <1>0, <2>0, <2>4, <2>5 DEF OnceFor, EarlyBefore, Hop
      <3> QED
        BY <1>0, <2>0, <2>3, <2>5, <3>1, <3>2 DEF OnceFor, Untouched
    <2>6. CASE Begin(j) /\ j.stage \in Early /\ k.stage \notin Early
      <3>0. /\ started' = started \cup {<<m, Hop(j)>>}
            /\ <<m, Hop(j)>> \notin started /\ m \notin repeated'
        BY <2>0, <2>6 DEF Begin, OnceFor, EarlyBefore
      <3>1. j.live /\ Fresh(j.slot, m) /\ Hop(copy[j.slot]) = Hop(j) /\ copy[j.slot].held
            /\ j.slot \in Slot
        BY <1>0, <2>0, <2>6, UndisturbedJob DEF IInv, JobsOK, StagesOK
      <3>2. FreshBefore(m)'
        <4> SUFFICES ASSUME NEW s \in Slot, Fresh(s, m)'
                     PROVE  /\ Untouched(m, Hop(copy[s]) + 1)'
                            /\ ~copy'[s].held => <<m, Hop(copy[s])'>> \notin started'
          BY DEF FreshBefore
        <4>1. s = j.slot
          BY <2>0, <2>2, <3>1 DEF OnceFor, OneFresh
        <4>2. Untouched(m, Hop(j) + 1)
          BY <2>0, <3>1 DEF OnceFor, FreshBefore
        <4> QED
          BY <1>0, <2>4, <3>0, <3>1, <4>1, <4>2 DEF Untouched
      <3>3. EarlyBefore(m)'
        <4> SUFFICES ASSUME NEW i \in jobs', i.msg = m, i.stage \in Early PROVE FALSE
          BY DEF EarlyBefore
        <4>1. i \in jobs /\ i # j
          BY <1>0, <2>6
        <4>2. i.live /\ ~i.sentOn /\ Fresh(i.slot, m) /\ i.slot \in Slot
          BY <2>0, <4>1, <1>0, UndisturbedJob DEF IInv, JobsOK, StagesOK
        <4>3. i.slot = j.slot
          BY <2>0, <3>1, <4>2 DEF OnceFor, OneFresh
        <4> QED
          BY <3>1, <4>1, <4>2, <4>3 DEF IInv, LiveJobsDistinct
      <3>4. route'[m] # <<>>
        <4>1. AtHop(j) /\ j.slip \in Seq(Dest)
          BY JobKnown
        <4> QED
          BY <1>0, <4>1, HopInRoute DEF IInv
      <3> QED
        BY <2>3, <3>0, <3>2, <3>3, <3>4 DEF OnceFor
    <2> QED
      BY <2>5, <2>6 DEF Works
  <1> QED
    BY <1>0, <1>1, <1>2, OnceKept DEF Works

(* The steps of a call between its delivery and its disposition.           *)
LEMMA StepWorks ==
    ASSUME IInv, Once, NEW j \in jobs,
           \/ BeforeConsuming(j) \/ Throws(j) \/ StreamBranch(j) \/ Deserialize(j)
           \/ ReplyBranch(j) \/ SagaBranch(j) \/ AggregatorBranch(j) \/ ResolveHandlers(j)
           \/ HandlerReturns(j) \/ HandlerThrows(j) \/ OnConsumedSuccessfully(j)
           \/ NoForward(j) \/ AfterConsuming(j) \/ ForwardFails(j)
    PROVE  \E k : Works(j, k)
  <1>0. j \in Job /\ j.msg \in Msg /\ j.stage \in Stages /\ j.ran \in Nat /\ j.afters \in Nat
    BY JobKnown, JobsTyped
  <1>1. j.result \in {"failed", "thrown"} => j.msg \in disturbed
    BY <1>0 DEF Once, OnceFor, NeverFailed
  <1> DEFINE Quiet == UNCHANGED <<started, repeated>>
             Begins == Begin(j) /\ j.stage \in Early
             Late == {"forward", "after", "settle"}
             Kept == UNCHANGED <<broker, callers>> /\ disturbed \subseteq disturbed'
  <1>2. ASSUME NEW stage \in Stages, Becomes(j, Goes(j, stage)), Kept,
               \/ Quiet /\ (stage \in Early => j.stage \in Early)
               \/ Begins /\ stage \notin Early
        PROVE  \E k : Works(j, k)
    BY <1>0, <1>1, <1>2, GoesFields DEF Works
  <1>3. ASSUME NEW stage \in Late, NEW result \in Results, Becomes(j, Reports(j, result, stage)),
               Kept, result \in {"failed", "thrown"} => j.msg \in disturbed',
               Quiet \/ Begins
        PROVE  \E k : Works(j, k)
    <2>1. stage \in Stages /\ stage \notin Early
      BY DEF Stages, Early
    <2> QED
      BY <1>0, <1>3, <2>1, ReportsFields DEF Works
  <1> HIDE DEF Quiet, Begins, Late, Kept
  <1> USE DEF Early, Stages, Results, Disturb
  <1>4. CASE BeforeConsuming(j)
    <2>1. Kept /\ Quiet /\ j.stage = "before"
      BY <1>4 DEF BeforeConsuming, Kept, Quiet, progress
    <2>2. \/ Becomes(j, Goes(j, "stream"))
          \/ Becomes(j, Reports(j, "handled", "after"))
          \/ Becomes(j, Reports(j, "failed", "after")) /\ j.msg \in disturbed'
      BY <1>4 DEF BeforeConsuming, Verdicts, MiddlewareVerdicts
    <2> QED
      BY <1>2, <1>3, <2>1, <2>2 DEF Late
  <1>5. CASE Throws(j)
    BY <1>3, <1>5 DEF Throws, Kept, Quiet, Late, progress
  <1>6. CASE StreamBranch(j)
    <2>1. Kept /\ Quiet /\ j.stage = "stream"
      BY <1>6 DEF StreamBranch, Kept, Quiet, progress
    <2>2. \/ Becomes(j, Goes(j, "decode"))
          \/ Becomes(j, Reports(j, "handled", "after"))
          \/ Becomes(j, Reports(j, "terminal", "after"))
      BY <1>6 DEF StreamBranch
    <2> QED
      BY <1>2, <1>3, <2>1, <2>2 DEF Late
  <1>7. CASE Deserialize(j)
    <2>1. Kept /\ Quiet /\ j.stage = "decode"
      BY <1>7 DEF Deserialize, Kept, Quiet, progress
    <2>2. \/ Becomes(j, Goes(j, "reply"))
          \/ /\ \E r \in {"terminal", "failed"} : Becomes(j, Reports(j, r, "after"))
             /\ j.msg \in disturbed'
      BY <1>7 DEF Deserialize
    <2> QED
      BY <1>2, <1>3, <2>1, <2>2 DEF Late
  <1>8. CASE ReplyBranch(j)
    <2>1. Kept /\ Quiet /\ j.stage = "reply"
      BY <1>8 DEF ReplyBranch, Kept, Quiet, mishaps
    <2>2. Becomes(j, Goes(j, "saga")) \/ Becomes(j, Reports(j, "handled", "after"))
      BY <1>8 DEF ReplyBranch
    <2> QED
      BY <1>2, <1>3, <2>1, <2>2 DEF Late
  <1>9. CASE SagaBranch(j)
    <2>1. Kept /\ j.stage = "saga"
      BY <1>9 DEF SagaBranch, Kept
    <2>2. \/ Becomes(j, Goes(j, "aggregator")) /\ Quiet
          \/ Becomes(j, Reports(j, "unhandled", "forward")) /\ Quiet
          \/ Becomes(j, Reports(j, "handled", "forward")) /\ Begins
          \/ Becomes(j, Reports(j, "failed", "forward")) /\ Begins /\ j.msg \in disturbed'
      BY <1>9, <2>1 DEF SagaBranch, Quiet, Begins, progress
    <2> QED
      BY <1>2, <1>3, <2>1, <2>2 DEF Late
  <1>10. CASE AggregatorBranch(j)
    <2>1. Kept /\ j.stage = "aggregator"
      BY <1>10 DEF AggregatorBranch, Kept
    <2>2. \/ Becomes(j, Goes(j, "resolve")) /\ Quiet
          \/ Becomes(j, Reports(j, "handled", "forward")) /\ Begins
          \/ Becomes(j, Reports(j, "failed", "forward")) /\ Begins /\ j.msg \in disturbed'
      BY <1>10, <2>1 DEF AggregatorBranch, Quiet, Begins, progress
    <2> QED
      BY <1>2, <1>3, <2>1, <2>2 DEF Late
  <1>11. CASE ResolveHandlers(j)
    <2>1. Kept /\ j.stage = "resolve"
      BY <1>11 DEF ResolveHandlers, Kept, mishaps
    <2>2. \/ Becomes(j, Reports(j, "unhandled", "forward")) /\ Quiet
          \/ Becomes(j, Goes(j, "handlers")) /\ Begins
      BY <1>11, <2>1 DEF ResolveHandlers, Quiet, Begins
    <2> QED
      BY <1>2, <1>3, <2>1, <2>2 DEF Late
  <1>12. CASE HandlerReturns(j)
    <2> DEFINE stage == IF j.ran + 1 < Handlers[j.at] THEN "handlers" ELSE "onSuccess"
               k == [Goes(j, stage) EXCEPT !.ran = j.ran + 1]
    <2>0. k = [Goes(j, stage) EXCEPT !.ran = @ + 1] /\ j.ran + 1 \in Nat
      BY <1>0 DEF Goes, Job
    <2>1. Becomes(j, k) /\ Kept /\ Quiet
      BY <1>12, <2>0 DEF HandlerReturns, Kept, Quiet, mishaps, progress
    <2>2. stage \in {"handlers", "onSuccess"}
      OBVIOUS
    <2> HIDE DEF stage
    <2>3. Follows(j, k) /\ k.stage = stage /\ k.sentOn = j.sentOn /\ k.result = j.result
      BY <1>0, <2>0, <2>2 DEF Goes, Follows, Job
    <2> QED
      BY <1>1, <2>1, <2>2, <2>3 DEF Works, Kept, Quiet
  <1>13. CASE HandlerThrows(j)
    BY <1>3, <1>13 DEF HandlerThrows, Kept, Quiet, Late, progress
  <1>14. CASE OnConsumedSuccessfully(j)
    <2>1. PICK r \in {"handled", "failed"} :
             /\ Becomes(j, [Reports(j, r, "forward") EXCEPT !.onSuccess = TRUE])
             /\ r = "failed" => j.msg \in disturbed'
      BY <1>14 DEF OnConsumedSuccessfully
    <2> DEFINE k == [Reports(j, r, "forward") EXCEPT !.onSuccess = TRUE]
    <2>2. Follows(j, k) /\ k.stage = "forward" /\ k.sentOn = j.sentOn /\ k.result = r
      BY <1>0 DEF Reports, Goes, Follows, Job
    <2>3. Kept /\ Quiet
      BY <1>14 DEF OnConsumedSuccessfully, Kept, Quiet
    <2> QED
      BY <2>1, <2>2, <2>3 DEF Works, Kept, Quiet
  <1>15. CASE NoForward(j)
    BY <1>2, <1>15 DEF NoForward, Kept, Quiet, mishaps, progress
  <1>16. CASE AfterConsuming(j)
    <2> DEFINE k == [Goes(j, "settle") EXCEPT !.afters = j.afters + 1]
    <2>0. k = [Goes(j, "settle") EXCEPT !.afters = @ + 1] /\ j.afters + 1 \in Nat
      BY <1>0 DEF Goes, Job
    <2>1. Becomes(j, k) /\ Kept /\ Quiet
      BY <1>16, <2>0 DEF AfterConsuming, Kept, Quiet, mishaps, progress
    <2>2. Follows(j, k) /\ k.stage = "settle" /\ k.sentOn = j.sentOn /\ k.result = j.result
      BY <1>0, <2>0 DEF Goes, Follows, Job
    <2> QED
      BY <1>1, <2>1, <2>2 DEF Works, Kept, Quiet
  <1>17. CASE ForwardFails(j)
    BY <1>2, <1>17 DEF ForwardFails, Kept, Quiet, progress
  <1> QED
    BY <1>4, <1>5, <1>6, <1>7, <1>8, <1>9, <1>10, <1>11, <1>12, <1>13, <1>14, <1>15, <1>16, <1>17

(* The forward spends the instance of the call, and its copy is the fresh  *)
(* one, a hop later.                                                       *)
LEMMA ForwardOnce ==
    ASSUME IInv, IInv', Once, NEW j \in jobs, NEW t \in Slot, Forward(j, t)
    PROVE  Once'
  <1> DEFINE m == j.msg
             k == [Goes(j, "after") EXCEPT !.sentOn = TRUE]
             d == NewCopy(m, Head(j.slip), Tail(j.slip), 0)
  <1>0. /\ m \in Msg /\ j \in Job /\ AtHop(j) /\ Hop(j) \in Nat /\ j.slip \in Seq(Dest)
        /\ j.stage = "forward" /\ j.slip # <<>> /\ ~j.sentOn
    BY JobKnown DEF Forward, Forwards, StagesOK
  <1>1. /\ jobs' = (jobs \ {j}) \cup {k} /\ k.msg = m /\ k.slot = j.slot /\ k.live = j.live
        /\ k.sentOn /\ k.stage = "after" /\ k.result = j.result
    BY <1>0 DEF Forward, Becomes, Goes, Job
  <1>2. /\ (copy' = [copy EXCEPT ![t] = d] /\ copy[t] = Free) \/ copy' = copy
        /\ \A s \in Slot : copy[s] # Free => copy'[s] = copy[s]
        /\ \A s \in Slot : copy'[s] # copy[s] => copy[s] = Free /\ s = t /\ copy'[s] = d
    BY DEF Forward, Takes, IInv, TypeOK
  <1>3. UNCHANGED <<route, started, repeated, disturbed>>
    BY DEF Forward, callers, progress, mishaps
  <1>4. /\ d.msg = m /\ d.slip = Tail(j.slip) /\ ~d.held
        /\ Hop(d) = Hop(j) + 1
    <2>1. d.msg = m /\ d.slip = Tail(j.slip) /\ ~d.held
      BY DEF NewCopy
    <2>2. Len(j.slip) \in Nat /\ Len(Tail(j.slip)) = Len(j.slip) - 1 /\ Len(route[m]) \in Nat
      BY <1>0 DEF IInv, TypeOK
    <2> HIDE DEF d
    <2>3. Hop(d) = Len(route[m]) - (Len(j.slip) - 1) /\ Hop(j) = Len(route[m]) - Len(j.slip)
      BY <2>1, <2>2 DEF Hop
    <2> QED
      BY <2>1, <2>2, <2>3
  <1> HIDE DEF k, d, m
  <1>5. ASSUME NEW n \in Msg \ {m} PROVE Elsewhere(n)
    <2>1. \A s \in Slot : copy'[s] # Free /\ copy'[s].msg = n => copy'[s] = copy[s]
      BY <1>2, <1>4
    <2> QED
      BY <1>1, <1>2, <1>3, <2>1 DEF Elsewhere, m
  <1>6. ASSUME m \notin disturbed' PROVE OnceFor(m)'
    <2>0. OnceFor(m)
      BY <1>0, <1>3, <1>6 DEF Once, m
    <2>1. /\ j.live /\ j.slot \in Slot /\ copy[j.slot] # Free /\ Fresh(j.slot, m)
          /\ Hop(copy[j.slot]) = Hop(j)
      BY <1>0, <2>0, UndisturbedJob DEF m
    <2>2. \A s \in Slot : Spent(s, m)' <=> Spent(s, m) \/ s = j.slot
      BY <1>0, <1>1 DEF Spent
    <2>3. \A s \in Slot : Fresh(s, m)' => s = t /\ copy'[t] = d
      <3> SUFFICES ASSUME NEW s \in Slot, Fresh(s, m)' PROVE s = t /\ copy'[t] = d
        OBVIOUS
      <3>1. copy'[s] # Free /\ copy'[s].msg = m /\ ~Spent(s, m) /\ s # j.slot
        BY <2>2 DEF Fresh
      <3>2. copy'[s] # copy[s]
        BY <2>0, <2>1, <3>1 DEF OnceFor, OneFresh, Fresh
      <3> QED
        BY <1>2, <3>2
    <2>4. NeverFailed(m)' /\ OneFresh(m)'
      BY <1>1, <2>0, <2>3 DEF OnceFor, NeverFailed, OneFresh, m
    <2>5. Untouched(m, Hop(j) + 1)
      BY <2>0, <2>1 DEF OnceFor, FreshBefore
    <2>6. FreshBefore(m)'
      <3>1. Hop(d)' = Hop(d)
        BY <1>3 DEF Hop, d, m
      <3>2. /\ \A i \in Nat : i >= Hop(d) + 1 => <<m, i>> \notin started'
            /\ <<m, Hop(d)>> \notin started'
        <4>1. Hop(d) \in Nat /\ Hop(d) = Hop(j) + 1
          BY <1>0, <1>4
        <4> HIDE DEF Hop
        <4>2. \A i \in Nat : i >= Hop(d) + 1 => i >= Hop(j) + 1
          BY <1>0, <4>1
        <4> QED
          BY <1>3, <2>5, <4>1, <4>2 DEF Untouched
      <3> SUFFICES ASSUME NEW s \in Slot, Fresh(s, m)'
                   PROVE  /\ Untouched(m, Hop(copy[s]) + 1)'
                          /\ ~copy'[s].held => <<m, Hop(copy[s])'>> \notin started'
        BY DEF FreshBefore
      <3>3. copy'[s] = d
        BY <2>3
      <3>4. Hop(copy[s])' = Hop(d)
        BY <1>3, <3>1, <3>3 DEF Hop
      <3>5. Untouched(m, Hop(copy[s]) + 1)'
        BY <3>2, <3>4 DEF Untouched
      <3> QED
        BY <3>2, <3>4, <3>5
    <2>7. EarlyBefore(m)'
      <3>1. k.stage \notin Early
        BY <1>1 DEF Early
      <3> QED
        BY <1>1, <1>3, <2>0, <3>1 DEF OnceFor, EarlyBefore, Hop
    <2> QED
      BY <1>3, <2>0, <2>4, <2>6, <2>7 DEF OnceFor, Untouched
  <1> QED
    BY <1>0, <1>3, <1>5, <1>6, OnceKept DEF m

(* The disposition of an undisturbed message removes its instance.         *)
LEMMA SettleOnce ==
    ASSUME IInv, IInv', Once, NEW j \in jobs, NEW t \in Slot, Settle(j, t)
    PROVE  Once'
  <1> DEFINE m == j.msg
  <1>0. m \in Msg /\ j \in Job /\ j.slot \in Slot
    BY JobKnown, JobsTyped
  <1>1. /\ jobs' = jobs \ {j} /\ UNCHANGED <<route, started, repeated, disturbed>>
        /\ IF j.live THEN t = j.slot ELSE copy[t] = Free
        /\ \A s \in Slot : s # t => copy'[s] = copy[s]
        /\ copy'[t] = Free \/ copy'[t].msg = m
        /\ j.result \notin {"failed", "thrown"} => copy'[t] = Free
    BY DEF Settle, Takes, callers, progress, mishaps, IInv, TypeOK, Retried, NewCopy
  <1>2. j.live => copy[t] # Free /\ copy[t].msg = m
    BY <1>1 DEF IInv, LiveJobsOwn, Owns
  <1>3. ASSUME NEW n \in Msg \ {m} PROVE Elsewhere(n)
    BY <1>1, <1>2, <1>3 DEF Elsewhere
  <1>4. ASSUME m \notin disturbed' PROVE OnceFor(m)'
    <2>0. OnceFor(m) /\ j.live /\ j.result \notin {"failed", "thrown"}
      BY <1>0, <1>1, <1>4 DEF Once, OnceFor, NeverFailed
    <2>1. t = j.slot /\ copy'[t] = Free
      BY <1>1, <2>0
    <2>2. \A s \in Slot \ {t} : Spent(s, m)' <=> Spent(s, m)
      BY <1>1, <2>1 DEF Spent
    <2>3. \A s \in Slot : Fresh(s, m)' => Fresh(s, m) /\ copy'[s] = copy[s]
      BY <1>1, <2>1, <2>2 DEF Fresh
    <2>4. \A c : Hop(c)' = Hop(c)
      BY <1>1 DEF Hop
    <2>5. NeverFailed(m)' /\ OneFresh(m)'
      BY <1>1, <2>0, <2>3 DEF OnceFor, NeverFailed, OneFresh
    <2>6. FreshBefore(m)'
      BY <1>1, <2>0, <2>3, <2>4 DEF OnceFor, FreshBefore, Untouched, Hop
    <2>7. EarlyBefore(m)'
      BY <1>1, <2>0, <2>4 DEF OnceFor, EarlyBefore, Hop
    <2> QED
      BY <1>1, <2>0, <2>5, <2>6, <2>7 DEF OnceFor, Untouched
  <1> QED
    BY <1>0, <1>1, <1>3, <1>4, OnceKept

(* Only an instance that waits is delivered, and it has not begun.         *)
LEMMA DeliverOnce ==
    ASSUME IInv, IInv', Once, NEW w \in Worker, NEW s \in Slot, Deliver(w, s)
    PROVE  Once'
  <1> PICK m \in Msg : m = copy[s].msg
    BY CopiesTyped DEF Deliver, IInv
  <1>0. /\ copy[s] # Free /\ ~copy[s].held /\ copy[s].msg = m /\ copy[s] \in Copy
        /\ copy' = [copy EXCEPT ![s].held = TRUE]
        /\ UNCHANGED <<route, started, repeated, disturbed>>
    BY CopiesTyped DEF Deliver, IInv, callers, progress, mishaps
  <1>1. PICK new : /\ jobs' = jobs \cup {new} /\ new.slot = s /\ new.live /\ new.msg = m
                   /\ new.slip = copy[s].slip /\ new.result \in {"none", "unhandled"}
                   /\ ~new.sentOn
    <2> DEFINE k ==
          [slot |-> s, by |-> w, live |-> TRUE, msg |-> copy[s].msg, at |-> copy[s].at,
           slip |-> copy[s].slip, tries |-> copy[s].tries,
           stage |-> IF copy[s].at \in Registered THEN "before" ELSE "settle",
           result |-> IF copy[s].at \in Registered THEN "none" ELSE "unhandled",
           ran |-> 0, onSuccess |-> FALSE, sentOn |-> FALSE, afters |-> 0]
    <2>1. /\ jobs' = jobs \cup {k} /\ k.slot = s /\ k.live /\ k.msg = m
          /\ k.slip = copy[s].slip /\ k.result \in {"none", "unhandled"} /\ ~k.sentOn
      BY <1>0 DEF Deliver
    <2> HIDE DEF k
    <2> QED
      BY <2>1
  <1>2. /\ \A t \in Slot : t # s => copy'[t] = copy[t]
        /\ copy'[s] = [copy[s] EXCEPT !.held = TRUE]
    BY <1>0 DEF IInv, TypeOK
  <1>3. copy'[s] # Free /\ copy'[s].msg = m /\ copy'[s].slip = copy[s].slip /\ copy'[s].held
    <2>0. PICK c \in Copy : c = copy[s]
      BY <1>0
    <2> DEFINE d == [c EXCEPT !.held = TRUE]
    <2>1. /\ d.msg = c.msg /\ d.slip = c.slip /\ d.held
          /\ "msg" \in DOMAIN d /\ "msg" \notin DOMAIN Free
      BY ONLY c \in Copy DEF Copy, Free
    <2>2. copy'[s] = d
      BY <1>2, <2>0
    <2> HIDE DEF d
    <2> QED
      BY <1>0, <2>0, <2>1, <2>2
  <1>4. ASSUME NEW n \in Msg \ {m} PROVE Elsewhere(n)
    BY <1>0, <1>1, <1>2, <1>3 DEF Elsewhere
  <1>5. ASSUME m \notin disturbed' PROVE OnceFor(m)'
    <2>0. OnceFor(m)
      BY <1>0, <1>5 DEF Once
    <2>1. \A t \in Slot : Spent(t, m)' <=> Spent(t, m)
      BY <1>1 DEF Spent
    <2>2. \A t \in Slot : Fresh(t, m)' <=> Fresh(t, m)
      BY <1>0, <1>2, <1>3, <2>1 DEF Fresh
    <2>3. NeverFailed(m)' /\ OneFresh(m)'
      BY <1>1, <2>0, <2>2 DEF OnceFor, NeverFailed, OneFresh
    <2>4. \A t \in Slot : copy[t] # Free => Hop(copy[t])' = Hop(copy[t])
      BY <1>0, <1>2, <1>3 DEF Hop
    <2>5. FreshBefore(m)'
      <3> SUFFICES ASSUME NEW t \in Slot, Fresh(t, m)'
                   PROVE  /\ Untouched(m, Hop(copy[t]) + 1)'
                          /\ ~copy'[t].held => <<m, Hop(copy[t])'>> \notin started'
        BY DEF FreshBefore
      <3>1. Fresh(t, m) /\ Hop(copy[t])' = Hop(copy[t])
        BY <2>2, <2>4 DEF Fresh
      <3>2. ~copy'[t].held => ~copy[t].held
        BY <1>2, <1>3
      <3>3. /\ Untouched(m, Hop(copy[t]) + 1)
            /\ ~copy[t].held => <<m, Hop(copy[t])>> \notin started
        BY <2>0, <3>1 DEF OnceFor, FreshBefore
      <3>4. Untouched(m, Hop(copy[t]) + 1)'
        BY <1>0, <3>1, <3>3 DEF Untouched
      <3> QED
        BY <1>0, <3>1, <3>2, <3>3, <3>4
    <2>6. <<m, Hop(copy[s])>> \notin started
      <3>1. ASSUME NEW i \in jobs, i.slot = s, i.msg = m PROVE FALSE
        BY <1>0, <2>0, <3>1, UndisturbedJob
      <3>2. Fresh(s, m)
        BY <1>0, <3>1 DEF Fresh, Spent
      <3> QED
        BY <1>0, <2>0, <3>2 DEF OnceFor, FreshBefore
    <2>7. EarlyBefore(m)'
      <3>1. Hop(new)' = Hop(copy[s])
        BY <1>0, <1>1 DEF Hop
      <3> SUFFICES ASSUME NEW i \in jobs', i.msg = m, i.stage \in Early
                   PROVE  <<m, Hop(i)'>> \notin started'
        BY DEF EarlyBefore
      <3>2. CASE i = new
        BY <1>0, <2>6, <3>1, <3>2
      <3>3. CASE i \in jobs
        BY <1>0, <2>0, <3>3 DEF OnceFor, EarlyBefore, Hop
      <3> QED
        BY <1>1, <3>2, <3>3
    <2> QED
      BY <1>0, <2>0, <2>3, <2>5, <2>7 DEF OnceFor, Untouched
  <1> QED
    BY <1>0, <1>4, <1>5, OnceKept

(* A message that is sent has no instance yet, and nothing of it began.    *)
LEMMA SendsOnce ==
    ASSUME IInv, IInv', Once, NEW m \in Msg, NEW r, NEW s \in Slot, Sends(m, r, s)
    PROVE  Once'
  <1> DEFINE d == NewCopy(m, Head(r), Tail(r), 0)
  <1>0. /\ route[m] = <<>> /\ copy[s] = Free /\ d.msg = m
        /\ \A t \in Slot : t # s => copy'[t] = copy[t]
        /\ copy'[s] = d /\ jobs' = jobs
        /\ \A n \in Msg \ {m} : route'[n] = route[n]
        /\ UNCHANGED <<started, repeated, disturbed>>
    BY DEF Sends, Takes, progress, mishaps, NewCopy, IInv, TypeOK
  <1> HIDE DEF d
  <1>1. \A t \in Slot : copy[t] # Free => copy[t].msg # m
    BY <1>0, CopiesTyped, HopInRoute DEF IInv, CopiesAtHop
  <1>2. \A j \in jobs : j.msg # m
    BY <1>0, JobKnown, HopInRoute DEF IInv
  <1>3. \A n \in Msg \ {m} : Elsewhere(n)
    BY <1>0 DEF Elsewhere
  <1>4. ASSUME m \notin disturbed' PROVE OnceFor(m)'
    <2>1. Untouched(m, 0) /\ m \notin repeated
      BY <1>0, <1>4 DEF Once, OnceFor
    <2>2. \A x : <<m, x>> \notin started
      BY <2>1 DEF Untouched, IInv, TypeOK
    <2>3. \A t \in Slot : Fresh(t, m)' => t = s
      BY <1>0, <1>1 DEF Fresh
    <2> QED
      BY <1>0, <1>2, <2>1, <2>2, <2>3
         DEF OnceFor, NeverFailed, OneFresh, FreshBefore, EarlyBefore, Untouched
  <1> QED
    BY <1>0, <1>3, <1>4, OnceKept

(* A lost channel and a crash disturb the message of the call.             *)
LEMMA FaultOnce ==
    ASSUME IInv, IInv', Once, NEW j \in jobs, ChannelLost(j) \/ Crash(j)
    PROVE  Once'
  <1> DEFINE m == j.msg
             k == [j EXCEPT !.live = FALSE]
  <1>0. m \in Msg /\ j \in Job /\ j.slot \in Slot /\ k.msg = m
    BY JobKnown, JobsTyped DEF Job
  <1>1. /\ jobs' = jobs \ {j} \/ jobs' = (jobs \ {j}) \cup {k}
        /\ copy' = copy \/ (j.live /\ copy' = Requeue(j))
        /\ UNCHANGED <<route, started, repeated>> /\ disturbed' = disturbed \cup {m}
    BY DEF ChannelLost, Crash, Becomes, Disturb, callers, progress
  <1> HIDE DEF k
  <1>2. ASSUME NEW n \in Msg \ {m} PROVE Elsewhere(n)
    <2>1. CASE copy' = copy
      BY <1>0, <1>1, <2>1 DEF Elsewhere
    <2>2. CASE j.live /\ copy' = Requeue(j)
      <3>1. copy[j.slot] # Free /\ copy[j.slot].msg = m
        BY <2>2 DEF IInv, LiveJobsOwn, Owns
      <3>2. copy[j.slot] \in Copy
        BY <1>0, <3>1, CopiesTyped DEF IInv
      <3>3. copy'[j.slot].msg = m /\ \A t \in Slot : t # j.slot => copy'[t] = copy[t]
        BY <1>0, <2>2, <3>1, <3>2 DEF Requeue, Copy, IInv, TypeOK
      <3> QED
        BY <1>0, <1>1, <3>1, <3>3 DEF Elsewhere
    <2> QED
      BY <1>1, <2>1, <2>2
  <1> QED
    BY <1>0, <1>1, <1>2, OnceKept

LEMMA StepOnce ==
    ASSUME IInv, IInv', Once, [Next]_vars
    PROVE  Once'
  <1>1. ASSUME NEW m \in Msg, NEW s \in Slot,
               \/ \E r \in Itineraries : Route(m, r, s) \/ SendWithSlip(m, r, s)
               \/ \E k \in {"chunk", "reply"}, h \in Host : SendOther(m, k, h, s)
        PROVE  Once'
    BY <1>1, SendsOnce DEF Route, SendWithSlip, SendOther
  <1>2. ASSUME NEW w \in Worker, NEW s \in Slot, Deliver(w, s) PROVE Once'
    BY <1>2, DeliverOnce
  <1>3. ASSUME NEW j \in jobs, JobStep(j) \/ ForwardFails(j) PROVE Once'
    BY <1>3, StepWorks, WorksKeeps, ForwardOnce, SettleOnce DEF JobStep
  <1>4. ASSUME NEW j \in jobs, ChannelLost(j) \/ Crash(j) PROVE Once'
    BY <1>4, FaultOnce
  <1>5. CASE UNCHANGED vars
    <2>1. \A n \in Msg : Elsewhere(n)
      BY <1>5 DEF vars, Elsewhere
    <2> QED
      BY <1>5, <2>1, ElsewhereKeeps DEF vars, Once
  <1> QED
    BY <1>1, <1>2, <1>3, <1>4, <1>5 DEF Next

(* dispatch.ts and routing/dispatch.ts: a message that neither failed nor  *)
(* met a fault is processed once at each hop, and is in two queues at a    *)
(* time only while the call that has sent it on is not yet settled.        *)
THEOREM DispatcherOnceUndisturbed == Spec => []OnceUndisturbed
  <1>1. Init => Once
    BY DEF Init, Once, OnceFor, NeverFailed, OneFresh, FreshBefore, EarlyBefore, Untouched, Fresh
  <1>2. IInv /\ IInv' /\ Once /\ [Next]_vars => Once'
    BY StepOnce
  <1>3. Once => OnceUndisturbed
    <2>1. ASSUME NEW m \in Msg, OnceFor(m), NEW s \in Slot, NEW t \in Slot, s # t,
                 copy[s] # Free, copy[t] # Free, copy[s].msg = m, copy[t].msg = m
          PROVE  \E j \in jobs : j.msg = m /\ j.slot \in {s, t} /\ j.sentOn
      <3>1. Spent(s, m) \/ Spent(t, m)
        BY <2>1 DEF OnceFor, OneFresh, Fresh
      <3> QED
        BY <3>1 DEF Spent
    <2>2. \A m \in Msg : OnceFor(m) => m \notin repeated
      BY DEF OnceFor
    <2> QED
      BY <2>1, <2>2 DEF Once, OnceUndisturbed
  <1> QED
    BY <1>1, <1>2, <1>3, Invariance, PTL DEF Spec
=============================================================================
