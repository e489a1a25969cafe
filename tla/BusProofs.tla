------------------------------- MODULE BusProofs ------------------------------
(***************************************************************************)
(* Proofs about the two specifications of bus.ts.                          *)
(*                                                                         *)
(* RequestReply, for any requests, signals and counts.  The inductive      *)
(* invariant adds to the checked invariants how far a call can be in each  *)
(* phase (InPhase), and that a call which has returned waits for nothing   *)
(* unless its request never left (NoReplyDue).                             *)
(*                                                                         *)
(* BusLifecycle, further down, for any calls of start, stores, handlers,   *)
(* ticks and faults.  Its invariant says of each stage of stop what that   *)
(* has left behind for good.                                               *)
(***************************************************************************)
EXTENDS RequestReply, BusLifecycle, WellFoundedInduction, TLAPS

Live == {"filtering", "sending", "awaiting"}

InPhase ==
    \A r \in Req :
        /\ phase[r] = "idle" => promise[r] = "none" /\ replies[r] = 0
        /\ phase[r] \in {"idle", "filtering"} => r \notin reached
        /\ phase[r] \in Live => promise[r] \notin {"none", "cancelled"}
        /\ phase[r] = "awaiting" => r \in reached
        /\ phase[r] # "returned" => caller[r] = "none"

NoReplyDue ==
    \A r \in Req : phase[r] = "returned" /\ promise[r] = "pending" => r \notin reached

ReasonOf(r) ==
    /\ promise[r] = "reply" => Needed(r) = 0 \/ replies[r] = Needed(r)
    /\ promise[r] = "pending" => Needed(r) = 0 \/ replies[r] < Needed(r)
    /\ promise[r] = "timeout" => replies[r] < Needed(r)
    /\ promise[r] = "aborted" => call[r].signal \in aborted
    /\ promise[r] = "shutdown" => bus \in {"shutDown", "closed"}
    /\ promise[r] = "cancelled" => caller[r] \in {"blocked", "sendError"}

Inv == TypeOK /\ NothingLeaks /\ ShutdownIsFinal /\ SettledForItsReason
         /\ CancelledNeverSurfaces /\ InPhase /\ NoReplyDue
-----------------------------------------------------------------------------
(* What settle() leaves behind, for any set of requests and any outcome.   *)
LEMMA SettleEffect ==
    ASSUME TypeOK, NothingLeaks, NEW S, NEW how \in Settlement, settle(S, how),
           call' = call, aborted' = aborted
    PROVE  /\ pending' \subseteq Req /\ timer' \subseteq Req /\ listening' \subseteq Req
           /\ promise' \in [Req -> {"none", "pending"} \cup Settlement]
           /\ pending' = pending \ S
           /\ NothingLeaks'
           /\ \A r \in Req : \/ promise'[r] = promise[r] /\ (r \notin S \/ promise[r] # "pending")
                             \/ r \in S /\ promise[r] = "pending" /\ promise'[r] = how
  <1> USE DEF settle, TypeOK, NothingLeaks
  <1>1. how # "pending" /\ how # "none"
    BY DEF Settlement
  <1>2. \A r \in Req : promise'[r] = IF r \in S \cap pending THEN how ELSE promise[r]
    OBVIOUS
  <1>3. pending' = pending \ S /\ timer' = timer \ S /\ listening' = listening \ S
    OBVIOUS
  <1>4. promise' \in [Req -> {"none", "pending"} \cup Settlement]
    OBVIOUS
  <1>5. pending' = {r \in Req : promise'[r] = "pending"}
    BY <1>1, <1>2, <1>3
  <1>6. listening' = {r \in pending' : call[r].signal # NoSignal}
    BY <1>3
  <1> QED
    BY <1>1, <1>2, <1>3, <1>4, <1>5, <1>6

(* The invariant holds at first: nothing has been registered.              *)
LEMMA InitInv == ASSUME RequestReplyAssumption, Init PROVE Inv
  <1> USE DEF Init
  <1>1. TypeOK
    BY DEF TypeOK, RequestReplyAssumption
  <1>2. NothingLeaks /\ ShutdownIsFinal
    BY DEF NothingLeaks, ShutdownIsFinal
  <1>3. SettledForItsReason /\ CancelledNeverSurfaces
    BY DEF SettledForItsReason, CancelledNeverSurfaces, Settlement
  <1>4. InPhase /\ NoReplyDue
    BY DEF InPhase, NoReplyDue, Live
  <1> QED
    BY <1>1, <1>2, <1>3, <1>4 DEF Inv

(* Registering: the entry, its timer and its listener come together, and   *)
(* not at all when the signal has aborted.                                 *)
LEMMA RegisterEffect ==
    ASSUME RequestReplyAssumption, Inv, NEW r \in Req, phase[r] = "idle",
           register(r, call[r]), call' = call, aborted' = aborted
    PROVE  /\ pending' \subseteq Req /\ timer' \subseteq Req /\ listening' \subseteq Req
           /\ promise' \in [Req -> {"none", "pending"} \cup Settlement]
           /\ pending' # pending => pending' = pending \cup {r} /\ promise'[r] = "pending"
           /\ promise'[r] # "pending" => promise'[r] = "aborted" /\ call[r].signal \in aborted
           /\ \A q \in Req \ {r} : promise'[q] = promise[q]
           /\ NothingLeaks'
  <1> USE DEF register
  <1>1. TypeOK /\ NothingLeaks /\ promise[r] = "none"
    BY DEF Inv, InPhase
  <1>2. call[r].signal \in Signal \cup {NoSignal} /\ NoSignal \notin Signal
    BY <1>1 DEF TypeOK, Call, RequestReplyAssumption
  <1>3. CASE call[r].signal \in aborted
    BY <1>1, <1>3 DEF TypeOK, NothingLeaks, Settlement
  <1>4. CASE call[r].signal \notin aborted
    <2>1. promise' = [promise EXCEPT ![r] = "pending"] /\ pending' = pending \cup {r}
          /\ timer' = timer \cup {r}
      BY <1>4
    <2>2. listening' = {q \in pending' : call[q].signal # NoSignal}
      BY <1>1, <1>2, <1>4, <2>1 DEF NothingLeaks, TypeOK
    <2>3. pending' = {q \in Req : promise'[q] = "pending"}
      BY <1>1, <2>1 DEF NothingLeaks, TypeOK
    <2>4. NothingLeaks'
      BY <1>1, <1>4, <2>1, <2>2, <2>3 DEF NothingLeaks, TypeOK
    <2> QED
      BY <1>1, <2>1, <2>2, <2>4 DEF TypeOK, NothingLeaks
  <1> QED
    BY <1>3, <1>4

(* The steps a call takes on its own: one step per action.                 *)
LEMMA CallSteps ==
    ASSUME RequestReplyAssumption, Inv, NEW r \in Req,
           Refuse(r) \/ Begin(r) \/ SerializeThrows(r) \/ Filter(r) \/ Send(r) \/ Await(r)
    PROVE  Inv'
  <1> USE DEF Inv
  <1>1. CASE Refuse(r)
    <2> USE <1>1 DEF Refuse, Return, entries, traffic
    <2>1. TypeOK'
      BY DEF TypeOK, Error
    <2>2. NothingLeaks' /\ ShutdownIsFinal'
      BY DEF NothingLeaks, ShutdownIsFinal
    <2>3. SettledForItsReason' /\ CancelledNeverSurfaces'
      BY DEF SettledForItsReason, CancelledNeverSurfaces, Needed, Settlement, InPhase, TypeOK
    <2>4. InPhase' /\ NoReplyDue'
      BY DEF InPhase, NoReplyDue, Live, TypeOK
    <2> QED
      BY <2>1, <2>2, <2>3, <2>4
  <1>2. CASE Begin(r) \/ SerializeThrows(r)
    <2> USE <1>2 DEF Begin, SerializeThrows, Return, traffic
    <2>0. call' = call /\ aborted' = aborted /\ bus' = bus /\ bus = "running" /\ phase[r] = "idle"
          /\ replies' = replies /\ reached' = reached /\ register(r, call[r])
          /\ promise[r] = "none" /\ replies[r] = 0 /\ r \notin reached
      BY DEF InPhase
    <2>1. /\ pending' \subseteq Req /\ timer' \subseteq Req /\ listening' \subseteq Req
          /\ promise' \in [Req -> {"none", "pending"} \cup Settlement]
          /\ promise'[r] # "pending" => promise'[r] = "aborted" /\ call[r].signal \in aborted
          /\ \A q \in Req \ {r} : promise'[q] = promise[q]
          /\ NothingLeaks'
      BY <2>0, RegisterEffect
    <2>2. TypeOK'
      BY <2>1 DEF TypeOK, Error
    <2>3. ShutdownIsFinal'
      BY <2>0 DEF ShutdownIsFinal
    <2>4. SettledForItsReason'
      <3>1. Needed(r) \in Nat
        BY DEF Needed, TypeOK, Call, RequestReplyAssumption
      <3> QED
        BY <2>0, <2>1, <3>1 DEF SettledForItsReason, Needed, TypeOK
    <2>5. CancelledNeverSurfaces'
      BY <2>0, <2>1 DEF CancelledNeverSurfaces, Settlement, InPhase, TypeOK
    <2>6. InPhase' /\ NoReplyDue'
      BY <2>0, <2>1 DEF InPhase, NoReplyDue, Live, TypeOK
    <2> QED
      BY <2>1, <2>2, <2>3, <2>4, <2>5, <2>6
  <1>3. CASE FiltersPass(r) \/ Reach(r) \/ SendOk(r)
    <2> USE <1>3 DEF FiltersPass, Reach, SendOk, entries, traffic
    <2>1. TypeOK'
      BY DEF TypeOK
    <2>2. NothingLeaks' /\ ShutdownIsFinal'
      BY DEF NothingLeaks, ShutdownIsFinal
    <2>3. SettledForItsReason' /\ CancelledNeverSurfaces'
      BY DEF SettledForItsReason, CancelledNeverSurfaces, Needed
    <2>4. InPhase' /\ NoReplyDue'
      BY DEF InPhase, NoReplyDue, Live, TypeOK
    <2> QED
      BY <2>1, <2>2, <2>3, <2>4
  <1>4. CASE FiltersBlock(r) \/ SendFails(r)
    <2>1. PICK error \in {"blocked", "sendError"} : Fails(r, error) /\ phase[r] \in {"filtering", "sending"}
      BY <1>4 DEF FiltersBlock, SendFails
    <2> USE <2>1 DEF Fails, Return, traffic
    <2>2. "cancelled" \in Settlement
      BY DEF Settlement
    <2>3. /\ pending' \subseteq Req /\ timer' \subseteq Req /\ listening' \subseteq Req
          /\ promise' \in [Req -> {"none", "pending"} \cup Settlement]
          /\ pending' = pending \ {r}
          /\ NothingLeaks'
          /\ \A q \in Req : \/ promise'[q] = promise[q] /\ (q \notin {r} \/ promise[q] # "pending")
                            \/ q \in {r} /\ promise[q] = "pending" /\ promise'[q] = "cancelled"
      BY <2>2, SettleEffect
    <2>4. TypeOK'
      BY <2>3 DEF TypeOK, Error
    <2>5. ShutdownIsFinal'
      BY <2>3 DEF ShutdownIsFinal, NothingLeaks
    <2>6. SettledForItsReason'
      BY <2>3 DEF SettledForItsReason, Needed, InPhase, Live, TypeOK
    <2>7. CancelledNeverSurfaces'
      BY <2>3 DEF CancelledNeverSurfaces, Settlement, InPhase, TypeOK
    <2>8. InPhase' /\ NoReplyDue'
      BY <2>3 DEF InPhase, NoReplyDue, Live, TypeOK
    <2> QED
      BY <2>3, <2>4, <2>5, <2>6, <2>7, <2>8
  <1>5. CASE Await(r)
    <2> USE <1>5 DEF Await, Return, entries, traffic
    <2>1. TypeOK'
      BY DEF TypeOK, InPhase, Live
    <2>2. NothingLeaks' /\ ShutdownIsFinal'
      BY DEF NothingLeaks, ShutdownIsFinal
    <2>3. SettledForItsReason' /\ CancelledNeverSurfaces'
      BY DEF SettledForItsReason, CancelledNeverSurfaces, Needed, InPhase, Live, TypeOK, Settlement
    <2>4. InPhase' /\ NoReplyDue'
      BY DEF InPhase, NoReplyDue, Live, TypeOK
    <2> QED
      BY <2>1, <2>2, <2>3, <2>4
  <1> QED
    BY <1>1, <1>2, <1>3, <1>4, <1>5 DEF Filter, Send

(* Settling a set S of entries for a reason that fits each of them keeps   *)
(* the invariant: the common part of replies, timers, aborts and shutdown. *)
LEMMA SettleSteps ==
    ASSUME RequestReplyAssumption, Inv, NEW S, NEW how \in Settlement \ {"cancelled"},
           settle(S, how),
           phase' = phase, call' = call, caller' = caller, reached' = reached,
           replies' \in [Req -> Nat], heard' \in [Req -> Nat],
           arrived' \in [Req -> 0..MaxReplies],
           aborted \subseteq aborted', aborted' \subseteq Signal,
           bus' \in {"running", "stopping", "drained", "shutDown", "closed"},
           bus \in {"shutDown", "closed"} => bus' \in {"shutDown", "closed"},
           bus' \in {"shutDown", "closed"} => pending \ S = {},
           \A q \in listening \ S : call[q].signal \notin aborted',
           \A q \in Req : q \notin pending => replies'[q] = replies[q],
           \A q \in pending : ReasonOf(q)'
    PROVE  Inv'
  <1> USE DEF Inv
  <1>1. \A q \in Req : promise'[q] = IF q \in S \cap pending THEN how ELSE promise[q]
    BY DEF settle
  <1>2. promise' \in [Req -> {"none", "pending"} \cup Settlement]
    BY DEF settle, TypeOK
  <1>3. pending' = pending \ S /\ timer' = timer \ S /\ listening' = listening \ S
    BY DEF settle, NothingLeaks
  <1>4. how # "pending" /\ how # "none" /\ how # "cancelled"
    BY DEF Settlement
  <1>5. TypeOK'
    BY <1>2, <1>3 DEF TypeOK
  <1>6. NothingLeaks'
    <2>1. pending' = {q \in Req : promise'[q] = "pending"}
      BY <1>1, <1>3, <1>4 DEF NothingLeaks
    <2>2. listening' = {q \in pending' : call'[q].signal # NoSignal}
      BY <1>3 DEF NothingLeaks
    <2>3. \A q \in listening' : call'[q].signal \notin aborted'
      BY <1>3
    <2> QED
      BY <1>3, <2>1, <2>2, <2>3 DEF NothingLeaks
  <1>7. ShutdownIsFinal'
    BY <1>3 DEF ShutdownIsFinal, NothingLeaks
  <1>8. SettledForItsReason'
    <2>1. \A q \in Req \ pending : ReasonOf(q)'
      BY <1>1 DEF SettledForItsReason, ReasonOf, Needed
    <2> QED
      BY <2>1 DEF SettledForItsReason, ReasonOf, Needed
  <1>9. CancelledNeverSurfaces'
    BY <1>1 DEF CancelledNeverSurfaces, NothingLeaks, Settlement
  <1>10. InPhase'
    <2>1. \A q \in pending : phase[q] # "idle"
      BY DEF NothingLeaks, InPhase
    <2> QED
      BY <1>1, <1>4, <2>1 DEF InPhase, NothingLeaks, Live
  <1>11. NoReplyDue'
    BY <1>1, <1>4 DEF NoReplyDue
  <1> QED
    BY <1>5, <1>6, <1>7, <1>8, <1>9, <1>10, <1>11

(* A reply, taken or not.                                                  *)
LEMMA ReplySteps ==
    ASSUME RequestReplyAssumption, Inv, NEW r \in Req, tryRouteReply(r)
    PROVE  Inv'
  <1> USE DEF Inv, tryRouteReply
  <1>0. /\ phase' = phase /\ call' = call /\ caller' = caller /\ reached' = reached /\ bus' = bus
        /\ arrived' \in [Req -> 0..MaxReplies]
        /\ bus \in {"running", "stopping"} /\ r \in reached
    <2>1. arrived[r] + 1 \in 0..MaxReplies
      BY DEF TypeOK, RequestReplyAssumption
    <2> QED
      BY <2>1 DEF TypeOK, Dispatching
  <1>1. \A q \in Req : Needed(q) \in Nat
    BY DEF Needed, TypeOK, Call, RequestReplyAssumption
  <1>2. CASE Unmatched(r)
    <2> USE <1>2 DEF Unmatched, entries
    <2>1. TypeOK'
      BY <1>0 DEF TypeOK
    <2>2. NothingLeaks' /\ ShutdownIsFinal'
      BY <1>0 DEF NothingLeaks, ShutdownIsFinal
    <2>3. SettledForItsReason' /\ CancelledNeverSurfaces'
      BY <1>0 DEF SettledForItsReason, CancelledNeverSurfaces, Needed
    <2>4. InPhase' /\ NoReplyDue'
      BY <1>0 DEF InPhase, NoReplyDue
    <2> QED
      BY <2>1, <2>2, <2>3, <2>4
  <1>3. CASE r \in pending /\ Collect(r)
    <2> USE <1>3 DEF Collect
    <2> DEFINE S == IF Enough(r) THEN {r} ELSE {}
    <2>1. replies' = [replies EXCEPT ![r] = @ + 1] /\ replies' \in [Req -> Nat] /\ heard' \in [Req -> Nat]
      BY DEF TypeOK
    <2>2. settle(S, "reply") /\ aborted' = aborted
      OBVIOUS
    <2>3. \A q \in Req : promise'[q] = IF q \in S \cap pending THEN "reply" ELSE promise[q]
      BY <2>2 DEF settle
    <2>4. \A q \in pending : promise[q] = "pending" /\ (Needed(q) = 0 \/ replies[q] < Needed(q))
      BY DEF NothingLeaks, SettledForItsReason
    <2>5. ReasonOf(r)'
      <3>1. CASE Enough(r)
        <4>1. promise'[r] = "reply" /\ Needed(r)' = Needed(r)
          BY <1>0, <2>3, <3>1 DEF Needed
        <4>2. replies'[r] = Needed(r)
          BY <1>1, <2>1, <2>4, <3>1 DEF Enough, TypeOK
        <4> QED
          BY <4>1, <4>2 DEF ReasonOf
      <3>2. CASE ~Enough(r)
        <4>1. promise'[r] = "pending" /\ Needed(r)' = Needed(r)
          BY <1>0, <2>3, <2>4, <3>2 DEF Needed
        <4>2. Needed(r) = 0 \/ replies'[r] < Needed(r)
          BY <1>1, <2>1, <2>4, <3>2 DEF Enough, TypeOK
        <4> QED
          BY <4>1, <4>2 DEF ReasonOf
      <3> QED
        BY <3>1, <3>2
    <2>6. \A q \in pending \ {r} : ReasonOf(q)'
      <3> SUFFICES ASSUME NEW q \in pending \ {r} PROVE ReasonOf(q)'
        OBVIOUS
      <3>1. q \in Req /\ promise'[q] = "pending" /\ replies'[q] = replies[q] /\ Needed(q)' = Needed(q)
        BY <1>0, <2>1, <2>3, <2>4 DEF Needed, TypeOK
      <3> QED
        BY <2>4, <3>1 DEF ReasonOf
    <2>7. /\ \A q \in Req : q \notin pending => replies'[q] = replies[q]
          /\ \A q \in listening \ S : call[q].signal \notin aborted'
          /\ \A q \in pending : ReasonOf(q)'
      BY <2>1, <2>2, <2>5, <2>6 DEF TypeOK, NothingLeaks
    <2>8. "reply" \in Settlement \ {"cancelled"} /\ aborted' \subseteq Signal
      BY <2>2 DEF Settlement, TypeOK
    <2> HIDE DEF S
    <2> QED
      BY <1>0, <2>1, <2>2, <2>7, <2>8, SettleSteps
  <1>4. CASE r \in pending /\ OnReplyThrows(r)
    <2> USE <1>4 DEF OnReplyThrows
    <2>1. settle({r}, "callbackThrew") /\ aborted' = aborted /\ replies' = replies
          /\ heard' \in [Req -> Nat] /\ replies \in [Req -> Nat]
      BY DEF TypeOK
    <2>2. \A q \in pending : ReasonOf(q)'
      BY <1>0, <2>1 DEF ReasonOf, settle, SettledForItsReason, NothingLeaks, Needed
    <2>3. "callbackThrew" \in Settlement \ {"cancelled"} /\ aborted' \subseteq Signal
          /\ \A q \in listening \ {r} : call[q].signal \notin aborted'
      BY <2>1 DEF Settlement, TypeOK, NothingLeaks
    <2> QED
      BY <1>0, <2>1, <2>2, <2>3, SettleSteps
  <1>5. CASE r \in pending /\ OnReplyAborts(r)
    <2> USE <1>5 DEF OnReplyAborts
    <2> DEFINE S == Listeners(call[r].signal)
    <2>1. settle(S, "aborted") /\ aborted' = aborted \cup {call[r].signal}
          /\ replies' \in [Req -> Nat] /\ heard' \in [Req -> Nat]
          /\ \A q \in Req \ {r} : replies'[q] = replies[q]
      BY DEF TypeOK
    <2>2. \A q \in pending : ReasonOf(q)'
      <3>1. r \in S
        BY DEF Listeners, NothingLeaks, TypeOK, RequestReplyAssumption
      <3> QED
        BY <1>0, <2>1, <3>1 DEF ReasonOf, settle, SettledForItsReason, NothingLeaks, Needed, Listeners
    <2>3. "aborted" \in Settlement \ {"cancelled"} /\ aborted' \subseteq Signal
      BY <2>1 DEF Settlement, TypeOK
    <2>4. \A q \in listening \ S : call[q].signal \notin aborted'
      BY <2>1 DEF Listeners, NothingLeaks
    <2> HIDE DEF S
    <2> QED
      BY <1>0, <2>1, <2>2, <2>3, <2>4, SettleSteps
  <1> QED
    BY <1>2, <1>3, <1>4, <1>5

(* Timers, aborts and the stages of stop().                                *)
LEMMA OtherSteps ==
    ASSUME RequestReplyAssumption, Inv,
           \/ \E r \in Req : TimerFires(r)
           \/ \E s \in Signal : Abort(s)
           \/ Stop \/ ConsumerDisposed \/ Shutdown \/ ProducerDisposed
    PROVE  Inv'
  <1> USE DEF Inv
  <1>0. /\ replies \in [Req -> Nat] /\ heard \in [Req -> Nat]
        /\ arrived \in [Req -> 0..MaxReplies] /\ aborted \subseteq Signal
        /\ bus \in {"running", "stopping", "drained", "shutDown", "closed"}
    BY DEF TypeOK
  <1>1. ASSUME NEW r \in Req, TimerFires(r) PROVE Inv'
    <2> USE <1>1 DEF TimerFires, traffic
    <2>1. settle({r}, AtTimeout(r)) /\ AtTimeout(r) \in Settlement \ {"cancelled"}
      BY DEF AtTimeout, Settlement
    <2>2. /\ phase' = phase /\ call' = call /\ caller' = caller /\ reached' = reached /\ bus' = bus
          /\ replies' = replies /\ heard' = heard /\ arrived' = arrived
          /\ aborted' = aborted
      OBVIOUS
    <2>3. r \in pending /\ promise'[r] = AtTimeout(r)
      BY <2>1 DEF settle, NothingLeaks
    <2>4. \A q \in pending \ {r} : promise'[q] = promise[q]
      BY <2>1 DEF settle, TypeOK
    <2>5. ReasonOf(r)'
      <3>1. Needed(r)' = Needed(r) /\ replies'[r] = replies[r] /\ Needed(r) \in Nat /\ replies[r] \in Nat
        BY <1>0, <2>2 DEF Needed, TypeOK, Call, RequestReplyAssumption
      <3>2. Needed(r) = 0 \/ replies[r] < Needed(r)
        BY <2>3 DEF SettledForItsReason, NothingLeaks
      <3> QED
        BY <2>3, <3>1, <3>2 DEF ReasonOf, AtTimeout
    <2>6. \A q \in pending \ {r} : ReasonOf(q)'
      BY <2>2, <2>4 DEF SettledForItsReason, ReasonOf, Needed, TypeOK
    <2>7. \A q \in listening \ {r} : call[q].signal \notin aborted'
      BY <2>2 DEF NothingLeaks
    <2>8. bus' \in {"shutDown", "closed"} => pending \ {r} = {}
      BY <2>2 DEF ShutdownIsFinal
    <2> QED
      BY <1>0, <2>1, <2>2, <2>5, <2>6, <2>7, <2>8, SettleSteps
  <1>2. ASSUME NEW s \in Signal, Abort(s) PROVE Inv'
    <2> USE <1>2 DEF Abort, traffic
    <2> DEFINE S == Listeners(s)
    <2>1. /\ settle(S, "aborted") /\ aborted' = aborted \cup {s}
          /\ phase' = phase /\ call' = call /\ caller' = caller /\ reached' = reached /\ bus' = bus
          /\ replies' = replies /\ heard' = heard /\ arrived' = arrived
      OBVIOUS
    <2>2. \A q \in pending : ReasonOf(q)'
      BY <2>1 DEF ReasonOf, settle, SettledForItsReason, NothingLeaks, Needed, Listeners
    <2>3. \A q \in listening \ S : call[q].signal \notin aborted'
      BY <2>1 DEF Listeners, NothingLeaks
    <2>4. "aborted" \in Settlement \ {"cancelled"} /\ aborted' \subseteq Signal
      BY <1>0, <2>1 DEF Settlement
    <2>5. bus' \in {"shutDown", "closed"} => pending \ S = {}
      BY <2>1 DEF ShutdownIsFinal
    <2> HIDE DEF S
    <2> QED
      BY <1>0, <2>1, <2>2, <2>3, <2>4, <2>5, SettleSteps
  <1>3. CASE Shutdown
    <2> USE <1>3 DEF Shutdown, traffic
    <2>1. /\ settle(pending, "shutdown") /\ aborted' = aborted /\ bus' = "shutDown" /\ bus = "drained"
          /\ phase' = phase /\ call' = call /\ caller' = caller /\ reached' = reached
          /\ replies' = replies /\ heard' = heard /\ arrived' = arrived
      OBVIOUS
    <2>2. \A q \in pending : ReasonOf(q)'
      BY <2>1 DEF ReasonOf, settle, TypeOK
    <2>3. \A q \in listening \ pending : call[q].signal \notin aborted'
      BY <2>1 DEF NothingLeaks
    <2>4. "shutdown" \in Settlement \ {"cancelled"}
      BY DEF Settlement
    <2> QED
      BY <1>0, <2>1, <2>2, <2>3, <2>4, SettleSteps
  <1>4. CASE Stop \/ ConsumerDisposed \/ ProducerDisposed
    <2> USE <1>4 DEF Stop, ConsumerDisposed, ProducerDisposed, entries, traffic
    <2>1. TypeOK'
      BY DEF TypeOK
    <2>2. NothingLeaks' /\ ShutdownIsFinal'
      BY DEF NothingLeaks, ShutdownIsFinal
    <2>3. SettledForItsReason' /\ CancelledNeverSurfaces'
      BY DEF SettledForItsReason, CancelledNeverSurfaces, Needed
    <2>4. InPhase' /\ NoReplyDue'
      BY DEF InPhase, NoReplyDue
    <2> QED
      BY <2>1, <2>2, <2>3, <2>4
  <1> QED
    BY <1>1, <1>2, <1>3, <1>4

LEMMA StepInv == ASSUME RequestReplyAssumption, Inv, [Next]_vars PROVE Inv'
  <1>1. CASE UNCHANGED vars
    <2> USE <1>1 DEF vars, Inv
    <2>1. TypeOK' /\ NothingLeaks' /\ ShutdownIsFinal'
      BY DEF TypeOK, NothingLeaks, ShutdownIsFinal
    <2>2. SettledForItsReason' /\ CancelledNeverSurfaces' /\ InPhase' /\ NoReplyDue'
      BY DEF SettledForItsReason, Needed, CancelledNeverSurfaces, InPhase, NoReplyDue
    <2> QED
      BY <2>1, <2>2
  <1>2. CASE Next
    BY <1>2, CallSteps, ReplySteps, OtherSteps DEF Next
  <1> QED
    BY <1>1, <1>2
-----------------------------------------------------------------------------
THEOREM RequestReplyInvariant == Spec => []Inv
  <1>1. Init => Inv
    BY InitInv, RequestReplyAssumption
  <1>2. Inv /\ [Next]_vars => Inv'
    BY StepInv, RequestReplyAssumption
  <1> QED
    BY <1>1, <1>2, PTL DEF Spec

(* Every variable has its type, for any requests, signals and counts.      *)
THEOREM RequestReplyTypeCorrect == Spec => []TypeOK
  <1>1. Inv => TypeOK
    BY DEF Inv
  <1> QED
    BY <1>1, RequestReplyInvariant, PTL

(* No entry, timer or abort listener outlives the promise it serves.       *)
THEOREM RequestReplyNothingLeaks == Spec => []NothingLeaks
  <1>1. Inv => NothingLeaks
    BY DEF Inv
  <1> QED
    BY <1>1, RequestReplyInvariant, PTL

(* A promise is settled for the reason it gives: counts, aborts, stop().   *)
THEOREM RequestReplySettledForItsReason == Spec => []SettledForItsReason
  <1>1. Inv => SettledForItsReason
    BY DEF Inv
  <1> QED
    BY <1>1, RequestReplyInvariant, PTL

(* The internal RequestSendCancelledError never reaches a caller.          *)
THEOREM RequestReplyCancelledNeverSurfaces == Spec => []CancelledNeverSurfaces
  <1>1. Inv => CancelledNeverSurfaces
    BY DEF Inv
  <1> QED
    BY <1>1, RequestReplyInvariant, PTL
-----------------------------------------------------------------------------
(* What a step does to a settled promise: nothing, as its entry is gone.   *)
LEMMA SettledStays ==
    ASSUME Inv, [Next]_vars, NEW r \in Req, promise[r] \in Settlement
    PROVE  promise'[r] = promise[r] /\ heard'[r] = heard[r] /\ replies'[r] = replies[r]
  <1>1. r \notin pending /\ promise[r] # "none" /\ phase[r] # "idle"
    BY DEF Inv, NothingLeaks, InPhase, Settlement
  <1>2. ASSUME NEW S, NEW how, settle(S, how) PROVE promise'[r] = promise[r]
    BY <1>1, <1>2 DEF settle
  <1>3. CASE UNCHANGED vars
    BY <1>3 DEF vars
  <1>4. ASSUME NEW q \in Req, Refuse(q) \/ Begin(q) \/ SerializeThrows(q)
        PROVE  promise'[r] = promise[r] /\ heard' = heard /\ replies' = replies
    <2>1. CASE Refuse(q)
      BY <2>1 DEF Refuse, entries, traffic
    <2>2. CASE Begin(q) \/ SerializeThrows(q)
      <3>1. q # r /\ register(q, call[q]) /\ heard' = heard /\ replies' = replies
        BY <1>1, <2>2 DEF Begin, SerializeThrows, traffic
      <3> QED
        BY <3>1 DEF register, Inv, TypeOK
    <2> QED
      BY <1>4, <2>1, <2>2
  <1>5. ASSUME NEW q \in Req, Filter(q) \/ Send(q) \/ Await(q) \/ TimerFires(q)
        PROVE  promise'[r] = promise[r] /\ heard' = heard /\ replies' = replies
    <2>1. CASE FiltersPass(q) \/ Reach(q) \/ SendOk(q) \/ Await(q)
      BY <2>1 DEF FiltersPass, Reach, SendOk, Await, entries, traffic
    <2>2. CASE FiltersBlock(q) \/ SendFails(q) \/ TimerFires(q)
      BY <1>2, <2>2 DEF FiltersBlock, SendFails, Fails, TimerFires, traffic
    <2> QED
      BY <1>5, <2>1, <2>2 DEF Filter, Send
  <1>6. ASSUME NEW q \in Req, tryRouteReply(q)
        PROVE  promise'[r] = promise[r] /\ heard'[r] = heard[r] /\ replies'[r] = replies[r]
    <2>1. CASE Unmatched(q)
      BY <2>1 DEF Unmatched, entries
    <2>2. CASE q \in pending /\ (Collect(q) \/ OnReplyThrows(q) \/ OnReplyAborts(q))
      <3>1. q # r
        BY <1>1, <2>2
      <3>2. promise'[r] = promise[r]
        BY <1>2, <2>2 DEF Collect, OnReplyThrows, OnReplyAborts
      <3>3. heard'[r] = heard[r] /\ replies'[r] = replies[r]
        BY <2>2, <3>1 DEF Collect, OnReplyThrows, OnReplyAborts, Inv, TypeOK
      <3> QED
        BY <3>2, <3>3
    <2> QED
      BY <1>6, <2>1, <2>2 DEF tryRouteReply
  <1>7. CASE (\E s \in Signal : Abort(s)) \/ Stop \/ ConsumerDisposed \/ Shutdown \/ ProducerDisposed
    BY <1>2, <1>7 DEF Abort, Stop, ConsumerDisposed, Shutdown, ProducerDisposed, entries, traffic
  <1> QED
    BY <1>3, <1>4, <1>5, <1>6, <1>7 DEF Next

(* A reply reaches the caller only while its request is being sent or      *)
(* awaited, and only from a pending entry.                                 *)
LEMMA HeardInTime ==
    ASSUME Inv, [Next]_vars, NEW r \in Req, heard'[r] # heard[r]
    PROVE  /\ phase[r] \in {"sending", "awaiting"} /\ phase' = phase
           /\ heard' = [heard EXCEPT ![r] = @ + 1]
  <1>1. PICK q \in Req : tryRouteReply(q)
    <2>1. CASE UNCHANGED vars
      BY <2>1 DEF vars
    <2>2. ASSUME NEW q \in Req, \/ Refuse(q) \/ Begin(q) \/ SerializeThrows(q)
                                \/ Filter(q) \/ Send(q) \/ Await(q) \/ TimerFires(q)
          PROVE  heard' = heard
      BY <2>2 DEF Refuse, Begin, SerializeThrows, Filter, FiltersPass, FiltersBlock, Send,
                  Reach, SendOk, SendFails, Fails, Await, TimerFires, traffic
    <2>3. CASE (\E s \in Signal : Abort(s)) \/ Stop \/ ConsumerDisposed \/ Shutdown \/ ProducerDisposed
      BY <2>3 DEF Abort, Stop, ConsumerDisposed, Shutdown, ProducerDisposed, traffic
    <2> QED
      BY <2>1, <2>2, <2>3 DEF Next
  <1>2. q \in pending /\ heard' = [heard EXCEPT ![q] = @ + 1]
    BY <1>1 DEF tryRouteReply, Unmatched, Collect, OnReplyThrows, OnReplyAborts
  <1>3. q = r
    BY <1>2 DEF Inv, TypeOK
  <1>4. promise[r] = "pending" /\ r \in reached /\ phase' = phase
    BY <1>1, <1>2, <1>3 DEF Inv, NothingLeaks, tryRouteReply
  <1>5. phase[r] \in {"sending", "awaiting"}
    BY <1>4 DEF Inv, TypeOK, InPhase, NoReplyDue
  <1> QED
    BY <1>2, <1>3, <1>4, <1>5

(* A promise is settled once, and nothing is handed over afterwards.       *)
THEOREM RequestReplySettledOnce == Spec => SettledOnce
  <1>1. Inv /\ [Next]_vars =>
          [\A r \in Req : promise[r] \in Settlement =>
             promise'[r] = promise[r] /\ heard'[r] = heard[r] /\ replies'[r] = replies[r]]_vars
    BY SettledStays
  <1> QED
    BY <1>1, RequestReplyInvariant, PTL DEF Spec, SettledOnce

(* onReply is never invoked before the request was sent nor after the call *)
(* returned.                                                               *)
THEOREM RequestReplyNoReplyAfterReturn == Spec => NoReplyAfterReturn
  <1>1. Inv /\ [Next]_vars =>
          [\A r \in Req : heard'[r] # heard[r] => phase[r] \in {"sending", "awaiting"}]_vars
    BY HeardInTime
  <1> QED
    BY <1>1, RequestReplyInvariant, PTL DEF Spec, NoReplyAfterReturn
-----------------------------------------------------------------------------
(* How a step moves the calls: at most one of them, and forwards.          *)
LEMMA PhaseStep ==
    ASSUME Inv, [Next]_vars
    PROVE  \/ phase' = phase
           \/ \E r \in Req : /\ phase[r] = "idle" /\ phase' = [phase EXCEPT ![r] = "filtering"]
                             /\ heard' = heard
           \/ \E r \in Req : /\ phase[r] # "returned" /\ phase' = [phase EXCEPT ![r] = "returned"]
                             /\ heard' = heard
           \/ \E r \in Req, p \in Live : /\ phase[r] \in Live /\ phase' = [phase EXCEPT ![r] = p]
                                        /\ heard' = heard
  <1>1. CASE UNCHANGED vars
    BY <1>1 DEF vars
  <1>2. ASSUME NEW r \in Req, Refuse(r) \/ SerializeThrows(r) \/ FiltersBlock(r) \/ SendFails(r) \/ Await(r)
        PROVE  phase[r] # "returned" /\ phase' = [phase EXCEPT ![r] = "returned"] /\ heard' = heard
    BY <1>2 DEF Refuse, SerializeThrows, FiltersBlock, SendFails, Fails, Await, Return, traffic
  <1>3. ASSUME NEW r \in Req, Begin(r)
        PROVE  phase[r] = "idle" /\ phase' = [phase EXCEPT ![r] = "filtering"] /\ heard' = heard
    BY <1>3 DEF Begin, traffic
  <1>4. ASSUME NEW r \in Req, FiltersPass(r)
        PROVE  phase[r] \in Live /\ phase' = [phase EXCEPT ![r] = "sending"] /\ heard' = heard
    BY <1>4 DEF FiltersPass, traffic, Live
  <1>5. ASSUME NEW r \in Req, SendOk(r)
        PROVE  phase[r] \in Live /\ phase' = [phase EXCEPT ![r] = "awaiting"] /\ heard' = heard
    BY <1>5 DEF SendOk, traffic, Live
  <1>6. CASE \/ \E r \in Req : Reach(r) \/ tryRouteReply(r) \/ TimerFires(r)
             \/ \E s \in Signal : Abort(s)
             \/ Stop \/ ConsumerDisposed \/ Shutdown \/ ProducerDisposed
    BY <1>6 DEF Reach, tryRouteReply, TimerFires, Abort, Stop, ConsumerDisposed, Shutdown, ProducerDisposed
  <1>7. "sending" \in Live /\ "awaiting" \in Live
    BY DEF Live
  <1> QED
    BY <1>1, <1>2, <1>3, <1>4, <1>5, <1>6, <1>7 DEF Next, Filter, Send

(* The request/reply code implements Conversation: every initial state is  *)
(* one with no call made, every step opens, closes or hears one call, or   *)
(* leaves what the caller sees alone.                                      *)
THEOREM RequestReplyImplementsConversation == Spec => ImplementsConversation
  <1> DEFINE opened == {r \in Req : phase[r] \in {"filtering", "sending", "awaiting"}}
             done == {r \in Req : phase[r] = "returned"}
  <1>1. Init => Promised!Init
    BY DEF Init, Promised!Init
  <1>2. Inv /\ [Next]_vars => [Promised!Next]_(Promised!vars)
    <2> SUFFICES ASSUME Inv, [Next]_vars PROVE Promised!Next \/ UNCHANGED Promised!vars
      OBVIOUS
    <2>1. phase \in [Req -> {"idle", "filtering", "sending", "awaiting", "returned"}]
      BY DEF Inv, TypeOK
    <2>2. ASSUME NEW r \in Req, heard'[r] # heard[r] PROVE Promised!Hear(r)
      <3>1. phase[r] \in {"sending", "awaiting"} /\ phase' = phase /\ heard' = [heard EXCEPT ![r] = @ + 1]
        BY <2>2, HeardInTime
      <3> QED
        BY <3>1 DEF Promised!Hear
    <2>3. CASE phase' = phase /\ heard' = heard
      BY <2>3 DEF Promised!vars
    <2>4. ASSUME NEW r \in Req, phase[r] = "idle", phase' = [phase EXCEPT ![r] = "filtering"], heard' = heard
          PROVE  Promised!Open(r)
      <3>1. opened' = opened \cup {r} /\ done' = done /\ r \notin opened \cup done
        BY <2>1, <2>4
      <3> QED
        BY <2>4, <3>1 DEF Promised!Open
    <2>5. ASSUME NEW r \in Req, phase[r] # "returned", phase' = [phase EXCEPT ![r] = "returned"], heard' = heard
          PROVE  Promised!Close(r)
      <3>1. opened' = opened \ {r} /\ done' = done \cup {r} /\ r \notin done
        BY <2>1, <2>5
      <3> QED
        BY <2>5, <3>1 DEF Promised!Close
    <2>6. ASSUME NEW r \in Req, NEW p \in Live, phase[r] \in Live, phase' = [phase EXCEPT ![r] = p], heard' = heard
          PROVE  UNCHANGED Promised!vars
      <3>1. opened' = opened /\ done' = done
        BY <2>1, <2>6 DEF Live
      <3> QED
        BY <2>6, <3>1 DEF Promised!vars
    <2>7. heard \in [Req -> Nat] /\ heard' \in [Req -> Nat]
      <3>1. Inv'
        BY StepInv, RequestReplyAssumption
      <3> QED
        BY <3>1 DEF Inv, TypeOK
    <2>8. CASE heard' = heard
      BY <2>3, <2>4, <2>5, <2>6, <2>8, PhaseStep DEF Promised!Next
    <2>9. CASE heard' # heard
      <3>1. PICK r \in Req : heard'[r] # heard[r]
        BY <2>7, <2>9
      <3> QED
        BY <2>2, <3>1 DEF Promised!Next
    <2> QED
      BY <2>8, <2>9
  <1> QED
    BY <1>1, <1>2, RequestReplyInvariant, PTL DEF Spec, Promised!Spec, ImplementsConversation
-----------------------------------------------------------------------------
Stages == {"none", "declaring", "waiting", "resolved", "rejected"}
Connections == {"lost", "ready", "closed"}
Handlers == {"none", "running", "asking", "waiting", "done"}
Teardowns == {"none", "closing", "disposing", "pollers", "flush", "draining",
              "producer", "done", "failed"}

BusTypeOK ==
    /\ started \in BOOLEAN /\ stopped \in BOOLEAN /\ closed \in BOOLEAN
    /\ starts \in [StartCall -> Stages] /\ stop \in Teardowns
    /\ on \subseteq Timer /\ pollers \subseteq Timer
    /\ flushTimer \subseteq Timer /\ begun \subseteq StartCall
    /\ running \subseteq Timer \X Tick /\ last \in [Timer -> 0..MaxTicks]
    /\ entered \in BOOLEAN /\ created \in BOOLEAN
    /\ consuming \in BOOLEAN /\ cancelled \in BOOLEAN
    /\ connection \in Connections /\ attached \in BOOLEAN /\ rejoining \in BOOLEAN
    /\ jobs \in [Job -> Handlers] /\ refused \subseteq Job
    /\ faults \in 0..MaxFaults

(* How far stop is, from the consumer on: what each of its stages has left *)
(* behind.  A stop that failed is past none of them.                       *)
Closing == {"disposing", "pollers", "flush", "draining", "producer", "done"}
Disposed == Closing \ {"disposing"}
PollersGone == Disposed \ {"pollers"}
FlushGone == PollersGone \ {"flush"}
Drained == {"producer", "done"}

(* Whatever ticks belongs to a call of start.  Until stop clears it, every *)
(* poller of every call is known to the bus, and the flush timer of one.   *)
TimersKnown ==
    /\ \A t \in on \cup flushTimer : t[1] \in begun
    /\ \A r \in running : r[1][1] \in begun /\ r[2] <= last[r[1]]
    /\ stop \in {"none", "closing", "disposing", "pollers"} => pollers = begun \X Store
    /\ stop \notin FlushGone \cup {"failed"} /\ begun # {}
         => \E s \in begun : flushTimer = {<<s, Flush>>}
    /\ stop # "none" <=> stopped

(* What the teardown has stopped neither ticks nor will.                   *)
Orphan(t) == t[2] = Flush /\ \E s \in begun : s # t[1]
TimersStopped ==
    /\ stop \in Disposed => \A t \in on : t[2] = Flush
    /\ stop \in PollersGone => /\ \A t \in on : Orphan(t)
                               /\ \A r \in running : r[1][2] = Flush
    /\ stop \in FlushGone => \A r \in running : r[2] < last[r[1]] \/ Orphan(r[1])

(* Handlers run only if the consumer was once attached, and none begins    *)
(* once stop has been called.                                              *)
HandlersStopped ==
    /\ attached => created /\ stop = "none"
    /\ ~created => \A j \in Job : jobs[j] = "none"
    /\ stop \in Closing => \A d \in Delivery : ~Active(d)
    /\ stop \in Drained => \A x \in Stream : ~Active(x)
    /\ closed => stop = "done"
    /\ refused \subseteq Stream

(* The flags of the consumer against the broker's view of it.              *)
FlagsAgree ==
    /\ attached => connection = "ready" /\ consuming /\ ~cancelled
    /\ consuming /\ ~cancelled => attached \/ rejoining \/ stop # "none"
    /\ stop \in Disposed => connection = "closed"
    /\ connection = "closed" => stop # "none"

BusInv == BusTypeOK /\ TimersKnown /\ TimersStopped /\ HandlersStopped /\ FlagsAgree
-----------------------------------------------------------------------------
(* A non-empty set of bounded numbers has a largest one.                   *)
LEMMA LargestOf ==
    ASSUME NEW N \in Nat, NEW S, S \subseteq 0..N, S # {}
    PROVE  \E x \in S : \A y \in S : x >= y
<1> DEFINE T == {n \in Nat : n <= N /\ N - n \in S}
           R == OpToRel(<, Nat)
<1>1. \A x \in S : x \in Nat /\ x <= N
  OBVIOUS
<1>2. \A x \in S : N - x \in T
  <2>1. ASSUME NEW x \in S PROVE N - x \in Nat /\ N - (N - x) = x /\ N - x <= N
    BY <1>1
  <2>. QED
    BY <2>1
<1>3. T \subseteq Nat /\ T # {}
  BY <1>2
<1>4. IsWellFoundedOn(R, Nat)
  BY NatLessThanWellFounded
<1>5. \A a, b \in Nat : a < b => <<a, b>> \in R
  BY DEF OpToRel
<1>6. \A a \in T : a \in Nat /\ N - a \in S
  OBVIOUS
<1>. HIDE DEF T, R
<1>7. PICK a \in T : \A b \in T : ~ (<<b, a>> \in R)
  BY <1>3, <1>4, WFMin
<1>8. ASSUME NEW y \in S PROVE N - a >= y
  <2>1. N - y \in T /\ N - y \in Nat /\ a \in Nat
    BY <1>2, <1>3
  <2>2. ~ (N - y < a)
    BY ONLY <1>5, <1>7, <2>1
  <2>. QED
    BY <1>1, <2>1, <2>2
<1>. QED
  BY <1>6, <1>8

(* A tick that begins is younger than every tick there was.                *)
LEMMA TickIsNew ==
    ASSUME BusTypeOK, NEW t \in Timer, TickBegins(t)
    PROVE  \E n \in Tick : /\ t \in on /\ running' = running \cup {<<t, n>>}
                               /\ last' = [last EXCEPT ![t] = n]
                               /\ last[t] < n
<1> DEFINE S == {last[u] : u \in Timer}
<1>1. MaxTicks \in Nat /\ S \subseteq 0..MaxTicks /\ last[t] \in S
  BY LifecycleAssumption DEF BusTypeOK
<1>2. \E x \in S : \A y \in S : x >= y
  <2>. HIDE DEF S
  <2>. QED
    BY <1>1, LargestOf
<1>3. Max(S) \in S /\ \A y \in S : Max(S) >= y
  <2>. HIDE DEF S
  <2>. QED
    BY <1>2 DEF Max
<1>4. PICK m : m = Max(S)
  OBVIOUS
<1>5. m \in Nat /\ last[t] \in Nat /\ last[t] < 1 + m
  <2>1. m \in S /\ m >= last[t]
    BY <1>1, <1>3, <1>4
  <2>2. m \in 0..MaxTicks /\ last[t] \in 0..MaxTicks
    <3>. HIDE DEF S
    <3>. QED
      BY <1>1, <2>1
  <2>. QED
    BY ONLY <1>1, <2>1, <2>2
<1>6. /\ t \in on /\ 1 + m \in Tick /\ running' = running \cup {<<t, 1 + m>>}
      /\ last' = [last EXCEPT ![t] = 1 + m]
  BY <1>4 DEF TickBegins
<1>. QED
  BY ONLY <1>5, <1>6

(* All but these steps leave the timers and the teardown as they are.      *)
LEMMA BusSteps ==
    ASSUME [BusNext]_busVars
    PROVE  \/ \E s \in StartCall : StartBus(s)
           \/ \E t \in Timer : TickBegins(t)
           \/ \E r \in running : TickEnds(r)
           \/ StopBus \/ StopGoesOn \/ StopFails
           \/ UNCHANGED <<stopped, stop, closed, on, pollers, flushTimer, begun, running, last>>
<1>. USE DEF teardown, timers, ticks, busVars
<1>1. ASSUME NEW s \in StartCall, \/ StartStopped(s) \/ StartAgain(s)
                                  \/ Declared(s) \/ DeclareFails(s)
      PROVE  UNCHANGED <<stopped, stop, closed, on, pollers, flushTimer, begun, running, last>>
  BY <1>1 DEF StartStopped, StartAgain, Declared, DeclareFails
<1>2. ASSUME \/ Ready \/ SetupFails \/ BrokerCancels
             \/ Connects \/ ConnectionLost
      PROVE  UNCHANGED <<stopped, stop, closed, on, pollers, flushTimer, begun, running, last>>
  BY <1>2 DEF Ready, SetupFails, BrokerCancels, Connects, ConnectionLost
<1>3. ASSUME NEW j, \/ Delivered(j) \/ Asks(j) \/ Answered(j) \/ Chunk(j)
                    \/ JobGoesOn(j)
      PROVE  UNCHANGED <<stopped, stop, closed, on, pollers, flushTimer, begun, running, last>>
  BY <1>3 DEF Delivered, Asks, Answered, Chunk, JobGoesOn, TimesOut,
              AwaitsChunk, Ends, JobStep
<1>. QED
  BY <1>1, <1>2, <1>3 DEF BusNext

LEMMA NextTimersKnown ==
    ASSUME BusTypeOK, TimersKnown, [BusNext]_busVars
    PROVE  TimersKnown'
<1>. USE DEF TimersKnown, FlushGone, PollersGone, Disposed, Closing
<1>1. CASE UNCHANGED <<stopped, stop, closed, on, pollers, flushTimer, begun, running, last>>
  BY <1>1
<1>2. ASSUME NEW s \in StartCall, StartBus(s)
      PROVE  TimersKnown'
  <2>1. /\ ~stopped /\ UNCHANGED <<stopped, stop, running, last>>
        /\ on' = on \cup ({s} \X Kind) /\ pollers' = pollers \cup ({s} \X Store)
        /\ flushTimer' = {<<s, Flush>>} /\ begun' = begun \cup {s}
    BY <1>2 DEF StartBus, teardown, ticks
  <2>2. \A t \in on' \cup flushTimer' : t[1] \in begun'
    BY <2>1
  <2>3. pollers' = begun' \X Store
    BY <2>1
  <2>. QED
    BY <2>1, <2>2, <2>3
<1>3. ASSUME NEW t \in Timer, TickBegins(t)
      PROVE  TimersKnown'
  <2>1. PICK n \in Tick : /\ t \in on /\ running' = running \cup {<<t, n>>}
                              /\ last' = [last EXCEPT ![t] = n] /\ last[t] < n
    BY <1>3, TickIsNew
  <2>2. UNCHANGED <<stopped, stop, on, pollers, flushTimer, begun>>
    BY <1>3 DEF TickBegins, teardown, timers
  <2>3. \A u \in Timer : last'[u] = IF u = t THEN n ELSE last[u]
    BY <2>1 DEF BusTypeOK
  <2>4. n \in Nat /\ last[t] \in Nat
    BY DEF Tick, BusTypeOK
  <2>5. ASSUME NEW r \in running
        PROVE  r[1][1] \in begun' /\ r[2] <= last'[r[1]]
    <3>1. r[1] \in Timer /\ r[2] \in Nat /\ r[2] <= last[r[1]]
      BY DEF BusTypeOK, Tick
    <3>. QED
      BY <2>1, <2>2, <2>3, <2>4, <3>1
  <2>6. t[1] \in begun' /\ n <= last'[t]
    BY <2>1, <2>2, <2>3, <2>4
  <2>7. \A r \in running' : r[1][1] \in begun' /\ r[2] <= last'[r[1]]
    BY <2>1, <2>5, <2>6
  <2>. QED
    BY <2>2, <2>7
<1>4. ASSUME NEW r \in running, TickEnds(r)
      PROVE  TimersKnown'
  BY <1>4 DEF TickEnds, teardown, timers
<1>5. CASE StopBus
  BY <1>5 DEF StopBus, Teardown, ticks
<1>6. CASE StopGoesOn
  BY <1>6 DEF StopGoesOn, ConsumerCloses, ConnectionCloses, PollersStop,
     FlushStops, StreamsEnd, ProducerCloses, Teardown, ticks
<1>7. CASE StopFails
  BY <1>7 DEF StopFails, timers, ticks
<1>. QED
  BY <1>1, <1>2, <1>3, <1>4, <1>5, <1>6, <1>7, BusSteps

LEMMA NextTimersStopped ==
    ASSUME BusTypeOK, TimersKnown, TimersStopped,
           [BusNext]_busVars
    PROVE  TimersStopped'
<1>. USE DEF TimersStopped, FlushGone, PollersGone, Disposed, Closing, Orphan
<1>1. CASE UNCHANGED <<stopped, stop, closed, on, pollers, flushTimer, begun, running, last>>
  BY <1>1
<1>2. ASSUME NEW s \in StartCall, StartBus(s)
      PROVE  TimersStopped'
  <2>1. stop' = "none"
    BY <1>2 DEF TimersKnown, StartBus, teardown
  <2>. QED
    BY <2>1
<1>3. ASSUME NEW t \in Timer, TickBegins(t)
      PROVE  TimersStopped'
  <2>1. PICK n \in Tick : /\ t \in on /\ running' = running \cup {<<t, n>>}
                              /\ last' = [last EXCEPT ![t] = n] /\ last[t] < n
    BY <1>3, TickIsNew
  <2>2. UNCHANGED <<stop, on, begun>>
    BY <1>3 DEF TickBegins, teardown, timers
  <2>3. \A u \in Timer : last'[u] = IF u = t THEN n ELSE last[u]
    BY <2>1 DEF BusTypeOK
  <2>4. n \in Nat /\ last[t] \in Nat
    BY DEF Tick, BusTypeOK
  <2>5. ASSUME NEW r \in running, r[2] < last[r[1]]
        PROVE  r[2] < last'[r[1]]
    <3>1. r[1] \in Timer /\ r[2] \in Nat
      BY DEF BusTypeOK, Tick
    <3>. QED
      BY <2>1, <2>3, <2>4, <2>5, <3>1
  <2>6. stop \in FlushGone => Orphan(t)
    BY <2>1
  <2>. QED
    BY <2>1, <2>2, <2>5, <2>6
<1>4. ASSUME NEW r \in running, TickEnds(r)
      PROVE  TimersStopped'
  BY <1>4 DEF TickEnds, teardown, timers
<1>5. CASE StopBus
  BY <1>5 DEF StopBus, Teardown
<1>6. CASE StopFails
  BY <1>6 DEF StopFails
<1>7. CASE ConsumerCloses \/ StreamsEnd \/ ProducerCloses
  BY <1>7 DEF ConsumerCloses, StreamsEnd, ProducerCloses, Teardown, ticks
<1>8. CASE ConnectionCloses
  <2>1. /\ stop = "disposing" /\ stop' = "pollers" /\ on' = on \ pollers
        /\ pollers = begun \X Store
    BY <1>8 DEF TimersKnown, ConnectionCloses, Teardown
  <2>2. \A t \in on : t = <<t[1], t[2]>> /\ t[1] \in begun /\ (t[2] \in Store \/ t[2] = Flush)
    BY DEF TimersKnown, BusTypeOK, Timer, Kind
  <2>3. \A t \in on : t[2] \in Store => t \in pollers
    BY <2>1, <2>2
  <2>. QED
    BY <2>1, <2>2, <2>3
<1>9. CASE PollersStop
  <2>1. /\ stop = "pollers" /\ stop' = "flush" /\ on' = on \ flushTimer
        /\ \A r \in running : r[1] \notin begun \X Store
        /\ UNCHANGED <<begun, running, last>>
    BY <1>9 DEF TimersKnown, PollersStop, Teardown, ticks
  <2>2. \A r \in running : r[1][2] = Flush
    <3>1. \A r \in running : /\ r[1] = <<r[1][1], r[1][2]>> /\ r[1][1] \in begun
                             /\ r[1][2] \in Store \/ r[1][2] = Flush
      BY DEF TimersKnown, BusTypeOK, Timer, Kind
    <3>. QED
      BY <2>1, <3>1
  <2>3. ASSUME NEW t \in on' PROVE Orphan(t)
    <3>1. t \in on /\ t \in Timer /\ t[2] = Flush /\ t[1] \in begun /\ t = <<t[1], Flush>>
      BY <2>1 DEF TimersKnown, BusTypeOK, Timer
    <3>2. PICK s \in begun : flushTimer = {<<s, Flush>>}
      BY <2>1, <3>1 DEF TimersKnown
    <3>3. s # t[1]
      BY <2>1, <3>1, <3>2
    <3>. QED
      BY <3>1, <3>3
  <2>. QED
    BY <2>1, <2>2, <2>3
<1>10. CASE FlushStops
  <2>1. /\ stop = "flush" /\ stop' = "draining"
        /\ \A t \in flushTimer : <<t, last[t]>> \notin running
        /\ UNCHANGED <<on, begun, running, last>>
    BY <1>10 DEF FlushStops, Teardown, ticks
  <2>2. ASSUME NEW r \in running PROVE r[2] < last[r[1]] \/ Orphan(r[1])
    <3>1. /\ r[1] \in Timer /\ r[1][2] = Flush /\ r[1][1] \in begun
          /\ r[1] = <<r[1][1], Flush>> /\ r = <<r[1], r[2]>>
          /\ r[2] \in Nat /\ last[r[1]] \in Nat /\ r[2] <= last[r[1]]
      BY <2>1 DEF TimersKnown, BusTypeOK, Timer, Tick
    <3>2. PICK s \in begun : flushTimer = {<<s, Flush>>}
      BY <2>1, <3>1 DEF TimersKnown
    <3>3. CASE s = r[1][1]
      <4>1. r[1] \in flushTimer
        BY <3>1, <3>2, <3>3
      <4>2. r[2] # last[r[1]]
        BY <2>1, <3>1, <4>1
      <4>. QED
        BY ONLY <3>1, <4>2
    <3>4. CASE s # r[1][1]
      BY <3>1, <3>4
    <3>. QED
      BY <3>3, <3>4
  <2>. QED
    BY <2>1, <2>2
<1>. QED
  BY <1>1, <1>2, <1>3, <1>4, <1>5, <1>6, <1>7, <1>8, <1>9, <1>10, BusSteps DEF StopGoesOn
-----------------------------------------------------------------------------
(* A handler goes on, or a step is not about handlers.                     *)
LEMMA HandlerSteps ==
    ASSUME [BusNext]_busVars
    PROVE  \/ \E j \in Job, h \in Handlers \ {"none"} :
                /\ jobs' = [jobs EXCEPT ![j] = h]
                /\ Active(j) \/ attached
                /\ UNCHANGED <<stop, closed, created, attached, refused>>
           \/ StopBus \/ StopGoesOn \/ StopFails
           \/ /\ UNCHANGED <<stop, closed, jobs, refused>>
              /\ created => created'
              /\ attached' => attached \/ (created /\ stop = "none")
<1>1. ASSUME NEW j \in Job,
             \/ Delivered(j) \/ Asks(j) \/ Answered(j) \/ Chunk(j)
             \/ JobGoesOn(j)
      PROVE  \E h \in Handlers \ {"none"} :
                /\ jobs' = [jobs EXCEPT ![j] = h]
                /\ Active(j) \/ attached
                /\ UNCHANGED <<stop, closed, created, attached, refused>>
  <2>1. PICK h : h \in {"running", "asking", "waiting", "done"} /\ JobStep(j, h)
                 /\ (Active(j) \/ attached)
    BY <1>1 DEF Delivered, Asks, Answered, Chunk, JobGoesOn, TimesOut,
                AwaitsChunk, Ends, Active
  <2>. QED
    BY <2>1 DEF JobStep, JobGoes, teardown, flags, link, Handlers
<1> DEFINE Quiet == /\ UNCHANGED <<stop, closed, jobs, refused>>
                    /\ created => created'
                    /\ attached' => attached \/ (created /\ stop = "none")
<1>. USE DEF teardown, flags, link, work
<1>2. ASSUME NEW s \in StartCall,
             \/ StartStopped(s) \/ StartAgain(s) \/ StartBus(s)
             \/ Declared(s) \/ DeclareFails(s)
      PROVE  Quiet
  BY <1>2 DEF StartStopped, StartAgain, StartBus, Declared, DeclareFails
<1>3. ASSUME \/ Ready \/ SetupFails \/ BrokerCancels \/ Connects
             \/ ConnectionLost
      PROVE  Quiet
  BY <1>3 DEF Ready, SetupFails, BrokerCancels, Connects, ConnectionLost,
     Joining
<1>4. ASSUME NEW t, TickBegins(t) \/ TickEnds(t)
      PROVE  Quiet
  BY <1>4 DEF TickBegins, TickEnds
<1>5. ASSUME UNCHANGED busVars
      PROVE  Quiet
  BY <1>5 DEF busVars
<1>. HIDE DEF Quiet
<1>6. \/ \E j \in Job, h \in Handlers \ {"none"} :
            /\ jobs' = [jobs EXCEPT ![j] = h]
            /\ Active(j) \/ attached
            /\ UNCHANGED <<stop, closed, created, attached, refused>>
      \/ StopBus \/ StopGoesOn \/ StopFails \/ Quiet
  <2>1. CASE BusNext
    BY ONLY <1>1, <1>2, <1>3, <1>4, <2>1 DEF BusNext
  <2>2. BusNext \/ UNCHANGED busVars
    OBVIOUS
  <2>. QED
    BY ONLY <1>5, <2>1, <2>2
<1>. QED
  BY <1>6 DEF Quiet

LEMMA NextHandlersStopped ==
    ASSUME BusTypeOK, HandlersStopped, [BusNext]_busVars
    PROVE  HandlersStopped'
<1>. USE DEF HandlersStopped, Closing, Drained, Active
<1>1. ASSUME NEW j \in Job, NEW h \in Handlers \ {"none"}, jobs' = [jobs EXCEPT ![j] = h],
             Active(j) \/ attached, UNCHANGED <<stop, closed, created, attached, refused>>
      PROVE  HandlersStopped'
  <2>1. created /\ (stop \in Closing => j \notin Delivery) /\ (stop \in Drained => j \notin Stream)
    BY <1>1
  <2>2. \A k \in Job \ {j} : jobs'[k] = jobs[k]
    BY <1>1 DEF BusTypeOK
  <2>3. Delivery \subseteq Job /\ Stream \subseteq Job
    BY DEF Job
  <2>. QED
    BY <1>1, <2>1, <2>2, <2>3
<1>2. CASE StopBus
  <2>1. /\ stop = "none" /\ stop' = IF created THEN "closing" ELSE "disposing"
        /\ attached' = FALSE /\ UNCHANGED <<closed, created, jobs, refused>>
    BY <1>2 DEF StopBus, Teardown, work
  <2>2. Delivery \subseteq Job
    BY DEF Job
  <2>. QED
    BY <2>1, <2>2
<1>3. CASE StopFails
  BY <1>3 DEF StopFails, flags, link, work
<1>4. CASE FlushStops
  <2>1. /\ stop = "flush" /\ stop' = "draining" /\ UNCHANGED <<closed, created, attached>>
        /\ jobs' = [j \in Job |-> IF jobs[j] = "asking" THEN "running" ELSE jobs[j]]
        /\ refused' = refused \cup {j \in Job : jobs[j] = "asking"}
    BY <1>4 DEF FlushStops, Teardown
  <2>2. Job = Delivery \cup Stream
    BY DEF Job
  <2>3. \A j \in Job : jobs[j] = "asking" => j \in Stream
    BY <2>1, <2>2
  <2>. QED
    BY <2>1, <2>2, <2>3
<1>5. CASE ConsumerCloses \/ ConnectionCloses \/ PollersStop \/ StreamsEnd
           \/ ProducerCloses
  BY <1>5 DEF ConsumerCloses, ConnectionCloses, PollersStop, StreamsEnd,
     ProducerCloses, Teardown, work
<1>6. ASSUME UNCHANGED <<stop, closed, jobs, refused>>, created => created',
             attached' => attached \/ (created /\ stop = "none")
      PROVE  HandlersStopped'
  BY <1>6
<1>. QED
  BY <1>1, <1>2, <1>3, <1>4, <1>5, <1>6, HandlerSteps DEF StopGoesOn
-----------------------------------------------------------------------------
LEMMA FaultIsBounded ==
    ASSUME BusTypeOK, Fault
    PROVE  faults' \in 0..MaxFaults
BY LifecycleAssumption DEF BusTypeOK, Fault

LEMMA NextBusTypeOK ==
    ASSUME BusTypeOK, [BusNext]_busVars
    PROVE  BusTypeOK'
<1>. USE DEF BusTypeOK, calls, teardown, timers, ticks, flags, link,
     work, Stages, Connections, Teardowns
<1>1. ASSUME NEW s \in StartCall,
             \/ StartStopped(s) \/ StartAgain(s)
             \/ Declared(s) \/ DeclareFails(s)
      PROVE  BusTypeOK'
  <2>1. starts' \in [StartCall -> Stages]
    BY <1>1 DEF StartStopped, StartAgain, Declared, DeclareFails, StartGoes
  <2>2. faults' \in 0..MaxFaults
    <3>1. CASE DeclareFails(s)
      <4>1. UNCHANGED faults \/ Fault
        BY <3>1 DEF DeclareFails
      <4>. QED
        BY <4>1, FaultIsBounded
    <3>. QED
      BY <1>1, <3>1 DEF StartStopped, StartAgain, Declared
  <2>3. CASE DeclareFails(s)
    BY <2>1, <2>2, <2>3 DEF DeclareFails
  <2>4. CASE Declared(s)
    BY <2>1, <2>2, <2>4 DEF Declared
  <2>5. CASE StartStopped(s) \/ StartAgain(s)
    BY <2>1, <2>2, <2>5 DEF StartStopped, StartAgain
  <2>. QED
    BY <1>1, <2>3, <2>4, <2>5
<1>2. ASSUME NEW s \in StartCall, StartBus(s)
      PROVE  BusTypeOK'
  <2>1. {s} \X Store \subseteq Timer /\ {s} \X Kind \subseteq Timer
        /\ <<s, Flush>> \in Timer
    BY DEF Timer, Kind
  <2>2. starts' \in [StartCall -> Stages] /\ entered' \in BOOLEAN
    BY <1>2 DEF StartBus, StartGoes
  <2>. QED
    BY <1>2, <2>1, <2>2 DEF StartBus
<1>3. ASSUME \/ Ready \/ SetupFails \/ BrokerCancels
             \/ Connects \/ ConnectionLost
      PROVE  BusTypeOK'
  <2>. USE DEF Ready, SetupFails, BrokerCancels, Connects, ConnectionLost,
           ErrorEvent
  <2>1. faults' \in 0..MaxFaults
    <3>1. UNCHANGED faults \/ Fault
      BY <1>3
    <3>. QED
      BY <3>1, FaultIsBounded
  <2>2. starts' \in [StartCall -> Stages]
    <3>1. \A P, stage : stage \in Stages =>
            [s \in StartCall |-> IF s \in P THEN stage ELSE starts[s]] \in [StartCall -> Stages]
      OBVIOUS
    <3>2. UNCHANGED starts \/ \E stage \in {"resolved", "rejected"} :
            starts' = [s \in StartCall |-> IF s \in Waiting THEN stage ELSE starts[s]]
      BY <1>3
    <3>. QED
      BY <3>1, <3>2
  <2>3. /\ started' \in BOOLEAN /\ attached' \in BOOLEAN /\ connection' \in Connections
        /\ consuming' \in BOOLEAN /\ cancelled' \in BOOLEAN
    BY <1>3
  <2>4. rejoining' \in BOOLEAN
    <3>1. (rejoining \/ attached) \in BOOLEAN
      OBVIOUS
    <3>. QED
      BY <1>3, <3>1
  <2>5. UNCHANGED <<stopped, closed, stop, on, pollers, flushTimer, begun, running, last, entered,
                    created, jobs, refused>>
    BY <1>3
  <2>. QED
    BY <2>1, <2>2, <2>3, <2>4, <2>5
<1>4. ASSUME NEW j \in Job,
             \/ Delivered(j) \/ Asks(j) \/ Answered(j) \/ Chunk(j)
             \/ JobGoesOn(j)
      PROVE  BusTypeOK'
  <2>1. PICK h \in Handlers : JobStep(j, h)
    BY <1>4 DEF Delivered, Asks, Answered, Chunk, JobGoesOn, TimesOut,
                AwaitsChunk, Ends, Handlers
  <2>. QED
    BY <2>1 DEF JobStep, JobGoes
<1>5. ASSUME NEW t \in Timer, TickBegins(t)
      PROVE  BusTypeOK'
  <2>1. PICK n \in Tick : running' = running \cup {<<t, n>>}
                              /\ last' = [last EXCEPT ![t] = n]
    BY <1>5, TickIsNew
  <2>2. last' \in [Timer -> 0..MaxTicks]
    BY <2>1, LifecycleAssumption DEF Tick
  <2>. QED
    BY <1>5, <2>1, <2>2 DEF TickBegins
<1>6. ASSUME NEW r \in running, TickEnds(r)
      PROVE  BusTypeOK'
  BY <1>6 DEF TickEnds
<1>7. CASE StopBus \/ StopFails
  <2>1. CASE StopBus
    BY <2>1 DEF StopBus, Teardown
  <2>2. CASE StopFails
    BY <2>2, FaultIsBounded DEF StopFails
  <2>. QED
    BY <1>7, <2>1, <2>2
<1>8. CASE FlushStops
  <2>1. jobs' \in [Job -> Handlers]
    BY <1>8 DEF FlushStops, Handlers
  <2>. QED
    BY <1>8, <2>1 DEF FlushStops, Teardown
<1>9. CASE ConsumerCloses \/ ConnectionCloses \/ PollersStop \/ StreamsEnd
           \/ ProducerCloses
  <2>1. CASE ConsumerCloses \/ StreamsEnd
    BY <2>1 DEF ConsumerCloses, StreamsEnd, Teardown
  <2>2. CASE ConnectionCloses \/ PollersStop
    BY <2>2 DEF ConnectionCloses, PollersStop, Teardown
  <2>3. CASE ProducerCloses
    BY <2>3 DEF ProducerCloses, Teardown
  <2>. QED
    BY <1>9, <2>1, <2>2, <2>3
<1>10. CASE UNCHANGED busVars
  BY <1>10 DEF busVars
<1>. HIDE DEF BusTypeOK
<1>11. CASE BusNext
  <2>1. \A r \in running : TickEnds(r) => BusTypeOK'
    BY <1>6
  <2>. QED
    BY ONLY <1>1, <1>2, <1>3, <1>4, <1>5, <2>1, <1>7, <1>8, <1>9, <1>11
       DEF BusNext, StopGoesOn
<1>12. BusNext \/ UNCHANGED busVars
  OBVIOUS
<1>. QED
  BY ONLY <1>10, <1>11, <1>12
-----------------------------------------------------------------------------
(* The steps that move a flag, the connection or the broker's view of it.  *)
LEMMA NextFlagsAgree ==
    ASSUME BusTypeOK, HandlersStopped, FlagsAgree,
           [BusNext]_busVars
    PROVE  FlagsAgree'
<1>. USE DEF HandlersStopped, FlagsAgree, Disposed, Closing, flags, link, teardown
<1>1. ASSUME NEW s \in StartCall,
             \/ StartStopped(s) \/ StartAgain(s) \/ StartBus(s)
             \/ Declared(s) \/ DeclareFails(s)
      PROVE  UNCHANGED <<stop, consuming, cancelled, connection, attached, rejoining>>
  BY <1>1 DEF StartStopped, StartAgain, StartBus, Declared, DeclareFails
<1>2. ASSUME NEW j,
             \/ Delivered(j) \/ Asks(j) \/ Answered(j) \/ Chunk(j)
             \/ JobGoesOn(j) \/ TickBegins(j) \/ TickEnds(j)
      PROVE  UNCHANGED <<stop, consuming, cancelled, connection, attached, rejoining>>
  BY <1>2 DEF Delivered, Asks, Answered, Chunk, JobGoesOn, TimesOut,
              AwaitsChunk, Ends, JobStep, TickBegins, TickEnds
<1>3. CASE UNCHANGED busVars
  BY <1>3 DEF busVars
<1>4. CASE UNCHANGED <<stop, consuming, cancelled, connection, attached, rejoining>>
  BY <1>4
<1>5. CASE Ready
  BY <1>5 DEF Ready, Joining
<1>6. CASE SetupFails
  BY <1>6 DEF SetupFails, Joining, ErrorEvent
<1>7. CASE BrokerCancels
  BY <1>7 DEF BrokerCancels, ErrorEvent
<1>8. CASE Connects
  BY <1>8 DEF Connects
<1>8b. CASE ConnectionLost
  <2>1. rejoining' <=> rejoining \/ attached
    BY <1>8b DEF ConnectionLost, BusTypeOK
  <2>. QED
    BY <1>8b, <2>1 DEF ConnectionLost
<1>9. CASE StopBus \/ StopFails
  BY <1>9 DEF StopBus, StopFails, Teardown
<1>10. CASE ConsumerCloses \/ ConnectionCloses \/ PollersStop
            \/ FlushStops \/ StreamsEnd \/ ProducerCloses
  BY <1>10 DEF ConsumerCloses, ConnectionCloses, PollersStop, FlushStops,
     StreamsEnd, ProducerCloses, Teardown
<1>. HIDE DEF FlagsAgree
<1>11. CASE BusNext
  BY ONLY <1>1, <1>2, <1>4, <1>5, <1>6, <1>7, <1>8, <1>8b, <1>9, <1>10, <1>11
     DEF BusNext, StopGoesOn
<1>12. BusNext \/ UNCHANGED busVars
  OBVIOUS
<1>. QED
  BY ONLY <1>3, <1>11, <1>12
-----------------------------------------------------------------------------
LEMMA InitBusInv == BusInit => BusInv
<1>. SUFFICES ASSUME BusInit PROVE BusInv
  OBVIOUS
<1>. USE LifecycleAssumption DEF BusInit
<1>1. BusTypeOK
  <2>1. last \in [Timer -> 0..MaxTicks] /\ faults \in 0..MaxFaults
    OBVIOUS
  <2>. QED
    BY <2>1 DEF BusTypeOK, Stages, Connections, Handlers, Teardowns
<1>2. TimersKnown
  BY DEF TimersKnown, FlushGone, PollersGone, Disposed, Closing
<1>3. TimersStopped
  BY DEF TimersStopped
<1>4. HandlersStopped
  BY DEF HandlersStopped, Closing, Drained
<1>5. FlagsAgree
  BY DEF FlagsAgree, Disposed, Closing
<1>. QED
  BY <1>1, <1>2, <1>3, <1>4, <1>5 DEF BusInv

LEMMA NextBusInv == BusInv /\ [BusNext]_busVars => BusInv'
BY NextBusTypeOK, NextTimersKnown, NextTimersStopped, NextHandlersStopped, NextFlagsAgree
   DEF BusInv

LEMMA BusInvariant == BusSpec => []BusInv
BY InitBusInv, NextBusInv, PTL DEF BusSpec

(* Every variable of start and stop has the values the model says.         *)
THEOREM BusTypeCorrect == BusSpec => []BusTypeOK
<1>1. BusInv => BusTypeOK
  BY DEF BusInv
<1>. QED
  BY <1>1, BusInvariant, PTL

(* A stop that has returned leaves nothing behind that runs, except for a  *)
(* flush timer the bus has lost sight of and a slow tick of the other.     *)
THEOREM BusNothingRunsAfterStop == BusSpec => []NothingRunsAfterStop
<1>1. BusInv => NothingRunsAfterStop
  <2>. SUFFICES ASSUME BusInv, stop = "done" PROVE NothingRunsAfterStop
    BY DEF NothingRunsAfterStop
  <2>1. ~attached /\ \A j \in Job : ~Active(j)
    BY DEF BusInv, HandlersStopped, Closing, Drained, Job
  <2>2. /\ \A t \in on : Orphan(t)
        /\ \A r \in running : r[1][2] = Flush /\ (r[2] < last[r[1]] \/ Orphan(r[1]))
    BY DEF BusInv, TimersStopped, FlushGone, PollersGone, Disposed, Closing
  <2>. QED
    BY <2>1, <2>2 DEF Orphan, NothingRunsAfterStop
<1>. QED
  BY <1>1, BusInvariant, PTL

(* No handler of a message and no poller is left when stop rejects what is *)
(* pending or closes the producer, and no handler of a stream for the      *)
(* latter.                                                                 *)
THEOREM BusTornDownInOrder == BusSpec => []TornDownInOrder
<1>1. BusInv => TornDownInOrder
  BY DEF BusInv, HandlersStopped, TimersStopped, FlushGone, PollersGone, Disposed, Closing,
     Drained, TornDownInOrder
<1>. QED
  BY <1>1, BusInvariant, PTL

(* What the health check says of the consumer is so.                       *)
THEOREM BusHealthIsTruthful == BusSpec => []HealthIsTruthful
<1>1. BusInv => HealthIsTruthful
  <2>. SUFFICES ASSUME BusInv PROVE HealthIsTruthful
    OBVIOUS
  <2>1. ConsumerConnectivity = "healthy"
          <=> connection = "ready" /\ consuming /\ ~cancelled
    BY DEF BusInv, BusTypeOK, ConsumerConnectivity, IsConnected
  <2>2. stop \in Teardowns
    BY DEF BusInv, BusTypeOK
  <2>. QED
    BY <2>1, <2>2 DEF BusInv, FlagsAgree, HandlersStopped, Disposed, Closing, Teardowns,
       HealthIsTruthful
<1>. QED
  BY <1>1, BusInvariant, PTL
=============================================================================
