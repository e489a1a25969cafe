---------------------------- MODULE PublishProofs ----------------------------
(***************************************************************************)
(* Proofs about Publish, for any type hierarchy, hosts, registrations,     *)
(* attempts and faults.  Both loops keep what they have visited within the *)
(* ancestors of the type, and the parents of what they have visited within *)
(* what they have visited or still have to: when nothing is left the       *)
(* visited types are closed, so that they are the ancestors.               *)
(***************************************************************************)
EXTENDS Publish, TLAPS

Anc(r) == Ancestors(r.type, Parents)
Injective(s) == \A a, b \in DOMAIN s : s[a] = s[b] => a = b

(* What holds of the locals of any call, and of those of a publish.        *)
CallOK(r) ==
    /\ r \in CallRecord
    /\ r.next \in 1..Len(r.out) + 1
    /\ r.errors \subseteq 1..r.next - 1
    /\ r.stage \in {"declare", "send"} => r.next <= Len(r.out)
    /\ r.stage \in {"outgoing", "closure"} => r.next = 1
    /\ r.stage = "resolved" => r.next = Len(r.out) + 1 /\ r.errors = {}
MultiOK(r) ==
    r.multi => /\ r.out # <<>> /\ r.stage \notin {"closure", "declare"}
               /\ r.stage = "rejected" /\ r.errors # {} => r.next = Len(r.out) + 1
Visiting(r) == Range(r.out) \cup Range(r.stack)
PublishOK(r) ==
    ~r.multi =>
        /\ Injective(r.out) /\ Range(r.out) \subseteq Anc(r)
        /\ r.stage # "rejected" => r.errors = {}
        /\ r.stage = "outgoing" => r.out = <<>>
        /\ r.stage = "closure" =>
             /\ r.type \in Visiting(r) /\ Visiting(r) \subseteq Anc(r)
             /\ \A u \in Range(r.out) : Range(Parents[u]) \subseteq Visiting(r)
        /\ r.stage \in {"declare", "send", "resolved"} => Range(r.out) = Anc(r)
Good(r) == CallOK(r) /\ MultiOK(r) /\ PublishOK(r)

CallsGood == \A c \in Call : calls[c] # Unused => Good(calls[c])

(* The copies there are, and those there must be.                          *)
CopyOK(x) ==
    LET r == calls[x[1]] IN
    /\ r # Unused /\ x[2] \in DOMAIN r.out
    /\ x[1] \notin doubtful => x[2] < r.next
    /\ <<r.out[x[2]], x[4]>> \in bindings
CopiesOK == \A x \in copies : CopyOK(x)
NoDuplicates ==
    \A x, y \in copies : x[1] \notin doubtful /\ y[1] = x[1] /\ y[2] = x[2] /\ y[4] = x[4] => y = x
Served(c, i, h) == \E x \in copies : x[1] = c /\ x[2] = i /\ x[4] = h
Reached(c) ==
    \A i \in (1..calls[c].next - 1) \ calls[c].errors, h \in Host :
        <<calls[c].out[i], h>> \in since[c] => Served(c, i, h)
AllReached == \A c \in Call : calls[c] # Unused => Reached(c)

(* Hosts: what they bind they consume.                                     *)
Consumes(h, t) == Registrations[h][t] # <<>> \/ t \in Others[h]
BindingsOK ==
    /\ \A c \in Call : since[c] \subseteq bindings
    /\ \A t \in Type, h \in Host : <<t, h>> \in bindings => Consumes(h, t)
    /\ \A h \in Host : /\ \A t \in hosts[h].bind : Consumes(h, t)
                       /\ hosts[h].at = "off" => registry[h] = Registrations[h]

(* The walk of handlersFor.                                                *)
AncAt(h, t) == Ancestors(t, ParentsAt[h])
TypeOf(j) == calls[j.copy[1]].type
WalkOK(h, j) ==
    LET types == j.visited \cup (Range(j.todo) \cap Type)
        found == Range(j.resolved) \cup (Range(j.todo) \cap Handler)
    IN  /\ TypeOf(j) \in types /\ types \subseteq AncAt(h, TypeOf(j))
        /\ \A u \in j.visited : Range(ParentsAt[h][u]) \subseteq types
        /\ found = UNION {Range(registry[h][u]) : u \in j.visited}
        /\ Injective(j.resolved)
WalksOK == \A h \in Host : jobs[h] # Idle => jobs[h].copy \in copies /\ WalkOK(h, jobs[h])

IInv == /\ TypeOK /\ MemoIsTrue /\ CallsGood /\ CopiesOK /\ NoDuplicates
        /\ AllReached /\ BindingsOK /\ WalksOK
-----------------------------------------------------------------------------
(* Constants.                                                              *)
LEMMA Constants ==
    /\ Parents \in [Type -> Seq(Type)]
    /\ ParentsAt \in [Host -> [Type -> Seq(Type)]]
    /\ Known \in [Host -> SUBSET Type]
    /\ Registrations \in [Host -> [Type -> Seq(Handler)]]
    /\ Others \in [Host -> SUBSET Type]
    /\ Published \subseteq Type /\ Sent \subseteq Type
    /\ Endpoints \subseteq Seq(Host \cup Absent) \ {<<>>}
    /\ MaxAttempts \in Nat \ {0} /\ MaxFaults \in Nat /\ MaxChanges \in Nat
    /\ Type \cap Handler = {} /\ Type \cap Host = {} /\ Type \cap Absent = {}
  BY PublishAssumption DEF PublishAssumption

(* Sequences as sets.                                                      *)
LEMMA RangeTyped ==
    ASSUME NEW S, NEW s \in Seq(S)
    PROVE  Range(s) \subseteq S
  BY DEF Range

LEMMA RangeAppend ==
    ASSUME NEW S, NEW s \in Seq(S), NEW e \in S
    PROVE  Range(Append(s, e)) = Range(s) \cup {e}
  <1>1. Append(s, e) \in Seq(S) /\ Len(Append(s, e)) = Len(s) + 1 /\ Len(s) \in Nat
    OBVIOUS
  <1>2. \A i \in 1..Len(s) : Append(s, e)[i] = s[i]
    OBVIOUS
  <1>3. Append(s, e)[Len(s) + 1] = e
    OBVIOUS
  <1>4. DOMAIN s = 1..Len(s) /\ DOMAIN Append(s, e) = 1..Len(s) + 1
    OBVIOUS
  <1>5. Range(s) \cup {e} \subseteq Range(Append(s, e))
    BY <1>1, <1>2, <1>3, <1>4 DEF Range
  <1>6. Range(Append(s, e)) \subseteq Range(s) \cup {e}
    BY <1>1, <1>2, <1>3, <1>4 DEF Range
  <1> QED
    BY <1>5, <1>6

LEMMA RangeConcat ==
    ASSUME NEW S, NEW s \in Seq(S), NEW t \in Seq(S)
    PROVE  s \o t \in Seq(S) /\ Range(s \o t) = Range(s) \cup Range(t)
  <1>1. s \o t \in Seq(S) /\ Len(s \o t) = Len(s) + Len(t) /\ Len(s) \in Nat /\ Len(t) \in Nat
    OBVIOUS
  <1>2. \A i \in 1..Len(s) : (s \o t)[i] = s[i]
    OBVIOUS
  <1>3. \A i \in 1..Len(t) : (s \o t)[Len(s) + i] = t[i]
    OBVIOUS
  <1>4. DOMAIN s = 1..Len(s) /\ DOMAIN t = 1..Len(t) /\ DOMAIN (s \o t) = 1..Len(s) + Len(t)
    OBVIOUS
  <1>5. Range(s) \subseteq Range(s \o t)
    BY <1>1, <1>2, <1>4 DEF Range
  <1>6. Range(t) \subseteq Range(s \o t)
    <2>1. \A i \in 1..Len(t) : Len(s) + i \in 1..Len(s) + Len(t)
      BY <1>1
    <2> QED
      BY <2>1, <1>3, <1>4 DEF Range
  <1>7. Range(s \o t) \subseteq Range(s) \cup Range(t)
    <2> SUFFICES ASSUME NEW i \in 1..Len(s) + Len(t)
                 PROVE  (s \o t)[i] \in Range(s) \cup Range(t)
      BY <1>4 DEF Range
    <2>1. CASE i <= Len(s)
      BY <2>1, <1>1, <1>2, <1>4 DEF Range
    <2>2. CASE i > Len(s)
      <3>1. i - Len(s) \in 1..Len(t) /\ i = Len(s) + (i - Len(s))
        BY <2>2, <1>1
      <3> QED
        BY <3>1, <1>3, <1>4 DEF Range
    <2> QED
      BY <2>1, <2>2, <1>1
  <1> QED
    BY <1>1, <1>5, <1>6, <1>7

LEMMA RangeHeadTail ==
    ASSUME NEW S, NEW s \in Seq(S), s # <<>>
    PROVE  /\ Head(s) \in S /\ Tail(s) \in Seq(S)
           /\ Range(s) = {Head(s)} \cup Range(Tail(s))
  <1>1. Head(s) \in S /\ Tail(s) \in Seq(S) /\ Len(s) \in Nat \ {0} /\ Len(Tail(s)) = Len(s) - 1
    OBVIOUS
  <1>2. \A i \in 1..Len(s) - 1 : Tail(s)[i] = s[i + 1]
    OBVIOUS
  <1>3. Head(s) = s[1] /\ DOMAIN s = 1..Len(s) /\ DOMAIN Tail(s) = 1..Len(s) - 1
    BY <1>1
  <1>4. \A i \in 1..Len(s) - 1 : i + 1 \in 1..Len(s)
    BY <1>1
  <1>5. {Head(s)} \cup Range(Tail(s)) \subseteq Range(s)
    BY <1>1, <1>2, <1>3, <1>4 DEF Range
  <1>6. Range(s) \subseteq {Head(s)} \cup Range(Tail(s))
    <2> SUFFICES ASSUME NEW i \in 1..Len(s), i # 1
                 PROVE  s[i] \in Range(Tail(s))
      BY <1>3 DEF Range
    <2>1. i - 1 \in 1..Len(s) - 1 /\ (i - 1) + 1 = i
      BY <1>1
    <2> QED
      BY <2>1, <1>2, <1>3 DEF Range
  <1> QED
    BY <1>1, <1>5, <1>6

LEMMA BeforeLast ==
    ASSUME NEW n \in Nat, NEW i \in 1..n, i # n
    PROVE  i \in 1..n - 1
  OBVIOUS

LEMMA RangeLastFront ==
    ASSUME NEW S, NEW s \in Seq(S), s # <<>>
    PROVE  LET front == SubSeq(s, 1, Len(s) - 1) IN
           /\ s[Len(s)] \in S /\ front \in Seq(S)
           /\ Range(s) = {s[Len(s)]} \cup Range(front)
  <1> DEFINE front == SubSeq(s, 1, Len(s) - 1)
  <1>1. s[Len(s)] \in S /\ Len(s) \in Nat \ {0} /\ DOMAIN s = 1..Len(s)
    OBVIOUS
  <1>2. front \in Seq(S) /\ Len(front) = Len(s) - 1 /\ DOMAIN front = 1..Len(s) - 1
    BY <1>1
  <1>3. \A i \in 1..Len(s) - 1 : front[i] = s[i] /\ i \in 1..Len(s)
    BY <1>1
  <1> HIDE DEF front
  <1>4. {s[Len(s)]} \cup Range(front) \subseteq Range(s)
    BY <1>1, <1>2, <1>3 DEF Range
  <1>5. Range(s) \subseteq {s[Len(s)]} \cup Range(front)
    <2> SUFFICES ASSUME NEW i \in 1..Len(s), i # Len(s)
                 PROVE  s[i] \in Range(front)
      BY <1>1 DEF Range
    <2>1. Len(s) \in Nat
      BY <1>1
    <2>2. i \in 1..Len(s) - 1
      BY ONLY <2>1, BeforeLast, i \in 1..Len(s), i # Len(s)
    <2> QED
      BY <2>2, <1>2, <1>3 DEF Range
  <1> QED
    BY <1>1, <1>2, <1>4, <1>5 DEF front

LEMMA AppendInjective ==
    ASSUME NEW S, NEW s \in Seq(S), NEW e \in S, Injective(s), e \notin Range(s)
    PROVE  Injective(Append(s, e))
  <1>1. Len(s) \in Nat /\ DOMAIN s = 1..Len(s) /\ DOMAIN Append(s, e) = 1..Len(s) + 1
    OBVIOUS
  <1>2. \A i \in 1..Len(s) : Append(s, e)[i] = s[i] /\ s[i] # e
    BY <1>1 DEF Range
  <1>3. Append(s, e)[Len(s) + 1] = e
    OBVIOUS
  <1> SUFFICES ASSUME NEW a \in 1..Len(s) + 1, NEW b \in 1..Len(s) + 1,
                      Append(s, e)[a] = Append(s, e)[b]
               PROVE  a = b
    BY <1>1 DEF Injective
  <1>4. CASE a \in 1..Len(s) /\ b \in 1..Len(s)
    BY <1>4, <1>1, <1>2 DEF Injective
  <1>5. CASE a = Len(s) + 1 \/ b = Len(s) + 1
    BY <1>5, <1>1, <1>2, <1>3
  <1> QED
    BY <1>1, <1>4, <1>5

(* Ancestors is closed, has the type itself, and is the least such set.    *)
LEMMA AncestorsClosed ==
    ASSUME NEW parents \in [Type -> Seq(Type)], NEW t \in Type
    PROVE  /\ t \in Ancestors(t, parents) /\ Ancestors(t, parents) \subseteq Type
           /\ \A u \in Ancestors(t, parents) : Range(parents[u]) \subseteq Ancestors(t, parents)
  <1>1. t \in Ancestors(t, parents) /\ Ancestors(t, parents) \subseteq Type
    BY DEF Ancestors
  <1>2. ASSUME NEW u \in Ancestors(t, parents), NEW v \in Range(parents[u])
        PROVE  v \in Ancestors(t, parents)
    <2>1. u \in Type /\ parents[u] \in Seq(Type)
      BY <1>1
    <2>2. v \in Type
      BY <2>1, RangeTyped
    <2>3. ASSUME NEW S \in SUBSET Type, t \in S, Closed(S, parents)
          PROVE  v \in S
      BY <2>3 DEF Ancestors, Closed
    <2> QED
      BY <2>2, <2>3 DEF Ancestors
  <1> QED
    BY <1>1, <1>2

LEMMA AncestorsLeast ==
    ASSUME NEW parents, NEW t, NEW S \in SUBSET Type, t \in S,
           \A u \in S : Range(parents[u]) \subseteq S
    PROVE  Ancestors(t, parents) \subseteq S
  BY DEF Ancestors, Closed
-----------------------------------------------------------------------------
(* The parts of a copy.                                                    *)
LEMMA CopyParts ==
    ASSUME NEW x \in Copy
    PROVE  x[1] \in Call /\ x[2] \in Nat /\ x[3] \in Nat /\ x[4] \in Host
  BY DEF Copy

(* A call that has begun.                                                  *)
LEMMA Begun ==
    ASSUME IInv, NEW c \in Call, calls[c] # Unused
    PROVE  /\ Good(calls[c]) /\ calls[c] \in CallRecord
           /\ calls[c].stage \in CallStages /\ calls[c].multi \in BOOLEAN
           /\ calls[c].type \in Type /\ calls[c].stack \in Seq(Type)
           /\ calls[c].out \in Seq(Target) /\ calls[c].next \in Nat
           /\ calls[c].tries \in 0..MaxAttempts - 1 /\ calls[c].errors \subseteq Nat
           /\ calls[c].aborted \in BOOLEAN
  BY DEF IInv, CallsGood, Good, CallOK, CallRecord

(* What a call was about, and what it has put in its list, stays.          *)
Follows(r, q) ==
    /\ q.type = r.type /\ q.multi = r.multi /\ r.next <= q.next
    /\ \A i \in DOMAIN r.out : i \in DOMAIN q.out /\ q.out[i] = r.out[i]

(* The part of the state that no step of a call touches.                   *)
HostsAlone == UNCHANGED <<bindings, since, hosts, registry, jobs, consumed, changes>>

(* Steps that give no copy to a queue.                                     *)
LEMMA QuietMove ==
    ASSUME IInv, NEW c \in Call, calls[c] # Unused, NEW q, Good(q), Follows(calls[c], q),
           \A i \in (1..q.next - 1) \ q.errors : i \in (1..calls[c].next - 1) \ calls[c].errors,
           calls' = [calls EXCEPT ![c] = q],
           HostsAlone, copies' = copies, doubtful' = doubtful,
           exchanges \subseteq exchanges' /\ exchanges' \subseteq Type,
           declared \subseteq declared' /\ declared' \subseteq exchanges',
           closed' \in BOOLEAN, faults' \in 0..MaxFaults,
           ~q.multi /\ q.stage = "send" => q.out[q.next] \in declared'
    PROVE  IInv'
  <1>1. q \in CallRecord /\ q # Unused
    BY DEF Good, CallOK, CallRecord, CallStages, Unused
  <1>2. /\ calls \in [Call -> CallRecord \cup {Unused}] /\ calls'[c] = q
        /\ \A d \in Call : d # c => calls'[d] = calls[d]
    BY DEF IInv, TypeOK
  <1>3. TypeOK'
    BY <1>1, <1>2 DEF IInv, TypeOK, HostsAlone
  <1>4. MemoIsTrue'
    BY <1>2 DEF IInv, MemoIsTrue, Current
  <1>5. CallsGood'
    BY <1>2 DEF IInv, CallsGood
  <1>6. copies \subseteq Copy
    BY DEF IInv, TypeOK
  <1>7. \A x \in copies : x[1] \in Call /\ CopyOK(x)
    BY <1>6, CopyParts DEF IInv, CopiesOK
  <1>8. \A r : Follows(calls[c], r) => calls[c].next <= r.next
    BY DEF Follows
  <1>9. calls[c].next \in Nat /\ q.next \in Nat
    BY <1>1, Begun DEF CallRecord
  <1>10. CopiesOK'
    <2> SUFFICES ASSUME NEW x \in copies
                 PROVE  CopyOK(x)'
      BY DEF CopiesOK
    <2>1. CASE x[1] # c
      BY <2>1, <1>2, <1>7 DEF CopyOK, HostsAlone
    <2>2. CASE x[1] = c
      <3>1. /\ x[2] \in DOMAIN calls[c].out /\ (c \notin doubtful => x[2] < calls[c].next)
            /\ <<calls[c].out[x[2]], x[4]>> \in bindings
        BY <2>2, <1>7 DEF CopyOK
      <3>2. x[2] \in DOMAIN q.out /\ q.out[x[2]] = calls[c].out[x[2]]
        BY <3>1 DEF Follows
      <3>3. x[2] \in Nat
        BY <1>6, CopyParts
      <3>4. c \notin doubtful => x[2] < q.next
        BY <3>1, <3>3, <1>8, <1>9
      <3> QED
        BY <2>2, <1>1, <1>2, <3>1, <3>2, <3>4 DEF CopyOK, HostsAlone
    <2> QED
      BY <2>1, <2>2
  <1>11. NoDuplicates'
    BY DEF IInv, NoDuplicates
  <1>12. AllReached'
    <2> SUFFICES ASSUME NEW d \in Call, calls'[d] # Unused
                 PROVE  Reached(d)'
      BY DEF AllReached
    <2>1. CASE d # c
      BY <2>1, <1>2 DEF IInv, AllReached, Reached, Served, HostsAlone
    <2>2. CASE d = c
      <3>1. Reached(c)
        BY DEF IInv, AllReached
      <3>2. ASSUME NEW i \in (1..q.next - 1) \ q.errors
            PROVE  i \in DOMAIN calls[c].out /\ q.out[i] = calls[c].out[i]
        <4>1. i \in 1..calls[c].next - 1 /\ calls[c].next \in 1..Len(calls[c].out) + 1
          BY Begun DEF Good, CallOK
        <4>2. calls[c].out \in Seq(Target)
          BY Begun
        <4>3. i \in DOMAIN calls[c].out
          BY <4>1, <4>2
        <4> QED
          BY <4>3 DEF Follows
      <3> QED
        BY <2>2, <1>2, <3>1, <3>2 DEF Reached, Served, HostsAlone
    <2> QED
      BY <2>1, <2>2
  <1>13. BindingsOK'
    BY DEF IInv, BindingsOK, HostsAlone, Consumes
  <1>14. WalksOK'
    <2> SUFFICES ASSUME NEW h \in Host, jobs[h] # Idle
                 PROVE  jobs[h].copy \in copies /\ WalkOK(h, jobs[h])'
      BY DEF WalksOK, HostsAlone
    <2>1. jobs[h].copy \in copies /\ WalkOK(h, jobs[h])
      BY DEF IInv, WalksOK
    <2>2. TypeOf(jobs[h])' = TypeOf(jobs[h])
      BY <2>1, <1>2, <1>7 DEF TypeOf, HostsAlone, Follows
    <2>3. registry' = registry /\ jobs' = jobs
      BY DEF HostsAlone
    <2> QED
      BY <2>1, <2>2, <2>3 DEF WalkOK
  <1> QED
    BY <1>3, <1>4, <1>5, <1>10, <1>11, <1>12, <1>13, <1>14 DEF IInv

(* The copies of a send.                                                   *)
LEMMA RoutedParts ==
    ASSUME IInv, NEW c \in Call, calls[c] # Unused, calls[c].stage = "send"
    PROVE  /\ calls[c].next \in DOMAIN calls[c].out /\ calls[c].next \in Nat
           /\ Routed(c) \subseteq Copy
           /\ \A x \in Routed(c) : /\ x[1] = c /\ x[2] = calls[c].next /\ x[3] = calls[c].tries
                                   /\ x[4] \in Host /\ <<Current(c), x[4]>> \in bindings
                                   /\ x = <<c, calls[c].next, calls[c].tries, x[4]>>
  <1>1. calls[c].next \in 1..Len(calls[c].out) /\ calls[c].out \in Seq(Target)
    BY Begun DEF Good, CallOK
  <1>2. calls[c].tries \in Nat /\ calls[c].next \in Nat
    BY Begun, Constants
  <1>3. ASSUME NEW x \in Routed(c)
        PROVE  /\ x[1] = c /\ x[2] = calls[c].next /\ x[3] = calls[c].tries
               /\ x[4] \in Host /\ <<Current(c), x[4]>> \in bindings
               /\ x = <<c, calls[c].next, calls[c].tries, x[4]>> /\ x \in Copy
    <2>1. PICK h \in Host : /\ <<Current(c), h>> \in bindings
                            /\ x = <<c, calls[c].next, calls[c].tries, h>>
      BY DEF Routed
    <2>2. x[1] = c /\ x[2] = calls[c].next /\ x[3] = calls[c].tries /\ x[4] = h
      BY <2>1
    <2>3. x \in Copy
      BY <2>1, <1>2 DEF Copy
    <2> QED
      BY <2>1, <2>2, <2>3
  <1>4. Routed(c) \subseteq Copy
    BY <1>3
  <1>5. calls[c].next \in DOMAIN calls[c].out
    BY <1>1
  <1> QED
    BY ONLY <1>2, <1>3, <1>4, <1>5

(* Steps that give a copy to the queues bound to the target of a send.     *)
LEMMA SendMove ==
    ASSUME IInv, NEW c \in Call, calls[c] # Unused, calls[c].stage = "send",
           NEW q, Good(q), Follows(calls[c], q),
           \A i \in (1..q.next - 1) \ q.errors :
                i = calls[c].next \/ i \in (1..calls[c].next - 1) \ calls[c].errors,
           calls' = [calls EXCEPT ![c] = q],
           HostsAlone, copies' = copies \cup Routed(c),
           \/ doubtful' = doubtful /\ q.next = calls[c].next + 1
           \/ doubtful' = doubtful \cup {c},
           UNCHANGED <<exchanges, producer>>, faults' \in 0..MaxFaults,
           ~q.multi /\ q.stage = "send" => q.out[q.next] \in declared
    PROVE  IInv'
  <1>1. q \in CallRecord /\ q # Unused
    BY DEF Good, CallOK, CallRecord, CallStages, Unused
  <1>2. /\ calls \in [Call -> CallRecord \cup {Unused}] /\ calls'[c] = q
        /\ \A d \in Call : d # c => calls'[d] = calls[d]
    BY DEF IInv, TypeOK
  <1>3. TypeOK'
    BY <1>1, <1>2, RoutedParts DEF IInv, TypeOK, HostsAlone, producer
  <1>4. MemoIsTrue'
    BY <1>2 DEF IInv, MemoIsTrue, Current, producer
  <1>5. CallsGood'
    BY <1>2 DEF IInv, CallsGood
  <1>6. copies \subseteq Copy /\ \A x \in copies : x[1] \in Call /\ x[2] \in Nat /\ CopyOK(x)
    BY CopyParts DEF IInv, TypeOK, CopiesOK
  <1>7. calls[c].next \in Nat /\ q.next \in Nat /\ calls[c].next <= q.next
    BY <1>1, Begun DEF CallRecord, Follows
  <1>8. CopiesOK'
    <2> SUFFICES ASSUME NEW x \in copies \cup Routed(c)
                 PROVE  CopyOK(x)'
      BY DEF CopiesOK
    <2>1. CASE x \in copies /\ x[1] # c
      BY <2>1, <1>2, <1>6 DEF CopyOK, HostsAlone
    <2>2. CASE x \in copies /\ x[1] = c
      <3>1. /\ x[2] \in DOMAIN calls[c].out /\ (c \notin doubtful => x[2] < calls[c].next)
            /\ <<calls[c].out[x[2]], x[4]>> \in bindings
        BY <2>2, <1>6 DEF CopyOK
      <3>2. x[2] \in DOMAIN q.out /\ q.out[x[2]] = calls[c].out[x[2]]
        BY <3>1 DEF Follows
      <3>3. c \notin doubtful' => x[2] < q.next
        BY <3>1, <2>2, <1>6, <1>7
      <3> QED
        BY <2>2, <1>1, <1>2, <3>1, <3>2, <3>3 DEF CopyOK, HostsAlone
    <2>3. CASE x \in Routed(c)
      <3>1. /\ x[1] = c /\ x[2] = calls[c].next /\ x[2] \in DOMAIN calls[c].out
            /\ <<calls[c].out[x[2]], x[4]>> \in bindings
        BY <2>3, RoutedParts DEF Current
      <3>2. x[2] \in DOMAIN q.out /\ q.out[x[2]] = calls[c].out[x[2]]
        BY <3>1 DEF Follows
      <3>3. c \notin doubtful' => x[2] < q.next
        BY <3>1, <1>7
      <3> QED
        BY <1>1, <1>2, <3>1, <3>2, <3>3 DEF CopyOK, HostsAlone
    <2> QED
      BY <2>1, <2>2, <2>3
  <1>9. NoDuplicates'
    <2> SUFFICES ASSUME NEW x \in copies', NEW y \in copies', x[1] \notin doubtful',
                        y[1] = x[1], y[2] = x[2], y[4] = x[4]
                 PROVE  y = x
      BY DEF NoDuplicates
    <2>1. x[1] \notin doubtful
      OBVIOUS
    <2>2. CASE x \in copies /\ y \in copies
      BY <2>1, <2>2 DEF IInv, NoDuplicates
    <2>3. CASE x \in Routed(c) /\ y \in Routed(c)
      <3>1. /\ x = <<c, calls[c].next, calls[c].tries, x[4]>>
            /\ y = <<c, calls[c].next, calls[c].tries, y[4]>>
        BY <2>3, RoutedParts
      <3> QED
        BY ONLY <3>1, y[4] = x[4]
    <2>4. ASSUME NEW u \in copies, NEW v \in Routed(c), u[1] = v[1], u[1] \notin doubtful
          PROVE  u[2] # v[2]
      <3>1. u[1] = c /\ v[2] = calls[c].next
        BY <2>4, RoutedParts
      <3>2. u[2] < calls[c].next /\ u[2] \in Nat
        BY <2>4, <3>1, <1>6 DEF CopyOK
      <3> QED
        BY <3>1, <3>2, <1>7
    <2> QED
      BY <2>1, <2>2, <2>3, <2>4
  <1>10. AllReached'
    <2>1. ASSUME NEW d \in Call, NEW i, NEW h, Served(d, i, h)
          PROVE  Served(d, i, h)'
      BY <2>1 DEF Served
    <2> SUFFICES ASSUME NEW d \in Call, calls'[d] # Unused
                 PROVE  Reached(d)'
      BY DEF AllReached
    <2>2. CASE d # c
      BY <2>2, <2>1, <1>2 DEF IInv, AllReached, Reached, HostsAlone
    <2>3. CASE d = c
      <3> SUFFICES ASSUME NEW i \in (1..q.next - 1) \ q.errors, NEW h \in Host,
                          <<q.out[i], h>> \in since[c]
                   PROVE  Served(c, i, h)'
        BY <2>3, <1>2 DEF Reached, HostsAlone
      <3>1. CASE i = calls[c].next
        <4>1. q.out[i] = Current(c)
          BY <3>1, RoutedParts DEF Follows, Current
        <4>2. <<Current(c), h>> \in bindings
          BY <4>1 DEF IInv, BindingsOK
        <4>3. <<c, calls[c].next, calls[c].tries, h>> \in Routed(c)
          BY <4>2 DEF Routed
        <4> QED
          BY <3>1, <4>3 DEF Served
      <3>2. CASE i # calls[c].next
        <4>1. i \in (1..calls[c].next - 1) \ calls[c].errors
          BY <3>2
        <4>2. i \in 1..calls[c].next - 1 /\ calls[c].next \in 1..Len(calls[c].out) + 1
          BY <4>1, Begun DEF Good, CallOK
        <4>3. calls[c].out \in Seq(Target)
          BY Begun
        <4>4. i \in DOMAIN calls[c].out
          BY <4>2, <4>3
        <4>5. q.out[i] = calls[c].out[i]
          BY <4>4 DEF Follows
        <4> QED
          BY <4>1, <4>5, <2>1 DEF IInv, AllReached, Reached
      <3> QED
        BY <3>1, <3>2
    <2> QED
      BY <2>2, <2>3
  <1>11. BindingsOK'
    BY DEF IInv, BindingsOK, HostsAlone, Consumes
  <1>12. WalksOK'
    <2> SUFFICES ASSUME NEW h \in Host, jobs[h] # Idle
                 PROVE  jobs[h].copy \in copies' /\ WalkOK(h, jobs[h])'
      BY DEF WalksOK, HostsAlone
    <2>1. jobs[h].copy \in copies /\ WalkOK(h, jobs[h])
      BY DEF IInv, WalksOK
    <2>2. TypeOf(jobs[h])' = TypeOf(jobs[h])
      BY <2>1, <1>2, <1>6 DEF TypeOf, HostsAlone, Follows
    <2>3. registry' = registry /\ jobs' = jobs
      BY DEF HostsAlone
    <2> QED
      BY <2>1, <2>2, <2>3 DEF WalkOK
  <1> QED
    BY <1>3, <1>4, <1>5, <1>8, <1>9, <1>10, <1>11, <1>12 DEF IInv

(* The next position of a loop of sends.                                   *)
LEMMA AdvanceGood ==
    ASSUME IInv, NEW c \in Call, calls[c] # Unused, calls[c].stage = "send",
           NEW errors \in {calls[c].errors, calls[c].errors \cup {calls[c].next}},
           Advances(c, errors)
    PROVE  \E q : /\ calls' = [calls EXCEPT ![c] = q]
                 /\ Good(q) /\ Follows(calls[c], q)
                 /\ q.next = calls[c].next + 1 /\ q.errors = errors
                 /\ ~(~q.multi /\ q.stage = "send")
  <1> DEFINE r == calls[c]
             stage == IF r.next + 1 <= Len(r.out) /\ (r.multi \/ errors = {})
                        THEN IF r.multi THEN "send" ELSE "declare"
                        ELSE IF errors = {} THEN "resolved" ELSE "rejected"
             q == [r EXCEPT !.next = r.next + 1, !.tries = 0, !.errors = errors, !.stage = stage]
  <1>1. /\ r \in CallRecord /\ Good(r) /\ r.next \in 1..Len(r.out) /\ Len(r.out) \in Nat
        /\ r.multi \in BOOLEAN /\ r.next \in Nat /\ r.next + 1 \in Nat /\ r.errors \subseteq 1..r.next - 1
    BY Begun DEF Good, CallOK
  <1>2. errors \subseteq 1..r.next /\ errors \subseteq Nat
    BY <1>1
  <1>3. stage \in CallStages
    BY <1>1 DEF CallStages
  <1>4. calls' = [calls EXCEPT ![c] = q]
    BY <1>1 DEF Advances, Becomes, CallRecord
  <1>5. /\ q.next = r.next + 1 /\ q.tries = 0 /\ q.errors = errors /\ q.stage = stage
        /\ q.multi = r.multi /\ q.type = r.type /\ q.out = r.out /\ q.stack = r.stack
    BY <1>1 DEF CallRecord
  <1>6. q \in CallRecord
    <2> HIDE DEF stage
    <2>1. 0 \in 0..MaxAttempts - 1
      BY Constants
    <2> QED
      BY <1>1, <1>2, <1>3, <2>1 DEF CallRecord
  <1>7. CallOK(q)
    BY <1>1, <1>2, <1>5, <1>6 DEF CallOK
  <1>8. MultiOK(q)
    BY <1>1, <1>5 DEF Good, MultiOK
  <1>9. PublishOK(q)
    <2> SUFFICES ASSUME ~q.multi
                 PROVE  PublishOK(q)
      BY DEF PublishOK
    <2>1. /\ Injective(r.out) /\ Range(r.out) = Anc(r)
          /\ Anc(q) = Anc(r)
      BY <1>1, <1>5 DEF Good, PublishOK, Anc
    <2>2. /\ stage \notin {"outgoing", "closure"}
          /\ stage # "rejected" => errors = {}
      BY <1>5
    <2> QED
      BY <1>5, <2>1, <2>2 DEF PublishOK
  <1>10. Follows(r, q)
    BY <1>1, <1>5 DEF Follows
  <1>11. ~(~q.multi /\ q.stage = "send")
    BY <1>1, <1>5
  <1> QED
    BY <1>4, <1>5, <1>7, <1>8, <1>9, <1>10, <1>11 DEF Good

(* Another attempt, or the next position.                                  *)
AgainTo(c, q) ==
    /\ calls' = [calls EXCEPT ![c] = q]
    /\ Good(q) /\ Follows(calls[c], q)
    /\ \A i \in (1..q.next - 1) \ q.errors : i \in (1..calls[c].next - 1) \ calls[c].errors
    /\ ~q.multi /\ q.stage = "send" => q.out[q.next] \in declared

LEMMA AgainGood ==
    ASSUME IInv, NEW c \in Call, calls[c] # Unused, calls[c].stage = "send", Again(c)
    PROVE  \E q : AgainTo(c, q)
  <1> DEFINE r == calls[c]
  <1>1. r \in CallRecord /\ Good(r) /\ r.next \in Nat /\ r.tries \in 0..MaxAttempts - 1
    BY Begun
  <1>2. CASE r.tries + 1 < MaxAttempts
    <2> DEFINE q == [r EXCEPT !.tries = r.tries + 1]
    <2>1. calls' = [calls EXCEPT ![c] = q]
      BY <1>2, <1>1 DEF Again, Becomes, CallRecord
    <2>2. /\ q.next = r.next /\ q.errors = r.errors /\ q.stage = r.stage /\ q.multi = r.multi
          /\ q.type = r.type /\ q.out = r.out /\ q.stack = r.stack
      BY <1>1 DEF CallRecord
    <2>3. r.tries + 1 \in 0..MaxAttempts - 1
      BY <1>1, <1>2, Constants
    <2>4. q \in CallRecord
      BY <1>1, <2>3 DEF CallRecord
    <2>5. Good(q)
      BY <1>1, <2>2, <2>4 DEF Good, CallOK, MultiOK, PublishOK, Anc, Visiting
    <2>6. Follows(r, q)
      BY <1>1, <2>2 DEF Follows
    <2>7. ~q.multi => q.out[q.next] \in declared
      BY <2>2 DEF IInv, MemoIsTrue, Current
    <2> HIDE DEF q
    <2>8. AgainTo(c, q)
      BY <2>1, <2>2, <2>5, <2>6, <2>7 DEF AgainTo
    <2> QED
      BY <2>8
  <1>3. CASE ~(r.tries + 1 < MaxAttempts)
    <2>1. Advances(c, r.errors \cup {r.next})
      BY <1>3 DEF Again
    <2>2. PICK q : /\ calls' = [calls EXCEPT ![c] = q]
                   /\ Good(q) /\ Follows(r, q)
                   /\ q.next = r.next + 1 /\ q.errors = r.errors \cup {r.next}
                   /\ ~(~q.multi /\ q.stage = "send")
      BY <2>1, AdvanceGood
    <2>3. \A i \in (1..q.next - 1) \ q.errors : i \in (1..r.next - 1) \ r.errors
      BY <2>2, <1>1
    <2> QED
      BY <2>2, <2>3 DEF AgainTo
  <1> QED
    BY <1>2, <1>3
-----------------------------------------------------------------------------
(* The steps of a call.                                                    *)
LEMMA BeginStep ==
    ASSUME IInv, NEW c \in Call, NEW q, Good(q), q.stage = "outgoing", Begins(c, q)
    PROVE  IInv'
  <1>1. q \in CallRecord /\ q # Unused /\ q.next = 1
    BY DEF Good, CallOK, CallRecord, Unused
  <1>2. /\ calls \in [Call -> CallRecord \cup {Unused}] /\ calls'[c] = q /\ calls[c] = Unused
        /\ \A d \in Call : d # c => calls'[d] = calls[d]
        /\ calls' \in [Call -> CallRecord \cup {Unused}]
    BY <1>1 DEF IInv, TypeOK, Begins, Becomes
  <1>3. /\ since' \in [Call -> SUBSET ((Type \cup Host) \X Host)] /\ since'[c] = bindings
        /\ \A d \in Call : d # c => since'[d] = since[d]
    BY DEF IInv, TypeOK, Begins
  <1>4. UNCHANGED <<broker, producer, doubtful, consumers, faults>>
    BY DEF Begins
  <1>5. TypeOK'
    BY <1>2, <1>3, <1>4 DEF IInv, TypeOK, broker, producer, consumers
  <1>6. MemoIsTrue'
    BY <1>2, <1>4 DEF IInv, MemoIsTrue, Current, broker, producer
  <1>7. CallsGood'
    BY <1>2 DEF IInv, CallsGood
  <1>8. \A x \in copies : x[1] \in Call /\ x[1] # c /\ CopyOK(x)
    BY <1>2, CopyParts DEF IInv, TypeOK, CopiesOK, CopyOK
  <1>9. CopiesOK' /\ NoDuplicates'
    BY <1>2, <1>4, <1>8 DEF IInv, CopiesOK, CopyOK, NoDuplicates, broker
  <1>10. AllReached'
    <2> SUFFICES ASSUME NEW d \in Call, calls'[d] # Unused
                 PROVE  Reached(d)'
      BY DEF AllReached
    <2>1. CASE d # c
      BY <2>1, <1>2, <1>3, <1>4 DEF IInv, AllReached, Reached, Served, broker
    <2>2. CASE d = c
      BY <2>2, <1>1, <1>2 DEF Reached
    <2> QED
      BY <2>1, <2>2
  <1>11. BindingsOK'
    BY <1>3, <1>4 DEF IInv, BindingsOK, Consumes, broker, consumers
  <1>12. WalksOK'
    <2> SUFFICES ASSUME NEW h \in Host, jobs[h] # Idle
                 PROVE  jobs[h].copy \in copies /\ WalkOK(h, jobs[h])'
      BY <1>4 DEF WalksOK, broker, consumers
    <2>1. jobs[h].copy \in copies /\ WalkOK(h, jobs[h])
      BY DEF IInv, WalksOK
    <2>2. TypeOf(jobs[h])' = TypeOf(jobs[h])
      BY <2>1, <1>2, <1>4, <1>8 DEF TypeOf, consumers
    <2> QED
      BY <2>1, <2>2, <1>4 DEF WalkOK, consumers
  <1> QED
    BY <1>5, <1>6, <1>7, <1>9, <1>10, <1>11, <1>12 DEF IInv

LEMMA NewCallGood ==
    ASSUME NEW t \in Type
    PROVE  /\ Good(NewCall(t)) /\ NewCall(t).stage = "outgoing"
           /\ \A list \in Endpoints :
                LET q == [NewCall(t) EXCEPT !.multi = TRUE, !.out = list]
                IN  Good(q) /\ q.stage = "outgoing"
  <1> DEFINE p == NewCall(t)
  <1>1. /\ p.stage = "outgoing" /\ p.multi = FALSE /\ p.type = t /\ p.out = <<>> /\ p.next = 1
        /\ p.errors = {} /\ p \in CallRecord /\ Len(p.out) = 0 /\ DOMAIN p.out = {}
    BY Constants DEF NewCall, CallRecord, CallStages
  <1>2. Range(p.out) = {} /\ Injective(p.out)
    BY <1>1 DEF Range, Injective
  <1>3. Good(p)
    BY <1>1, <1>2 DEF Good, CallOK, MultiOK, PublishOK
  <1>4. ASSUME NEW list \in Endpoints
        PROVE  LET q == [p EXCEPT !.multi = TRUE, !.out = list] IN Good(q) /\ q.stage = "outgoing"
    <2> DEFINE q == [p EXCEPT !.multi = TRUE, !.out = list]
    <2>1. list \in Seq(Host \cup Absent) /\ list # <<>>
      BY Constants
    <2>2. list \in Seq(Target) /\ Len(list) \in Nat
      BY <2>1 DEF Target
    <2>3. /\ q.stage = "outgoing" /\ q.multi = TRUE /\ q.out = list /\ q.next = 1 /\ q.errors = {}
          /\ q \in CallRecord
      BY <1>1, <2>2 DEF CallRecord
    <2> QED
      BY <2>1, <2>2, <2>3 DEF Good, CallOK, MultiOK, PublishOK
  <1> QED
    BY <1>1, <1>3, <1>4

(* Steps that change nothing but the locals of the call.                   *)
LEMMA LocalMove ==
    ASSUME IInv, NEW c \in Call, calls[c] # Unused, NEW q, Good(q), Follows(calls[c], q),
           \A i \in (1..q.next - 1) \ q.errors : i \in (1..calls[c].next - 1) \ calls[c].errors,
           calls' = [calls EXCEPT ![c] = q],
           UNCHANGED <<broker, producer, since, doubtful, consumers>>, faults' \in 0..MaxFaults,
           ~q.multi /\ q.stage = "send" => q.out[q.next] \in declared
    PROVE  IInv'
  <1>1. HostsAlone /\ copies' = copies /\ doubtful' = doubtful
    BY DEF HostsAlone, broker, consumers
  <1>2. /\ exchanges \subseteq exchanges' /\ exchanges' \subseteq Type
        /\ declared \subseteq declared' /\ declared' \subseteq exchanges'
        /\ closed' \in BOOLEAN /\ declared' = declared
    BY DEF IInv, TypeOK, MemoIsTrue, broker, producer
  <1> QED
    BY <1>1, <1>2, QuietMove

LEMMA RefusedStep ==
    ASSUME IInv, NEW c \in Call, Refused(c)
    PROVE  IInv'
  <1> DEFINE r == calls[c]
             q == [r EXCEPT !.stage = "rejected"]
  <1>1. calls[c] # Unused /\ r.stage = "outgoing"
    BY DEF Refused, Unused
  <1>2. r \in CallRecord /\ Good(r) /\ r.next \in Nat
    BY <1>1, Begun
  <1>3. /\ q \in CallRecord /\ q.stage = "rejected" /\ q.type = r.type /\ q.multi = r.multi
        /\ q.next = r.next /\ q.out = r.out /\ q.errors = r.errors
    BY <1>2 DEF CallRecord, CallStages
  <1>4. r.errors = {}
    BY <1>1, <1>2 DEF Good, CallOK
  <1>5. Good(q) /\ Follows(r, q)
    BY <1>1, <1>2, <1>3, <1>4 DEF Good, CallOK, MultiOK, PublishOK, Anc, Follows
  <1>6. calls' = [calls EXCEPT ![c] = q] /\ faults' \in 0..MaxFaults
    BY DEF Refused, Goes, Becomes, IInv, TypeOK
  <1> HIDE DEF q
  <1> QED
    BY <1>1, <1>3, <1>5, <1>6, LocalMove DEF Refused

LEMMA OutgoingPassesStep ==
    ASSUME IInv, NEW c \in Call, OutgoingPasses(c)
    PROVE  IInv'
  <1> DEFINE r == calls[c]
  <1>1. calls[c] # Unused /\ r.stage = "outgoing"
    BY DEF OutgoingPasses, Unused
  <1>2. r \in CallRecord /\ Good(r) /\ r.next = 1 /\ r.errors = {} /\ r.type \in Type
        /\ r.out \in Seq(Target)
    BY <1>1, Begun DEF Good, CallOK
  <1>3. faults' \in 0..MaxFaults
    BY DEF OutgoingPasses, IInv, TypeOK
  <1>4. CASE r.multi
    <2> DEFINE q == [r EXCEPT !.stage = "send"]
    <2>1. /\ q \in CallRecord /\ q.stage = "send" /\ q.type = r.type /\ q.multi = r.multi
          /\ q.next = r.next /\ q.out = r.out /\ q.errors = r.errors
      BY <1>2 DEF CallRecord, CallStages
    <2>2. Len(r.out) \in Nat /\ r.out # <<>>
      BY <1>2, <1>4 DEF Good, MultiOK
    <2>3. 1 <= Len(r.out)
      BY <2>2, <1>2
    <2>4. calls' = [calls EXCEPT ![c] = q]
      BY <1>4 DEF OutgoingPasses, Goes, Becomes
    <2> HIDE DEF q
    <2>5. Good(q) /\ Follows(r, q)
      <3>1. CallOK(q)
        BY <1>2, <2>1, <2>2, <2>3 DEF CallOK
      <3>2. MultiOK(q) /\ PublishOK(q)
        BY <1>4, <2>1, <2>2 DEF MultiOK, PublishOK
      <3> QED
        BY <1>2, <2>1, <3>1, <3>2 DEF Good, Follows
    <2> QED
      BY <1>1, <1>2, <1>3, <1>4, <2>1, <2>4, <2>5, LocalMove DEF OutgoingPasses
  <1>5. CASE ~r.multi
    <2> DEFINE q == [r EXCEPT !.stage = "closure", !.stack = <<r.type>>]
    <2>1. /\ q \in CallRecord /\ q.stage = "closure" /\ q.type = r.type /\ q.multi = r.multi
          /\ q.next = r.next /\ q.out = r.out /\ q.errors = r.errors /\ q.stack = <<r.type>>
      <3>1. <<r.type>> \in Seq(Type)
        BY <1>2
      <3> QED
        BY <3>1, <1>2 DEF CallRecord, CallStages
    <2>2. Range(q.stack) = {r.type} /\ r.out = <<>> /\ Range(r.out) = {}
      BY <1>1, <1>2, <1>5, <2>1 DEF Good, PublishOK, Range
    <2>3. r.type \in Anc(r)
      BY <1>2, AncestorsClosed, Constants DEF Anc
    <2>4. Good(q) /\ Follows(r, q)
      BY <1>1, <1>2, <1>5, <2>1, <2>2, <2>3
         DEF Good, CallOK, MultiOK, PublishOK, Visiting, Anc, Follows
    <2>5. calls' = [calls EXCEPT ![c] = q]
      BY <1>5 DEF OutgoingPasses, Becomes
    <2> HIDE DEF q
    <2> QED
      BY <1>1, <1>2, <1>3, <2>1, <2>4, <2>5, LocalMove DEF OutgoingPasses
  <1> QED
    BY <1>4, <1>5

(* The iteration keeps Visiting within the ancestors, and what is out      *)
(* closed up to it.                                                        *)
LEMMA VisitTypeStep ==
    ASSUME IInv, NEW c \in Call, VisitType(c)
    PROVE  IInv'
  <1> DEFINE r == calls[c]
             t == r.stack[Len(r.stack)]
             rest == SubSeq(r.stack, 1, Len(r.stack) - 1)
  <1>1. calls[c] # Unused /\ r.stage = "closure" /\ r.stack # <<>>
    BY DEF VisitType, Unused
  <1>2. /\ r \in CallRecord /\ Good(r) /\ r.next = 1 /\ ~r.multi /\ r.errors = {}
        /\ r.stack \in Seq(Type) /\ r.out \in Seq(Target) /\ r.type \in Type
    BY <1>1, Begun DEF Good, CallOK, MultiOK, PublishOK
  <1>3. t \in Type /\ rest \in Seq(Type) /\ Range(r.stack) = {t} \cup Range(rest)
    BY <1>1, <1>2, RangeLastFront
  <1>4. faults' \in 0..MaxFaults
    BY DEF VisitType, IInv, TypeOK
  <1>5. /\ Injective(r.out) /\ r.type \in Visiting(r) /\ Visiting(r) \subseteq Anc(r)
        /\ \A u \in Range(r.out) : Range(Parents[u]) \subseteq Visiting(r)
    BY <1>1, <1>2 DEF Good, PublishOK
  <1>6. Visiting(r) = Range(r.out) \cup {t} \cup Range(rest)
    BY <1>3 DEF Visiting
  <1> HIDE DEF t, rest
  <1>7. CASE t \in Range(r.out)
    <2> DEFINE q == [r EXCEPT !.stack = rest]
    <2>1. /\ q \in CallRecord /\ q.stage = "closure" /\ q.type = r.type /\ q.multi = r.multi
          /\ q.next = r.next /\ q.out = r.out /\ q.errors = r.errors /\ q.stack = rest
      BY <1>1, <1>2, <1>3 DEF CallRecord
    <2>2. calls' = [calls EXCEPT ![c] = q]
      BY <1>7 DEF VisitType, Becomes, t, rest
    <2> HIDE DEF q
    <2>3. Visiting(q) = Visiting(r) /\ Anc(q) = Anc(r)
      BY <1>6, <1>7, <2>1 DEF Visiting, Anc
    <2>4. PublishOK(q)
      <3>1. Injective(q.out) /\ Range(q.out) \subseteq Anc(q)
        BY <1>5, <2>1, <2>3 DEF Visiting
      <3> QED
        BY <1>2, <1>5, <2>1, <2>3, <3>1 DEF PublishOK
    <2>5. Good(q) /\ Follows(r, q)
      BY <1>1, <1>2, <2>1, <2>4 DEF Good, CallOK, MultiOK, Follows
    <2> QED
      BY <1>1, <1>4, <2>1, <2>2, <2>5, LocalMove DEF VisitType
  <1>8. CASE t \notin Range(r.out)
    <2> DEFINE q == [r EXCEPT !.stack = rest \o Parents[t], !.out = Append(r.out, t)]
    <2>1. /\ rest \o Parents[t] \in Seq(Type)
          /\ Range(rest \o Parents[t]) = Range(rest) \cup Range(Parents[t])
      BY <1>3, Constants, RangeConcat
    <2>2. t \in Target /\ Append(r.out, t) \in Seq(Target)
      BY <1>2, <1>3 DEF Target
    <2>3. /\ Range(Append(r.out, t)) = Range(r.out) \cup {t} /\ Injective(Append(r.out, t))
      BY <1>2, <1>5, <1>8, <2>2, RangeAppend, AppendInjective
    <2>4. /\ q \in CallRecord /\ q.stage = "closure" /\ q.type = r.type /\ q.multi = r.multi
          /\ q.next = r.next /\ q.out = Append(r.out, t) /\ q.errors = r.errors
          /\ q.stack = rest \o Parents[t]
      BY <1>1, <1>2, <2>1, <2>2 DEF CallRecord
    <2>5. calls' = [calls EXCEPT ![c] = q]
      BY <1>2, <1>8 DEF VisitType, Becomes, t, rest, CallRecord
    <2> HIDE DEF q
    <2>6. Visiting(q) = Visiting(r) \cup Range(Parents[t]) /\ Anc(q) = Anc(r)
      BY <1>6, <2>1, <2>3, <2>4 DEF Visiting, Anc
    <2>7. Range(Parents[t]) \subseteq Anc(r)
      BY <1>2, <1>5, <1>6, AncestorsClosed, Constants DEF Anc
    <2>8. \A u \in Range(q.out) : Range(Parents[u]) \subseteq Visiting(q)
      BY <1>5, <2>3, <2>4, <2>6
    <2>9. PublishOK(q)
      BY <1>2, <1>5, <2>3, <2>4, <2>6, <2>7, <2>8, <1>6 DEF PublishOK
    <2>10. /\ Len(q.out) = Len(r.out) + 1 /\ Len(r.out) \in Nat
           /\ \A i \in DOMAIN r.out : i \in DOMAIN q.out /\ q.out[i] = r.out[i]
      BY <1>2, <2>2, <2>4
    <2>11. Good(q) /\ Follows(r, q)
      BY <1>1, <1>2, <2>4, <2>9, <2>10 DEF Good, CallOK, MultiOK, Follows
    <2> QED
      BY <1>1, <1>4, <2>4, <2>5, <2>11, <1>2, LocalMove DEF VisitType
  <1> QED
    BY <1>7, <1>8

(* Nothing left to visit: the list is closed, and has the type.            *)
LEMMA ClosureDoneStep ==
    ASSUME IInv, NEW c \in Call, ClosureDone(c)
    PROVE  IInv'
  <1> DEFINE r == calls[c]
             q == [r EXCEPT !.stage = "declare"]
  <1>1. calls[c] # Unused /\ r.stage = "closure" /\ r.stack = <<>>
    BY DEF ClosureDone, Unused
  <1>2. /\ r \in CallRecord /\ Good(r) /\ r.next = 1 /\ ~r.multi /\ r.errors = {}
        /\ r.out \in Seq(Target) /\ r.type \in Type
    BY <1>1, Begun DEF Good, CallOK, MultiOK, PublishOK
  <1>3. Visiting(r) = Range(r.out)
    BY <1>1 DEF Visiting, Range
  <1>4. /\ r.type \in Range(r.out) /\ Range(r.out) \subseteq Anc(r)
        /\ \A u \in Range(r.out) : Range(Parents[u]) \subseteq Range(r.out)
    BY <1>1, <1>2, <1>3 DEF Good, PublishOK
  <1>5. Range(r.out) = Anc(r)
    <2>1. Anc(r) \subseteq Type
      BY <1>2, AncestorsClosed, Constants DEF Anc
    <2>2. Ancestors(r.type, Parents) \subseteq Range(r.out)
      BY <1>4, <2>1, AncestorsLeast
    <2> QED
      BY <1>4, <2>2 DEF Anc
  <1>6. 1 <= Len(r.out)
    <2>1. Len(r.out) \in Nat /\ DOMAIN r.out = 1..Len(r.out)
      BY <1>2
    <2>2. DOMAIN r.out # {}
      BY <1>4 DEF Range
    <2> QED
      BY <2>1, <2>2
  <1>7. /\ q \in CallRecord /\ q.stage = "declare" /\ q.type = r.type /\ q.multi = r.multi
        /\ q.next = r.next /\ q.out = r.out /\ q.errors = r.errors
    BY <1>2 DEF CallRecord, CallStages
  <1>8. Good(q) /\ Follows(r, q)
    BY <1>1, <1>2, <1>5, <1>6, <1>7 DEF Good, CallOK, MultiOK, PublishOK, Anc, Follows
  <1>9. calls' = [calls EXCEPT ![c] = q] /\ faults' \in 0..MaxFaults
    BY DEF ClosureDone, Goes, Becomes, IInv, TypeOK
  <1> HIDE DEF q
  <1> QED
    BY <1>1, <1>7, <1>8, <1>9, LocalMove DEF ClosureDone

(* A publish at a position of its list.                                    *)
LEMMA AtPosition ==
    ASSUME IInv, NEW c \in Call, calls[c] # Unused, ~calls[c].multi,
           calls[c].stage \in {"declare", "send"}
    PROVE  /\ calls[c].next \in 1..Len(calls[c].out) /\ calls[c].out \in Seq(Target)
           /\ Current(c) \in Type /\ Range(calls[c].out) = Anc(calls[c])
           /\ calls[c].errors = {} /\ Injective(calls[c].out)
  <1>1. /\ calls[c].next \in 1..Len(calls[c].out) /\ calls[c].out \in Seq(Target)
        /\ calls[c].type \in Type
    BY Begun DEF Good, CallOK
  <1>2. /\ Range(calls[c].out) = Anc(calls[c]) /\ calls[c].errors = {} /\ Injective(calls[c].out)
    BY Begun DEF Good, PublishOK
  <1>3. Current(c) \in Range(calls[c].out)
    BY <1>1 DEF Current, Range
  <1>4. Anc(calls[c]) \subseteq Type
    BY <1>1, AncestorsClosed, Constants DEF Anc
  <1> QED
    BY <1>1, <1>2, <1>3, <1>4

(* The exchange exists from here on, or nobody claims it.                  *)
LEMMA DeclareStep ==
    ASSUME IInv, NEW c \in Call, Declare(c)
    PROVE  IInv'
  <1> DEFINE r == calls[c]
             stage == IF r.aborted THEN "rejected" ELSE "send"
             q == [r EXCEPT !.stage = stage]
  <1>1. calls[c] # Unused /\ r.stage = "declare"
    BY DEF Declare, Unused
  <1>2. r \in CallRecord /\ Good(r) /\ ~r.multi /\ r.next \in Nat
    BY <1>1, Begun DEF Good, MultiOK
  <1>3. /\ r.next \in 1..Len(r.out) /\ Current(c) \in Type /\ Range(r.out) = Anc(r)
        /\ r.errors = {} /\ Injective(r.out)
    BY <1>1, <1>2, AtPosition
  <1>4. calls' = [calls EXCEPT ![c] = q]
    BY DEF Declare, Goes, Becomes
  <1>5. stage \in {"rejected", "send"}
    OBVIOUS
  <1> HIDE DEF stage
  <1>6. /\ q \in CallRecord /\ q.stage = stage /\ q.type = r.type /\ q.multi = r.multi
        /\ q.next = r.next /\ q.out = r.out /\ q.errors = r.errors
    BY <1>2, <1>5 DEF CallRecord, CallStages
  <1> HIDE DEF q
  <1>7. Good(q) /\ Follows(r, q)
    BY <1>2, <1>3, <1>5, <1>6 DEF Good, CallOK, MultiOK, PublishOK, Anc, Follows
  <1>8. /\ \/ exchanges' = exchanges /\ declared' = declared /\ Current(c) \in declared
           \/ exchanges' = exchanges \cup {Current(c)} /\ declared' = declared \cup {Current(c)}
        /\ copies' = copies /\ doubtful' = doubtful /\ closed' = closed /\ faults' = faults
        /\ HostsAlone
    BY DEF Declare, HostsAlone, consumers
  <1>9. /\ exchanges \subseteq exchanges' /\ exchanges' \subseteq Type
        /\ declared \subseteq declared' /\ declared' \subseteq exchanges'
        /\ closed' \in BOOLEAN /\ faults' \in 0..MaxFaults
    BY <1>3, <1>8 DEF IInv, TypeOK, MemoIsTrue
  <1>10. q.out[q.next] \in declared'
    BY <1>6, <1>8 DEF Current
  <1>11. \A i \in (1..q.next - 1) \ q.errors : i \in (1..r.next - 1) \ r.errors
    BY <1>6
  <1> QED
    BY <1>1, <1>4, <1>7, <1>8, <1>9, <1>10, <1>11, QuietMove

LEMMA DeclareFailsStep ==
    ASSUME IInv, NEW c \in Call, DeclareFails(c)
    PROVE  IInv'
  <1> DEFINE r == calls[c]
             q == [r EXCEPT !.stage = "rejected"]
  <1>1. calls[c] # Unused /\ r.stage = "declare"
    BY DEF DeclareFails, Unused
  <1>2. r \in CallRecord /\ Good(r) /\ ~r.multi /\ r.next \in Nat
    BY <1>1, Begun DEF Good, MultiOK
  <1>3. /\ Current(c) \in Type /\ Range(r.out) = Anc(r) /\ r.errors = {} /\ Injective(r.out)
    BY <1>1, <1>2, AtPosition
  <1>4. calls' = [calls EXCEPT ![c] = q]
    BY DEF DeclareFails, Goes, Becomes
  <1>5. /\ q \in CallRecord /\ q.stage = "rejected" /\ q.type = r.type /\ q.multi = r.multi
        /\ q.next = r.next /\ q.out = r.out /\ q.errors = r.errors
    BY <1>2 DEF CallRecord, CallStages
  <1> HIDE DEF q
  <1>6. Good(q) /\ Follows(r, q)
    BY <1>2, <1>3, <1>5 DEF Good, CallOK, MultiOK, PublishOK, Anc, Follows
  <1>7. /\ exchanges' \in {exchanges, exchanges \cup {Current(c)}} /\ declared' = declared
        /\ copies' = copies /\ doubtful' = doubtful /\ closed' = closed
        /\ HostsAlone
    BY DEF DeclareFails, HostsAlone, consumers, producer
  <1>8. faults' \in 0..MaxFaults
    <2>1. faults \in 0..MaxFaults
      BY DEF IInv, TypeOK
    <2>2. faults' = faults \/ (faults < MaxFaults /\ faults' = faults + 1)
      BY DEF DeclareFails, Fault
    <2> QED
      BY <2>1, <2>2, Constants
  <1>9. /\ exchanges \subseteq exchanges' /\ exchanges' \subseteq Type
        /\ declared \subseteq declared' /\ declared' \subseteq exchanges' /\ closed' \in BOOLEAN
    BY <1>3, <1>7 DEF IInv, TypeOK, MemoIsTrue
  <1>10. \A i \in (1..q.next - 1) \ q.errors : i \in (1..r.next - 1) \ r.errors
    BY <1>5
  <1> QED
    BY <1>1, <1>4, <1>5, <1>6, <1>7, <1>8, <1>9, <1>10, QuietMove

(* A send, with or without its confirm.                                    *)
LEMMA SendStep ==
    ASSUME IInv, NEW c \in Call, Send(c)
    PROVE  IInv'
  <1>1. calls[c] # Unused /\ calls[c].stage = "send"
    BY DEF Send, Sends, Unused
  <1>2. Advances(c, calls[c].errors)
    BY DEF Send
  <1>3. PICK q : /\ calls' = [calls EXCEPT ![c] = q]
                 /\ Good(q) /\ Follows(calls[c], q)
                 /\ q.next = calls[c].next + 1 /\ q.errors = calls[c].errors
                 /\ ~(~q.multi /\ q.stage = "send")
    BY <1>1, <1>2, AdvanceGood
  <1>4. /\ HostsAlone /\ copies' = copies \cup Routed(c) /\ doubtful' = doubtful
        /\ UNCHANGED <<exchanges, producer>> /\ faults' \in 0..MaxFaults
    BY DEF Send, HostsAlone, consumers, IInv, TypeOK
  <1>5. calls[c].next \in Nat
    BY <1>1, Begun
  <1>6. \A i \in (1..q.next - 1) \ q.errors :
            i = calls[c].next \/ i \in (1..calls[c].next - 1) \ calls[c].errors
    BY <1>3, <1>5
  <1> QED
    BY <1>1, <1>3, <1>4, <1>6, SendMove

LEMMA UnconfirmedStep ==
    ASSUME IInv, NEW c \in Call, Unconfirmed(c)
    PROVE  IInv'
  <1>1. calls[c] # Unused /\ calls[c].stage = "send" /\ Again(c)
    BY DEF Unconfirmed, Sends, Unused
  <1>2. PICK q : AgainTo(c, q)
    BY <1>1, AgainGood
  <1>3. /\ HostsAlone /\ copies' = copies \cup Routed(c) /\ doubtful' = doubtful \cup {c}
        /\ UNCHANGED <<exchanges, producer>>
    BY DEF Unconfirmed, HostsAlone, consumers
  <1>4. faults' \in 0..MaxFaults
    <2>1. faults \in 0..MaxFaults /\ faults < MaxFaults /\ faults' = faults + 1
      BY DEF IInv, TypeOK, Unconfirmed, Fault
    <2> QED
      BY <2>1, Constants
  <1>5. \A i \in (1..q.next - 1) \ q.errors :
            i = calls[c].next \/ i \in (1..calls[c].next - 1) \ calls[c].errors
    BY <1>2 DEF AgainTo
  <1> QED
    BY <1>1, <1>2, <1>3, <1>4, <1>5, SendMove DEF AgainTo

LEMMA SendFailsStep ==
    ASSUME IInv, NEW c \in Call, SendFails(c)
    PROVE  IInv'
  <1>1. calls[c] # Unused /\ calls[c].stage = "send" /\ Again(c)
    BY DEF SendFails, Sends, Unused
  <1>2. PICK q : AgainTo(c, q)
    BY <1>1, AgainGood
  <1>3. faults' \in 0..MaxFaults
    <2>1. faults \in 0..MaxFaults
      BY DEF IInv, TypeOK
    <2>2. faults' = faults \/ (faults < MaxFaults /\ faults' = faults + 1)
      BY DEF SendFails, Fault
    <2> QED
      BY <2>1, <2>2, Constants
  <1>4. UNCHANGED <<broker, producer, since, doubtful, consumers>>
    BY DEF SendFails
  <1> QED
    BY <1>1, <1>2, <1>3, <1>4, LocalMove DEF AgainTo

LEMMA AbortStep ==
    ASSUME IInv, NEW c \in Call, Abort(c)
    PROVE  IInv'
  <1> DEFINE r == calls[c]
             q == [r EXCEPT !.aborted = TRUE]
  <1>1. calls[c] # Unused
    BY DEF Abort
  <1>2. r \in CallRecord /\ Good(r) /\ r.next \in Nat
    BY <1>1, Begun
  <1>3. calls' = [calls EXCEPT ![c] = q] /\ UNCHANGED <<broker, producer, since, doubtful, consumers>>
    BY DEF Abort, Becomes
  <1>4. /\ q \in CallRecord /\ q.stage = r.stage /\ q.type = r.type /\ q.multi = r.multi
        /\ q.next = r.next /\ q.out = r.out /\ q.errors = r.errors /\ q.stack = r.stack
    BY <1>2 DEF CallRecord
  <1> HIDE DEF q
  <1>5. Good(q) /\ Follows(r, q)
    BY <1>2, <1>4 DEF Good, CallOK, MultiOK, PublishOK, Anc, Visiting, Follows
  <1>6. faults' \in 0..MaxFaults
    <2>1. faults \in 0..MaxFaults /\ faults < MaxFaults /\ faults' = faults + 1
      BY DEF IInv, TypeOK, Abort, Fault
    <2> QED
      BY <2>1, Constants
  <1>7. ~q.multi /\ q.stage = "send" => q.out[q.next] \in declared
    BY <1>1, <1>4 DEF IInv, MemoIsTrue, Current
  <1> QED
    BY <1>1, <1>3, <1>4, <1>5, <1>6, <1>7, LocalMove

LEMMA DisposeStep ==
    ASSUME IInv, Dispose
    PROVE  IInv'
  <1>1. faults' \in 0..MaxFaults
    <2>1. faults \in 0..MaxFaults /\ faults < MaxFaults /\ faults' = faults + 1
      BY DEF IInv, TypeOK, Dispose, Fault
    <2> QED
      BY <2>1, Constants
  <1>2. closed' = TRUE /\ UNCHANGED <<broker, declared, outgoing, consumers>>
    BY DEF Dispose
  <1>3. TypeOK' /\ MemoIsTrue'
    BY <1>1, <1>2 DEF IInv, TypeOK, MemoIsTrue, Current, broker, outgoing, consumers
  <1>4. CallsGood' /\ CopiesOK' /\ NoDuplicates' /\ AllReached'
    BY <1>2 DEF IInv, CallsGood, CopiesOK, CopyOK, NoDuplicates, AllReached, Reached, Served,
                broker, outgoing
  <1>5. BindingsOK' /\ WalksOK'
    BY <1>2 DEF IInv, BindingsOK, Consumes, WalksOK, WalkOK, TypeOf, broker, outgoing, consumers
  <1> QED
    BY <1>3, <1>4, <1>5 DEF IInv
-----------------------------------------------------------------------------
(* The steps of a host, which leave the calls and the copies alone.        *)
LEMMA HostMove ==
    ASSUME IInv, UNCHANGED <<copies, producer, outgoing>>,
           exchanges \subseteq exchanges', bindings \subseteq bindings',
           TypeOK', BindingsOK', WalksOK'
    PROVE  IInv'
  <1>1. MemoIsTrue'
    BY DEF IInv, MemoIsTrue, Current, producer, outgoing
  <1>2. CallsGood' /\ NoDuplicates' /\ AllReached'
    BY DEF IInv, CallsGood, NoDuplicates, AllReached, Reached, Served, outgoing
  <1>3. CopiesOK'
    BY DEF IInv, CopiesOK, CopyOK, outgoing
  <1> QED
    BY <1>1, <1>2, <1>3 DEF IInv

(* Those that only declare leave the dispatches alone as well.             *)
LEMMA TopologyMove ==
    ASSUME IInv, NEW h \in Host, NEW r \in Topology,
           r.at # "off" \/ registry[h] = Registrations[h],
           \A t \in r.bind : Consumes(h, t),
           StartGoes(h, r), UNCHANGED <<copies, producer, outgoing, registry, jobs, consumed, changes, faults>>,
           exchanges \subseteq exchanges' /\ exchanges' \subseteq Type,
           bindings \subseteq bindings' /\ bindings' \subseteq (Type \cup Host) \X Host,
           \A t \in Type, g \in Host : <<t, g>> \in bindings' => Consumes(g, t)
    PROVE  IInv'
  <1>1. /\ hosts' \in [Host -> Topology] /\ hosts'[h] = r
        /\ \A g \in Host : g # h => hosts'[g] = hosts[g]
    BY DEF IInv, TypeOK, StartGoes
  <1>2. TypeOK'
    BY <1>1 DEF IInv, TypeOK, producer, outgoing
  <1>3. BindingsOK'
    BY <1>1 DEF IInv, BindingsOK, Consumes, outgoing
  <1>4. WalksOK'
    BY DEF IInv, WalksOK, WalkOK, TypeOf, outgoing
  <1> QED
    BY <1>2, <1>3, <1>4, HostMove

LEMMA StartHostStep ==
    ASSUME IInv, NEW h \in Host, StartHost(h)
    PROVE  IInv'
  <1> DEFINE r == [at |-> "starting", declare |-> ConsumedTypes(h), bind |-> ConsumedTypes(h)]
  <1>1. registry[h] = Registrations[h]
    BY DEF StartHost, IInv, BindingsOK
  <1>2. ConsumedTypes(h) \subseteq Type
    BY Constants DEF ConsumedTypes
  <1>3. r \in Topology /\ r.at = "starting" /\ r.bind = ConsumedTypes(h)
    BY <1>2 DEF Topology
  <1>4. \A t \in r.bind : Consumes(h, t)
    BY <1>1, <1>3 DEF ConsumedTypes, Consumes
  <1>5. /\ StartGoes(h, r) /\ bindings' = bindings \cup {<<h, h>>} /\ exchanges' = exchanges
        /\ UNCHANGED <<copies, producer, outgoing, registry, jobs, consumed, changes, faults>>
    BY DEF StartHost
  <1> HIDE DEF r
  <1>6. bindings' \subseteq (Type \cup Host) \X Host /\ exchanges' \subseteq Type
    BY <1>5 DEF IInv, TypeOK
  <1>7. \A t \in Type, g \in Host : <<t, g>> \in bindings' => Consumes(g, t)
    <2> SUFFICES ASSUME NEW t \in Type, NEW g \in Host, <<t, g>> \in bindings'
                 PROVE  Consumes(g, t)
      OBVIOUS
    <2>1. t # h
      BY Constants
    <2>2. <<t, g>> \in bindings
      BY <1>5, <2>1
    <2> QED
      BY <2>2 DEF IInv, BindingsOK
  <1> QED
    BY <1>3, <1>4, <1>5, <1>6, <1>7, TopologyMove

(* The start of a host as it goes on.                                      *)
LEMMA Starting ==
    ASSUME IInv, NEW h \in Host
    PROVE  /\ hosts[h] \in Topology /\ hosts[h].at \in {"off", "starting", "on"}
           /\ hosts[h].declare \subseteq Type /\ hosts[h].bind \subseteq Type
           /\ \A t \in hosts[h].bind : Consumes(h, t)
           /\ hosts[h].at = "off" => registry[h] = Registrations[h]
           /\ exchanges \subseteq Type /\ bindings \subseteq (Type \cup Host) \X Host
           /\ \A t \in Type, g \in Host : <<t, g>> \in bindings => Consumes(g, t)
  <1>1. hosts[h] \in Topology
    BY DEF IInv, TypeOK
  <1> QED
    BY <1>1 DEF IInv, TypeOK, BindingsOK, Topology

LEMMA DeclareTypeStep ==
    ASSUME IInv, NEW h \in Host, NEW t \in Type, DeclareType(h, t)
    PROVE  IInv'
  <1> DEFINE r == [hosts[h] EXCEPT !.declare = hosts[h].declare \ {t}]
  <1>1. StartGoes(h, r) /\ exchanges' = exchanges \cup {t} /\ bindings' = bindings
    BY Starting DEF DeclareType, StartGoes, Topology
  <1>2. UNCHANGED <<copies, producer, outgoing, registry, jobs, consumed, changes, faults>>
    BY DEF DeclareType
  <1>3. r \in Topology /\ r.at = hosts[h].at /\ r.bind = hosts[h].bind
    BY Starting DEF Topology
  <1> HIDE DEF r
  <1> QED
    BY <1>1, <1>2, <1>3, Starting, TopologyMove

LEMMA BindTypeStep ==
    ASSUME IInv, NEW h \in Host, NEW t \in Type, BindType(h, t)
    PROVE  IInv'
  <1> DEFINE r == [hosts[h] EXCEPT !.bind = hosts[h].bind \ {t}]
  <1>1. StartGoes(h, r) /\ exchanges' = exchanges /\ bindings' = bindings \cup {<<t, h>>}
    BY Starting DEF BindType, StartGoes, Topology
  <1>2. UNCHANGED <<copies, producer, outgoing, registry, jobs, consumed, changes, faults>>
    BY DEF BindType
  <1>3. r \in Topology /\ r.at = hosts[h].at /\ r.bind \subseteq hosts[h].bind
    BY Starting DEF Topology
  <1>4. Consumes(h, t)
    BY Starting DEF BindType, IsFirst
  <1>5. \A u \in Type, g \in Host : <<u, g>> \in bindings' => Consumes(g, u)
    BY <1>1, <1>4, Starting
  <1>6. bindings' \subseteq (Type \cup Host) \X Host
    BY <1>1, Starting
  <1> HIDE DEF r
  <1> QED
    BY <1>1, <1>2, <1>3, <1>5, <1>6, Starting, TopologyMove

LEMMA ReadyStep ==
    ASSUME IInv, NEW h \in Host, Ready(h)
    PROVE  IInv'
  <1> DEFINE r == [hosts[h] EXCEPT !.at = "on"]
  <1>1. StartGoes(h, r) /\ UNCHANGED <<exchanges, bindings>>
    BY DEF Ready, broker
  <1>2. UNCHANGED <<copies, producer, outgoing, registry, jobs, consumed, changes, faults>>
    BY DEF Ready, broker
  <1>3. r \in Topology /\ r.at = "on" /\ r.bind = hosts[h].bind
    BY Starting DEF Topology
  <1> HIDE DEF r
  <1> QED
    BY <1>1, <1>2, <1>3, Starting, TopologyMove

LEMMA HostFailsStep ==
    ASSUME IInv, NEW h \in Host, HostFails(h)
    PROVE  IInv'
  <1>1. UNCHANGED <<broker, producer, outgoing, consumed, changes>>
    BY DEF HostFails
  <1>2. /\ hosts' \in [Host -> Topology] /\ hosts'[h] = Off
        /\ \A g \in Host : g # h => hosts'[g] = hosts[g]
    BY DEF HostFails, StartGoes, IInv, TypeOK, Off, Topology
  <1>3. /\ registry' \in [Host -> [Type -> Seq(Handler)]] /\ registry'[h] = Registrations[h]
        /\ \A g \in Host : g # h => registry'[g] = registry[g]
    BY Constants DEF HostFails, IInv, TypeOK
  <1>4. /\ jobs' \in [Host -> Job \cup {Idle}] /\ jobs'[h] = Idle
        /\ \A g \in Host : g # h => jobs'[g] = jobs[g]
    BY DEF HostFails, IInv, TypeOK
  <1>5. faults' \in 0..MaxFaults
    <2>1. faults \in 0..MaxFaults /\ faults < MaxFaults /\ faults' = faults + 1
      BY DEF IInv, TypeOK, HostFails, Fault
    <2> QED
      BY <2>1, Constants
  <1>6. TypeOK'
    BY <1>1, <1>2, <1>3, <1>4, <1>5 DEF IInv, TypeOK, broker, producer, outgoing
  <1>7. BindingsOK'
    BY <1>1, <1>2, <1>3 DEF IInv, BindingsOK, Consumes, Off, broker, outgoing
  <1>8. WalksOK'
    <2> SUFFICES ASSUME NEW g \in Host, jobs'[g] # Idle
                 PROVE  jobs'[g].copy \in copies' /\ WalkOK(g, jobs[g])'
      BY DEF WalksOK
    <2>1. jobs'[g] = jobs[g] /\ registry'[g] = registry[g]
      BY <1>3, <1>4
    <2> QED
      BY <1>1, <2>1 DEF IInv, WalksOK, WalkOK, TypeOf, broker, outgoing
  <1> QED
    BY <1>1, <1>6, <1>7, <1>8, HostMove DEF broker

LEMMA ChangesStep ==
    ASSUME IInv, NEW h \in Host, NEW t \in Type, NEW list \in Seq(Handler), Changes(h, t, list)
    PROVE  IInv'
  <1>1. UNCHANGED <<broker, producer, outgoing, hosts, jobs, consumed, faults>>
    BY DEF Changes
  <1>2. /\ registry' \in [Host -> [Type -> Seq(Handler)]]
        /\ \A g \in Host : g # h => registry'[g] = registry[g]
    BY DEF Changes, IInv, TypeOK
  <1>3. hosts[h].at # "off" /\ jobs[h] = Idle
    BY DEF Changes
  <1>4. changes' \in 0..MaxChanges
    <2>1. changes \in 0..MaxChanges /\ changes < MaxChanges /\ changes' = changes + 1
      BY DEF IInv, TypeOK, Changes
    <2> QED
      BY <2>1, Constants
  <1>5. TypeOK'
    BY <1>1, <1>2, <1>4 DEF IInv, TypeOK, broker, producer, outgoing
  <1>6. BindingsOK'
    BY <1>1, <1>2, <1>3 DEF IInv, BindingsOK, Consumes, broker, outgoing
  <1>7. WalksOK'
    <2> SUFFICES ASSUME NEW g \in Host, jobs'[g] # Idle
                 PROVE  jobs'[g].copy \in copies' /\ WalkOK(g, jobs[g])'
      BY DEF WalksOK
    <2>1. jobs'[g] = jobs[g] /\ registry'[g] = registry[g]
      BY <1>1, <1>2, <1>3
    <2> QED
      BY <1>1, <2>1 DEF IInv, WalksOK, WalkOK, TypeOf, broker, outgoing
  <1> QED
    BY <1>1, <1>5, <1>6, <1>7, HostMove DEF broker

LEMMA HandleStep ==
    ASSUME IInv, NEW h \in Host, NEW t \in Type, NEW r \in Handler, Handle(h, t, r) \/ Unhandle(h, t, r)
    PROVE  IInv'
  <1>1. registry[h][t] \in Seq(Handler)
    BY DEF IInv, TypeOK
  <1>2. CASE Handle(h, t, r)
    <2>1. Append(registry[h][t], r) \in Seq(Handler)
      BY <1>1
    <2> QED
      BY <1>2, <2>1, ChangesStep DEF Handle
  <1>3. CASE Unhandle(h, t, r)
    <2>1. PICK n \in 0..Len(registry[h][t]) :
             \E kept \in [1..n -> DOMAIN registry[h][t]] :
                 Changes(h, t, [i \in 1..n |-> registry[h][t][kept[i]]])
      BY <1>3 DEF Unhandle
    <2>2. PICK kept \in [1..n -> DOMAIN registry[h][t]] :
             Changes(h, t, [i \in 1..n |-> registry[h][t][kept[i]]])
      BY <2>1
    <2>3. [i \in 1..n |-> registry[h][t][kept[i]]] \in Seq(Handler)
      BY <1>1
    <2> QED
      BY <2>2, <2>3, ChangesStep
  <1> QED
    BY <1>2, <1>3
-----------------------------------------------------------------------------
(* The dispatches of a host.                                               *)
DispatchMove(h, j) ==
    /\ jobs' = [jobs EXCEPT ![h] = j]
    /\ UNCHANGED <<broker, producer, outgoing, hosts, registry, changes, faults>>

LEMMA WalkMove ==
    ASSUME IInv, NEW h \in Host, NEW j \in Job \cup {Idle}, DispatchMove(h, j),
           j # Idle => j.copy \in copies /\ WalkOK(h, j),
           consumed' \subseteq copies
    PROVE  IInv'
  <1>1. /\ jobs' \in [Host -> Job \cup {Idle}] /\ jobs'[h] = j
        /\ \A g \in Host : g # h => jobs'[g] = jobs[g]
    BY DEF DispatchMove, IInv, TypeOK
  <1>2. UNCHANGED <<broker, producer, outgoing, hosts, registry, changes, faults>>
    BY DEF DispatchMove
  <1>3. TypeOK'
    BY <1>1, <1>2 DEF IInv, TypeOK, broker, producer, outgoing
  <1>4. BindingsOK'
    BY <1>2 DEF IInv, BindingsOK, Consumes, broker, outgoing
  <1>5. WalksOK'
    <2> SUFFICES ASSUME NEW g \in Host, jobs'[g] # Idle
                 PROVE  jobs'[g].copy \in copies' /\ WalkOK(g, jobs[g])'
      BY DEF WalksOK
    <2>1. jobs'[g].copy \in copies /\ WalkOK(g, jobs'[g])
      BY <1>1 DEF IInv, WalksOK
    <2> QED
      BY <1>2, <2>1 DEF WalkOK, TypeOf, broker, outgoing
  <1> QED
    BY <1>2, <1>3, <1>4, <1>5, HostMove DEF broker

(* A copy in a queue is one of a call, of a type.                          *)
LEMMA CopyOfCall ==
    ASSUME IInv, NEW x \in copies
    PROVE  x \in Copy /\ x[1] \in Call /\ x[4] \in Host /\ calls[x[1]].type \in Type
  <1>1. x \in Copy /\ CopyOK(x)
    BY DEF IInv, TypeOK, CopiesOK
  <1>2. x[1] \in Call /\ calls[x[1]] # Unused /\ x[4] \in Host
    BY <1>1, CopyParts DEF CopyOK
  <1> QED
    BY <1>1, <1>2, Begun

LEMMA TakeStep ==
    ASSUME IInv, NEW h \in Host, NEW x \in copies, Take(h, x)
    PROVE  IInv'
  <1> DEFINE t == calls[x[1]].type
             j == [at |-> "walk", copy |-> x, todo |-> <<t>>, visited |-> {}, resolved |-> <<>>]
  <1>1. x \in Copy /\ t \in Type
    BY CopyOfCall
  <1>2. DispatchMove(h, j) /\ consumed' = consumed
    BY DEF Take, DispatchMove
  <1> HIDE DEF t
  <1>3. <<t>> \in Seq(Type \cup Handler)
    BY <1>1
  <1>4. j \in Job /\ j.copy = x /\ j.todo = <<t>> /\ j.visited = {} /\ j.resolved = <<>>
    BY <1>1, <1>3 DEF Job
  <1> HIDE DEF j
  <1>5. TypeOf(j) = t /\ Range(<<t>>) = {t} /\ Range(<<>>) = {} /\ t \notin Handler
    BY <1>1, <1>4, Constants DEF TypeOf, Range, t
  <1>6. t \in AncAt(h, t)
    BY <1>1, AncestorsClosed, Constants DEF AncAt
  <1>7. Injective(j.resolved)
    BY <1>4 DEF Injective
  <1>8. WalkOK(h, j)
    BY <1>1, <1>4, <1>5, <1>6, <1>7 DEF WalkOK
  <1>9. consumed' \subseteq copies
    BY <1>2 DEF IInv, TypeOK
  <1> QED
    BY <1>2, <1>4, <1>8, <1>9, WalkMove

LEMMA TakeUnknownStep ==
    ASSUME IInv, NEW h \in Host, NEW x \in copies, TakeUnknown(h, x)
    PROVE  IInv'
  <1>1. /\ consumed' = consumed \cup {x}
        /\ UNCHANGED <<broker, producer, outgoing, hosts, registry, jobs, changes, faults>>
    BY DEF TakeUnknown
  <1>2. TypeOK'
    BY <1>1 DEF IInv, TypeOK, broker, producer, outgoing
  <1>3. BindingsOK'
    BY <1>1 DEF IInv, BindingsOK, Consumes, broker, outgoing
  <1>4. WalksOK'
    BY <1>1 DEF IInv, WalksOK, WalkOK, TypeOf, broker, outgoing
  <1> QED
    BY <1>1, <1>2, <1>3, <1>4, HostMove DEF broker

(* A dispatch under way.                                                   *)
LEMMA UnderWay ==
    ASSUME IInv, NEW h \in Host, jobs[h] # Idle
    PROVE  /\ jobs[h] \in Job /\ jobs[h].copy \in copies /\ WalkOK(h, jobs[h])
           /\ jobs[h].todo \in Seq(Type \cup Handler) /\ jobs[h].visited \subseteq Type
           /\ jobs[h].resolved \in Seq(Handler) /\ TypeOf(jobs[h]) \in Type
           /\ registry[h] \in [Type -> Seq(Handler)] /\ ParentsAt[h] \in [Type -> Seq(Type)]
           /\ consumed \subseteq copies
  <1>1. jobs[h] \in Job /\ jobs[h].copy \in copies /\ WalkOK(h, jobs[h])
    BY DEF IInv, TypeOK, WalksOK
  <1> QED
    BY <1>1, CopyOfCall, Constants DEF Job, TypeOf, IInv, TypeOK

LEMMA WalkTypeStep ==
    ASSUME IInv, NEW h \in Host, WalkType(h)
    PROVE  IInv'
  <1> DEFINE j == jobs[h]
             t == Head(j.todo)
             own == TypeOf(j)
             types == j.visited \cup (Range(j.todo) \cap Type)
             found == Range(j.resolved) \cup (Range(j.todo) \cap Handler)
  <1>1. j # Idle /\ j.todo # <<>> /\ t \in Type
    BY DEF WalkType
  <1>2. /\ j \in Job /\ j.copy \in copies /\ j.todo \in Seq(Type \cup Handler)
        /\ j.visited \subseteq Type /\ j.resolved \in Seq(Handler) /\ own \in Type
        /\ registry[h] \in [Type -> Seq(Handler)] /\ ParentsAt[h] \in [Type -> Seq(Type)]
        /\ consumed \subseteq copies
    BY <1>1, UnderWay
  <1>3. /\ own \in types /\ types \subseteq AncAt(h, own)
        /\ \A u \in j.visited : Range(ParentsAt[h][u]) \subseteq types
        /\ found = UNION {Range(registry[h][u]) : u \in j.visited}
        /\ Injective(j.resolved)
    BY <1>1, UnderWay DEF WalkOK
  <1>4. /\ Tail(j.todo) \in Seq(Type \cup Handler)
        /\ Range(j.todo) = {t} \cup Range(Tail(j.todo))
    BY <1>1, <1>2, RangeHeadTail
  <1>5. t \notin Handler
    BY <1>1, Constants
  <1> HIDE DEF t
  <1>6. CASE t \in j.visited
    <2> DEFINE q == [j EXCEPT !.todo = Tail(j.todo)]
    <2>1. /\ q \in Job /\ q.copy = j.copy /\ q.todo = Tail(j.todo) /\ q.visited = j.visited
          /\ q.resolved = j.resolved
      BY <1>2, <1>4 DEF Job
    <2>2. DispatchMove(h, q) /\ consumed' = consumed
      BY <1>6, <1>2 DEF WalkType, Walks, DispatchMove, t, Job
    <2> HIDE DEF q
    <2>3. /\ TypeOf(q) = own /\ q # Idle
          /\ q.visited \cup (Range(q.todo) \cap Type) = types
          /\ Range(q.resolved) \cup (Range(q.todo) \cap Handler) = found
      <3>1. TypeOf(q) = own /\ q # Idle
        BY <2>1 DEF TypeOf, Job, Idle
      <3>2. q.visited \cup (Range(q.todo) \cap Type) = types
        BY <1>1, <1>4, <1>6, <2>1
      <3>3. Range(q.resolved) \cup (Range(q.todo) \cap Handler) = found
        BY <1>4, <1>5, <2>1
      <3> QED
        BY <3>1, <3>2, <3>3
    <2>4. WalkOK(h, q)
      <3> HIDE DEF types, found, own
      <3> QED
        BY <1>3, <2>1, <2>3 DEF WalkOK
    <2> QED
      BY <1>2, <2>1, <2>2, <2>4, WalkMove
  <1>7. CASE t \notin j.visited
    <2> DEFINE handlers == registry[h][t]
               parents == ParentsAt[h][t]
               both == handlers \o parents
               todo == both \o Tail(j.todo)
               q == [j EXCEPT !.visited = j.visited \cup {t}, !.todo = todo]
    <2>1. handlers \in Seq(Handler) /\ parents \in Seq(Type)
      BY <1>1, <1>2
    <2>2. Range(handlers) \subseteq Handler /\ Range(parents) \subseteq Type
      BY <2>1, RangeTyped
    <2>3. handlers \in Seq(Type \cup Handler) /\ parents \in Seq(Type \cup Handler)
      BY <2>1
    <2>4. /\ both \in Seq(Type \cup Handler)
          /\ Range(both) = Range(handlers) \cup Range(parents)
      BY <2>3, RangeConcat
    <2> HIDE DEF both
    <2>5. /\ todo \in Seq(Type \cup Handler)
          /\ Range(todo) = Range(handlers) \cup Range(parents) \cup Range(Tail(j.todo))
      <3> DEFINE tail == Tail(j.todo)
      <3>1. tail \in Seq(Type \cup Handler)
        BY <1>4
      <3> HIDE DEF tail, handlers, parents
      <3>2. Range(both \o tail) = Range(both) \cup Range(tail) /\ both \o tail \in Seq(Type \cup Handler)
        BY ONLY <2>4, <3>1, RangeConcat
      <3> QED
        BY <2>4, <3>2 DEF tail
    <2> HIDE DEF todo
    <2>6. /\ q \in Job /\ q.copy = j.copy /\ q.todo = todo /\ q.visited = j.visited \cup {t}
          /\ q.resolved = j.resolved
      BY <1>1, <1>2, <2>5 DEF Job
    <2>7. DispatchMove(h, q) /\ consumed' = consumed
      BY <1>7, <1>2 DEF WalkType, Walks, DispatchMove, t, both, todo, Job
    <2> HIDE DEF q, handlers, parents
    <2>8. /\ TypeOf(q) = own /\ q # Idle
          /\ q.visited \cup (Range(q.todo) \cap Type) = types \cup Range(parents)
          /\ Range(q.resolved) \cup (Range(q.todo) \cap Handler) = found \cup Range(handlers)
      <3>1. TypeOf(q) = own /\ q # Idle
        BY <1>1, <2>6 DEF TypeOf, Job, Idle
      <3>2. q.visited \cup (Range(q.todo) \cap Type) = types \cup Range(parents)
        BY <1>1, <1>4, <2>2, <2>5, <2>6, Constants
      <3>3. Range(q.resolved) \cup (Range(q.todo) \cap Handler) = found \cup Range(handlers)
        BY <1>4, <1>5, <2>2, <2>5, <2>6, Constants
      <3> QED
        BY <3>1, <3>2, <3>3
    <2>9. Range(parents) \subseteq AncAt(h, own)
      <3>1. t \in AncAt(h, own)
        BY <1>1, <1>3, <1>4
      <3> QED
        BY <3>1, <1>2, AncestorsClosed DEF AncAt, parents
    <2>10. found \cup Range(handlers) = UNION {Range(registry[h][u]) : u \in q.visited}
      <3> HIDE DEF found
      <3> QED
        BY <1>3, <2>6 DEF handlers
    <2>11. WalkOK(h, q)
      <3> HIDE DEF types, found, own
      <3>1. \A u \in q.visited : Range(ParentsAt[h][u]) \subseteq types \cup Range(parents)
        BY <1>3, <2>6 DEF parents
      <3> QED
        BY <1>3, <2>6, <2>8, <2>9, <2>10, <3>1 DEF WalkOK
    <2> QED
      BY <1>2, <2>6, <2>7, <2>11, WalkMove
  <1> QED
    BY <1>6, <1>7

LEMMA WalkRegistrationStep ==
    ASSUME IInv, NEW h \in Host, WalkRegistration(h)
    PROVE  IInv'
  <1> DEFINE j == jobs[h]
             r == Head(j.todo)
             own == TypeOf(j)
             types == j.visited \cup (Range(j.todo) \cap Type)
             found == Range(j.resolved) \cup (Range(j.todo) \cap Handler)
             resolved == IF r \in Range(j.resolved) THEN j.resolved ELSE Append(j.resolved, r)
             q == [j EXCEPT !.todo = Tail(j.todo), !.resolved = resolved]
  <1>1. j # Idle /\ j.todo # <<>> /\ r \in Handler
    BY DEF WalkRegistration
  <1>2. /\ j \in Job /\ j.copy \in copies /\ j.todo \in Seq(Type \cup Handler)
        /\ j.visited \subseteq Type /\ j.resolved \in Seq(Handler) /\ own \in Type
        /\ consumed \subseteq copies
    BY <1>1, UnderWay
  <1>3. /\ own \in types /\ types \subseteq AncAt(h, own)
        /\ \A u \in j.visited : Range(ParentsAt[h][u]) \subseteq types
        /\ found = UNION {Range(registry[h][u]) : u \in j.visited}
        /\ Injective(j.resolved)
    BY <1>1, UnderWay DEF WalkOK
  <1>4. /\ Tail(j.todo) \in Seq(Type \cup Handler)
        /\ Range(j.todo) = {r} \cup Range(Tail(j.todo))
    BY <1>1, <1>2, RangeHeadTail
  <1>5. r \notin Type
    BY <1>1, Constants
  <1>6. DispatchMove(h, q) /\ consumed' = consumed
    BY <1>2 DEF WalkRegistration, Walks, DispatchMove, Job
  <1> HIDE DEF r
  <1>7. /\ resolved \in Seq(Handler) /\ Range(resolved) = Range(j.resolved) \cup {r}
        /\ Injective(resolved)
    <2>1. CASE r \in Range(j.resolved)
      BY <2>1, <1>2, <1>3
    <2>2. CASE r \notin Range(j.resolved)
      <3>1. Append(j.resolved, r) \in Seq(Handler)
        BY <1>1, <1>2
      <3> QED
        BY <2>2, <3>1, <1>1, <1>2, <1>3, RangeAppend, AppendInjective
    <2> QED
      BY <2>1, <2>2
  <1> HIDE DEF resolved
  <1>8. /\ q \in Job /\ q.copy = j.copy /\ q.todo = Tail(j.todo) /\ q.visited = j.visited
        /\ q.resolved = resolved
    BY <1>2, <1>4, <1>7 DEF Job
  <1> HIDE DEF q
  <1>9. /\ TypeOf(q) = own /\ q # Idle
        /\ q.visited \cup (Range(q.todo) \cap Type) = types
        /\ Range(q.resolved) \cup (Range(q.todo) \cap Handler) = found
    <2>1. TypeOf(q) = own /\ q # Idle
      BY <1>8 DEF TypeOf, Job, Idle
    <2>2. q.visited \cup (Range(q.todo) \cap Type) = types
      BY <1>4, <1>5, <1>8
    <2>3. Range(q.resolved) \cup (Range(q.todo) \cap Handler) = found
      BY <1>1, <1>4, <1>7, <1>8
    <2> QED
      BY <2>1, <2>2, <2>3
  <1>10. WalkOK(h, q)
    <2> HIDE DEF types, found, own
    <2> QED
      BY <1>3, <1>7, <1>8, <1>9 DEF WalkOK
  <1> QED
    BY <1>2, <1>6, <1>8, <1>10, WalkMove

LEMMA DispatchedStep ==
    ASSUME IInv, NEW h \in Host, Dispatched(h)
    PROVE  IInv'
  <1>1. DispatchMove(h, Idle) /\ consumed' = consumed \cup {jobs[h].copy} /\ jobs[h] # Idle
    BY DEF Dispatched, DispatchMove
  <1>2. consumed' \subseteq copies
    BY <1>1, UnderWay
  <1> QED
    BY <1>1, <1>2, WalkMove
-----------------------------------------------------------------------------
LEMMA InitHolds == Init => IInv
  <1> SUFFICES ASSUME Init
               PROVE  IInv
    OBVIOUS
  <1>1. TypeOK
    <2>1. hosts \in [Host -> Topology] /\ jobs \in [Host -> Job \cup {Idle}]
      BY DEF Init, Off, Topology
    <2>2. changes \in 0..MaxChanges /\ faults \in 0..MaxFaults
      BY Constants DEF Init
    <2> QED
      BY <2>1, <2>2, Constants DEF Init, TypeOK
  <1>2. MemoIsTrue /\ CallsGood /\ CopiesOK /\ NoDuplicates /\ AllReached
    BY DEF Init, MemoIsTrue, CallsGood, CopiesOK, NoDuplicates, AllReached
  <1>3. BindingsOK /\ WalksOK
    BY DEF Init, BindingsOK, WalksOK, Off
  <1> QED
    BY <1>1, <1>2, <1>3 DEF IInv

LEMMA NextHolds == IInv /\ [Next]_vars => IInv'
  <1> SUFFICES ASSUME IInv, [Next]_vars
               PROVE  IInv'
    OBVIOUS
  <1>1. ASSUME NEW c \in Call, Loops(c) \/ CallStep(c)
        PROVE  IInv'
    <2>1. CASE Loops(c)
      BY <2>1, VisitTypeStep, ClosureDoneStep DEF Loops
    <2>2. CASE CallStep(c)
      BY <2>2, RefusedStep, OutgoingPassesStep, DeclareStep, DeclareFailsStep, SendStep,
         SendFailsStep DEF CallStep
    <2> QED
      BY <1>1, <2>1, <2>2
  <1>2. ASSUME NEW h \in Host, Walk(h) \/ HostStep(h)
        PROVE  IInv'
    <2>1. CASE Walk(h)
      BY <2>1, WalkTypeStep, WalkRegistrationStep, DispatchedStep DEF Walk
    <2>2. CASE HostStep(h)
      BY <2>2, StartHostStep, DeclareTypeStep, BindTypeStep, ReadyStep, TakeStep,
         TakeUnknownStep DEF HostStep
    <2> QED
      BY <1>2, <2>1, <2>2
  <1>3. CASE Environment
    <2>1. ASSUME NEW c \in Call, NEW t \in Published, PublishCall(c, t)
          PROVE  IInv'
      BY <2>1, NewCallGood, BeginStep, Constants DEF PublishCall
    <2>2. ASSUME NEW c \in Call, NEW t \in Sent, NEW list \in Endpoints, SendToMany(c, t, list)
          PROVE  IInv'
      BY <2>2, NewCallGood, BeginStep, Constants DEF SendToMany
    <2> QED
      BY <1>3, <2>1, <2>2, UnconfirmedStep, AbortStep, DisposeStep, HostFailsStep, HandleStep
         DEF Environment
  <1>4. CASE UNCHANGED vars
    <2>1. UNCHANGED <<broker, producer, outgoing, consumers, faults>>
      BY <1>4 DEF vars
    <2>2. TypeOK' /\ MemoIsTrue'
      BY <2>1 DEF IInv, TypeOK, MemoIsTrue, Current, broker, producer, outgoing, consumers
    <2>3. CallsGood' /\ CopiesOK' /\ NoDuplicates' /\ AllReached'
      BY <2>1 DEF IInv, CallsGood, CopiesOK, CopyOK, NoDuplicates, AllReached, Reached, Served,
                  broker, outgoing
    <2>4. BindingsOK'
      BY <2>1 DEF IInv, BindingsOK, Consumes, broker, outgoing, consumers
    <2>5. WalksOK'
      BY <2>1 DEF IInv, WalksOK, WalkOK, TypeOf, broker, outgoing, consumers
    <2> QED
      BY <2>2, <2>3, <2>4, <2>5 DEF IInv
  <1> QED
    BY <1>1, <1>2, <1>3, <1>4 DEF Next

LEMMA Inductive == Spec => []IInv
  BY InitHolds, NextHolds, PTL DEF Spec
-----------------------------------------------------------------------------
(* The state is well-typed; no send is attempted more often than           *)
(* maxAttempts.                                                            *)
THEOREM PublishTypeCorrect == Spec => []TypeOK
  <1>1. IInv => TypeOK
    BY DEF IInv
  <1> QED
    BY <1>1, Inductive, PTL

(* What the producer remembers as declared exists, and it sends to nothing *)
(* else.                                                                   *)
THEOREM PublishMemoIsTrue == Spec => []MemoIsTrue
  <1>1. IInv => MemoIsTrue
    BY DEF IInv
  <1> QED
    BY <1>1, Inductive, PTL

(* A settled call has gone where it must: a publish to each ancestor of    *)
(* its type, whatever the hierarchy (cycles and diamonds too), a send to   *)
(* many to each endpoint, and from there to all who had subscribed.        *)
THEOREM PublishReachesEverySubscriber == Spec => []ReachesEverySubscriber
  <1>1. ASSUME IInv
        PROVE  ReachesEverySubscriber
    <2> SUFFICES ASSUME NEW c \in Call, Settled(c)
                 PROVE  LET r == calls[c]
                            sent == IF r.stage = "resolved" \/ (r.multi /\ r.errors # {})
                                      THEN DOMAIN r.out \ r.errors ELSE {}
                        IN  /\ r.stage = "resolved" => r.errors = {}
                            /\ r.stage = "resolved" /\ ~r.multi =>
                                 Range(r.out) = Ancestors(r.type, Parents)
                            /\ \A i \in sent, h \in Host : <<r.out[i], h>> \in since[c] =>
                                 \E x \in CopiesOf(c) : x[2] = i /\ x[4] = h
      BY DEF ReachesEverySubscriber
    <2> DEFINE r == calls[c]
               sent == IF r.stage = "resolved" \/ (r.multi /\ r.errors # {})
                         THEN DOMAIN r.out \ r.errors ELSE {}
    <2>1. /\ r # Unused /\ Good(r) /\ r.out \in Seq(Target) /\ r.next \in Nat
          /\ r.stage \in {"resolved", "rejected"} /\ Reached(c)
      BY <1>1, Begun DEF Settled, IInv, AllReached
    <2>2. r.stage = "resolved" => r.errors = {} /\ r.next = Len(r.out) + 1
      BY <2>1 DEF Good, CallOK
    <2>3. r.stage = "resolved" /\ ~r.multi => Range(r.out) = Ancestors(r.type, Parents)
      BY <2>1 DEF Good, PublishOK, Anc
    <2>4. r.multi /\ r.stage = "rejected" /\ r.errors # {} => r.next = Len(r.out) + 1
      BY <2>1 DEF Good, MultiOK
    <2>5. ASSUME NEW i \in sent, NEW h \in Host, <<r.out[i], h>> \in since[c]
          PROVE  \E x \in CopiesOf(c) : x[2] = i /\ x[4] = h
      <3>1. i \in DOMAIN r.out \ r.errors /\ r.next = Len(r.out) + 1
        BY <2>1, <2>2, <2>4
      <3>2. DOMAIN r.out = 1..Len(r.out) /\ Len(r.out) \in Nat
        BY <2>1
      <3>3. i \in (1..r.next - 1) \ r.errors
        BY <3>1, <3>2
      <3>4. Served(c, i, h)
        BY <2>1, <2>5, <3>3 DEF Reached
      <3> QED
        BY <3>4 DEF Served, CopiesOf
    <2> HIDE DEF sent
    <2> QED
      BY <2>2, <2>3, <2>5 DEF sent
  <1> QED
    BY <1>1, Inductive, PTL

(* Each host has one copy for each type it consumes that the message is,   *)
(* unless a confirm was lost.                                              *)
THEOREM PublishOneCopyPerConsumedType == Spec => []OneCopyPerConsumedType
  <1>1. ASSUME IInv
        PROVE  OneCopyPerConsumedType
    <2> SUFFICES ASSUME NEW x \in copies, ~calls[x[1]].multi
                 PROVE  /\ TargetOf(x) \in Ancestors(calls[x[1]].type, Parents)
                        /\ Registrations[x[4]][TargetOf(x)] # <<>> \/ TargetOf(x) \in Others[x[4]]
                        /\ \A y \in copies : y[1] = x[1] /\ y[4] = x[4] /\ TargetOf(y) = TargetOf(x)
                                             /\ x[1] \notin doubtful => y = x
      BY DEF OneCopyPerConsumedType
    <2> DEFINE r == calls[x[1]]
    <2>1. CopyOK(x) /\ x[1] \in Call /\ x[4] \in Host
      BY <1>1, CopyOfCall DEF IInv, CopiesOK
    <2>2. r # Unused /\ x[2] \in DOMAIN r.out /\ <<TargetOf(x), x[4]>> \in bindings
      BY <2>1 DEF CopyOK, TargetOf
    <2>3. PublishOK(r) /\ r.type \in Type
      BY <1>1, <2>1, <2>2, Begun DEF Good
    <2>4. TargetOf(x) \in Anc(r)
      BY <2>2, <2>3 DEF PublishOK, TargetOf, Range
    <2>5. TargetOf(x) \in Type
      BY <2>3, <2>4, AncestorsClosed, Constants DEF Anc
    <2>6. Consumes(x[4], TargetOf(x))
      BY <1>1, <2>1, <2>2, <2>5 DEF IInv, BindingsOK
    <2>7. ASSUME NEW y \in copies, y[1] = x[1], y[4] = x[4], TargetOf(y) = TargetOf(x),
                 x[1] \notin doubtful
          PROVE  y = x
      <3>1. y[2] \in DOMAIN r.out
        BY <1>1, <2>7 DEF IInv, CopiesOK, CopyOK
      <3>2. y[2] = x[2]
        BY <2>2, <2>3, <2>7, <3>1 DEF PublishOK, Injective, TargetOf
      <3> QED
        BY <1>1, <2>7, <3>2 DEF IInv, NoDuplicates
    <2> QED
      BY <2>4, <2>6, <2>7 DEF Anc, Consumes
  <1> QED
    BY <1>1, Inductive, PTL

(* handlersFor returns exactly the handlers of the type and its ancestors, *)
(* each of them once.                                                      *)
THEOREM PublishHandlersExact == Spec => []HandlersExact
  <1>1. ASSUME IInv
        PROVE  HandlersExact
    <2> SUFFICES ASSUME NEW h \in Host, jobs[h] # Idle, jobs[h].todo = <<>>
                 PROVE  LET j == jobs[h]
                            types == Ancestors(calls[j.copy[1]].type, ParentsAt[h])
                        IN  /\ Range(j.resolved) = UNION {Range(registry[h][t]) : t \in types}
                            /\ \A a, b \in DOMAIN j.resolved : j.resolved[a] = j.resolved[b] => a = b
      BY DEF HandlersExact
    <2> DEFINE j == jobs[h]
    <2>1. WalkOK(h, j) /\ j.visited \subseteq Type /\ Range(j.todo) = {}
      BY <1>1, UnderWay DEF Range
    <2>2. /\ TypeOf(j) \in j.visited /\ j.visited \subseteq AncAt(h, TypeOf(j))
          /\ \A u \in j.visited : Range(ParentsAt[h][u]) \subseteq j.visited
          /\ Range(j.resolved) = UNION {Range(registry[h][u]) : u \in j.visited}
          /\ Injective(j.resolved)
      BY <2>1 DEF WalkOK
    <2>3. AncAt(h, TypeOf(j)) \subseteq j.visited
      BY <2>1, <2>2, AncestorsLeast DEF AncAt
    <2> QED
      BY <2>2, <2>3 DEF AncAt, TypeOf, Injective
  <1> QED
    BY <1>1, Inductive, PTL
=============================================================================
