---------------------------- MODULE StreamProofs ----------------------------
(***************************************************************************)
(* Proofs about Stream, for any number of chunks, buffer size and number   *)
(* of faults, and whatever callers do after a failure.  What drain() takes *)
(* from the buffer is an interval that starts at the expected number       *)
(* (PrefixIsInterval), so the expected number passes nothing.              *)
(***************************************************************************)
EXTENDS Stream, FiniteSetTheorems, SequenceTheorems, TLAPS

(* A number in use belongs to a chunk the caller has passed.               *)
NumbersInUse ==
    /\ sender.number <= sender.chunk
    /\ sender.closed = "no" /\ sender.failed => sender.call = "none"
    /\ sender.closed = "no" /\ (sender.failed \/ sender.call # "none") =>
           sender.number < sender.chunk

(* A loop that runs belongs to a registered receiver; one that is over, to *)
(* a handler about to settle or settled.                                   *)
OverIsKnown ==
    /\ handler \in {"busy", "waiting"} => registered
    /\ LoopOver => registered \/ completed

Inv == TypeOK /\ NumbersInUse
-----------------------------------------------------------------------------
(* A set of numbers from a on, with all below each of its members, is an   *)
(* interval.                                                               *)
LEMMA PrefixIsInterval ==
    ASSUME NEW a \in Nat, NEW b \in Nat, NEW S \in SUBSET (a..b),
           \A n \in S : a..n \subseteq S
    PROVE  /\ Cardinality(S) \in Nat
           /\ a <= b + 1 => a + Cardinality(S) <= b + 1
           /\ \A i \in 1..Cardinality(S) : a + i - 1 \in S
  <1>1. IsFiniteSet(S) /\ Cardinality(S) <= Cardinality(a..b)
    <2>1. IsFiniteSet(a..b)
      BY FS_Interval
    <2> QED
      BY <2>1, FS_Subset
  <1>2. Cardinality(S) \in Nat
    BY <1>1, FS_CardinalityType
  <1>3. a <= b + 1 => a + Cardinality(S) <= b + 1
    <2>1. Cardinality(a..b) = IF a > b THEN 0 ELSE b - a + 1
      BY FS_Interval
    <2> QED
      BY <1>1, <1>2, <2>1
  <1>4. ASSUME NEW i \in 1..Cardinality(S), a + i - 1 \notin S PROVE FALSE
    <2>1. S \subseteq a..(a + i - 2)
      <3> SUFFICES ASSUME NEW n \in S, n > a + i - 2 PROVE FALSE
        BY <1>2
      <3>1. a + i - 1 \in a..n
        BY <1>2
      <3> QED
        BY <3>1, <1>4
    <2>2. IsFiniteSet(a..(a + i - 2)) /\ Cardinality(a..(a + i - 2)) = i - 1
      <3>1. \A j \in Int : /\ IsFiniteSet(a..j)
                            /\ Cardinality(a..j) = IF a > j THEN 0 ELSE j - a + 1
        BY FS_Interval
      <3>2. a + i - 2 \in Int /\ i \in Nat /\ i >= 1
        BY <1>2
      <3> QED
        BY <3>1, <3>2
    <2>3. Cardinality(S) <= i - 1
      BY <2>1, <2>2, FS_Subset
    <2> QED
      BY <1>2, <2>3
  <1> QED
    BY <1>2, <1>3, <1>4

(* What drain() finds: an interval from `next` on, of which all but a last *)
(* end marker are chunks.                                                  *)
LEMMA DrainFinds ==
    ASSUME StreamAssumption, NEW r \in Receiver
    PROVE  /\ Cardinality(Ready(r.buffer, r.next)) \in Nat
           /\ r.next + Cardinality(Ready(r.buffer, r.next)) <= Chunks + 1
           /\ ChunksOf(r.buffer, r.next) \in Seq(Chunk)
  <1> DEFINE ready == Ready(r.buffer, r.next)
             values == {n \in ready : r.buffer[n] # EndMark}
  <1>1. /\ r.next \in 0..Chunks + 1 /\ Chunks \in Nat
        /\ r.buffer \in [Number -> Chunk \cup {Nothing, EndMark}]
    BY DEF Receiver, StreamAssumption
  <1>2. ready \in SUBSET (r.next..Chunks) /\ \A n \in ready : r.next..n \subseteq ready
    BY <1>1 DEF Ready, Number
  <1>3. values \in SUBSET (r.next..Chunks) /\ \A n \in values : r.next..n \subseteq values
    <2>1. \A n \in values : \A i \in r.next..n : i \in ready /\ r.buffer[i] # EndMark
      BY <1>1, <1>2 DEF Ready, Number
    <2> QED
      BY <1>2, <2>1
  <1>4. \A n \in values : r.buffer[n] \in Chunk
    BY <1>1 DEF Ready, Filled, Number
  <1>5. Cardinality(ready) \in Nat /\ r.next + Cardinality(ready) <= Chunks + 1
    <2> HIDE DEF ready
    <2> QED
      BY <1>1, <1>2, PrefixIsInterval
  <1>6. /\ Cardinality(values) \in Nat
        /\ \A i \in 1..Cardinality(values) : r.next + i - 1 \in values
    <2> HIDE DEF values
    <2> QED
      BY <1>1, <1>3, PrefixIsInterval
  <1>7. ChunksOf(r.buffer, r.next) = [i \in 1..Cardinality(values) |-> r.buffer[r.next + i - 1]]
    BY DEF ChunksOf
  <1>8. ChunksOf(r.buffer, r.next) \in Seq(Chunk)
    <2> HIDE DEF values
    <2>1. \A i \in 1..Cardinality(values) : r.buffer[r.next + i - 1] \in Chunk
      BY <1>4, <1>6
    <2> QED
      BY <1>6, <1>7, <2>1
  <1> QED
    BY <1>5, <1>8
-----------------------------------------------------------------------------
LEMMA InitInv == StreamAssumption /\ Init => Inv /\ OverIsKnown
  <1> SUFFICES ASSUME StreamAssumption, Init PROVE Inv /\ OverIsKnown
    OBVIOUS
  <1>1. NewReceiver \in Receiver
    <2>1. <<>> \in Seq(Chunk) /\ 0 \in 0..Chunks + 1 /\ -1 \in Number \cup {-1}
      BY DEF StreamAssumption
    <2> QED
      BY <2>1 DEF NewReceiver, Receiver
  <1>2. sender \in Sender
    BY DEF StreamAssumption, Init, Sender, Number
  <1>3. TypeOK
    <2>1. read \in Seq(Chunk) /\ faults \in 0..MaxFaults
      BY DEF StreamAssumption, Init
    <2>2. receiver \in Receiver
      BY <1>1 DEF Init
    <2> QED
      BY <1>2, <2>1, <2>2 DEF Init, TypeOK
  <1>4. NumbersInUse /\ OverIsKnown
    BY DEF Init, NumbersInUse, OverIsKnown, LoopOver
  <1> QED
    BY <1>3, <1>4 DEF Inv

(* push(), whatever it does with the message, keeps the receiver in its    *)
(* type and gives the handler one chunk at most.                           *)
LEMMA PushTypes ==
    ASSUME StreamAssumption, TypeOK, NEW m \in broker, push(m)
    PROVE  /\ receiver' \in Receiver
           /\ handler' \in {"none", "busy", "waiting", "done", "faulted", "left"}
           /\ read' \in Seq(Chunk)
           /\ dead' \subseteq Message
  <1>0. /\ m \in Message /\ receiver \in Receiver /\ read \in Seq(Chunk) /\ dead \subseteq Message
        /\ Reading \in {"none", "busy", "waiting", "done", "faulted", "left"}
    BY DEF TypeOK, Reading
  <1>1. CASE receiver' = receiver /\ handler' = Reading /\ read' = read /\ dead' = dead
    BY <1>0, <1>1
  <1>2. CASE m.kind = "fault" /\ receiver' = [receiver EXCEPT !.faulted = TRUE, !.end = m.number]
             /\ handler' = (IF Reading = "waiting" THEN "faulted" ELSE Reading)
             /\ read' = read /\ dead' = dead
    BY <1>0, <1>2 DEF Receiver, Message
  <1>3. Ended(m) \in Receiver
    BY <1>0 DEF Ended, Receiver, Message
  <1>4. CASE Stay(Ended(m)) /\ dead' = dead \cup {m}
    BY <1>0, <1>3, <1>4 DEF Stay
  <1>5. CASE /\ m.kind # "fault" /\ dead' = dead
             /\ Drain([Ended(m) EXCEPT !.buffer[m.number] =
                          IF m.kind = "end" THEN EndMark ELSE m.chunk])
    <2> DEFINE r == [Ended(m) EXCEPT !.buffer[m.number] =
                          IF m.kind = "end" THEN EndMark ELSE m.chunk]
               chunks == ChunksOf(r.buffer, r.next)
               ready == Ready(r.buffer, r.next)
    <2>1. r \in Receiver
      <3>1. (IF m.kind = "end" THEN EndMark ELSE m.chunk) \in Chunk \cup {Nothing, EndMark}
        BY <1>0 DEF Message, Chunk, Nothing, StreamAssumption
      <3> QED
        BY <1>0, <1>3, <3>1 DEF Receiver, Message
    <2> HIDE DEF r
    <2>2. Drain(r)
      BY <1>5 DEF r
    <2>3. /\ Cardinality(ready) \in Nat /\ r.next + Cardinality(ready) <= Chunks + 1
          /\ chunks \in Seq(Chunk)
      BY <2>1, DrainFinds
    <2>4. chunks # <<>> => Head(chunks) \in Chunk /\ Tail(chunks) \in Seq(Chunk)
      BY <2>3, HeadTailProperties
    <2> HIDE DEF chunks, ready
    <2>5. /\ receiver' = [r EXCEPT
               !.buffer = [n \in Number |-> IF n \in ready THEN Nothing ELSE r.buffer[n]],
               !.next = r.next + Cardinality(ready),
               !.pending = r.pending \o (IF Reading = "waiting" /\ chunks # <<>>
                                         THEN Tail(chunks) ELSE chunks)]
          /\ read' = IF Reading = "waiting" /\ chunks # <<>> THEN Append(read, Head(chunks))
                     ELSE read
      BY <2>2 DEF Drain, chunks, ready
    <2>6. /\ r.next + Cardinality(ready) \in 0..Chunks + 1
          /\ [n \in Number |-> IF n \in ready THEN Nothing ELSE r.buffer[n]]
                 \in [Number -> Chunk \cup {Nothing, EndMark}]
          /\ r.pending \o (IF Reading = "waiting" /\ chunks # <<>> THEN Tail(chunks) ELSE chunks)
                 \in Seq(Chunk)
      BY <2>1, <2>3, <2>4 DEF Receiver, StreamAssumption
    <2>7. receiver' \in Receiver
      BY <2>1, <2>5, <2>6 DEF Receiver
    <2>8. handler' \in {"none", "busy", "waiting", "done", "faulted", "left"}
      BY <1>0, <2>2 DEF Drain
    <2> QED
      BY <1>0, <1>5, <2>4, <2>5, <2>7, <2>8
  <1> QED
    BY <1>1, <1>2, <1>4, <1>5 DEF push, Stay
-----------------------------------------------------------------------------
LEMMA ReceiveInv ==
    ASSUME StreamAssumption, Inv, NEW m \in broker, Receive(m) \/ BadBody(m)
    PROVE  /\ receiver' \in Receiver
           /\ handler' \in {"none", "busy", "waiting", "done", "faulted", "left"}
           /\ read' \in Seq(Chunk)
           /\ dead' \subseteq Message
           /\ registered' \in BOOLEAN /\ completed' \in BOOLEAN
  <1> USE DEF Inv
  <1>1. CASE Receive(m) /\ completed
    BY <1>1 DEF Receive, TypeOK, registry
  <1>2. CASE Receive(m) /\ ~completed
    <2>1. push(m) /\ ensureReceiver /\ completed' = completed
      BY <1>2 DEF Receive
    <2> QED
      BY <2>1, PushTypes DEF ensureReceiver, TypeOK
  <1>3. CASE BadBody(m)
    BY <1>3 DEF BadBody, Stay, Reading, ensureReceiver, TypeOK
  <1> QED
    BY <1>1, <1>2, <1>3

LEMMA NextInv == StreamAssumption /\ Inv /\ [Next]_vars => Inv'
  <1> SUFFICES ASSUME StreamAssumption, Inv, [Next]_vars PROVE Inv'
    OBVIOUS
  <1> USE DEF Inv
  <1>0. MaxFaults \in Nat /\ Chunks \in Nat /\ faults \in 0..MaxFaults /\ sender \in Sender
    BY DEF StreamAssumption, TypeOK
  <1>1. ASSUME Fault PROVE faults' \in 0..MaxFaults
    BY <1>0, <1>1 DEF Fault
  <1>2. NewReceiver \in Receiver /\ <<>> \in Seq(Chunk)
    BY DEF TypeOK, NewReceiver, Receiver, StreamAssumption
  <1>3. ASSUME NEW c \in Chunk, sendChunk(c) PROVE Inv'
    <2>1. c \in 0..Chunks /\ sender.number < c
      BY <1>0, <1>3 DEF sendChunk, Turn, Chunk, Sender, NumbersInUse, Number
    <2>2. sender' \in Sender
      BY <1>0, <1>3, <2>1 DEF sendChunk, Sender
    <2>3. sender'.number = sender.number /\ sender'.chunk = c /\ sender'.failed = FALSE
      BY <1>0, <1>3 DEF sendChunk, Sender
    <2>4. NumbersInUse'
      BY <1>0, <2>1, <2>3 DEF NumbersInUse, Sender, Number
    <2> QED
      BY <1>3, <2>2, <2>4 DEF sendChunk, TypeOK, receiving, registry
  <1>4. ASSUME NEW how \in {"end", "fault"}, Close(how) PROVE Inv'
    <2>1. sender' \in Sender /\ NumbersInUse'
      BY <1>0, <1>4 DEF Close, Sender, NumbersInUse, Number
    <2> QED
      BY <1>4, <2>1 DEF Close, TypeOK, receiving, registry
  <1>5. ASSUME Accept PROVE Inv'
    <2>1. sender' \in Sender /\ NumbersInUse'
      BY <1>0, <1>5 DEF Accept, Sender, NumbersInUse, Number
    <2>2. Outgoing \in Message
      BY <1>0 DEF Outgoing, Sender, Message
    <2> QED
      BY <1>5, <2>1, <2>2 DEF Accept, TypeOK, receiving, registry
  <1>6. ASSUME Confirm PROVE Inv'
    <2>1. sender' \in Sender /\ NumbersInUse'
      <3>1. CASE sender.closed = "no"
        <4>1. sender.number + 1 \in Number /\ sender.number + 1 <= sender.chunk /\ ~sender.failed
          BY <1>0, <1>6, <3>1 DEF Confirm, Sender, NumbersInUse, Number
        <4>2. sender' = [sender EXCEPT !.call = "none", !.number = sender.number + 1]
          BY <1>6, <3>1 DEF Confirm
        <4> QED
          BY <1>0, <4>1, <4>2 DEF Sender, NumbersInUse
      <3>2. CASE sender.closed # "no"
        <4>1. sender' = [sender EXCEPT !.call = "none", !.number = sender.number]
          BY <1>6, <3>2 DEF Confirm
        <4> QED
          BY <1>0, <3>2, <4>1 DEF Sender, NumbersInUse
      <3> QED
        BY <3>1, <3>2
    <2> QED
      BY <1>6, <2>1 DEF Confirm, TypeOK, receiving, registry
  <1>7. ASSUME SendFails PROVE Inv'
    <2>1. sender' \in Sender /\ NumbersInUse'
      BY <1>0, <1>7 DEF SendFails, Sender, NumbersInUse, Number
    <2> QED
      BY <1>1, <1>7, <2>1 DEF SendFails, TypeOK, receiving, registry
  <1>8. ASSUME NEW m \in broker, Deliver(m) PROVE Inv'
    BY <1>8, ReceiveInv DEF Deliver, TypeOK, NumbersInUse
  <1>9. ASSUME NEW m \in broker, DeliverUnacked(m) PROVE Inv'
    BY <1>1, <1>9, ReceiveInv DEF DeliverUnacked, TypeOK, NumbersInUse
  <1>10. ASSUME NEW m \in broker, BadBody(m) PROVE Inv'
    <2>1. broker' \subseteq Message /\ faults' \in 0..MaxFaults /\ sender' = sender
          /\ UNCHANGED <<bus, interrupted>>
      BY <1>1, <1>10 DEF BadBody, TypeOK
    <2> QED
      BY <1>10, <2>1, ReceiveInv DEF TypeOK, NumbersInUse
  <1>11. ASSUME next PROVE Inv'
    <2>1. CASE receiver.pending # <<>>
      <3>1. Head(receiver.pending) \in Chunk /\ Tail(receiver.pending) \in Seq(Chunk)
        BY <2>1, HeadTailProperties DEF TypeOK, Receiver
      <3>2. /\ receiver' = [receiver EXCEPT !.pending = Tail(receiver.pending)]
            /\ read' = Append(read, Head(receiver.pending))
        BY <1>11, <2>1 DEF next
      <3>3. receiver' \in Receiver /\ read' \in Seq(Chunk)
        <4>1. receiver' \in Receiver
          BY <3>1, <3>2 DEF TypeOK, Receiver
        <4>2. read \in Seq(Chunk)
          BY DEF TypeOK
        <4> QED
          BY <3>1, <3>2, <4>1, <4>2, AppendProperties
      <3> QED
        BY <1>11, <2>1, <3>3 DEF next, TypeOK, NumbersInUse, writing
    <2>2. CASE receiver.pending = <<>>
      BY <1>11, <2>2 DEF next, TypeOK, NumbersInUse, writing
    <2> QED
      BY <2>1, <2>2
  <1>12. ASSUME Leave \/ Settle PROVE Inv'
    BY <1>2, <1>12 DEF Leave, Settle, TypeOK, NumbersInUse, writing
  <1>13. ASSUME Evict \/ Crash PROVE Inv'
    BY <1>1, <1>2, <1>13 DEF Evict, Crash, Forgotten, TypeOK, NumbersInUse
  <1>14. ASSUME Stop PROVE Inv'
    BY <1>1, <1>14 DEF Stop, TypeOK, NumbersInUse, registry
  <1>15. ASSUME drain PROVE Inv'
    BY <1>2, <1>15 DEF drain, Forgotten, TypeOK, NumbersInUse
  <1>16. CASE UNCHANGED vars
    BY <1>16 DEF vars, TypeOK, NumbersInUse
  <1> QED
    BY <1>3, <1>4, <1>5, <1>6, <1>7, <1>8, <1>9, <1>10, <1>11, <1>12, <1>13, <1>14, <1>15, <1>16
       DEF Next

(* The fields of sender, receiver and registry keep their ranges: no       *)
(* number passes that of the end marker.                                   *)
THEOREM StreamTypeCorrect == Spec => []TypeOK
  <1>1. StreamAssumption
    BY StreamAssumption
  <1>2. Inv => TypeOK
    BY DEF Inv
  <1> QED
    BY <1>1, <1>2, InitInv, NextInv, PTL DEF Spec
-----------------------------------------------------------------------------
(* No message wakes a handler whose loop is over: it is registered until   *)
(* it settles, and then its id is completed.                               *)
LEMMA ReceiveAfterLoop ==
    ASSUME OverIsKnown, LoopOver, NEW m, Receive(m) \/ BadBody(m)
    PROVE  UNCHANGED handler /\ (registered' \/ completed')
  <1>1. CASE completed
    BY <1>1 DEF Receive, BadBody, registry
  <1>2. CASE ~completed
    <2>1. registered /\ Reading = handler /\ handler # "waiting"
      BY <1>2 DEF OverIsKnown, LoopOver, Reading
    <2>2. registered'
      BY <1>2 DEF Receive, BadBody, ensureReceiver
    <2>3. CASE Receive(m)
      <3>1. push(m)
        BY <1>2, <2>3 DEF Receive
      <3> QED
        BY <2>1, <2>2, <3>1 DEF push, Stay, Drain
    <2>4. CASE BadBody(m)
      BY <2>1, <2>2, <2>4 DEF BadBody, Stay
    <2> QED
      BY <2>3, <2>4
  <1> QED
    BY <1>1, <1>2

(* While it is over nothing but a new start of the host changes that.      *)
LEMMA LoopStaysOver ==
    ASSUME OverIsKnown, LoopOver, [Next]_vars
    PROVE  interrupted' \/ (UNCHANGED handler /\ (registered' \/ completed'))
  <1>0. registered \/ completed
    BY DEF OverIsKnown
  <1>1. ASSUME NEW m \in broker, Deliver(m) \/ DeliverUnacked(m) \/ BadBody(m)
        PROVE  UNCHANGED handler /\ (registered' \/ completed')
    BY <1>1, ReceiveAfterLoop DEF Deliver, DeliverUnacked
  <1>2. ASSUME \/ \E c \in Chunk : sendChunk(c)
               \/ \E how \in {"end", "fault"} : Close(how)
               \/ Accept \/ Confirm \/ SendFails \/ Stop
        PROVE  UNCHANGED <<handler, registered, completed>>
    BY <1>2 DEF sendChunk, Close, Accept, Confirm, SendFails, Stop, receiving, registry
  <1>3. ~next /\ ~Leave
    BY DEF next, Leave, LoopOver
  <1>4. ASSUME Settle PROVE UNCHANGED handler /\ completed'
    BY <1>4 DEF Settle
  <1>5. ASSUME Evict \/ Crash \/ drain PROVE interrupted'
    BY <1>5 DEF Evict, Crash, drain, Forgotten
  <1>6. CASE UNCHANGED vars
    BY <1>0, <1>6 DEF vars
  <1> QED
    BY <1>0, <1>1, <1>2, <1>3, <1>4, <1>5, <1>6 DEF Next
LEMMA NextOverIsKnown == OverIsKnown /\ [Next]_vars => OverIsKnown'
  <1> SUFFICES ASSUME OverIsKnown, [Next]_vars PROVE OverIsKnown'
    OBVIOUS
  <1> USE DEF OverIsKnown, LoopOver
  <1>1. ASSUME NEW m \in broker, Receive(m) \/ BadBody(m) PROVE OverIsKnown'
    BY <1>1 DEF Receive, BadBody, ensureReceiver, registry
  <1>2. ASSUME NEW m \in broker, Deliver(m) \/ DeliverUnacked(m) PROVE OverIsKnown'
    BY <1>1, <1>2 DEF Deliver, DeliverUnacked
  <1>3. ASSUME \/ \E c \in Chunk : sendChunk(c)
               \/ \E how \in {"end", "fault"} : Close(how)
               \/ Accept \/ Confirm \/ SendFails \/ Stop
        PROVE  OverIsKnown'
    BY <1>3 DEF sendChunk, Close, Accept, Confirm, SendFails, Stop, receiving, registry
  <1>4. ASSUME next \/ Leave PROVE OverIsKnown'
    BY <1>4 DEF next, Leave
  <1>5. ASSUME Settle PROVE OverIsKnown'
    BY <1>5 DEF Settle
  <1>6. ASSUME Evict \/ Crash \/ drain PROVE OverIsKnown'
    BY <1>6 DEF Evict, Crash, drain, Forgotten
  <1>7. CASE UNCHANGED vars
    BY <1>7 DEF vars
  <1> QED
    BY <1>1, <1>2, <1>3, <1>4, <1>5, <1>6, <1>7 DEF Next

(* hasCompleted and ensureReceiver: as long as the host runs and remembers *)
(* the id, no message that comes late or again makes a handler read on     *)
(* after its loop has ended.                                               *)
THEOREM StreamHandledOnce == Spec => HandledOnce
  <1>1. StreamAssumption
    BY StreamAssumption
  <1>2. OverIsKnown /\ [Next]_vars => [LoopOver /\ ~interrupted' => UNCHANGED handler]_vars
    BY LoopStaysOver
  <1> QED
    BY <1>1, <1>2, InitInv, NextOverIsKnown, PTL DEF Spec, HandledOnce
-----------------------------------------------------------------------------
(* The refinement, for callers that retry what failed.  Chunk n + 1 then   *)
(* travels under number n.                                                 *)
Numbered ==
    /\ sender.closed = "no" =>
         sender.number = IF sender.failed \/ sender.call # "none"
                         THEN sender.chunk - 1 ELSE sender.chunk
    /\ sender.closed = "end" => sender.number = sender.chunk

(* What a message under way says of the sender.                            *)
Carried(m) ==
    /\ m.kind = "chunk" => m.chunk = m.number + 1 /\ m.chunk <= sender.chunk
    /\ m.kind = "end" => sender.closed = "end" /\ m.number = sender.chunk
    /\ m.kind = "fault" => sender.closed = "fault"
InBroker == \A m \in broker : Carried(m)

(* What a record in the buffer and the marks of the receiver say of it.    *)
Slotted(b) ==
    \A n \in Number : \/ b[n] = Nothing
                      \/ b[n] = n + 1 /\ n < sender.chunk
                      \/ b[n] = EndMark /\ n = sender.chunk /\ sender.closed = "end"
Marked(r) ==
    /\ r.faulted => sender.closed = "fault"
    /\ r.end >= 0 /\ ~r.faulted => sender.closed = "end" /\ r.end = sender.chunk

(* What was read and what is pending are the chunks up to the expected     *)
(* number, which is one further once the end marker was drained.           *)
Count(r, rd) ==
    LET got == Len(rd) + Len(r.pending)
    IN /\ \A i \in 1..Len(rd) : rd[i] = i
       /\ \A i \in 1..Len(r.pending) : r.pending[i] = Len(rd) + i
       /\ got <= sender.chunk
       /\ \/ r.next = got
          \/ r.next = got + 1 /\ got = sender.chunk /\ sender.closed = "end"
Counted == registered \/ ~completed => Count(receiver, read)

(* A receiver that is not registered is new; a reader waits for nothing    *)
(* that is pending.                                                        *)
Fresh ==
    /\ ~registered => receiver = NewReceiver
    /\ registered => handler # "none"
    /\ handler = "none" => read = <<>>
    /\ handler = "waiting" => receiver.pending = <<>>

InOrder == /\ Inv /\ OverIsKnown /\ Numbered /\ InBroker
           /\ Slotted(receiver.buffer) /\ Marked(receiver) /\ Counted /\ Fresh

(* What drain() finds in such a buffer: v chunks that carry on from the    *)
(* expected number, and perhaps the end marker behind the last chunk.      *)
LEMMA DrainOrder ==
    ASSUME StreamAssumption, sender \in Sender, NEW r \in Receiver, Slotted(r.buffer)
    PROVE  LET chunks == ChunksOf(r.buffer, r.next)
               ready == Ready(r.buffer, r.next)
           IN \E v \in Nat :
                /\ chunks \in Seq(Chunk) /\ Len(chunks) = v
                /\ \A i \in 1..v : chunks[i] = r.next + i
                /\ v > 0 => r.next + v <= sender.chunk
                /\ \/ Cardinality(ready) = v /\ (v = 0 => ready = {})
                   \/ /\ Cardinality(ready) = v + 1
                      /\ r.next + v = sender.chunk /\ sender.closed = "end"
  <1> DEFINE a == r.next
             b == r.buffer
             last == sender.chunk
             ready == Ready(b, a)
             values == {n \in ready : b[n] # EndMark}
             v == Cardinality(values)
  <1>1. /\ a \in Nat /\ Chunks \in Nat /\ last \in 0..Chunks
        /\ b \in [Number -> Chunk \cup {Nothing, EndMark}]
    BY DEF Receiver, StreamAssumption, Sender
  <1>2. ready \in SUBSET (a..Chunks) /\ \A n \in ready : a..n \subseteq ready
    BY <1>1 DEF Ready, Number
  <1>3. values \in SUBSET (a..Chunks) /\ \A n \in values : a..n \subseteq values
    <2>1. \A n \in values : \A i \in a..n : i \in ready /\ b[i] # EndMark
      BY <1>1, <1>2 DEF Ready, Number
    <2> QED
      BY <1>2, <2>1
  <1>4. ASSUME NEW n \in ready
        PROVE  \/ b[n] = n + 1 /\ n < last
               \/ b[n] = EndMark /\ n = last /\ sender.closed = "end"
    BY <1>1, <1>2 DEF Slotted, Ready, Filled, Number
  <1>5. \A n \in values : b[n] = n + 1 /\ n < last
    BY <1>4
  <1>6. /\ v \in Nat
        /\ \A i \in 1..v : a + i - 1 \in values
    <2> HIDE DEF values
    <2> QED
      BY <1>1, <1>3, PrefixIsInterval
  <1>7. ChunksOf(b, a) = [i \in 1..v |-> b[a + i - 1]]
    BY DEF ChunksOf
  <1> HIDE DEF v, values, ready, a, b, last
  <1>8. ASSUME NEW i \in 1..v
        PROVE  b[a + i - 1] = a + i /\ a + i <= last
    <2>1. a + i - 1 \in values
      BY <1>6
    <2>2. b[a + i - 1] = (a + i - 1) + 1 /\ a + i - 1 < last
      BY <1>5, <2>1
    <2>3. i \in Nat /\ a \in Nat /\ last \in Nat
      BY <1>1, <1>6
    <2> QED
      BY ONLY <2>2, <2>3
  <1>9. /\ ChunksOf(b, a) \in Seq(Chunk) /\ Len(ChunksOf(b, a)) = v
        /\ \A i \in 1..v : ChunksOf(b, a)[i] = a + i
    <2>1. ASSUME NEW i \in 1..v PROVE b[a + i - 1] \in Chunk
      <3>1. i \in Nat /\ i >= 1 /\ a + i <= last /\ b[a + i - 1] = a + i
        BY <1>6, <1>8
      <3>2. a + i \in 1..Chunks
        BY ONLY <1>1, <3>1
      <3> QED
        BY <3>1, <3>2 DEF Chunk
    <2>2. \A i \in 1..v : ChunksOf(b, a)[i] = b[a + i - 1]
      BY <1>7
    <2>3. ChunksOf(b, a) \in [1..v -> Chunk]
      BY <1>7, <2>1
    <2>4. ChunksOf(b, a) \in Seq(Chunk) /\ Len(ChunksOf(b, a)) = v
      BY <1>6, <2>3
    <2> QED
      BY <1>8, <2>2, <2>4
  <1>10. v > 0 => a + v <= last
    BY <1>1, <1>6, <1>8
  <1>11. CASE \A n \in ready : b[n] # EndMark
    <2>1. ready = values
      BY <1>11 DEF values
    <2>2. v = 0 => ready = {}
      <3>1. IsFiniteSet(a..Chunks)
        BY <1>1, FS_Interval
      <3>2. IsFiniteSet(values)
        BY <1>3, <3>1, FS_Subset
      <3> QED
        BY <2>1, <3>2, FS_EmptySet DEF v
    <2> QED
      BY <1>6, <1>9, <1>10, <2>1, <2>2 DEF v, ready, a, b, last
  <1>12. CASE \E n \in ready : b[n] = EndMark
    <2>0. PICK e \in ready : b[e] = EndMark
      BY <1>12
    <2>1. last \in ready /\ b[last] = EndMark /\ sender.closed = "end"
      <3>1. e \in Nat /\ b[e] # e + 1
        BY <1>1, <1>2, <2>0 DEF EndMark
      <3> QED
        BY <1>4, <2>0, <3>1
    <2>2. ready = a..last /\ a <= last
      <3>1. \A n \in ready : n \in a..Chunks /\ n <= last
        BY <1>1, <1>2, <1>4
      <3>2. a..last \subseteq ready
        BY <1>2, <2>1
      <3>3. a <= last /\ last \in Nat
        BY <1>1, <2>1, <3>1
      <3>4. \A n \in ready : n \in a..last
        BY ONLY <1>1, <3>1, <3>3
      <3> QED
        BY ONLY <3>2, <3>3, <3>4
    <2>3. values = a..(last - 1)
      <3>1. \A n \in a..last : n # last => b[n] # EndMark
        BY <1>1, <1>4, <2>2 DEF EndMark
      <3>2. values = {n \in a..last : n # last}
        BY <2>1, <2>2, <3>1 DEF values
      <3> QED
        BY <1>1, <2>2, <3>2
    <2>4. \A j \in Int : Cardinality(a..j) = IF a > j THEN 0 ELSE j - a + 1
      BY <1>1, FS_Interval
    <2>5. Cardinality(ready) = last - a + 1 /\ v = last - a
      <3>1. a \in Int /\ last \in Int /\ last - 1 \in Int
        BY <1>1
      <3>2. Cardinality(a..last) = last - a + 1
        BY ONLY <2>2, <2>4, <3>1
      <3>3. Cardinality(a..(last - 1)) = last - a
        BY ONLY <2>2, <2>4, <3>1
      <3> QED
        BY <2>2, <2>3, <3>2, <3>3 DEF v
    <2>6. Cardinality(ready) = v + 1 /\ a + v = last
      BY ONLY <1>1, <2>5
    <2> QED
      BY <1>6, <1>9, <1>10, <2>1, <2>6 DEF ready, a, b, last
  <1> QED
    BY <1>11, <1>12

(* What one step may do to the reading handler, from state h on.           *)
Going(h) == h \in {"none", "busy", "waiting"}
Moves(h) ==
    \/ handler' = h /\ read' = read
    \/ Going(h) /\ Going(handler') /\ read' = read
    \/ Going(h) /\ Going(handler') /\ read' = Append(read, Len(read) + 1) /\ Len(read) < sender.chunk
    \/ Going(h) /\ handler' = "done" /\ read' = read
         /\ Len(read) = sender.chunk /\ sender.closed = "end"
    \/ Going(h) /\ handler' = "faulted" /\ read' = read /\ sender.closed = "fault"
    \/ Going(h) /\ handler' = "left" /\ read' = read

(* drain() hands the chunks on in order and ends the loop at the end.      *)
LEMMA DrainStep ==
    ASSUME StreamAssumption, sender \in Sender, sender' = sender, NEW r \in Receiver,
           read \in Seq(Chunk), Slotted(r.buffer), Marked(r), Count(r, read),
           Reading = "waiting" => r.pending = <<>>, Reading # "none", Drain(r)
    PROVE  /\ Slotted(receiver.buffer)' /\ Marked(receiver)' /\ Count(receiver, read)'
           /\ handler' # "none"
           /\ handler' = "waiting" => receiver'.pending = <<>>
           /\ Moves(Reading)
  <1> DEFINE chunks == ChunksOf(r.buffer, r.next)
             ready == Ready(r.buffer, r.next)
             woken == Reading = "waiting" /\ chunks # <<>>
             ended == Reading = "waiting" /\ chunks = <<>> /\ ready # {}
             k == Cardinality(ready)
             last == sender.chunk
  <1>1. /\ r.next \in Nat /\ r.pending \in Seq(Chunk) /\ last \in Nat
        /\ r.buffer \in [Number -> Chunk \cup {Nothing, EndMark}]
    BY DEF Receiver, Sender, StreamAssumption
  <1>2. PICK v \in Nat :
                /\ chunks \in Seq(Chunk) /\ Len(chunks) = v
                /\ \A i \in 1..v : chunks[i] = r.next + i
                /\ v > 0 => r.next + v <= last
                /\ \/ k = v /\ (v = 0 => ready = {})
                   \/ k = v + 1 /\ r.next + v = last /\ sender.closed = "end"
    BY DrainOrder
  <1>3. /\ receiver' = [r EXCEPT
               !.buffer = [n \in Number |-> IF n \in ready THEN Nothing ELSE r.buffer[n]],
               !.next = r.next + k,
               !.pending = r.pending \o (IF woken THEN Tail(chunks) ELSE chunks)]
        /\ handler' = IF woken THEN "busy" ELSE IF ended THEN "done" ELSE Reading
        /\ read' = IF woken THEN Append(read, Head(chunks)) ELSE read
    BY DEF Drain
  <1> HIDE DEF chunks, ready, k
  <1>4. /\ receiver'.buffer = [n \in Number |-> IF n \in ready THEN Nothing ELSE r.buffer[n]]
        /\ receiver'.next = r.next + k
        /\ receiver'.pending = r.pending \o (IF woken THEN Tail(chunks) ELSE chunks)
        /\ receiver'.end = r.end /\ receiver'.faulted = r.faulted
    BY <1>3 DEF Receiver
  <1>5. Slotted(receiver.buffer)'
    BY <1>4 DEF Slotted
  <1>6. Marked(receiver)'
    BY <1>4 DEF Marked
  <1> DEFINE l == Len(read)
             p == Len(r.pending)
             a == r.next
  <1>7. /\ l \in Nat /\ p \in Nat
        /\ \A i \in 1..l : read[i] = i
        /\ \A i \in 1..p : r.pending[i] = l + i
        /\ l + p <= last
        /\ a = l + p \/ (a = l + p + 1 /\ l + p = last /\ sender.closed = "end")
    BY <1>1, LenProperties DEF Count
  <1>8. chunks \in Seq(Chunk) /\ Len(chunks) = v /\ \A i \in 1..v : chunks[i] = a + i
    BY <1>2
  <1>9. /\ v \in Nat /\ a \in Nat /\ last \in Nat /\ (v > 0 => a + v <= last)
        /\ \/ k = v /\ (v = 0 => ready = {})
           \/ k = v + 1 /\ a + v = last /\ sender.closed = "end"
    BY <1>1, <1>2
  <1>10. ASSUME NEW rd, NEW q, Len(rd) + Len(q) = l + p + v, Len(rd) \in Nat,
               \A i \in 1..Len(rd) : rd[i] = i, \A i \in 1..Len(q) : q[i] = Len(rd) + i,
               read' = rd, receiver'.pending = q
         PROVE  Count(receiver, read)'
    <2>1. (receiver.next)' = a + k /\ (sender.chunk)' = last /\ (sender.closed)' = sender.closed
      BY <1>4
    <2> HIDE DEF l, p, a, last
    <2>2. /\ l + p + v <= last
          /\ \/ a + k = l + p + v
             \/ a + k = l + p + v + 1 /\ l + p + v = last /\ sender.closed = "end"
      BY ONLY <1>7, <1>9
    <2> QED
      BY ONLY <1>10, <2>1, <2>2 DEF Count
  <1>11. v > 0 => a = l + p
    <2> HIDE DEF l, p, a, last
    <2> QED
      BY ONLY <1>7, <1>9
  <1>12. CASE woken
    <2>1. r.pending = <<>> /\ p = 0
      BY <1>12, EmptySeq
    <2>2. v > 0
      BY <1>8, <1>9, <1>12, EmptySeq
    <2>3. /\ Head(chunks) = chunks[1] /\ Tail(chunks) \in Seq(Chunk)
          /\ Len(Tail(chunks)) = v - 1
          /\ \A i \in 1..v - 1 : Tail(chunks)[i] = chunks[i + 1]
      BY <1>8, <1>12, HeadTailProperties
    <2>4. receiver'.pending = Tail(chunks)
      BY <1>4, <1>12, <2>1, <2>3, ConcatEmptySeq
    <2> HIDE DEF p, a, last
    <2>5. Head(chunks) = l + 1 /\ a = l /\ l < last
      <3>1. a = l
        BY <1>7, <1>9, <1>11, <2>1, <2>2
      <3>2. 1 \in 1..v
        BY <1>9, <2>2
      <3> QED
        BY <1>7, <1>8, <1>9, <2>2, <2>3, <3>1, <3>2
    <2>6. read' = Append(read, l + 1) /\ handler' = "busy"
      BY <1>3, <1>12, <2>5
    <2>7. Len(read') = l + 1 /\ \A i \in 1..l + 1 : read'[i] = i
      BY <1>7, <2>6
    <2>8. \A i \in 1..Len(Tail(chunks)) : Tail(chunks)[i] = Len(read') + i
      <3> SUFFICES ASSUME NEW i \in 1..v - 1 PROVE Tail(chunks)[i] = Len(read') + i
        BY <2>3
      <3>1. i + 1 \in 1..v
        BY <1>9
      <3>2. chunks[i + 1] = l + 1 + i
        BY <1>7, <1>8, <2>5, <3>1
      <3> QED
        BY <2>3, <2>7, <3>2
    <2>9. Len(read') + Len(Tail(chunks)) = l + p + v /\ Len(read') \in Nat
      BY <1>7, <1>9, <2>1, <2>3, <2>7
    <2>10. Count(receiver, read)'
      BY <1>10, <2>4, <2>7, <2>8, <2>9
    <2> QED
      BY <1>5, <1>6, <1>12, <2>5, <2>6, <2>10 DEF Moves, Going, last
  <1>13. CASE ~woken
    <2>1. receiver'.pending = r.pending \o chunks /\ read' = read
      BY <1>3, <1>4, <1>13
    <2>2. Len(r.pending \o chunks) = p + v
          /\ \A i \in 1..p + v :
                (r.pending \o chunks)[i] = IF i <= p THEN r.pending[i] ELSE chunks[i - p]
      <3>1. r.pending \in Seq(Chunk) /\ chunks \in Seq(Chunk) /\ Len(chunks) = v
        BY <1>1, <1>8
      <3> QED
        BY ONLY <3>1, ConcatProperties
    <2>3. \A i \in 1..p + v : (r.pending \o chunks)[i] = l + i
      <3> HIDE DEF p, a, l, last
      <3> SUFFICES ASSUME NEW i \in 1..p + v
                   PROVE  (r.pending \o chunks)[i] = l + i
        OBVIOUS
      <3>1. CASE i <= p
        BY <1>7, <2>2, <3>1
      <3>2. CASE ~(i <= p)
        <4>1. i - p \in 1..v /\ v > 0
          BY <1>7, <1>9, <3>2
        <4>2. chunks[i - p] = a + (i - p) /\ a = l + p
          BY <1>8, <1>11, <4>1
        <4>3. a + (i - p) = l + i
          BY <1>7, <4>2
        <4> QED
          BY <2>2, <3>2, <4>2, <4>3
      <3> QED
        BY <3>1, <3>2
    <2>4. Count(receiver, read)'
      <3>1. l + Len(r.pending \o chunks) = l + p + v
        BY <1>7, <1>9, <2>2
      <3>2. /\ Len(read) + Len(r.pending \o chunks) = l + p + v /\ Len(read) \in Nat
            /\ \A i \in 1..Len(read) : read[i] = i
            /\ \A i \in 1..Len(r.pending \o chunks) : (r.pending \o chunks)[i] = Len(read) + i
        BY <1>7, <2>2, <2>3, <3>1
      <3> HIDE DEF l, p, a, last
      <3> QED
        BY ONLY <1>10, <2>1, <3>2
    <2>5. CASE ended
      <3>1. p = 0 /\ v = 0
        BY <1>8, <2>5, EmptySeq
      <3> HIDE DEF p, a, last
      <3>2. l = last /\ sender.closed = "end"
        BY <1>7, <1>9, <2>5, <3>1
      <3>3. handler' = "done"
        BY <1>3, <1>13, <2>5
      <3> QED
        BY <1>5, <1>6, <2>1, <2>4, <2>5, <3>2, <3>3 DEF Moves, Going, last
    <2>6. CASE ~ended
      <3>1. handler' = Reading
        BY <1>3, <1>13, <2>6
      <3>2. ASSUME handler' = "waiting" PROVE receiver'.pending = <<>>
        <4>1. chunks = <<>> /\ r.pending = <<>>
          BY <1>13, <3>1, <3>2
        <4> QED
          BY <2>1, <4>1, EmptySeq, ConcatEmptySeq
      <3> QED
        BY <1>5, <1>6, <2>1, <2>4, <3>1, <3>2 DEF Moves
    <2> QED
      BY <2>5, <2>6
  <1> QED
    BY <1>12, <1>13

(* What the reader and the writer see: the variables of OrderedStream.     *)
Seen == <<[i \in 1..sender.chunk |-> i], sender.closed, read,
          IF Going(handler) THEN "reading" ELSE handler>>

LEMMA MovesSeen ==
    ASSUME StreamAssumption, TypeOK, read' \in Seq(Chunk), sender' = sender, Count(receiver, read),
           NEW h, Moves(h), h = handler \/ (Going(h) /\ Going(handler))
    PROVE  [Promise!Next]_Seen
  <1> DEFINE written == [i \in 1..sender.chunk |-> i]
  <1>1. /\ read \in Seq(Chunk) /\ Len(read) \in Nat /\ sender.chunk \in Nat
        /\ \A i \in 1..Len(read) : read[i] = i
    BY LenProperties DEF TypeOK, Sender, Count, StreamAssumption
  <1>2. written \in Seq(Nat) /\ Len(written) = sender.chunk
        /\ \A i \in 1..sender.chunk : written[i] = i
    BY <1>1
  <1>3. /\ (sender.chunk)' = sender.chunk /\ (sender.closed)' = sender.closed
        /\ written' = written
    OBVIOUS
  <1>4. CASE /\ (Going(handler) <=> Going(handler')) /\ read' = read
             /\ handler' = handler \/ Going(handler)
    BY <1>3, <1>4 DEF Seen, Going
  <1>5. CASE /\ Going(handler) /\ Going(handler')
             /\ read' = Append(read, Len(read) + 1) /\ Len(read) < sender.chunk
    <2>1. written[Len(read) + 1] = Len(read) + 1
      BY <1>1, <1>2, <1>5
    <2>2. Promise!Read
      BY <1>2, <1>3, <1>5, <2>1 DEF Promise!Read, Going
    <2> QED
      BY <2>2 DEF Promise!Next
  <1>6. CASE /\ Going(handler) /\ handler' = "done" /\ read' = read
             /\ Len(read) = sender.chunk /\ sender.closed = "end"
    <2>1. read = written
      <3>1. read = [i \in 1..Len(read) |-> read[i]]
        BY <1>1
      <3> QED
        BY <1>1, <1>6, <3>1
    <2>2. Promise!End
      BY <1>3, <1>6, <2>1 DEF Promise!End, Going
    <2> QED
      BY <2>2 DEF Promise!Next
  <1>7. CASE Going(handler) /\ handler' = "faulted" /\ read' = read /\ sender.closed = "fault"
    <2>1. Promise!End
      BY <1>3, <1>7 DEF Promise!End, Going
    <2> QED
      BY <2>1 DEF Promise!Next
  <1>8. CASE Going(handler) /\ handler' = "left" /\ read' = read
    <2>1. Promise!End
      BY <1>3, <1>8 DEF Promise!End, Going
    <2> QED
      BY <2>1 DEF Promise!Next
  <1> QED
    BY <1>4, <1>5, <1>6, <1>7, <1>8 DEF Moves

LEMMA HandlerMoves ==
    ASSUME StreamAssumption, TypeOK, read' \in Seq(Chunk), sender' = sender, Count(receiver, read),
           Moves(handler)
    PROVE  [Promise!Next]_Seen
  <1> DEFINE h == handler
  <1>1. Moves(h) /\ (h = handler \/ (Going(h) /\ Going(handler)))
    OBVIOUS
  <1> HIDE DEF h
  <1> QED
    BY <1>1, MovesSeen

(* A message the branch has not seen finished: the handler is or will be   *)
(* reading from what was counted.                                          *)
LEMMA Entering ==
    ASSUME InOrder, ~completed
    PROVE  /\ Count(receiver, read)
           /\ Reading # "none"
           /\ Reading = "waiting" => receiver.pending = <<>>
           /\ Reading = handler \/ (Going(Reading) /\ Going(handler))
  <1>1. Count(receiver, read)
    BY DEF InOrder, Counted
  <1>2. CASE registered
    <2>1. Reading = handler
      BY <1>2 DEF Reading
    <2>2. handler # "none" /\ (handler = "waiting" => receiver.pending = <<>>)
      BY <1>2 DEF InOrder, Fresh
    <2>3. Reading # "none" /\ (Reading = "waiting" => receiver.pending = <<>>)
      BY ONLY <2>1, <2>2, Zenon
    <2> QED
      BY ONLY <1>1, <2>1, <2>3, Zenon
  <1>3. CASE ~registered
    <2>1. handler = "none"
      BY <1>3 DEF InOrder, OverIsKnown, LoopOver, Inv, TypeOK
    <2> QED
      BY <1>1, <1>3, <2>1 DEF Reading, Going
  <1> QED
    BY <1>2, <1>3

LEMMA PushOrder ==
    ASSUME StreamAssumption, InOrder, NEW m \in broker, push(m), ~completed, sender' = sender
    PROVE  /\ Slotted(receiver.buffer)' /\ Marked(receiver)' /\ Count(receiver, read)'
           /\ handler' # "none"
           /\ handler' = "waiting" => receiver'.pending = <<>>
           /\ Moves(Reading)
  <1>1. /\ m \in Message /\ Carried(m) /\ receiver \in Receiver /\ read \in Seq(Chunk)
        /\ sender \in Sender /\ Slotted(receiver.buffer) /\ Marked(receiver)
    BY DEF InOrder, InBroker, Inv, TypeOK
  <1>2. Ended(m) \in Receiver /\ Ended(m).buffer = receiver.buffer
        /\ Ended(m).next = receiver.next /\ Ended(m).pending = receiver.pending
        /\ Ended(m).faulted = receiver.faulted
        /\ Ended(m).end = IF m.kind = "end" THEN m.number ELSE receiver.end
    BY <1>1 DEF Ended, Receiver, Message
  <1>3. Marked(Ended(m)) /\ Slotted(Ended(m).buffer) /\ Count(Ended(m), read)
    BY <1>1, <1>2, Entering DEF Marked, Carried, Count
  <1>4. CASE Stay(receiver)
    BY <1>1, <1>4, Entering DEF Stay, Slotted, Marked, Count, Moves
  <1>5. CASE Stay(Ended(m))
    BY <1>2, <1>3, <1>5, Entering DEF Stay, Slotted, Marked, Count, Moves
  <1>6. CASE /\ m.kind = "fault" /\ read' = read
             /\ receiver' = [receiver EXCEPT !.faulted = TRUE, !.end = m.number]
             /\ handler' = (IF Reading = "waiting" THEN "faulted" ELSE Reading)
    <2>1. /\ sender.closed = "fault"
          /\ receiver'.buffer = receiver.buffer /\ receiver'.next = receiver.next
          /\ receiver'.pending = receiver.pending /\ receiver'.faulted = TRUE
      BY <1>1, <1>6 DEF Carried, Receiver
    <2>2. Slotted(receiver.buffer)' /\ Marked(receiver)' /\ Count(receiver, read)'
      BY <1>1, <1>6, <2>1, Entering DEF Slotted, Marked, Count
    <2> QED
      BY <1>6, <2>1, <2>2, Entering DEF Moves, Going
  <1>7. CASE /\ m.kind # "fault"
             /\ Drain([Ended(m) EXCEPT !.buffer[m.number] =
                          IF m.kind = "end" THEN EndMark ELSE m.chunk])
    <2> DEFINE record == IF m.kind = "end" THEN EndMark ELSE m.chunk
               r == [Ended(m) EXCEPT !.buffer[m.number] = record]
    <2>1. /\ m.number \in Number /\ record \in Chunk \cup {Nothing, EndMark}
          /\ \/ record = m.number + 1 /\ m.number < sender.chunk
             \/ record = EndMark /\ m.number = sender.chunk /\ sender.closed = "end"
      <3>1. CASE m.kind = "end"
        BY <1>1, <3>1 DEF Message, Carried
      <3>2. CASE m.kind = "chunk"
        BY <1>1, <3>2 DEF Message, Carried, Number, Chunk, Nothing, Sender, StreamAssumption
      <3> QED
        BY <1>1, <1>7, <3>1, <3>2 DEF Message
    <2> HIDE DEF record
    <2>2. /\ r \in Receiver /\ r.buffer = [receiver.buffer EXCEPT ![m.number] = record]
          /\ r.next = receiver.next /\ r.pending = receiver.pending
          /\ r.faulted = Ended(m).faulted /\ r.end = Ended(m).end
      BY <1>2, <2>1 DEF Receiver
    <2>3. Drain(r)
      BY <1>7 DEF record
    <2> HIDE DEF r
    <2>4. Slotted(r.buffer)
      BY <1>1, <2>1, <2>2 DEF Slotted, Receiver
    <2>5. Marked(r) /\ Count(r, read)
      BY <1>3, <2>2, Entering DEF Marked, Count
    <2>6. Reading = "waiting" => r.pending = <<>>
      BY <2>2, Entering
    <2>7. Reading # "none"
      BY Entering
    <2> QED
      BY ONLY <1>1, <2>2, <2>3, <2>4, <2>5, <2>6, <2>7, StreamAssumption, sender' = sender, DrainStep
  <1> QED
    BY <1>4, <1>5, <1>6, <1>7 DEF push, Stay

LEMMA ReceiveOrder ==
    ASSUME StreamAssumption, InOrder, NEW m \in broker, Receive(m) \/ BadBody(m),
           sender' = sender, read' \in Seq(Chunk)
    PROVE  /\ Slotted(receiver.buffer)' /\ Marked(receiver)' /\ Counted' /\ Fresh'
           /\ [Promise!Next]_Seen
  <1>1. CASE UNCHANGED registry
    <2>1. UNCHANGED <<registered, receiver, handler, read, completed>>
      BY <1>1 DEF registry
    <2> QED
      BY <2>1 DEF InOrder, Slotted, Marked, Counted, Count, Fresh, Seen, Going
  <1>2. CASE ~completed /\ registered' /\ ~completed' /\ (push(m) \/ Stay(receiver))
    <2>1. /\ Slotted(receiver.buffer)' /\ Marked(receiver)' /\ Count(receiver, read)'
          /\ handler' # "none"
          /\ handler' = "waiting" => receiver'.pending = <<>>
          /\ Moves(Reading)
      <3>1. CASE push(m)
        BY <1>2, <3>1, PushOrder
      <3>2. CASE Stay(receiver)
        BY <1>2, <3>2, Entering DEF InOrder, Stay, Slotted, Marked, Count, Moves
      <3> QED
        BY <1>2, <3>1, <3>2
    <2>2. [Promise!Next]_Seen
      BY <1>2, <2>1, Entering, MovesSeen DEF InOrder, Inv
    <2> QED
      BY <1>2, <2>1, <2>2 DEF Counted, Fresh
  <1> QED
    BY <1>1, <1>2 DEF Receive, BadBody, ensureReceiver, registry

(* What the sender does leaves what is under way and what was received     *)
(* true: chunks are only added, and only while it is open.                 *)
LEMMA SenderOrder ==
    ASSUME StreamAssumption, InOrder, sender' \in Sender, UNCHANGED registry,
           sender.chunk <= sender'.chunk,
           sender.closed # "no" => sender'.closed = sender.closed /\ sender'.chunk = sender.chunk
    PROVE  /\ \A m \in broker : Carried(m)'
           /\ Slotted(receiver.buffer)' /\ Marked(receiver)' /\ Counted' /\ Fresh'
  <1>1. /\ UNCHANGED <<registered, receiver, handler, read, completed>>
        /\ sender.chunk \in Nat /\ sender'.chunk \in Nat
        /\ receiver \in Receiver /\ read \in Seq(Chunk) /\ broker \subseteq Message
    BY DEF registry, InOrder, Inv, TypeOK, Sender, StreamAssumption
  <1>2. \A m \in broker : Carried(m)'
    <2>1. \A m \in broker : Carried(m) /\ m.chunk \in Nat
      BY <1>1 DEF InOrder, InBroker, Message, StreamAssumption
    <2> QED
      BY <1>1, <2>1 DEF Carried
  <1>3. Slotted(receiver.buffer)'
    BY <1>1 DEF InOrder, Slotted, Number, StreamAssumption
  <1>4. Marked(receiver)'
    BY <1>1 DEF InOrder, Marked
  <1>5. Counted'
    <2>1. Len(read) \in Nat /\ Len(receiver.pending) \in Nat
      BY <1>1, LenProperties DEF Receiver
    <2>2. ASSUME Count(receiver, read) PROVE Count(receiver, read)'
      BY <1>1, <2>1, <2>2 DEF Count
    <2> QED
      BY <1>1, <2>2 DEF InOrder, Counted
  <1>6. Fresh'
    BY <1>1 DEF InOrder, Fresh
  <1> QED
    BY <1>2, <1>3, <1>4, <1>5, <1>6

LEMMA NextOrder ==
    ASSUME StreamAssumption, "skip" \notin AfterFailure, InOrder, [Next]_vars, Inv', OverIsKnown'
    PROVE  InOrder' /\ [Promise!Next]_Seen
  <1>0. /\ sender \in Sender /\ sender' \in Sender /\ broker \subseteq Message
        /\ receiver \in Receiver /\ receiver' \in Receiver
        /\ read \in Seq(Chunk) /\ read' \in Seq(Chunk)
        /\ Chunks \in Nat /\ Numbered /\ InBroker /\ NumbersInUse
        /\ Slotted(receiver.buffer) /\ Marked(receiver) /\ Counted /\ Fresh
    BY DEF InOrder, Inv, TypeOK, StreamAssumption
  <1>1. ASSUME UNCHANGED registry, Numbered', \A m \in broker' : Carried(m)',
               sender.chunk <= sender'.chunk,
               sender.closed # "no" => sender'.closed = sender.closed
                                         /\ sender'.chunk = sender.chunk
        PROVE  InOrder'
    BY <1>0, <1>1, SenderOrder DEF InOrder, InBroker
  <1>2. ASSUME UNCHANGED <<(sender.chunk), (sender.closed)>>, UNCHANGED registry
        PROVE  UNCHANGED Seen
    BY <1>2 DEF Seen, Going, registry
  <1>3. ASSUME NEW c \in Chunk, sendChunk(c)
        PROVE  InOrder' /\ [Promise!Next]_Seen
    <2>1. /\ sender' = [sender EXCEPT !.chunk = c, !.failed = FALSE, !.call = "sending"]
          /\ sender.call = "none" /\ sender.closed = "no" /\ UNCHANGED registry /\ broker' = broker
          /\ c = IF sender.failed THEN sender.chunk ELSE sender.chunk + 1
      BY <1>3 DEF sendChunk, Turn, receiving, registry
    <2>2. /\ sender'.number = sender.number /\ sender'.chunk = c /\ sender'.failed = FALSE
          /\ sender'.call = "sending" /\ sender'.closed = "no"
          /\ sender.chunk \in Nat /\ sender.number \in Nat /\ sender.failed \in BOOLEAN
      BY <1>0, <2>1 DEF Sender, Number
    <2>3. Numbered'
      BY <1>0, <2>1, <2>2 DEF Numbered
    <2>4. sender.chunk <= sender'.chunk
      BY <2>1, <2>2
    <2>5. InOrder'
      BY <1>0, <1>1, <2>1, <2>2, <2>3, <2>4, SenderOrder
    <2>6. [Promise!Next]_Seen
      <3>1. CASE sender.failed
        BY <1>2, <2>1, <2>2, <3>1
      <3>2. CASE ~sender.failed
        <4>1. /\ (sender.chunk)' = sender.chunk + 1 /\ c = sender.chunk + 1
              /\ (sender.closed)' = sender.closed /\ UNCHANGED read /\ UNCHANGED handler
          BY <2>1, <2>2, <3>2 DEF registry
        <4>2. [i \in 1..(sender.chunk)' |-> i] = Append([i \in 1..sender.chunk |-> i], c)
          BY <2>2, <4>1
        <4>3. Promise!Write(c)
          BY <2>1, <4>1, <4>2 DEF Promise!Write, Going
        <4> QED
          BY <4>3 DEF Promise!Next
      <3> QED
        BY <3>1, <3>2
    <2> QED
      BY <2>5, <2>6
  <1>4. ASSUME NEW how \in {"end", "fault"}, Close(how)
        PROVE  InOrder' /\ [Promise!Next]_Seen
    <2>1. /\ sender' = [sender EXCEPT !.closed = how, !.call = "sending"]
          /\ sender.call = "none" /\ sender.closed = "no" /\ UNCHANGED registry /\ broker' = broker
          /\ how = "end" => ~sender.failed
      BY <1>4 DEF Close, receiving, registry
    <2>2. /\ sender'.number = sender.number /\ sender'.chunk = sender.chunk /\ sender'.closed = how
          /\ sender.chunk \in Nat
      BY <1>0, <2>1 DEF Sender
    <2>3. Numbered'
      BY <1>0, <2>1, <2>2 DEF Numbered
    <2>4. InOrder'
      BY <1>0, <1>1, <2>1, <2>2, <2>3, SenderOrder
    <2>5. /\ (sender.chunk)' = sender.chunk /\ (sender.closed)' = how
          /\ UNCHANGED read /\ UNCHANGED handler
      BY <2>1, <2>2 DEF registry
    <2>6. Promise!Close(how)
      BY <2>1, <2>5 DEF Promise!Close, Going
    <2> QED
      BY <2>4, <2>6 DEF Promise!Next
  <1>5. ASSUME Accept
        PROVE  InOrder' /\ [Promise!Next]_Seen
    <2>1. /\ sender' = [sender EXCEPT !.call = "accepted"] /\ sender.call = "sending"
          /\ UNCHANGED registry /\ broker' = broker \cup {Outgoing}
      BY <1>5 DEF Accept, receiving, registry
    <2>2. /\ sender'.number = sender.number /\ sender'.chunk = sender.chunk
          /\ sender'.closed = sender.closed /\ sender'.call = "accepted"
          /\ sender'.failed = sender.failed
          /\ sender.chunk \in Nat /\ sender.number \in Nat
      BY <1>0, <2>1 DEF Sender, Number
    <2>3. Numbered'
      BY <1>0, <2>1, <2>2 DEF Numbered
    <2>4. ASSUME NEW m, m = Outgoing PROVE Carried(m)'
      <3>1. CASE sender.closed = "no"
        BY <1>0, <2>1, <2>2, <2>4, <3>1 DEF Carried, Outgoing, Numbered
      <3>2. CASE sender.closed # "no"
        BY <1>0, <2>1, <2>2, <2>4, <3>2 DEF Carried, Outgoing, Numbered, Sender
      <3> QED
        BY <3>1, <3>2
    <2>5. \A m \in broker' : Carried(m)'
      <3>1. \A m \in broker : Carried(m)'
        BY <1>0, <2>1, <2>2, SenderOrder
      <3> QED
        BY <2>1, <2>4, <3>1
    <2>6. InOrder'
      BY <1>1, <2>1, <2>2, <2>3, <2>5
    <2> QED
      BY <1>2, <2>1, <2>2, <2>6
  <1>6. ASSUME Confirm \/ SendFails
        PROVE  InOrder' /\ [Promise!Next]_Seen
    <2>1. /\ UNCHANGED registry /\ broker' = broker
          /\ sender'.chunk = sender.chunk /\ sender'.closed = sender.closed
          /\ sender.chunk \in Nat
      <3>1. UNCHANGED registry /\ broker' = broker
        BY <1>6 DEF Confirm, SendFails, receiving, registry
      <3>2. CASE Confirm
        BY <1>0, <3>1, <3>2 DEF Confirm, Sender
      <3>3. CASE SendFails
        BY <1>0, <3>1, <3>3 DEF SendFails, Sender
      <3> QED
        BY <1>6, <3>2, <3>3
    <2>2. Numbered'
      <3>1. CASE Confirm
        <4>1. /\ sender' = [sender EXCEPT !.call = "none",
                        !.number = IF sender.closed = "no" THEN sender.number + 1 ELSE sender.number]
              /\ sender.call = "accepted"
          BY <3>1 DEF Confirm
        <4>2. /\ sender'.call = "none" /\ sender'.failed = sender.failed
              /\ sender'.number = IF sender.closed = "no" THEN sender.number + 1 ELSE sender.number
          BY <1>0, <4>1 DEF Sender
        <4>3. sender.chunk \in Nat /\ sender.number \in Nat
          BY <1>0 DEF Sender, Number
        <4> QED
          BY <1>0, <2>1, <4>1, <4>2, <4>3 DEF Numbered, NumbersInUse
      <3>2. CASE SendFails
        <4>1. /\ sender'.call = "none" /\ sender'.failed = TRUE /\ sender'.number = sender.number
              /\ sender.call # "none"
          BY <1>0, <3>2 DEF SendFails, Sender
        <4> QED
          BY <1>0, <2>1, <4>1 DEF Numbered
      <3> QED
        BY <1>6, <3>1, <3>2
    <2>3. InOrder'
      BY <1>0, <1>1, <2>1, <2>2, SenderOrder
    <2> QED
      BY <1>2, <2>1, <2>3
  <1>7. ASSUME NEW m \in broker, Deliver(m) \/ DeliverUnacked(m) \/ BadBody(m)
        PROVE  InOrder' /\ [Promise!Next]_Seen
    <2>1. sender' = sender /\ broker' \subseteq broker /\ (Receive(m) \/ BadBody(m))
      BY <1>7 DEF Deliver, DeliverUnacked, BadBody
    <2>2. /\ Slotted(receiver.buffer)' /\ Marked(receiver)' /\ Counted' /\ Fresh'
          /\ [Promise!Next]_Seen
      BY <1>0, <2>1, ReceiveOrder
    <2>3. Numbered' /\ InBroker'
      BY <1>0, <2>1 DEF Numbered, InBroker, Carried
    <2> QED
      BY <2>2, <2>3 DEF InOrder
  <1>8. ASSUME sender' = sender, broker' = broker
        PROVE  Numbered' /\ InBroker'
    BY <1>0, <1>8 DEF Numbered, InBroker, Carried
  <1>9. ASSUME next
        PROVE  InOrder' /\ [Promise!Next]_Seen
    <2>1. /\ sender' = sender /\ broker' = broker /\ handler = "busy"
          /\ registered' = registered /\ completed' = completed
      BY <1>9 DEF next, writing
    <2>2. registered
      BY <2>1 DEF InOrder, OverIsKnown
    <2>3. Count(receiver, read)
      BY <1>0, <2>2 DEF Counted
    <2> DEFINE l == Len(read)
               p == Len(receiver.pending)
    <2>4. /\ l \in Nat /\ p \in Nat /\ receiver.pending \in Seq(Chunk)
          /\ \A i \in 1..l : read[i] = i
          /\ \A i \in 1..p : receiver.pending[i] = l + i
          /\ l + p <= sender.chunk /\ sender.chunk \in Nat /\ receiver.next \in Nat
          /\ \/ receiver.next = l + p
             \/ receiver.next = l + p + 1 /\ l + p = sender.chunk /\ sender.closed = "end"
      BY <1>0, <2>3, LenProperties DEF Count, Receiver, Sender
    <2>5. CASE receiver.pending # <<>>
      <3>1. /\ receiver' = [receiver EXCEPT !.pending = Tail(receiver.pending)]
            /\ read' = Append(read, Head(receiver.pending)) /\ handler' = handler
        BY <1>9, <2>5 DEF next
      <3>2. /\ receiver'.pending = Tail(receiver.pending) /\ receiver'.buffer = receiver.buffer
            /\ receiver'.next = receiver.next /\ receiver'.end = receiver.end
            /\ receiver'.faulted = receiver.faulted
        BY <1>0, <3>1 DEF Receiver
      <3>3. /\ Head(receiver.pending) = receiver.pending[1] /\ p > 0
            /\ Len(Tail(receiver.pending)) = p - 1
            /\ \A i \in 1..p - 1 : Tail(receiver.pending)[i] = receiver.pending[i + 1]
        BY <2>4, <2>5, EmptySeq, HeadTailProperties
      <3> HIDE DEF p, l
      <3>4. Head(receiver.pending) = l + 1
        <4>1. 1 \in 1..p
          BY <2>4, <3>3
        <4> QED
          BY <2>4, <3>3, <4>1
      <3>5. read' = Append(read, l + 1)
        BY <3>1, <3>4
      <3>6. Len(read') = l + 1 /\ \A i \in 1..l + 1 : read'[i] = i
        BY <1>0, <2>4, <3>5 DEF l
      <3>7. \A i \in 1..p - 1 : Tail(receiver.pending)[i] = l + 1 + i
        <4> SUFFICES ASSUME NEW i \in 1..p - 1 PROVE Tail(receiver.pending)[i] = l + 1 + i
          OBVIOUS
        <4>1. i + 1 \in 1..p
          BY <2>4
        <4>2. receiver.pending[i + 1] = l + (i + 1)
          BY <2>4, <4>1
        <4> QED
          BY <2>4, <3>3, <4>2
      <3>8. Count(receiver, read)'
        <4>1. /\ (receiver.pending)' = Tail(receiver.pending) /\ (receiver.next)' = receiver.next
              /\ (sender.chunk)' = sender.chunk /\ (sender.closed)' = sender.closed
          BY <2>1, <3>2
        <4>2. Len(read') + Len(Tail(receiver.pending)) = l + p
          <5>1. Len(read') = l + 1 /\ Len(Tail(receiver.pending)) = p - 1
            BY <3>3, <3>6
          <5>2. l \in Nat /\ p \in Nat
            BY <2>4
          <5>3. (l + 1) + (p - 1) = l + p
            BY ONLY <5>2
          <5> QED
            BY ONLY <5>1, <5>3
        <4>3. \A i \in 1..Len(Tail(receiver.pending)) : Tail(receiver.pending)[i] = Len(read') + i
          BY <3>3, <3>6, <3>7
        <4>4. /\ l + p <= sender.chunk
              /\ \/ receiver.next = l + p
                 \/ receiver.next = l + p + 1 /\ l + p = sender.chunk /\ sender.closed = "end"
          BY <2>4
        <4> QED
          BY ONLY <3>6, <4>1, <4>2, <4>3, <4>4 DEF Count
      <3>9. Slotted(receiver.buffer)' /\ Marked(receiver)' /\ Counted' /\ Fresh'
        BY <1>0, <2>1, <2>2, <3>1, <3>2, <3>8 DEF Slotted, Marked, Counted, Fresh
      <3>10. Moves(handler)
        BY <2>1, <2>4, <3>1, <3>3, <3>5 DEF Moves, Going, l
      <3>11. [Promise!Next]_Seen
        BY <1>0, <2>1, <2>3, <3>10, HandlerMoves DEF InOrder, Inv
      <3> QED
        BY <1>8, <2>1, <3>9, <3>11 DEF InOrder
    <2>6. CASE receiver.pending = <<>>
      <3>1. /\ receiver' = receiver /\ read' = read
            /\ handler' = IF receiver.faulted THEN "faulted"
                          ELSE IF AtEnd(receiver) THEN "done" ELSE "waiting"
        BY <1>9, <2>6 DEF next
      <3>2. Slotted(receiver.buffer)' /\ Marked(receiver)' /\ Counted' /\ Fresh'
        BY <1>0, <2>1, <2>2, <2>6, <3>1 DEF Slotted, Marked, Counted, Count, Fresh
      <3>3. p = 0
        BY <2>6, EmptySeq
      <3>4. Moves(handler)
        <4>1. CASE receiver.faulted
          BY <1>0, <2>1, <3>1, <4>1 DEF Moves, Going, Marked
        <4>2. CASE ~receiver.faulted /\ AtEnd(receiver)
          <5>1. sender.closed = "end" /\ receiver.next > sender.chunk
            BY <1>0, <4>2 DEF AtEnd, Marked
          <5>2. l = sender.chunk
            BY <2>4, <3>3, <5>1
          <5> QED
            BY <2>1, <3>1, <4>2, <5>1, <5>2 DEF Moves, Going
        <4>3. CASE ~receiver.faulted /\ ~AtEnd(receiver)
          BY <2>1, <3>1, <4>3 DEF Moves, Going
        <4> QED
          BY <4>1, <4>2, <4>3
      <3>5. [Promise!Next]_Seen
        BY <1>0, <2>1, <2>3, <3>4, HandlerMoves DEF InOrder, Inv
      <3> QED
        BY <1>8, <2>1, <3>2, <3>5 DEF InOrder
    <2> QED
      BY <2>5, <2>6
  <1>10. ASSUME Leave
         PROVE  InOrder' /\ [Promise!Next]_Seen
    <2>1. /\ sender' = sender /\ broker' = broker /\ handler = "busy" /\ handler' = "left"
          /\ UNCHANGED <<registered, receiver, read, completed>>
      BY <1>10 DEF Leave, writing
    <2>2. Slotted(receiver.buffer)' /\ Marked(receiver)' /\ Counted' /\ Fresh'
      BY <1>0, <2>1 DEF Slotted, Marked, Counted, Count, Fresh
    <2>3. Count(receiver, read) /\ Moves(handler)
      BY <1>0, <2>1 DEF InOrder, OverIsKnown, Counted, Moves, Going
    <2>4. [Promise!Next]_Seen
      BY <1>0, <2>1, <2>3, HandlerMoves DEF InOrder, Inv
    <2> QED
      BY <1>8, <2>1, <2>2, <2>4 DEF InOrder
  <1>11. Slotted(NewReceiver.buffer) /\ Marked(NewReceiver) /\ Count(NewReceiver, <<>>)
    <2>1. /\ NewReceiver.buffer = [n \in Number |-> Nothing] /\ NewReceiver.next = 0
          /\ NewReceiver.end = -1 /\ NewReceiver.faulted = FALSE /\ NewReceiver.pending = <<>>
      BY DEF NewReceiver
    <2>2. sender.chunk \in Nat /\ Len(<<>>) = 0
      BY <1>0, EmptySeq DEF Sender
    <2> QED
      BY <2>1, <2>2 DEF Slotted, Marked, Count
  <1>12. ASSUME Settle
         PROVE  InOrder' /\ [Promise!Next]_Seen
    <2>1. /\ sender' = sender /\ broker' = broker /\ UNCHANGED <<handler, read>>
          /\ registered' = FALSE /\ receiver' = NewReceiver /\ completed' = TRUE
          /\ handler \in {"done", "faulted", "left"}
      BY <1>12 DEF Settle, LoopOver, writing
    <2>2. Slotted(receiver.buffer)' /\ Marked(receiver)' /\ Counted' /\ Fresh'
      BY <1>11, <2>1 DEF Slotted, Marked, Counted, Fresh
    <2>3. UNCHANGED Seen
      BY <2>1 DEF Seen, Going
    <2> QED
      BY <1>8, <2>1, <2>2, <2>3 DEF InOrder
  <1>13. ASSUME Evict \/ Crash \/ drain
         PROVE  InOrder' /\ [Promise!Next]_Seen
    <2>1. /\ sender' = sender /\ broker' = broker /\ registered' = FALSE
          /\ receiver' = NewReceiver /\ completed' = FALSE /\ handler' = "none" /\ read' = <<>>
      BY <1>13 DEF Evict, Crash, drain, Forgotten
    <2>2. Slotted(receiver.buffer)' /\ Marked(receiver)' /\ Counted' /\ Fresh'
      BY <1>11, <2>1 DEF Slotted, Marked, Counted, Count, Fresh
    <2>3. Promise!Again
      BY <2>1 DEF Promise!Again, Going
    <2> QED
      BY <1>8, <2>1, <2>2, <2>3 DEF InOrder, Promise!Next
  <1>14. ASSUME Stop \/ UNCHANGED vars
         PROVE  InOrder' /\ [Promise!Next]_Seen
    <2>1. sender' = sender /\ broker' = broker /\ UNCHANGED <<registered, receiver, handler, read, completed>>
      BY <1>14 DEF Stop, vars, registry
    <2>2. Slotted(receiver.buffer)' /\ Marked(receiver)' /\ Counted' /\ Fresh' /\ UNCHANGED Seen
      BY <1>0, <2>1 DEF Slotted, Marked, Counted, Count, Fresh, Seen, Going
    <2> QED
      BY <1>8, <2>1, <2>2 DEF InOrder
  <1> QED
    BY <1>3, <1>4, <1>5, <1>6, <1>7, <1>9, <1>10, <1>12, <1>13, <1>14 DEF Next

(* For callers that send again what failed: however messages are repeated, *)
(* reordered, refused or lost with the host, each run of the reading       *)
(* handler sees a prefix of the chunks as they were written, its loop ends *)
(* normally only after the last, and throws only if the writer faulted.    *)
THEOREM StreamImplementsOrderedStream ==
    ASSUME "skip" \notin AfterFailure
    PROVE  Spec => ImplementsOrderedStream
  <1>1. StreamAssumption
    BY StreamAssumption
  <1>2. Init => InOrder /\ Promise!Init
    <2> SUFFICES ASSUME Init PROVE InOrder /\ Promise!Init
      OBVIOUS
    <2>1. /\ sender.chunk = 0 /\ sender.closed = "no" /\ sender.number = 0 /\ sender.call = "none"
          /\ sender.failed = FALSE /\ receiver.pending = <<>> /\ receiver.next = 0
          /\ receiver.end = -1 /\ receiver.faulted = FALSE
          /\ \A n \in Number : receiver.buffer[n] = Nothing
          /\ read = <<>> /\ Len(<<>>) = 0
      BY EmptySeq DEF Init, NewReceiver
    <2>2. Numbered /\ Slotted(receiver.buffer) /\ Marked(receiver) /\ Counted
      BY <2>1 DEF Numbered, Slotted, Marked, Counted, Count
    <2>3. InBroker /\ Fresh /\ Promise!Init
      BY <2>1 DEF Init, InBroker, Fresh, Promise!Init
    <2> QED
      BY <1>1, <2>2, <2>3, InitInv DEF InOrder
  <1>3. InOrder /\ [Next]_vars => InOrder' /\ [Promise!Next]_Seen
    BY <1>1, NextInv, NextOverIsKnown, NextOrder DEF InOrder
  <1> QED
    BY <1>2, <1>3, PTL DEF Spec, ImplementsOrderedStream, Promise!Spec, Promise!vars, Seen, Going
=============================================================================
