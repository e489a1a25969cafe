------------------------------- MODULE Stream -------------------------------
(***************************************************************************)
(* One stream: the sender of core/src/streaming/sender.ts, the broker      *)
(* between, which repeats and reorders, and on the other side the branch   *)
(* and registry of streaming/dispatch.ts with the StreamReceiver of        *)
(* receiver.ts and the `for await` loop of the handler that reads it.      *)
(*                                                                         *)
(* The caller awaits each call of the sender, as streaming.mdx asks.       *)
(* Chunks are numbered in the order the caller has them, 1..Chunks;        *)
(* sequence numbers are what the sender stamps on them, from 0.            *)
(***************************************************************************)
EXTENDS Integers, Sequences, FiniteSets

CONSTANTS
    Chunks,        \* how many chunks the caller has
    MaxBuffered,   \* maxBufferedChunks, 1000 in the code
    AfterFailure,  \* what callers do when a chunk fails: "retry" it, "skip" it
    MaxFaults      \* bound: failed sends, lost acks, bad bodies, restarts

ASSUME StreamAssumption ==
    /\ Chunks \in Nat /\ MaxBuffered \in Nat /\ MaxFaults \in Nat
    /\ AfterFailure \subseteq {"retry", "skip"}

VARIABLES
    sender,       \* the sender and the call its caller awaits
    broker,       \* messages in the receiver's queue
    dead,         \* messages that became dead letters
    registered,   \* the id is in receiversByStreamId and handlerPromises
    receiver,     \* the StreamReceiver; a new one while none is registered
    handler,      \* how far the current run of the handler is
    read,         \* history: the chunks it has read
    completed,    \* the id is in completedStreamIds
    bus,          \* the receiving host: "up", or "stopping" and draining
    interrupted,  \* history: the receiving host restarted or forgot the id
    faults

vars == <<sender, broker, dead, registered, receiver, handler, read, completed, bus,
          interrupted, faults>>
registry == <<registered, receiver, handler, read, completed>>
-----------------------------------------------------------------------------
Chunk == 1..Chunks
Number == 0..Chunks

(* A message; `try` keeps what was sent again apart.                       *)
Message == [kind: {"chunk", "end", "fault"}, number: Number, chunk: 0..Chunks, try: 0..MaxFaults]

Nothing == 0  \* no record under this number
EndMark == -1
Sender == [number: Number, chunk: 0..Chunks, failed: BOOLEAN, closed: {"no", "end", "fault"},
           call: {"none", "sending", "accepted"}]

Receiver == [buffer: [Number -> Chunk \cup {Nothing, EndMark}], next: 0..Chunks + 1,
             end: Number \cup {-1}, faulted: BOOLEAN, pending: Seq(Chunk)]

NewReceiver == [buffer |-> [n \in Number |-> Nothing], next |-> 0, end |-> -1,
                faulted |-> FALSE, pending |-> <<>>]
-----------------------------------------------------------------------------
Init ==
    /\ sender = [number |-> 0, chunk |-> 0, failed |-> FALSE, closed |-> "no", call |-> "none"]
    /\ broker = {} /\ dead = {}
    /\ registered = FALSE /\ receiver = NewReceiver
    /\ handler = "none" /\ read = <<>> /\ completed = FALSE
    /\ bus = "up"
    /\ interrupted = FALSE /\ faults = 0

Fault == faults < MaxFaults /\ faults' = faults + 1

receiving == <<registry, dead, bus, interrupted>>

(* The chunk the caller passes next: the one that failed, or a new one.    *)
Turn ==
    {c \in Chunk : IF sender.failed THEN \/ "retry" \in AfterFailure /\ c = sender.chunk
                                         \/ "skip" \in AfterFailure /\ c = sender.chunk + 1
                   ELSE c = sender.chunk + 1}

sendChunk(c) ==
    /\ sender.call = "none" /\ sender.closed = "no"
    /\ c \in Turn
    /\ sender' = [sender EXCEPT !.chunk = c, !.failed = FALSE, !.call = "sending"]
    /\ UNCHANGED <<broker, receiving, faults>>

(* complete() and fault(): closed before the marker is sent, so that no    *)
(* later call sends it.  A caller that does not skip completes only what   *)
(* was sent.                                                               *)
Close(how) ==
    /\ sender.call = "none" /\ sender.closed = "no"
    /\ how = "end" => ~sender.failed \/ "skip" \in AfterFailure
    /\ sender' = [sender EXCEPT !.closed = how, !.call = "sending"]
    /\ UNCHANGED <<broker, receiving, faults>>

Outgoing ==
    [kind |-> IF sender.closed = "no" THEN "chunk" ELSE sender.closed, number |-> sender.number,
     chunk |-> IF sender.closed = "no" THEN sender.chunk ELSE 0, try |-> faults]

(* The broker has the message; the confirm is still under way.             *)
Accept ==
    /\ sender.call = "sending"
    /\ broker' = broker \cup {Outgoing}
    /\ sender' = [sender EXCEPT !.call = "accepted"]
    /\ UNCHANGED <<receiving, faults>>

Confirm ==
    /\ sender.call = "accepted"
    /\ sender' = [sender EXCEPT !.call = "none",
                                !.number = IF sender.closed = "no" THEN @ + 1 ELSE @]
    /\ UNCHANGED <<broker, receiving, faults>>

(* The send rejects, whether the broker has the message or not: the number *)
(* is not used up.                                                         *)
SendFails ==
    /\ Fault
    /\ sender.call # "none"
    /\ sender' = [sender EXCEPT !.call = "none", !.failed = TRUE]
    /\ UNCHANGED <<broker, receiving>>
-----------------------------------------------------------------------------
(* ensureReceiver: the first message of an unknown stream starts the       *)
(* handler.                                                                *)
ensureReceiver == registered' = TRUE
Reading == IF registered THEN handler ELSE "busy"

Filled(b, n) == b[n] # Nothing

(* What drain() takes from the buffer: the numbers that follow each other  *)
(* from `next`, up to an end marker.                                       *)
Ready(b, next) ==
    {n \in Number : n >= next /\ \A i \in next..n : Filled(b, i) /\ (i < n => b[i] # EndMark)}

ChunksOf(b, next) ==
    LET values == {n \in Ready(b, next) : b[n] # EndMark}
    IN [i \in 1..Cardinality(values) |-> b[next + i - 1]]

(* A waiting next() gets the first chunk, or the end; the rest is pending. *)
Drain(r) ==
    LET ready == Ready(r.buffer, r.next)
        chunks == ChunksOf(r.buffer, r.next)
        woken == Reading = "waiting" /\ chunks # <<>>
        ended == Reading = "waiting" /\ chunks = <<>> /\ ready # {}
    IN /\ receiver' = [r EXCEPT
             !.buffer = [n \in Number |-> IF n \in ready THEN Nothing ELSE r.buffer[n]],
             !.next = r.next + Cardinality(ready),
             !.pending = r.pending \o (IF woken THEN Tail(chunks) ELSE chunks)]
       /\ handler' = IF woken THEN "busy" ELSE IF ended THEN "done" ELSE Reading
       /\ read' = IF woken THEN Append(read, Head(chunks)) ELSE read

(* Out-of-order chunks the receiver already holds, or no room for more.    *)
Full(r, n) ==
    ~Filled(r.buffer, n) /\ Cardinality({i \in Number : Filled(r.buffer, i)}) >= MaxBuffered

Stay(r) == receiver' = r /\ handler' = Reading /\ UNCHANGED read

Ignored(m) == receiver.faulted /\ m.kind = "chunk"
Ended(m) == IF m.kind = "end" THEN [receiver EXCEPT !.end = m.number] ELSE receiver

(* push(), in the order of its tests; what it throws makes the message a   *)
(* dead letter.                                                            *)
push(m) ==
    \/ /\ Ignored(m)
       /\ Stay(receiver) /\ UNCHANGED dead
    \/ /\ m.kind = "fault"
       /\ receiver' = [receiver EXCEPT !.faulted = TRUE, !.end = m.number]
       /\ handler' = IF Reading = "waiting" THEN "faulted" ELSE Reading
       /\ UNCHANGED <<read, dead>>
    \/ /\ m.kind # "fault" /\ ~Ignored(m) /\ Full(Ended(m), m.number)
       /\ Stay(Ended(m)) /\ dead' = dead \cup {m}
    \/ /\ m.kind # "fault" /\ ~Ignored(m) /\ ~Full(Ended(m), m.number)
       /\ Drain([Ended(m) EXCEPT !.buffer[m.number] =
                    IF m.kind = "end" THEN EndMark ELSE m.chunk])
       /\ UNCHANGED dead

(* Seeded fault: a late chunk of a finished stream is not dropped.         *)
ReceiveUnchecked(m) == ensureReceiver /\ push(m) /\ UNCHANGED completed

(* runStreamBranch: a late message of a completed stream is dropped.       *)
Receive(m) ==
    \/ completed /\ UNCHANGED <<registry, dead>>
    \/ ~completed /\ ensureReceiver /\ push(m) /\ UNCHANGED completed

Deliver(m) ==
    /\ bus = "up" /\ m \in broker
    /\ Receive(m)
    /\ broker' = broker \ {m}
    /\ UNCHANGED <<sender, bus, interrupted, faults>>

(* The acknowledgement is lost: the broker will deliver the message again. *)
DeliverUnacked(m) ==
    /\ Fault
    /\ bus = "up" /\ m \in broker
    /\ Receive(m)
    /\ UNCHANGED <<sender, broker, bus, interrupted>>

(* deserialize throws after the receiver was made: the branch rejects, and *)
(* the transport retries the chunk or gives it up.                         *)
BadBody(m) ==
    /\ Fault
    /\ bus = "up" /\ m \in broker /\ m.kind = "chunk" /\ ~completed
    /\ ensureReceiver /\ Stay(receiver) /\ UNCHANGED completed
    /\ \/ UNCHANGED <<broker, dead>>
       \/ broker' = broker \ {m} /\ dead' = dead \cup {m}
    /\ UNCHANGED <<sender, bus, interrupted>>
-----------------------------------------------------------------------------
writing == <<sender, broker, dead, bus, interrupted, faults>>

(* Seeded fault: the end is taken for reached when its marker has come.    *)
AtEndOnceMarked(r) == r.end >= 0

(* Seeded fault: off by one.                                               *)
AtEndMissed(r) == r.end >= 0 /\ r.next > r.end + 1

(* The end marker and every number before it have been drained.            *)
AtEnd(r) == r.end >= 0 /\ r.next > r.end

(* next() of the iterator, called by the loop of the handler.              *)
next ==
    /\ handler = "busy"
    /\ \/ /\ receiver.pending # <<>>
          /\ read' = Append(read, Head(receiver.pending))
          /\ receiver' = [receiver EXCEPT !.pending = Tail(@)]
          /\ UNCHANGED handler
       \/ /\ receiver.pending = <<>>
          /\ handler' = IF receiver.faulted THEN "faulted"
                        ELSE IF AtEnd(receiver) THEN "done" ELSE "waiting"
          /\ UNCHANGED <<receiver, read>>
    /\ UNCHANGED <<registered, completed, writing>>

(* The handler leaves its loop early: it breaks, or throws.                *)
Leave ==
    /\ handler = "busy"
    /\ handler' = "left"
    /\ UNCHANGED <<registered, receiver, read, completed, writing>>

LoopOver == handler \in {"done", "faulted", "left"}

(* The promise of the handler settles; its errors are swallowed.           *)
Settle ==
    /\ LoopOver /\ registered
    /\ registered' = FALSE /\ receiver' = NewReceiver
    /\ completed' = TRUE
    /\ UNCHANGED <<handler, read, writing>>

Forgotten ==
    /\ registered' = FALSE /\ receiver' = NewReceiver /\ completed' = FALSE
    /\ handler' = "none" /\ read' = <<>>
    /\ interrupted' = TRUE

(* 10 000 other streams have completed since.                              *)
Evict ==
    /\ Fault
    /\ completed
    /\ Forgotten
    /\ UNCHANGED <<sender, broker, dead, bus>>

(* The host dies and another process takes its place: chunks it has acked  *)
(* are gone, read or not.                                                  *)
Crash ==
    /\ Fault
    /\ Forgotten
    /\ bus' = "up"
    /\ UNCHANGED <<sender, broker, dead>>

(* stop(): the consumer first, then drain() waits for the handlers.        *)
Stop ==
    /\ Fault
    /\ bus = "up"
    /\ bus' = "stopping"
    /\ UNCHANGED <<sender, broker, dead, registry, interrupted>>

drain ==
    /\ bus = "stopping" /\ ~registered
    /\ Forgotten
    /\ bus' = "up"
    /\ UNCHANGED <<sender, broker, dead, faults>>
-----------------------------------------------------------------------------
Next ==
    \/ \E c \in Chunk : sendChunk(c)
    \/ \E how \in {"end", "fault"} : Close(how)
    \/ Accept \/ Confirm \/ SendFails
    \/ \E m \in broker : Deliver(m) \/ DeliverUnacked(m) \/ BadBody(m)
    \/ next \/ Leave \/ Settle
    \/ Evict \/ Crash \/ Stop \/ drain

Spec == Init /\ [][Next]_vars

(* The broker delivers what it has, the handler keeps reading and returns  *)
(* after its loop.  Nothing makes the caller go on or close the stream.    *)
Fairness ==
    /\ \A m \in Message : WF_vars(Deliver(m))
    /\ WF_vars(next) /\ WF_vars(Settle) /\ WF_vars(drain)

FairSpec == Spec /\ Fairness
-----------------------------------------------------------------------------
TypeOK ==
    /\ sender \in Sender
    /\ broker \subseteq Message /\ dead \subseteq Message
    /\ registered \in BOOLEAN
    /\ receiver \in Receiver
    /\ handler \in {"none", "busy", "waiting", "done", "faulted", "left"}
    /\ read \in Seq(Chunk)
    /\ completed \in BOOLEAN
    /\ bus \in {"up", "stopping"}
    /\ interrupted \in BOOLEAN
    /\ faults \in 0..MaxFaults

Promise == INSTANCE OrderedStream
             WITH written <- [i \in 1..sender.chunk |-> i],
                  closed <- sender.closed,
                  outcome <- IF handler \in {"none", "busy", "waiting"} THEN "reading" ELSE handler

(* Whatever is repeated, reordered, refused or restarted: the handler sees *)
(* a prefix of the chunks in the order they were written, its loop ends    *)
(* normally only after the last, and throws only if the writer faulted.    *)
ImplementsOrderedStream == Promise!Spec

(* A message that comes late, or again, never gives an ended stream to the *)
(* handler a second time.                                                  *)
HandledOnce == [][LoopOver /\ ~interrupted' => UNCHANGED handler]_vars

(* A stream whose end or fault the broker has accepted ends for its reader *)
(* too, unless a message was given up or the receiving host started again. *)
Closing == \E m \in broker : m.kind # "chunk"
ReaderIsTold ==
    Closing ~> LoopOver \/ dead # {} \/ interrupted \/ bus = "stopping"

=============================================================================
