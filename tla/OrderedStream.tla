--------------------------- MODULE OrderedStream ---------------------------
(***************************************************************************)
(* What a stream promises: each run of the reading handler sees a prefix   *)
(* of the chunks as they were written, an end only after all of them, and  *)
(* a fault only if the writer declared one.                                *)
(***************************************************************************)
EXTENDS Naturals, Sequences

CONSTANT Chunk

VARIABLES
    written,  \* the chunks the writer has begun to send, in order
    closed,   \* "no", or how the writer closed the stream: "end" or "fault"
    read,     \* what the current run of the handler has read
    outcome   \* "reading", or how its loop ended: "done", "faulted" or "left"

vars == <<written, closed, read, outcome>>

Init ==
    /\ written = <<>> /\ closed = "no"
    /\ read = <<>> /\ outcome = "reading"

Write(c) ==
    /\ closed = "no"
    /\ written' = Append(written, c)
    /\ UNCHANGED <<closed, read, outcome>>

Close(how) ==
    /\ closed = "no"
    /\ closed' = how
    /\ UNCHANGED <<written, read, outcome>>

Read ==
    /\ outcome = "reading"
    /\ Len(read) < Len(written)
    /\ read' = Append(read, written[Len(read) + 1])
    /\ UNCHANGED <<written, closed, outcome>>

End ==
    /\ outcome = "reading"
    /\ \/ closed = "end" /\ read = written /\ outcome' = "done"
       \/ closed = "fault" /\ outcome' = "faulted"
       \/ outcome' = "left"
    /\ UNCHANGED <<written, closed, read>>

(* The host of the reader starts again, or has forgotten the stream: the   *)
(* handler begins anew.                                                    *)
Again ==
    /\ read' = <<>> /\ outcome' = "reading"
    /\ UNCHANGED <<written, closed>>

Next == (\E c \in Chunk : Write(c)) \/ (\E how \in {"end", "fault"} : Close(how))
            \/ Read \/ End \/ Again

Spec == Init /\ [][Next]_vars
=============================================================================
