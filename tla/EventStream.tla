---------------------------- MODULE EventStream ----------------------------
(***************************************************************************)
(* What an event uploader promises to those who hand events to it: a       *)
(* stream.  Events leave it in the order in which they were accepted, each *)
(* once, either acknowledged by the server or lost with the head of the    *)
(* stream (given up, or refused for good); after the close nothing is      *)
(* accepted, and at most a head of the stream is kept.                     *)
(***************************************************************************)
EXTENDS Naturals, Sequences, SequencesExt

VARIABLES
    stream,     \* events accepted and not settled, oldest first
    posted,     \* events acknowledged, in order
    closed

Init == stream = <<>> /\ posted = <<>> /\ closed = FALSE

Accept == /\ ~closed
          /\ IsPrefix(stream, stream')
          /\ UNCHANGED <<posted, closed>>

Post == \E n \in 1..Len(stream) :
           /\ posted' = posted \o SubSeq(stream, 1, n)
           /\ stream' = SubSeq(stream, n + 1, Len(stream))
           /\ UNCHANGED closed

GiveUp == \E n \in 1..Len(stream) :
             /\ stream' = SubSeq(stream, n + 1, Len(stream))
             /\ UNCHANGED <<posted, closed>>

Close == /\ ~closed
         /\ closed' = TRUE
         /\ IsPrefix(stream', stream)
         /\ UNCHANGED posted

Next == Accept \/ Post \/ GiveUp \/ Close

Spec == Init /\ [][Next]_<<stream, posted, closed>>
=============================================================================
