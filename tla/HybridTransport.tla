-------------------------- MODULE HybridTransport --------------------------
(***************************************************************************)
(* The hybrid transport of the bridge (cli/transports/HybridTransport.ts)  *)
(* over its uploader.  Stream events wait for a moment in a buffer and go  *)
(* with the next other message, a timer, or a flush; a write returns once  *)
(* the queue has been flushed; close gives the queue a grace period before *)
(* it closes the uploader.  Writes are not awaited: they overlap freely,   *)
(* and are not refused after the close.                                    *)
(*                                                                         *)
(* The transport gives its uploader a queue of 100 000 so that callers are *)
(* never blocked, and no byte limit; a small MaxQueue and events that      *)
(* cannot be serialized add the uploader's other configurations.           *)
(***************************************************************************)
EXTENDS Uploader

VARIABLES
    buffer,     \* streamEventBuffer
    timer,      \* streamEventTimer is set
    written,    \* events written, numbered in the order of the writes
    calls,      \* calls begun
    everBlocked \* history: a caller had to wait for room

transport == <<buffer, timer, written, calls>>
vars == <<uploader, call, transport, everBlocked>>

Init ==
    /\ UploaderInit
    /\ buffer = <<>>
    /\ timer = FALSE
    /\ written = 0
    /\ calls = 0
    /\ everBlocked = FALSE

-----------------------------------------------------------------------------
Closer == 0     \* the call of uploader.flush made by close()

\* Continuations of promises run before timers and answers of the server.
Due(c) == \/ call[c].phase \in {"woken", "enqueued"}
          \/ c = Closer /\ call[c].phase = "returned" /\ ~closed
Settled == \A c \in Calls : ~Due(c)

NoteBlocked ==
    everBlocked' = (everBlocked \/ \E c \in Calls :
                                      call'[c].phase = "blocked")

NewCall(flushes, items) ==
    [NoCall EXCEPT !.flushes = flushes, !.items = items, !.before = dropped]

\* takeStreamEvents.
TakeBuffer == buffer' = <<>> /\ timer' = FALSE

-----------------------------------------------------------------------------
\* write of a stream event: buffered, the timer set if it is not.
WriteStream ==
    /\ written < MaxEvents
    /\ written' = written + 1
    /\ buffer' = Append(buffer, written')
    /\ timer' = TRUE
    /\ UNCHANGED <<uploader, call, calls, everBlocked>>

\* Mutant: the message is enqueued ahead of the buffered events.
WithBufferLast(events) == events \o buffer

\* What a write enqueues: the buffered events, then its own.
WithBuffer(events) == buffer \o events

\* write of another message, or writeBatch of several.
Write ==
    /\ calls < MaxCalls
    /\ calls' = calls + 1
    /\ \E n \in 1..2 :
          /\ written + n <= MaxEvents
          /\ written' = written + n
          /\ Enqueue(calls',
                NewCall(TRUE, WithBuffer([i \in 1..n |-> written + i])))
    /\ TakeBuffer
    /\ NoteBlocked
    /\ UNCHANGED <<closed, dropped, posted, refused>>

\* The timer of the buffer fires: flushStreamEvents.
BufferTimer ==
    /\ Settled
    /\ timer
    /\ calls < MaxCalls
    /\ calls' = calls + 1
    /\ Enqueue(calls', NewCall(FALSE, buffer))
    /\ TakeBuffer
    /\ NoteBlocked
    /\ UNCHANGED <<closed, dropped, posted, refused, written>>

(***************************************************************************)
(* flush: the buffered events go to enqueue, which nobody awaits (call c), *)
(* and the flush begins at once (call d).  The items of d are what the     *)
(* uploader holds then; of the events of a c that has to wait for room     *)
(* nothing is promised.                                                    *)
(***************************************************************************)
FlushNow(c, d) ==
    LET open   == ~closed /\ buffer # <<>>
        pushed == open /\ HasRoom(buffer)
        held   == batch \o pending \o (IF pushed THEN buffer ELSE <<>>)
        hand   == [NewCall(FALSE, buffer) EXCEPT !.phase =
                     IF open /\ ~pushed THEN "blocked" ELSE "returned"]
        wait   == [NewCall(TRUE, held) EXCEPT !.phase =
                     IF NothingUnderWay /\ ~pushed THEN "returned"
                                                   ELSE "flushing"]
        both   == [call EXCEPT ![c] = hand, ![d] = wait]
    IN  IF pushed THEN Push(buffer, both) ELSE OnlyCalls(both)

FlushTransport ==
    /\ calls + 2 <= MaxCalls
    /\ calls' = calls + 2
    /\ FlushNow(calls + 1, calls + 2)
    /\ TakeBuffer
    /\ NoteBlocked
    /\ UNCHANGED <<closed, dropped, posted, refused, written>>

\* Whether the flush of close has to wait.
CloserPhase == IF NothingUnderWay THEN "returned" ELSE "flushing"

\* close: the buffer is dropped and the queue flushed, for a while.  The
\* items of its call are what the uploader holds.
Close ==
    /\ call[Closer].phase = "unused"
    /\ buffer' = <<>>
    /\ timer' = FALSE
    /\ OnlyCalls([call EXCEPT ![Closer] =
          [NewCall(TRUE, batch \o pending) EXCEPT !.phase = CloserPhase]])
    /\ UNCHANGED <<closed, dropped, posted, refused, written, calls,
                   everBlocked>>

\* The flush of close has returned: the uploader is closed.
FlushedThenClosed ==
    /\ call[Closer].phase = "returned"
    /\ ~closed
    /\ CloseUploader(call)
    /\ UNCHANGED <<transport, everBlocked>>

\* The grace period ends first.
GraceEnds ==
    /\ Settled
    /\ call[Closer].phase = "flushing"
    /\ ~closed
    /\ CloseUploader([call EXCEPT ![Closer].phase = "cut"])
    /\ UNCHANGED <<transport, everBlocked>>

\* A caller of the uploader runs on.
Continue(c) ==
    /\ Recheck(c) \/ FlushAfterEnqueue(c)
    /\ NoteBlocked
    /\ UNCHANGED transport

\* The drain loop goes on when the server or the backoff timer calls.
Deliver == Settled /\ Drain /\ UNCHANGED <<transport, everBlocked>>

Next == \/ WriteStream \/ Write \/ BufferTimer \/ FlushTransport
        \/ Close \/ FlushedThenClosed \/ GraceEnds
        \/ \E c \in Calls : Continue(c)
        \/ Deliver

Spec == Init /\ [][Next]_vars

(***************************************************************************)
(* A request ends, in success or failure (it has a timeout), the backoff   *)
(* timer fires, and continuations run.  Nothing is assumed of the outcome. *)
(***************************************************************************)
Fairness ==
    /\ WF_vars(Deliver)
    /\ WF_vars(FlushedThenClosed \/ \E c \in Calls : Continue(c))

LiveSpec == Spec /\ Fairness

-----------------------------------------------------------------------------
TypeOK ==
    /\ UploaderTypeOK
    /\ buffer \in Seq(Events) /\ timer \in BOOLEAN
    /\ written \in 0..MaxEvents /\ calls \in 0..MaxCalls
    /\ everBlocked \in BOOLEAN

\* As long as no caller had to wait for room, events leave in the order in
\* which they were written, each once, whether they went through the buffer
\* or not, and whatever overlaps.  (A waiting caller can be overtaken by a
\* later one with fewer events.)
WriteOrder ==
    ~everBlocked =>
        LET line == posted \o batch \o pending \o buffer
        IN  \A i, j \in DOMAIN line : i < j => line[i] < line[j]

\* When write, writeBatch or flush returns, each of its events has been
\* posted or was refused for good, unless the count of dropped batches has
\* grown since the call, or the uploader was closed.  And when close finds the
\* queue flushed within the grace period, all it held at the call of close was
\* posted, refused or counted likewise.  (The contract in the code's comments,
\* posted or counted, is broken by every refusal.)
SettledWhenReturned ==
    \A c \in Calls :
        /\ call[c].phase = "returned" /\ call[c].flushes
        /\ ~closed \/ c = Closer
        /\ call[c].before = dropped
        => \A i \in DOMAIN call[c].items :
              LET e == call[c].items[i]
              IN  Sendable(e) => e \in Range(posted) \cup refused

\* A caller that waits for the queue to be flushed returns, when it began to
\* wait before the uploader was closed: the server takes the events, the
\* batches are given up, or the close lets it go.  (With retries for ever,
\* MaxFailures = 0, that is up to the server.)
FlushReturns ==
    \A c \in Calls :
        call[c].phase = "flushing" /\ ~closed ~> call[c].phase # "flushing"
=============================================================================
