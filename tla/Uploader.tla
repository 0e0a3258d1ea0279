------------------------------ MODULE Uploader ------------------------------
(***************************************************************************)
(* The serial batch uploader (cli/transports/SerialBatchEventUploader.ts). *)
(* Callers enqueue events, and wait while the queue is full; one drain     *)
(* loop posts batches from the head of the queue, puts a batch that failed *)
(* back at the head and sleeps, or gives it up after MaxFailures; flush    *)
(* callers wait until the queue is empty; close drops the queue and lets   *)
(* every waiting caller go.                                                *)
(*                                                                         *)
(* A call is a thread of control: it runs synchronously up to an await.    *)
(* The drain loop takes its next batch in the same step as it handles the  *)
(* result of the last, before the callers it has let go run again.         *)
(***************************************************************************)
EXTENDS Filter, SequencesExt

CONSTANTS
    MaxEvents,      \* bound on the events written
    MaxCalls,       \* bound on the calls
    MaxBatch,       \* config.maxBatchSize
    MaxQueue,       \* config.maxQueueSize
    MaxFailures,    \* config.maxConsecutiveFailures, 0 when undefined
    Unserializable  \* the events that cannot be turned into JSON

ASSUME UploaderAssumption ==
    /\ MaxEvents \in Nat /\ MaxCalls \in Nat /\ MaxFailures \in Nat
    /\ MaxBatch \in Nat \ {0} /\ MaxQueue \in Nat \ {0}
    /\ Unserializable \subseteq 1..MaxEvents

VARIABLES
    pending,    \* the queue
    loop,       \* the drain loop: idle, sending a batch, or sleeping
    batch,      \* the batch in flight
    failures,   \* consecutive failures, a local of the drain loop
    closed,
    dropped,    \* droppedBatches
    call,       \* the callers of the uploader
    posted,     \* history: the events the server took (2xx), in order
    refused     \* history: the events of the batches the server refused for
                \* good, or that met no token; nothing counts these

uploader == <<pending, loop, batch, failures, closed, dropped, posted, refused>>

-----------------------------------------------------------------------------
Events == 1..MaxEvents
Calls == 0..MaxCalls

(***************************************************************************)
(* A call: blocked in enqueue, woken by releaseBackpressure, about to      *)
(* flush, waiting in flush, returned.  before is the caller's snapshot of  *)
(* droppedBatchCount.                                                      *)
(***************************************************************************)
Call == [phase : {"unused", "blocked", "woken", "enqueued", "flushing",
                  "returned", "cut"},
         flushes : BOOLEAN, items : Seq(Events), before : Nat]

NoCall == [phase |-> "unused", flushes |-> FALSE, items |-> <<>>,
           before |-> 0]

UploaderInit ==
    /\ pending = <<>>
    /\ loop = "idle"
    /\ batch = <<>>
    /\ failures = 0
    /\ closed = FALSE
    /\ dropped = 0
    /\ call = [c \in Calls |-> NoCall]
    /\ posted = <<>>
    /\ refused = {}

Sendable(e) == e \notin Unserializable

SendableIn(queue) == At(queue, {i \in DOMAIN queue : Sendable(queue[i])})

(***************************************************************************)
(* takeBatch ends after n events of the queue: the batch is full, or the   *)
(* queue is at its end, or the next event would exceed the byte limit.     *)
(* What cannot be serialized is dropped on the way.  Without a byte limit  *)
(* only a full batch and the end of the queue end it.                      *)
(***************************************************************************)
BatchEndsAt(queue, n) ==
    LET taken == SendableIn(SubSeq(queue, 1, n)) IN
    \/ /\ Len(taken) = MaxBatch
       /\ Sendable(queue[n])
    \/ /\ Len(taken) < MaxBatch
       /\ \/ n = Len(queue)
          \/ n < Len(queue) /\ taken # <<>> /\ Sendable(queue[n + 1])

\* Mutant: the release is left out.
ReleaseNobody(calls) == calls

\* releaseBackpressure: all waiting enqueue calls are to check again.
Release(calls) ==
    [c \in Calls |-> IF calls[c].phase = "blocked"
                     THEN [calls[c] EXCEPT !.phase = "woken"] ELSE calls[c]]

\* The flush waiters are resolved.
ResolveFlushes(calls) ==
    [c \in Calls |-> IF calls[c].phase = "flushing"
                     THEN [calls[c] EXCEPT !.phase = "returned"]
                     ELSE calls[c]]

\* Mutant: the loop ends without telling the flush callers.
LoopEndsSilently(queue, calls) ==
    /\ loop' = "idle"
    /\ batch' = <<>>
    /\ pending' = queue
    /\ call' = calls

\* The finally of drain.
LoopEnds(queue, calls) ==
    /\ loop' = "idle"
    /\ batch' = <<>>
    /\ pending' = queue
    /\ call' = IF queue = <<>> THEN ResolveFlushes(calls) ELSE calls

(***************************************************************************)
(* The head of the drain loop.  A batch is empty only when nothing in the  *)
(* queue can be serialized, and then the queue is empty too and the loop   *)
(* ends at its next turn.                                                  *)
(***************************************************************************)
LoopTurns(queue, calls) ==
    IF queue = <<>> \/ closed
    THEN LoopEnds(queue, calls)
    ELSE \E n \in 1..Len(queue) :
            /\ BatchEndsAt(queue, n)
            /\ LET taken == SendableIn(SubSeq(queue, 1, n)) IN
               IF taken = <<>>
               THEN LoopEnds(<<>>, calls)
               ELSE /\ loop' = "sending"
                    /\ batch' = taken
                    /\ pending' = SubSeq(queue, n + 1, Len(queue))
                    /\ call' = calls

-----------------------------------------------------------------------------
(* enqueue, flush and close, as steps of their callers. *)

HasRoom(items) == Len(pending) + Len(items) <= MaxQueue

\* The events are pushed, and drain is started unless it runs.
Push(items, calls) ==
    IF loop = "idle"
    THEN LoopTurns(pending \o items, calls) /\ failures' = 0
    ELSE /\ pending' = pending \o items
         /\ call' = calls
         /\ UNCHANGED <<loop, batch, failures>>

\* Nothing of the uploader but the calls changes.
OnlyCalls(calls) ==
    call' = calls /\ UNCHANGED <<pending, loop, batch, failures>>

(***************************************************************************)
(* enqueue up to its return or its await; calls gives the callers with c   *)
(* in its new phase.  A caller that does not flush is done.                *)
(***************************************************************************)
Enqueue(c, this) ==
    LET past == [call EXCEPT ![c] =
                    [this EXCEPT !.phase = IF this.flushes THEN "enqueued"
                                                           ELSE "returned"]]
        wait == [call EXCEPT ![c] = [this EXCEPT !.phase = "blocked"]]
    IN  \/ /\ closed \/ this.items = <<>>
           /\ OnlyCalls(past)
        \/ /\ ~closed /\ this.items # <<>>
           /\ IF HasRoom(this.items) THEN Push(this.items, past)
                                     ELSE OnlyCalls(wait)

\* The loop of enqueue that waits for room, woken by releaseBackpressure.
Recheck(c) ==
    /\ call[c].phase = "woken"
    /\ Enqueue(c, call[c])
    /\ UNCHANGED <<closed, dropped, posted, refused>>

\* Mutant: a flush looks at the queue only, not at the batch in flight.
NothingQueued == pending = <<>>

NothingUnderWay == pending = <<>> /\ loop = "idle"

\* flush: a settled queue is at once reported; else the caller waits, and
\* drain is kicked, which does nothing: it runs, or the uploader is closed.
Flush(c, this) ==
    OnlyCalls([call EXCEPT ![c] =
       [this EXCEPT !.phase = IF NothingUnderWay THEN "returned"
                                                 ELSE "flushing"]])

FlushAfterEnqueue(c) ==
    /\ call[c].phase = "enqueued"
    /\ Flush(c, call[c])
    /\ UNCHANGED <<closed, dropped, posted, refused>>

\* close.  A batch in flight stays so.
CloseUploader(calls) ==
    /\ closed' = TRUE
    /\ pending' = <<>>
    /\ call' = ResolveFlushes(Release(calls))
    /\ UNCHANGED <<loop, batch, failures, dropped, posted, refused>>

-----------------------------------------------------------------------------
(* The drain loop. *)

\* send resolved, the server has the batch.
SendSucceeds ==
    /\ loop = "sending"
    /\ posted' = posted \o batch
    /\ failures' = 0
    /\ LoopTurns(pending, Release(call))
    /\ UNCHANGED <<closed, dropped, refused>>

\* send resolved, but on a 4xx answer other than 429, or for want of a token:
\* the batch is gone, and the loop goes on as if it had been posted.
SendRefused ==
    /\ loop = "sending"
    /\ refused' = refused \cup Range(batch)
    /\ failures' = 0
    /\ LoopTurns(pending, Release(call))
    /\ UNCHANGED <<closed, dropped, posted>>

LastFailure == MaxFailures > 0 /\ failures + 1 >= MaxFailures

\* Mutant: the failed batch goes to the end of the queue.
RequeueLast == pending' = pending \o batch

\* The failed batch goes back to the head of the queue.
Requeue == pending' = batch \o pending

\* send threw, with failures left: back off.  (The count is not needed when
\* the retries are not limited.)
SendFails ==
    /\ loop = "sending"
    /\ ~LastFailure
    /\ failures' = IF MaxFailures = 0 THEN 0 ELSE failures + 1
    /\ loop' = "sleeping"
    /\ Requeue
    /\ batch' = <<>>
    /\ UNCHANGED <<closed, dropped, call, posted, refused>>

\* send threw for the last time: the batch is given up.
SendGivesUp ==
    /\ loop = "sending"
    /\ LastFailure
    /\ dropped' = dropped + 1
    /\ failures' = 0
    /\ LoopTurns(pending, Release(call))
    /\ UNCHANGED <<closed, posted, refused>>

\* The backoff is over, or close has cut it short.
SleepEnds ==
    /\ loop = "sleeping"
    /\ LoopTurns(pending, call)
    /\ UNCHANGED <<failures, closed, dropped, posted, refused>>

Drain == SendSucceeds \/ SendRefused \/ SendFails \/ SendGivesUp \/ SleepEnds

-----------------------------------------------------------------------------
UploaderTypeOK ==
    /\ pending \in Seq(Events) /\ batch \in Seq(Events)
    /\ loop \in {"idle", "sending", "sleeping"}
    /\ failures = 0 \/ failures \in 1..(MaxFailures - 1)
    /\ closed \in BOOLEAN /\ dropped \in Nat
    /\ call \in [Calls -> Call]
    /\ posted \in Seq(Events) /\ refused \subseteq Events

\* The events that were accepted and are not settled.
Unsettled == SendableIn(batch \o pending)

\* What the uploader promises of its queue: an ordered stream, whatever
\* failures, retries, dropped batches and waiting callers come between.
Promise == INSTANCE EventStream WITH stream <- Unsettled
StreamSpec == Promise!Spec

\* A caller that waits for room is never forgotten: if its events can fit at
\* all, the uploader is open and its drain loop runs, and the loop lets the
\* caller go before it ends.
NoStrandedCaller ==
    \A c \in Calls :
        call[c].phase = "blocked" /\ Len(call[c].items) <= MaxQueue =>
            loop # "idle" /\ ~closed
=============================================================================
