---------------------------- MODULE ToolExecutor ----------------------------
(***************************************************************************)
(* StreamingToolExecutor (services/tools/StreamingToolExecutor.ts) and the *)
(* part of the query loop (query.ts) that feeds and drains it.             *)
(*                                                                         *)
(* The model streams tool_use blocks; each is tracked from "queued" to     *)
(* "yielded".  Three kinds of code run interleaved on one event loop:      *)
(*   - processQueue coroutines, started by addTool, by the completion of a *)
(*     tool and by the consumer; each suspends after every tool it starts; *)
(*   - one for-await loop per running tool over the updates of runToolUse; *)
(*   - the consumer, getCompletedResults while the response streams and    *)
(*     getRemainingResults once it ended.                                  *)
(* A step is what the code does between two awaits.  Promise callbacks run *)
(* before the event loop takes the next I/O completion, timer or key: an   *)
(* action that stands for one of those is guarded by Quiescent.  A chunk   *)
(* of the response is one such event (ReadChunk); what query.ts does with  *)
(* it, all blocks of all its messages and maybe the end of the response,   *)
(* runs among the other callbacks ("reading").                             *)
(***************************************************************************)
EXTENDS Naturals, Sequences

CONSTANTS
    NTools,       \* number of tool_use blocks the response can hold
    Kinds,        \* the kinds of tool those blocks can name
    MaxProgress   \* bound: progress messages of a tool not yet yielded

\* known: findToolByName finds it; safe: isConcurrencySafe; bash: the Bash
\* tool, whose errors cancel the siblings; cancel: its interruptBehavior.
KindType == [known : BOOLEAN, safe : BOOLEAN, bash : BOOLEAN, cancel : BOOLEAN]

ASSUME NToolsAssumption == NTools \in Nat
ASSUME MaxProgressAssumption == MaxProgress \in Nat
\* addTool tracks a block whose tool does not exist as concurrency safe.
ASSUME KindsAssumption ==
    /\ Kinds \subseteq KindType
    /\ \A k \in Kinds : k.known \/ k.safe

Tool == 1..NTools

StatusType == {"none", "queued", "executing", "completed", "yielded"}
RunType    == {"idle", "running", "progress", "ok", "error", "extra", "ending"}
ResultType == {"ok", "error", "synthetic"}

\* processQueue calls: of addTool(t), of the finally of t's promise, of the drain
AddCall(t)  == <<t, "add">>
DoneCall(t) == <<t, "done">>
DrainCall   == <<0, "drain">>
Call == (Tool \X {"add", "done"}) \cup {DrainCall}

VARIABLES
    kind,        \* the kind of each block the response will hold
    count,       \* tools.length
    status,      \* TrackedTool.status, "none" before addTool
    run,         \* where t's for-await loop over runToolUse stands
    results,     \* the tool_result messages collected for t
    progress,    \* pendingProgress.length of t
    hasErrored, discarded,
    parent,      \* reason the turn's abort controller was aborted with
    pos,         \* index a processQueue call resumes from, 0 if not running
    pc,          \* where the consumer stands
    draining,    \* the consumer is in getRemainingResults
    cursor,      \* index getCompletedResults resumes from
    waitSet,     \* tools whose promises the consumer races
    woken        \* progressAvailableResolve was called

toolVars     == <<status, run, results, progress>>
consumerVars == <<pc, draining, cursor, waitSet, woken>>
vars == <<kind, count, toolVars, hasErrored, discarded, parent, pos, consumerVars>>

-----------------------------------------------------------------------------
(* Reading the state *)

Executing(st) == {t \in Tool : st[t] = "executing"}

Errored(t) == \E i \in DOMAIN results[t] : results[t][i] = "error"

\* getAbortReason
AbortReason(t) ==
    CASE discarded                 -> "streaming_fallback"
      [] ~discarded /\ hasErrored  -> "sibling_error"
      [] ~discarded /\ ~hasErrored /\ parent = "user" -> "user_interrupted"
      [] ~discarded /\ ~hasErrored /\ parent = "interrupt" ->
            IF kind[t].cancel THEN "user_interrupted" ELSE "none"
      [] OTHER -> "none"

\* Mutant: a safe tool looks only at itself.
CanExecuteIfSafe(st, safe) == Executing(st) = {} \/ safe

CanExecute(st, safe) ==
    \/ Executing(st) = {}
    \/ safe /\ \A t \in Executing(st) : kind[t].safe

\* Mutant: a blocked exclusive tool does not end the scan.
PassedOverAny(st, k) == ~CanExecute(st, kind[k].safe)

\* A blocked safe tool is passed over; a blocked exclusive one ends the scan.
PassedOver(st, k) == kind[k].safe /\ ~CanExecute(st, kind[k].safe)

\* The tool that a scan of the queue from index p starts, if any.
Startable(st, p) ==
    {j \in Tool :
        /\ p <= j
        /\ st[j] = "queued"
        /\ CanExecute(st, kind[j].safe)
        /\ \A k \in Tool : p <= k /\ k < j /\ st[k] = "queued" => PassedOver(st, k)}

HasUnfinished == \E t \in 1..count : status[t] # "yielded"
HasCompleted  == \E t \in Tool : status[t] = "completed"
HasProgress   == \E t \in Tool : progress[t] > 0

\* getCompletedResults from index p: the next tool with something to yield.
\* An exclusive tool that is executing ends the pass.
HasOutput(t) == progress[t] > 0 \/ status[t] = "completed"
Blocks(t)    == status[t] = "executing" /\ ~kind[t].safe
Yieldable(p) ==
    {j \in p..count : HasOutput(j)
                      /\ \A k \in p..(j - 1) : ~HasOutput(k) /\ ~Blocks(k)}

\* No promise callback is ready to run.
Quiescent ==
    /\ \A c \in Call : pos[c] = 0
    /\ \A t \in Tool : run[t] \in {"idle", "running"}
    /\ pc \in {"streaming", "yielding", "waiting", "done", "dropped"}

-----------------------------------------------------------------------------
Init ==
    /\ kind \in [Tool -> Kinds]
    /\ count = 0
    /\ status = [t \in Tool |-> "none"]
    /\ run = [t \in Tool |-> "idle"]
    /\ results = [t \in Tool |-> <<>>]
    /\ progress = [t \in Tool |-> 0]
    /\ hasErrored = FALSE
    /\ discarded = FALSE
    /\ parent = "none"
    /\ pos = [c \in Call |-> 0]
    /\ pc = "streaming"
    /\ draining = FALSE
    /\ cursor = 1
    /\ waitSet = {}
    /\ woken = FALSE

(* processQueue and executeTool *)

\* executeTool(j) up to its first await.  A tool whose turn is already
\* aborted completes at once with a synthetic error; one whose input is
\* rejected answers with an error before any I/O.
ExecuteTool(j, c, st) ==
    IF AbortReason(j) # "none"
    THEN /\ status' = [st EXCEPT ![j] = "completed"]
         /\ results' = [results EXCEPT ![j] = Append(@, "synthetic")]
         /\ pos' = [pos EXCEPT ![c] = j + 1, ![DoneCall(j)] = 1]
         /\ UNCHANGED run
    ELSE /\ status' = [st EXCEPT ![j] = "executing"]
         /\ run' \in {[run EXCEPT ![j] = "running"], [run EXCEPT ![j] = "error"]}
         /\ pos' = [pos EXCEPT ![c] = j + 1]
         /\ UNCHANGED results

\* Call c of processQueue from index p to its next await or its end.
ScanQueue(c, p, st) ==
    \/ \E j \in Startable(st, p) : ExecuteTool(j, c, st)
    \/ /\ Startable(st, p) = {}
       /\ status' = st
       /\ pos' = [pos EXCEPT ![c] = 0]
       /\ UNCHANGED <<run, results>>

ResumeQueue(c) ==
    /\ pos[c] > 0
    /\ ScanQueue(c, pos[c], status)
    /\ UNCHANGED <<kind, count, progress, hasErrored, discarded, parent, consumerVars>>

(* The running tools *)

\* I/O of tool t delivers its next update: progress, or its tool_result.
Deliver(t) ==
    /\ Quiescent
    /\ run[t] = "running"
    /\ \E u \in {"progress", "ok", "error"} :
          /\ u = "progress" => progress[t] < MaxProgress
          /\ run' = [run EXCEPT ![t] = u]
    /\ UNCHANGED <<kind, count, status, results, progress, hasErrored, discarded,
                   parent, pos, consumerVars>>

\* Mutants: the tool whose own error cancels the others is cancelled too; the
\* updates of a cancelled tool are accepted.
ReplacedEvenIfErrored(t) == AbortReason(t) # "none"
NeverReplaced(t) == FALSE

\* The update is dropped for a synthetic error: t is to be cancelled and did
\* not itself produce an error (thisToolErrored).
Replaced(t) == AbortReason(t) # "none" /\ ~Errored(t)

\* One iteration of t's for-await loop.  After its result a tool may still
\* deliver hook attachments or new messages ("extra").
HandleUpdate(t) ==
    /\ run[t] \in {"progress", "ok", "error", "extra"}
    /\ IF Replaced(t)
       THEN /\ results' = [results EXCEPT ![t] = Append(@, "synthetic")]
            /\ run' = [run EXCEPT ![t] = "ending"]
            /\ UNCHANGED <<progress, hasErrored, woken>>
       ELSE \/ /\ run[t] = "progress"
               /\ progress' = [progress EXCEPT ![t] = @ + 1]
               /\ run' = [run EXCEPT ![t] = "running"]
               /\ woken' = (woken \/ pc = "waiting")
               /\ UNCHANGED <<results, hasErrored>>
            \/ /\ run[t] \in {"ok", "error"}
               /\ results' = [results EXCEPT ![t] = Append(@, run[t])]
               /\ run' \in {[run EXCEPT ![t] = "extra"], [run EXCEPT ![t] = "ending"]}
               /\ hasErrored' = (hasErrored \/ (run[t] = "error" /\ kind[t].bash))
               /\ UNCHANGED <<progress, woken>>
            \/ /\ run[t] = "extra"
               /\ run' = [run EXCEPT ![t] = "ending"]
               /\ UNCHANGED <<results, progress, hasErrored, woken>>
    /\ UNCHANGED <<kind, count, status, discarded, parent, pos, pc, draining, cursor,
                   waitSet>>

\* Mutant: nobody looks at the queue when a tool completes.
NoRecheck(t) == pos' = pos

\* The finally of t's promise calls processQueue.
RecheckQueue(t) == pos' = [pos EXCEPT ![DoneCall(t)] = 1]

\* The loop over the updates is left: the tool completes.
Finish(t) ==
    /\ run[t] = "ending"
    /\ run' = [run EXCEPT ![t] = "idle"]
    /\ status' = [status EXCEPT ![t] = "completed"]
    /\ RecheckQueue(t)
    /\ UNCHANGED <<kind, count, results, progress, hasErrored, discarded, parent,
                   consumerVars>>

\* The turn is aborted by the user ("user") or by a message submitted while
\* tools run ("interrupt").
AbortTurn ==
    /\ Quiescent
    /\ parent = "none"
    /\ parent' \in {"user", "interrupt"}
    /\ UNCHANGED <<kind, count, toolVars, hasErrored, discarded, pos, consumerVars>>

\* The user dismisses t's permission dialog: the tool's own controller is
\* aborted, which bubbles up to the turn unless the executor was discarded.
DismissDialog(t) ==
    /\ Quiescent
    /\ run[t] = "running"
    /\ parent = "none"
    /\ ~discarded
    /\ parent' = "user"
    /\ UNCHANGED <<kind, count, toolVars, hasErrored, discarded, pos, consumerVars>>

(* The consumer: query.ts while the response streams *)

\* Mutant: the block is not appended to tools.
Untracked(t) == count' = count

Tracked(t) == count' = t

\* A chunk of the response arrives.
ReadChunk ==
    /\ Quiescent
    /\ pc = "streaming"
    /\ pc' = "reading"
    /\ UNCHANGED <<kind, count, toolVars, hasErrored, discarded, parent, pos, draining,
                   cursor, waitSet, woken>>

\* The next tool_use block of the chunk.  Nothing is awaited between the blocks
\* of a message: processQueue calls of several of them are suspended at once.
AddTool ==
    /\ pc = "reading"
    /\ parent = "none"
    /\ count < NTools
    /\ LET t == count + 1 IN
         /\ IF kind[t].known
            THEN ScanQueue(AddCall(t), 1, [status EXCEPT ![t] = "queued"])
            ELSE /\ status' = [status EXCEPT ![t] = "completed"]
                 /\ results' = [results EXCEPT ![t] = Append(@, "error")]
                 /\ UNCHANGED <<run, pos>>
         /\ Tracked(t)
    /\ UNCHANGED <<kind, progress, hasErrored, discarded, parent, consumerVars>>

\* After every message query.ts takes the results that are ready.
PollResults ==
    /\ pc = "reading"
    /\ parent = "none"
    /\ pc' = "collect"
    /\ UNCHANGED <<kind, count, toolVars, hasErrored, discarded, parent, pos,
                   draining, cursor, waitSet, woken>>

\* The request falls back to another attempt: this executor is abandoned.
Discard ==
    /\ pc = "reading"
    /\ discarded' = TRUE
    /\ pc' = "dropped"
    /\ UNCHANGED <<kind, count, toolVars, hasErrored, parent, pos, draining, cursor,
                   waitSet, woken>>

\* The response is complete, maybe with the chunk that brought the last block:
\* getRemainingResults is called.
EndStream ==
    /\ pc = "reading"
    /\ pc' = "loop"
    /\ draining' = TRUE
    /\ UNCHANGED <<kind, count, toolVars, hasErrored, discarded, parent, pos, cursor,
                   waitSet, woken>>

(* The consumer: getRemainingResults *)

\* Head of the while loop, up to the await of processQueue.
DrainLoop ==
    /\ pc = "loop"
    /\ IF HasUnfinished
       THEN /\ ScanQueue(DrainCall, 1, status)
            /\ pc' = "queue"
       ELSE /\ pc' = "collect"
            /\ UNCHANGED <<status, run, results, pos>>
    /\ UNCHANGED <<kind, count, progress, hasErrored, discarded, parent, draining,
                   cursor, waitSet, woken>>

\* The awaited processQueue call has returned.
QueueDone ==
    /\ pc = "queue"
    /\ pos[DrainCall] = 0
    /\ pc' = "collect"
    /\ UNCHANGED <<kind, count, toolVars, hasErrored, discarded, parent, pos, draining,
                   cursor, waitSet, woken>>

\* getCompletedResults up to its next yield: a progress message, or the
\* results of a completed tool.  The code that consumes the query loop asks
\* for the next message at once ("collect") or after some I/O ("yielding").
Yield ==
    /\ pc = "collect"
    /\ \E j \in Yieldable(cursor) :
          IF progress[j] > 0
          THEN /\ progress' = [progress EXCEPT ![j] = @ - 1]
               /\ cursor' = j
               /\ UNCHANGED status
          ELSE /\ status' = [status EXCEPT ![j] = "yielded"]
               /\ cursor' = j + 1
               /\ UNCHANGED progress
    /\ pc' \in {"yielding", "collect"}
    /\ UNCHANGED <<kind, count, run, results, hasErrored, discarded, parent, pos,
                   draining, waitSet, woken>>

\* The I/O of that code is done.
ResumeYield ==
    /\ Quiescent
    /\ pc = "yielding"
    /\ pc' = "collect"
    /\ UNCHANGED <<kind, count, toolVars, hasErrored, discarded, parent, pos, draining,
                   cursor, waitSet, woken>>

\* getCompletedResults ends.  While the response streams query.ts goes on with
\* the chunk, or waits for the next one.  The drain waits for a promise only if a
\* tool executes and nothing is ready; otherwise it goes round its loop.
EndCollect ==
    /\ pc = "collect"
    /\ Yieldable(cursor) = {}
    /\ cursor' = 1
    /\ \/ /\ ~draining
          /\ pc' \in {"reading", "streaming"}
          /\ UNCHANGED <<waitSet, woken>>
       \/ /\ draining
          /\ IF Executing(status) # {} /\ ~HasCompleted /\ ~HasProgress
             THEN /\ pc' = "waiting"
                  /\ waitSet' = Executing(status)
                  /\ woken' = FALSE
             ELSE /\ pc' = IF HasUnfinished THEN "loop" ELSE "done"
                  /\ UNCHANGED <<waitSet, woken>>
    /\ UNCHANGED <<kind, count, toolVars, hasErrored, discarded, parent, pos, draining>>

\* Mutant: only progress wakes the drain.
WokenByProgress == woken

RaceWon == woken \/ \E t \in waitSet : status[t] # "executing"

\* The race is won by a tool's promise or by a progress message.
Wake ==
    /\ pc = "waiting"
    /\ RaceWon
    /\ pc' = "loop"
    /\ waitSet' = {}
    /\ woken' = FALSE
    /\ UNCHANGED <<kind, count, toolVars, hasErrored, discarded, parent, pos, draining,
                   cursor>>

-----------------------------------------------------------------------------
Stopped ==
    /\ pc \in {"done", "dropped"}
    /\ \A c \in Call : pos[c] = 0
    /\ \A t \in Tool : run[t] = "idle"
    /\ UNCHANGED vars

Next ==
    \/ \E c \in Call : ResumeQueue(c)
    \/ \E t \in Tool : Deliver(t) \/ HandleUpdate(t) \/ Finish(t) \/ DismissDialog(t)
    \/ AbortTurn
    \/ ReadChunk \/ AddTool \/ PollResults \/ Discard \/ EndStream
    \/ DrainLoop \/ QueueDone \/ Yield \/ ResumeYield \/ EndCollect \/ Wake
    \/ Stopped

Spec == Init /\ [][Next]_vars

\* Promise callbacks run; the consumer of the query loop keeps asking for
\* messages and a tool that is executing answers in the end (SF: every other
\* completion closes the event loop to it for a moment).
Fairness ==
    /\ \A c \in Call : WF_vars(ResumeQueue(c))
    /\ \A t \in Tool :
          /\ WF_vars(HandleUpdate(t))
          /\ WF_vars(Finish(t))
          /\ SF_vars(Deliver(t) /\ run'[t] # "progress")
    /\ WF_vars(DrainLoop) /\ WF_vars(QueueDone) /\ WF_vars(Yield)
    /\ SF_vars(ResumeYield) /\ WF_vars(EndCollect) /\ WF_vars(Wake)

FairSpec == Spec /\ Fairness

-----------------------------------------------------------------------------
(* Properties *)

\* Every variable has its type; a tool is tracked exactly when it was added.
TypeOK ==
    /\ kind \in [Tool -> Kinds]
    /\ count \in 0..NTools
    /\ status \in [Tool -> StatusType]
    /\ \A t \in Tool : status[t] = "none" <=> t > count
    /\ run \in [Tool -> RunType]
    /\ results \in [Tool -> Seq(ResultType)]
    /\ progress \in [Tool -> Nat]
    /\ hasErrored \in BOOLEAN
    /\ discarded \in BOOLEAN
    /\ parent \in {"none", "user", "interrupt"}
    /\ pos \in [Call -> 0..(NTools + 1)]
    /\ pc \in {"streaming", "reading", "collect", "yielding", "loop", "queue", "waiting", "done", "dropped"}
    /\ draining \in BOOLEAN
    /\ cursor \in 1..(NTools + 1)
    /\ waitSet \in SUBSET Tool
    /\ woken \in BOOLEAN

\* Mutual exclusion: while a tool that is not concurrency safe executes, no
\* other tool does, whichever processQueue calls are under way.
ExclusiveAccess ==
    \A t \in Tool : status[t] = "executing" /\ ~kind[t].safe => Executing(status) = {t}

\* An exclusive tool separates the tools received before it from those after:
\* of two tools, one exclusive, the later has not left the queue until the
\* earlier one completed (edits apply in the order the model asked for them).
SerialAroundExclusive ==
    \A k \in Tool, j \in Tool :
        /\ k < j
        /\ kind[k].known /\ kind[j].known
        /\ ~kind[k].safe \/ ~kind[j].safe
        /\ status[j] \notin {"none", "queued"}
        => status[k] \in {"completed", "yielded"}

\* No tool overtakes another: none is started, by a scan or already when it is
\* added, while an earlier one is in the queue, although several processQueue
\* calls walk the list at once.
StartInOrder ==
    \A k \in Tool, j \in Tool :
        k < j /\ kind[j].known /\ status[j] \notin {"none", "queued"}
            => status[k] # "queued"

\* Every tool_use block is answered by exactly one tool_result: a completed
\* tool holds one, whatever errors, aborts and late attachments it met.
OneResultPerTool ==
    \A t \in Tool : status[t] \in {"completed", "yielded"} => Len(results[t]) = 1

\* Once a tool is to be cancelled (sibling Bash error, abort, fallback), it
\* never reports a success it had not yet reported.
NoSuccessAfterCancel ==
    [][\A t \in Tool :
          AbortReason(t) # "none" /\ results[t] = <<>>
              => \A i \in DOMAIN results'[t] : results'[t][i] # "ok"]_vars

\* At rest no tool waits for nothing: when no callback is ready and no tool
\* executes, the queue is empty (a lost wake-up of processQueue would show).
QueueServed ==
    Quiescent /\ Executing(status) = {} => \A t \in Tool : status[t] # "queued"

\* A tool that does not exist was received after an exclusive one.
UnknownAfterExclusive ==
    \E k \in 1..count, j \in 1..count : k < j /\ ~kind[k].safe /\ ~kind[j].known

\* The drain ends: query.ts gets out of getRemainingResults, having yielded a
\* result for every block it added.  One shape of response is excepted, in which
\* the code loops for ever: the error of an unknown tool is ready but cannot be
\* yielded past an exclusive tool that executes, so the drain waits for nothing
\* and the event loop never takes the answer of that tool.
DrainTerminates ==
    draining /\ ~UnknownAfterExclusive
        ~> (pc = "done" /\ \A t \in 1..count : status[t] = "yielded")
=============================================================================
