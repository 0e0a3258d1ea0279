------------------------ MODULE ToolExecutor_proofs -------------------------
(***************************************************************************)
(* Proofs about ToolExecutor, for any number of blocks and kinds of tool.  *)
(***************************************************************************)
EXTENDS ToolExecutor, WellFoundedInduction, TLAPS

\* The scheduling facts, as predicates of the statuses st so that they can be
\* stated of the queue in the middle of addTool, between the push and the scan.

\* What a processQueue call has walked past has left the queue, wherever it
\* is suspended.
Behind(st) ==
    \A c \in Call : /\ pos[c] <= count + 1
                    /\ \A k \in Tool : k < pos[c] => st[k] # "queued"

\* A block whose tool does not exist is never queued or executed.
UnknownIdle(st) ==
    \A t \in Tool : ~kind[t].known => st[t] \in {"none", "completed", "yielded"}

\* A tool has left the queue only if all earlier ones did.
LeftInOrder(st) ==
    \A k \in Tool, j \in Tool :
        k < j /\ kind[j].known /\ st[j] \notin {"none", "queued"}
            => st[k] \notin {"none", "queued"}

Exclusive(st) ==
    \A t \in Tool : st[t] = "executing" /\ ~kind[t].safe => Executing(st) = {t}

Serial(st) ==
    \A k \in Tool, j \in Tool :
        /\ k < j
        /\ kind[k].known /\ kind[j].known
        /\ ~kind[k].safe \/ ~kind[j].safe
        /\ st[j] \notin {"none", "queued"}
        => st[k] \in {"completed", "yielded"}

Sched(st) ==
    Behind(st) /\ UnknownIdle(st) /\ LeftInOrder(st) /\ Exclusive(st) /\ Serial(st)

\* A tool has a for-await loop over its updates exactly while it executes.
LoopWhileExecuting == \A t \in Tool : run[t] # "idle" <=> status[t] = "executing"

\* The inductive invariant behind the scheduling properties.
SchedInv == TypeOK /\ LoopWhileExecuting /\ Sched(status)

-----------------------------------------------------------------------------
\* executeTool keeps the types and touches the status of its tool only.
LEMMA ExecuteToolType ==
    ASSUME TypeOK, NEW j \in Tool, NEW c \in Call, NEW st \in [Tool -> StatusType],
           ExecuteTool(j, c, st)
    PROVE  /\ status' \in [Tool -> StatusType]
           /\ run' \in [Tool -> RunType]
           /\ results' \in [Tool -> Seq(ResultType)]
           /\ pos' \in [Call -> 0..(NTools + 1)]
           /\ \A t \in Tool : t # j => status'[t] = st[t]
           /\ status'[j] \in {"executing", "completed"}
           /\ \A d \in Call : pos'[d] \in {pos[d], 1, j + 1}
  <1> USE DEF StatusType, RunType, ResultType
  <1>1. j + 1 \in 0..(NTools + 1) /\ 1 \in 0..(NTools + 1)
    BY NToolsAssumption DEF Tool
  <1>2. DoneCall(j) \in Call
    BY DEF DoneCall, Call
  <1>3. CASE AbortReason(j) # "none"
    <2>1. /\ status' = [st EXCEPT ![j] = "completed"]
          /\ results' = [results EXCEPT ![j] = Append(@, "synthetic")]
          /\ pos' = [pos EXCEPT ![c] = j + 1, ![DoneCall(j)] = 1]
          /\ run' = run
      BY <1>3 DEF ExecuteTool
    <2>2. pos' \in [Call -> 0..(NTools + 1)] /\ \A d \in Call : pos'[d] \in {pos[d], 1, j + 1}
      <3> DEFINE e == DoneCall(j)
      <3>1. pos' = [pos EXCEPT ![c] = j + 1, ![e] = 1] /\ e \in Call
        BY <2>1, <1>2
      <3> HIDE DEF e
      <3> QED BY <1>1, <3>1 DEF TypeOK
    <2>3. status' \in [Tool -> StatusType] /\ results' \in [Tool -> Seq(ResultType)]
      BY <2>1 DEF TypeOK
    <2> QED BY <2>1, <2>2, <2>3 DEF TypeOK
  <1>4. CASE AbortReason(j) = "none"
    <2>1. /\ status' = [st EXCEPT ![j] = "executing"]
          /\ run' \in {[run EXCEPT ![j] = "running"], [run EXCEPT ![j] = "error"]}
          /\ pos' = [pos EXCEPT ![c] = j + 1]
          /\ results' = results
      BY <1>4 DEF ExecuteTool
    <2> QED BY <1>1, <2>1 DEF TypeOK
  <1> QED BY <1>3, <1>4

\* A scan of the queue keeps the types and adds or removes no tool.
LEMMA ScanQueueType ==
    ASSUME TypeOK, NEW c \in Call, NEW p, NEW st \in [Tool -> StatusType],
           \A t \in Tool : run[t] # "idle" <=> st[t] = "executing",
           ScanQueue(c, p, st)
    PROVE  /\ status' \in [Tool -> StatusType]
           /\ run' \in [Tool -> RunType]
           /\ results' \in [Tool -> Seq(ResultType)]
           /\ pos' \in [Call -> 0..(NTools + 1)]
           /\ \A t \in Tool : status'[t] = "none" <=> st[t] = "none"
           /\ LoopWhileExecuting'
  <1>1. CASE \E j \in Startable(st, p) : ExecuteTool(j, c, st)
    <2>1. PICK j \in Startable(st, p) : ExecuteTool(j, c, st)
      BY <1>1
    <2>2. j \in Tool /\ st[j] = "queued"
      BY DEF Startable
    <2>3. LoopWhileExecuting'
      <3>1. run[j] = "idle"
        BY <2>2 DEF TypeOK, RunType
      <3>2. CASE AbortReason(j) # "none"
        BY <2>1, <2>2, <3>1, <3>2 DEF ExecuteTool, LoopWhileExecuting, StatusType
      <3>3. CASE AbortReason(j) = "none"
        <4>1. /\ status' = [st EXCEPT ![j] = "executing"]
              /\ run' \in {[run EXCEPT ![j] = "running"], [run EXCEPT ![j] = "error"]}
          BY <2>1, <3>3 DEF ExecuteTool
        <4> QED BY <4>1, <2>2 DEF LoopWhileExecuting, TypeOK
      <3> QED BY <3>2, <3>3
    <2> QED BY <2>1, <2>2, <2>3, ExecuteToolType
  <1>2. CASE status' = st /\ pos' = [pos EXCEPT ![c] = 0] /\ UNCHANGED <<run, results>>
    BY <1>2, NToolsAssumption DEF TypeOK, LoopWhileExecuting
  <1> QED BY <1>1, <1>2 DEF ScanQueue

\* The type invariant is inductive, with the state of the for-await loops.
LEMMA TypeInductive ==
    TypeOK /\ LoopWhileExecuting /\ [Next]_vars => TypeOK' /\ LoopWhileExecuting'
  <1> SUFFICES ASSUME TypeOK, LoopWhileExecuting, [Next]_vars
               PROVE  TypeOK' /\ LoopWhileExecuting'
    OBVIOUS
  <1> USE NToolsAssumption, MaxProgressAssumption DEF Tool
  <1>1. ASSUME NEW c \in Call, ResumeQueue(c) PROVE TypeOK' /\ LoopWhileExecuting'
    <2>1. ScanQueue(c, pos[c], status)
      BY <1>1 DEF ResumeQueue
    <2>2. status \in [Tool -> StatusType]
      BY DEF TypeOK
    <2>3. \A t \in Tool : run[t] # "idle" <=> status[t] = "executing"
      BY DEF LoopWhileExecuting
    <2>4. /\ status' \in [Tool -> StatusType]
          /\ run' \in [Tool -> RunType]
          /\ results' \in [Tool -> Seq(ResultType)]
          /\ pos' \in [Call -> 0..(NTools + 1)]
          /\ \A t \in Tool : status'[t] = "none" <=> status[t] = "none"
          /\ LoopWhileExecuting'
      BY <2>1, <2>2, <2>3, ScanQueueType
    <2> QED BY <1>1, <2>4 DEF ResumeQueue, consumerVars, TypeOK
  <1>2. ASSUME NEW t \in Tool, Deliver(t) PROVE TypeOK' /\ LoopWhileExecuting'
    BY <1>2 DEF Deliver, consumerVars, RunType, TypeOK, LoopWhileExecuting
  <1>3. ASSUME NEW t \in Tool, HandleUpdate(t) PROVE TypeOK' /\ LoopWhileExecuting'
    <2>1. run[t] \in {"progress", "ok", "error", "extra"} /\ status[t] = "executing"
      BY <1>3 DEF HandleUpdate, LoopWhileExecuting
    <2>2. /\ status' = status /\ count' = count /\ kind' = kind /\ pos' = pos
          /\ discarded' = discarded /\ parent' = parent /\ pc' = pc
          /\ draining' = draining /\ cursor' = cursor /\ waitSet' = waitSet
      BY <1>3 DEF HandleUpdate
    <2>3. \E r \in RunType : r # "idle" /\ run' = [run EXCEPT ![t] = r]
      BY <1>3, <2>1 DEF HandleUpdate, RunType
    <2>4. \/ results' = results
          \/ \E r \in ResultType : results' = [results EXCEPT ![t] = Append(@, r)]
      BY <1>3 DEF HandleUpdate, ResultType
    <2>5. progress' \in [Tool -> Nat]
      <3>1. \/ progress' = progress
            \/ progress' = [progress EXCEPT ![t] = progress[t] + 1]
        BY <1>3 DEF HandleUpdate
      <3>2. progress[t] + 1 \in Nat
        BY DEF TypeOK
      <3> QED BY <3>1, <3>2 DEF TypeOK
    <2>6. hasErrored' \in BOOLEAN /\ woken' \in BOOLEAN
      BY <1>3 DEF HandleUpdate, TypeOK
    <2>7. results' \in [Tool -> Seq(ResultType)]
      <3>1. CASE results' = results
        BY <3>1 DEF TypeOK
      <3>2. ASSUME NEW r \in ResultType, results' = [results EXCEPT ![t] = Append(@, r)]
            PROVE  results' \in [Tool -> Seq(ResultType)]
        <4>1. Append(results[t], r) \in Seq(ResultType)
          BY DEF TypeOK
        <4> QED BY <3>2, <4>1 DEF TypeOK
      <3> QED BY <2>4, <3>1, <3>2
    <2>8. run' \in [Tool -> RunType] /\ LoopWhileExecuting'
      BY <2>1, <2>2, <2>3 DEF TypeOK, LoopWhileExecuting
    <2> QED BY <2>2, <2>5, <2>6, <2>7, <2>8 DEF TypeOK
  <1>4. ASSUME NEW t \in Tool, Finish(t) PROVE TypeOK' /\ LoopWhileExecuting'
    <2>1. pos' \in [Call -> 0..(NTools + 1)]
      BY <1>4, 1 \in 0..(NTools + 1) DEF Finish, RecheckQueue, TypeOK
    <2>2. /\ status' = [status EXCEPT ![t] = "completed"]
          /\ run' = [run EXCEPT ![t] = "idle"]
          /\ status[t] = "executing"
      BY <1>4 DEF Finish, LoopWhileExecuting
    <2>3. /\ status' \in [Tool -> StatusType]
          /\ \A u \in Tool : status'[u] = "none" <=> u > count
          /\ run' \in [Tool -> RunType]
          /\ LoopWhileExecuting'
      BY <2>2 DEF TypeOK, RunType, StatusType, LoopWhileExecuting
    <2> QED BY <1>4, <2>1, <2>3 DEF Finish, consumerVars, TypeOK
  <1>5. ASSUME NEW t \in Tool, DismissDialog(t) PROVE TypeOK' /\ LoopWhileExecuting'
    BY <1>5 DEF DismissDialog, toolVars, consumerVars, TypeOK, LoopWhileExecuting
  <1>6. CASE AbortTurn
    BY <1>6 DEF AbortTurn, toolVars, consumerVars, TypeOK, LoopWhileExecuting
  <1>7. CASE AddTool
    <2> DEFINE t == count + 1
               st == [status EXCEPT ![t] = "queued"]
    <2>1. t \in Tool /\ count' = t /\ status[t] = "none" /\ run[t] = "idle"
      BY <1>7 DEF AddTool, Tracked, TypeOK, LoopWhileExecuting, RunType
    <2>2. CASE kind[t].known
      <3>1. ScanQueue(AddCall(t), 1, st)
        BY <1>7, <2>2 DEF AddTool
      <3>2. st \in [Tool -> StatusType]
        BY <2>1 DEF TypeOK, StatusType
      <3>3. \A u \in Tool : run[u] # "idle" <=> st[u] = "executing"
        BY <2>1 DEF LoopWhileExecuting, TypeOK
      <3>4. AddCall(t) \in Call
        BY <2>1 DEF AddCall, Call
      <3>5. /\ status' \in [Tool -> StatusType]
            /\ run' \in [Tool -> RunType]
            /\ results' \in [Tool -> Seq(ResultType)]
            /\ pos' \in [Call -> 0..(NTools + 1)]
            /\ \A u \in Tool : status'[u] = "none" <=> st[u] = "none"
            /\ LoopWhileExecuting'
        BY <3>1, <3>2, <3>3, <3>4, ScanQueueType
      <3>6. \A u \in Tool : status'[u] = "none" <=> u > count'
        BY <2>1, <3>5 DEF TypeOK
      <3>7. /\ kind' = kind /\ progress' = progress /\ hasErrored' = hasErrored
            /\ discarded' = discarded /\ parent' = parent /\ consumerVars' = consumerVars
        BY <1>7 DEF AddTool
      <3>8. /\ pc' = pc /\ draining' = draining /\ cursor' = cursor
            /\ waitSet' = waitSet /\ woken' = woken
        BY <3>7 DEF consumerVars
      <3>9. count' \in 0..NTools
        BY <2>1
      <3> HIDE DEF t, st
      <3> QED BY <3>5, <3>6, <3>7, <3>8, <3>9 DEF TypeOK
    <2>3. CASE ~kind[t].known
      <3>1. /\ status' = [status EXCEPT ![t] = "completed"]
            /\ results' = [results EXCEPT ![t] = Append(@, "error")]
            /\ UNCHANGED <<run, pos>>
        BY <1>7, <2>3 DEF AddTool
      <3>2. status' \in [Tool -> StatusType] /\ results' \in [Tool -> Seq(ResultType)]
        BY <2>1, <3>1 DEF TypeOK, StatusType, ResultType
      <3>3. \A u \in Tool : status'[u] = "none" <=> u > count'
        BY <2>1, <3>1 DEF TypeOK
      <3>4. LoopWhileExecuting'
        BY <2>1, <3>1 DEF TypeOK, LoopWhileExecuting
      <3>5. /\ kind' = kind /\ progress' = progress /\ hasErrored' = hasErrored
            /\ discarded' = discarded /\ parent' = parent
            /\ pc' = pc /\ draining' = draining /\ cursor' = cursor
            /\ waitSet' = waitSet /\ woken' = woken
        BY <1>7 DEF AddTool, consumerVars
      <3>6. count' \in 0..NTools
        BY <2>1
      <3> HIDE DEF t, st
      <3> QED BY <3>1, <3>2, <3>3, <3>4, <3>5, <3>6 DEF TypeOK
    <2> QED BY <2>2, <2>3
  <1>8. CASE PollResults
    BY <1>8 DEF PollResults, toolVars, TypeOK, LoopWhileExecuting
  <1>9. CASE Discard
    BY <1>9 DEF Discard, toolVars, TypeOK, LoopWhileExecuting
  <1>10. CASE EndStream
    BY <1>10 DEF EndStream, toolVars, TypeOK, LoopWhileExecuting
  <1>11. CASE DrainLoop
    <2>1. CASE HasUnfinished
      <3>1. ScanQueue(DrainCall, 1, status) /\ DrainCall \in Call
        BY <1>11, <2>1 DEF DrainLoop, DrainCall, Call
      <3>2. status \in [Tool -> StatusType]
        BY DEF TypeOK
      <3>3. \A t \in Tool : run[t] # "idle" <=> status[t] = "executing"
        BY DEF LoopWhileExecuting
      <3>4. /\ status' \in [Tool -> StatusType]
            /\ run' \in [Tool -> RunType]
            /\ results' \in [Tool -> Seq(ResultType)]
            /\ pos' \in [Call -> 0..(NTools + 1)]
            /\ \A t \in Tool : status'[t] = "none" <=> status[t] = "none"
            /\ LoopWhileExecuting'
        BY <3>1, <3>2, <3>3, ScanQueueType
      <3> QED BY <1>11, <2>1, <3>4 DEF DrainLoop, TypeOK
    <2>2. CASE ~HasUnfinished
      BY <1>11, <2>2 DEF DrainLoop, TypeOK, LoopWhileExecuting
    <2> QED BY <2>1, <2>2
  <1>12. CASE QueueDone
    BY <1>12 DEF QueueDone, toolVars, TypeOK, LoopWhileExecuting
  <1>13. CASE Yield
    <2>1. PICK j \in Yieldable(cursor) :
             IF progress[j] > 0
             THEN /\ progress' = [progress EXCEPT ![j] = @ - 1]
                  /\ cursor' = j
                  /\ UNCHANGED status
             ELSE /\ status' = [status EXCEPT ![j] = "yielded"]
                  /\ cursor' = j + 1
                  /\ UNCHANGED progress
      BY <1>13 DEF Yield
    <2>2. j \in Tool /\ HasOutput(j)
      BY DEF Yieldable, TypeOK
    <2>3. /\ kind' = kind /\ count' = count /\ run' = run /\ results' = results
          /\ hasErrored' = hasErrored /\ discarded' = discarded /\ parent' = parent
          /\ pos' = pos /\ draining' = draining /\ waitSet' = waitSet /\ woken' = woken
          /\ pc' \in {"yielding", "collect"}
      BY <1>13 DEF Yield
    <2>4. CASE progress[j] > 0
      <3>1. progress' \in [Tool -> Nat] /\ cursor' \in 1..(NTools + 1)
        <4>1. progress' = [progress EXCEPT ![j] = progress[j] - 1] /\ cursor' = j
          BY <2>1, <2>4
        <4>2. progress[j] - 1 \in Nat
          BY <2>2, <2>4 DEF TypeOK
        <4> QED BY <2>2, <4>1, <4>2 DEF TypeOK
      <3>2. status' = status
        BY <2>1, <2>4
      <3> QED BY <2>3, <3>1, <3>2 DEF TypeOK, LoopWhileExecuting
    <2>5. CASE ~(progress[j] > 0)
      <3>1. status[j] = "completed"
        BY <2>2, <2>5 DEF HasOutput
      <3>2. status' = [status EXCEPT ![j] = "yielded"] /\ progress' = progress
        BY <2>1, <2>5
      <3>3. cursor' \in 1..(NTools + 1)
        <4>1. cursor' = j + 1
          BY <2>1, <2>5
        <4> QED BY <2>2, <4>1 DEF TypeOK
      <3>4. /\ status' \in [Tool -> StatusType]
            /\ \A u \in Tool : status'[u] = "none" <=> u > count'
            /\ LoopWhileExecuting'
        BY <2>2, <2>3, <3>1, <3>2 DEF TypeOK, LoopWhileExecuting, StatusType
      <3> QED BY <2>3, <3>2, <3>3, <3>4 DEF TypeOK
    <2> QED BY <2>4, <2>5
  <1>14. CASE ResumeYield
    BY <1>14 DEF ResumeYield, toolVars, TypeOK, LoopWhileExecuting
  <1>15. CASE EndCollect
    <2>1. /\ pc' \in {"reading", "streaming", "waiting", "loop", "done"}
          /\ waitSet' \in {waitSet, Executing(status)}
          /\ woken' \in {woken, FALSE}
          /\ cursor' = 1
      BY <1>15 DEF EndCollect
    <2>2. waitSet' \in SUBSET Tool /\ woken' \in BOOLEAN
      BY <2>1 DEF Executing, TypeOK
    <2> QED BY <1>15, <2>1, <2>2 DEF EndCollect, toolVars, TypeOK, LoopWhileExecuting
  <1>16. CASE Wake
    BY <1>16 DEF Wake, toolVars, TypeOK, LoopWhileExecuting
  <1>17. CASE UNCHANGED vars
    BY <1>17 DEF vars, toolVars, consumerVars, TypeOK, LoopWhileExecuting
  <1>18. CASE ReadChunk
    BY <1>18 DEF ReadChunk, toolVars, TypeOK, LoopWhileExecuting
  <1> QED BY <1>1, <1>2, <1>3, <1>4, <1>5, <1>6, <1>7, <1>8, <1>9, <1>10, <1>11, <1>12,
             <1>13, <1>14, <1>15, <1>16, <1>17, <1>18 DEF Next, Stopped

-----------------------------------------------------------------------------
\* The tool a scan starts is the first of the whole queue: a blocked tool
\* before it would have ended the scan or would not be blocked.
LEMMA FirstQueued ==
    ASSUME NEW st, NEW p \in Nat, NEW j \in Startable(st, p),
           \A k \in Tool : k < p => st[k] # "queued"
    PROVE  \A k \in Tool : k < j => st[k] # "queued"
  <1> SUFFICES ASSUME NEW k \in Tool, k < j, st[k] = "queued" PROVE FALSE
    OBVIOUS
  <1>1. /\ j \in Tool
        /\ CanExecute(st, kind[j].safe)
        /\ p <= k /\ k < j /\ st[k] = "queued" => PassedOver(st, k)
    BY DEF Startable
  <1>2. p <= k
    BY DEF Tool
  <1>3. kind[k].safe /\ ~CanExecute(st, kind[k].safe)
    BY <1>1, <1>2 DEF PassedOver
  <1> QED BY <1>1, <1>3 DEF CanExecute

\* The scheduling facts hold after a scan that starts where the queue is clear.
LEMMA ScanSched ==
    ASSUME TypeOK, NEW c \in Call, NEW p \in Nat, NEW st \in [Tool -> StatusType],
           Sched(st), ScanQueue(c, p, st), TypeOK',
           \A k \in Tool : k < p => st[k] # "queued",
           \A t \in Tool : st[t] = "none" <=> t > count',
           count <= count', kind' = kind
    PROVE  Sched(status)'
  <1> USE NToolsAssumption DEF Tool
  <1>1. CASE \E j \in Startable(st, p) : ExecuteTool(j, c, st)
    <2>1. PICK j \in Startable(st, p) : ExecuteTool(j, c, st)
      BY <1>1
    <2>2. j \in Tool /\ st[j] = "queued" /\ CanExecute(st, kind[j].safe)
      BY DEF Startable
    <2>3. \A k \in Tool : k < j => st[k] # "queued"
      BY <2>1, FirstQueued
    <2>4. /\ \A t \in Tool : t # j => status'[t] = st[t]
          /\ status'[j] \in {"executing", "completed"}
          /\ \A d \in Call : pos'[d] \in {pos[d], 1, j + 1}
      BY <2>1, <2>2, ExecuteToolType
    <2>5. kind[j].known
      BY <2>2 DEF Sched, UnknownIdle
    <2>6. \A k \in Tool : k < j => st[k] # "none"
      <3>1. j \in Nat /\ count' \in Nat /\ ~(j > count')
        BY <2>2 DEF TypeOK
      <3> QED BY <3>1
    <2>7. Behind(status)'
      <3>1. j <= count' /\ count \in Nat /\ count' \in Nat
        BY <2>2 DEF TypeOK
      <3>2. ASSUME NEW d \in Call
            PROVE  pos'[d] <= count' + 1 /\ \A k \in Tool : k < pos'[d] => status'[k] # "queued"
        <4>1. pos[d] <= count + 1 /\ \A k \in Tool : k < pos[d] => st[k] # "queued"
          BY DEF Sched, Behind
        <4>2. pos[d] \in Nat
          BY DEF TypeOK
        <4> QED BY <2>2, <2>3, <2>4, <3>1, <4>1, <4>2
      <3> QED BY <3>2 DEF Behind
    <2>8. UnknownIdle(status)'
      BY <2>4, <2>5 DEF Sched, UnknownIdle
    <2>9. LeftInOrder(status)'
      BY <2>2, <2>3, <2>4, <2>6 DEF Sched, LeftInOrder
    <2>10. Exclusive(status)'
      BY <2>2, <2>4 DEF Sched, Exclusive, CanExecute, Executing
    <2>11. Serial(status)'
      BY <2>2, <2>3, <2>4, <2>6 DEF Sched, Serial, LeftInOrder, CanExecute, Executing, StatusType
    <2> QED BY <2>7, <2>8, <2>9, <2>10, <2>11 DEF Sched
  <1>2. CASE status' = st /\ pos' = [pos EXCEPT ![c] = 0]
    <2>1. Behind(status)'
      BY <1>2 DEF Sched, Behind, TypeOK
    <2> QED BY <1>2, <2>1 DEF Sched, UnknownIdle, LeftInOrder, Exclusive, Executing, Serial
  <1> QED BY <1>1, <1>2 DEF ScanQueue

\* The scheduling facts hold after a step in which tools only complete or are
\* yielded, and processQueue calls only start from the front.
LEMMA AdvanceSched ==
    ASSUME TypeOK, TypeOK', Sched(status),
           kind' = kind, count' = count,
           \A t \in Tool : \/ status'[t] = status[t]
                           \/ /\ status[t] \in {"executing", "completed"}
                              /\ status'[t] \in {"completed", "yielded"},
           \A c \in Call : pos'[c] \in {pos[c], 1}
    PROVE  Sched(status)'
  <1> USE NToolsAssumption DEF Tool
  <1>1. Behind(status)'
    <2> SUFFICES ASSUME NEW d \in Call
                 PROVE  /\ pos'[d] <= count + 1
                        /\ \A k \in Tool : k < pos'[d] => status'[k] # "queued"
      BY DEF Behind
    <2>1. pos[d] <= count + 1 /\ \A k \in Tool : k < pos[d] => status[k] # "queued"
      BY DEF Sched, Behind
    <2>2. pos[d] \in Nat /\ count \in Nat
      BY DEF TypeOK
    <2> QED BY <2>1, <2>2
  <1>2. UnknownIdle(status)'
    BY DEF Sched, UnknownIdle
  <1>3. LeftInOrder(status)'
    BY DEF Sched, LeftInOrder
  <1>4. Exclusive(status)'
    BY DEF Sched, Exclusive, Executing
  <1>5. Serial(status)'
    BY DEF Sched, Serial
  <1> QED BY <1>1, <1>2, <1>3, <1>4, <1>5 DEF Sched

-----------------------------------------------------------------------------
\* The scheduling invariant holds initially: nothing is tracked yet.
LEMMA SchedInit == Init => SchedInv
  <1> SUFFICES ASSUME Init PROVE SchedInv
    OBVIOUS
  <1> USE NToolsAssumption, MaxProgressAssumption DEF Init, Tool
  <1>1. TypeOK
    <2>1. results \in [Tool -> Seq(ResultType)]
      OBVIOUS
    <2>2. /\ status \in [Tool -> StatusType]
          /\ run \in [Tool -> RunType]
          /\ progress \in [Tool -> Nat]
          /\ pos \in [Call -> 0..(NTools + 1)]
      BY DEF StatusType, RunType
    <2>3. \A t \in Tool : status[t] = "none" <=> t > count
      OBVIOUS
    <2>4. count \in 0..NTools /\ cursor \in 1..(NTools + 1) /\ waitSet \in SUBSET Tool
      OBVIOUS
    <2>5. /\ kind \in [Tool -> Kinds]
          /\ hasErrored \in BOOLEAN /\ discarded \in BOOLEAN
          /\ parent \in {"none", "user", "interrupt"}
          /\ pc \in {"streaming", "collect", "yielding", "loop", "queue", "waiting",
                     "done", "dropped"}
          /\ draining \in BOOLEAN /\ woken \in BOOLEAN
      OBVIOUS
    <2> HIDE DEF Init, Tool
    <2> QED BY <2>1, <2>2, <2>3, <2>4, <2>5 DEF TypeOK
  <1>2. LoopWhileExecuting
    BY DEF LoopWhileExecuting
  <1>3. Sched(status)
    BY DEF Sched, Behind, UnknownIdle, LeftInOrder, Exclusive, Serial
  <1> QED BY <1>1, <1>2, <1>3 DEF SchedInv

\* Every step keeps the scheduling facts: three kinds of step scan the queue,
\* the others only complete a tool or yield its results, or touch neither.
LEMMA SchedInductive == SchedInv /\ [Next]_vars => SchedInv'
  <1> SUFFICES ASSUME SchedInv, [Next]_vars PROVE Sched(status)'
    BY TypeInductive DEF SchedInv
  <1>1. TypeOK /\ LoopWhileExecuting /\ TypeOK' /\ Sched(status)
    BY TypeInductive DEF SchedInv
  <1>2. status \in [Tool -> StatusType] /\ count \in Nat
    BY <1>1, NToolsAssumption DEF TypeOK
  <1>3. ASSUME NEW c \in Call, ResumeQueue(c) PROVE Sched(status)'
    <2>1. ScanQueue(c, pos[c], status) /\ count' = count /\ kind' = kind
      BY <1>3 DEF ResumeQueue
    <2>2. pos[c] \in Nat /\ \A k \in Tool : k < pos[c] => status[k] # "queued"
      BY <1>1 DEF Sched, Behind, TypeOK
    <2>3. \A t \in Tool : status[t] = "none" <=> t > count'
      BY <1>1, <2>1 DEF TypeOK
    <2> QED BY <1>1, <1>2, <2>1, <2>2, <2>3, ScanSched
  <1>4. CASE AddTool
    <2> DEFINE t == count + 1
               st == [status EXCEPT ![t] = "queued"]
    <2>1. /\ t \in Tool /\ status[t] = "none"
          /\ count' = t /\ kind' = kind
      BY <1>1, <1>4, NToolsAssumption DEF AddTool, Tracked, TypeOK, Tool
    <2>2. CASE kind[t].known
      <3>1. ScanQueue(AddCall(t), 1, st) /\ AddCall(t) \in Call
        BY <1>4, <2>1, <2>2 DEF AddTool, AddCall, Call
      <3>2. st \in [Tool -> StatusType]
        BY <1>2, <2>1 DEF StatusType
      <3>3. Sched(st)
        <4>1. \A u \in Tool : u # t => st[u] = status[u]
          BY <1>2
        <4>2. st[t] = "queued"
          BY <1>2, <2>1
        <4>3. \A u \in Tool : u > t => status[u] = "none"
          BY <1>1, <1>2, NToolsAssumption DEF TypeOK, Tool
        <4>4. Behind(st)
          <5> SUFFICES ASSUME NEW d \in Call
                       PROVE  /\ pos[d] <= count + 1
                              /\ \A k \in Tool : k < pos[d] => st[k] # "queued"
            BY DEF Behind
          <5>1. pos[d] <= count + 1 /\ \A k \in Tool : k < pos[d] => status[k] # "queued"
            BY <1>1 DEF Sched, Behind
          <5>2. pos[d] \in Nat
            BY <1>1 DEF TypeOK
          <5>3. ~(t < pos[d])
            BY <1>2, <5>1, <5>2
          <5> QED BY <4>1, <5>1, <5>3
        <4> HIDE DEF st
        <4>5. UnknownIdle(st)
          BY <1>1, <2>2, <4>1 DEF Sched, UnknownIdle
        <4>6. LeftInOrder(st)
          BY <1>1, <2>1, <4>1, <4>2, <4>3, <1>2 DEF Sched, LeftInOrder, Tool
        <4>7. Exclusive(st)
          BY <1>1, <2>1, <4>1, <4>2 DEF Sched, Exclusive, Executing
        <4>8. Serial(st)
          BY <1>1, <2>1, <4>1, <4>2, <4>3, <1>2 DEF Sched, Serial, Tool
        <4> QED BY <4>4, <4>5, <4>6, <4>7, <4>8 DEF Sched
      <3>4. \A u \in Tool : st[u] = "none" <=> u > count'
        BY <1>1, <1>2, <2>1 DEF TypeOK, Tool
      <3>5. \A k \in Tool : k < 1 => st[k] # "queued"
        BY DEF Tool
      <3>6. count <= count' /\ 1 \in Nat
        BY <1>2, <2>1
      <3> HIDE DEF t, st
      <3> QED BY <1>1, <2>1, <3>1, <3>2, <3>3, <3>4, <3>5, <3>6, ScanSched
    <2>3. CASE ~kind[t].known
      <3>1. status' = [status EXCEPT ![t] = "completed"] /\ pos' = pos
        BY <1>4, <2>3 DEF AddTool
      <3>2. \A u \in Tool : u # t => status'[u] = status[u]
        BY <1>2, <3>1
      <3>3. status'[t] = "completed"
        BY <1>2, <2>1, <3>1
      <3>4. Behind(status)'
        <4> SUFFICES ASSUME NEW d \in Call
                     PROVE  /\ pos[d] <= count' + 1
                            /\ \A k \in Tool : k < pos[d] => status'[k] # "queued"
          BY <3>1 DEF Behind
        <4>1. pos[d] <= count + 1 /\ \A k \in Tool : k < pos[d] => status[k] # "queued"
          BY <1>1 DEF Sched, Behind
        <4>2. pos[d] \in Nat
          BY <1>1 DEF TypeOK
        <4> QED BY <1>2, <2>1, <3>2, <3>3, <4>1, <4>2
      <3>5. UnknownIdle(status)'
        BY <1>1, <2>1, <3>2, <3>3 DEF Sched, UnknownIdle
      <3>6. LeftInOrder(status)'
        BY <1>1, <2>1, <2>3, <3>2, <3>3 DEF Sched, LeftInOrder
      <3>7. Exclusive(status)'
        BY <1>1, <2>1, <3>2, <3>3 DEF Sched, Exclusive, Executing
      <3>8. Serial(status)'
        BY <1>1, <2>1, <2>3, <3>2, <3>3 DEF Sched, Serial
      <3> QED BY <3>4, <3>5, <3>6, <3>7, <3>8 DEF Sched
    <2> QED BY <2>2, <2>3
  <1>5. CASE DrainLoop
    <2>1. CASE HasUnfinished
      <3>1. ScanQueue(DrainCall, 1, status) /\ DrainCall \in Call
        BY <1>5, <2>1 DEF DrainLoop, DrainCall, Call
      <3>2. count' = count /\ kind' = kind
        BY <1>5 DEF DrainLoop
      <3>3. \A u \in Tool : status[u] = "none" <=> u > count'
        BY <1>1, <3>2 DEF TypeOK
      <3>4. 1 \in Nat /\ \A k \in Tool : k < 1 => status[k] # "queued"
        BY DEF Tool
      <3> QED BY <1>1, <1>2, <3>1, <3>2, <3>3, <3>4, ScanSched
    <2>2. CASE ~HasUnfinished
      <3>1. status' = status /\ pos' = pos /\ count' = count /\ kind' = kind
        BY <1>5, <2>2 DEF DrainLoop
      <3> QED BY <1>1, <3>1, AdvanceSched
    <2> QED BY <2>1, <2>2
  <1>6. ASSUME NEW t \in Tool, Finish(t) PROVE Sched(status)'
    <2>1. /\ status[t] = "executing"
          /\ status' = [status EXCEPT ![t] = "completed"]
          /\ pos' = [pos EXCEPT ![DoneCall(t)] = 1]
          /\ count' = count /\ kind' = kind
      BY <1>1, <1>6 DEF Finish, RecheckQueue, LoopWhileExecuting
    <2>2. \A c \in Call : pos'[c] \in {pos[c], 1}
      BY <1>1, <2>1 DEF TypeOK
    <2>3. \A u \in Tool : \/ status'[u] = status[u]
                          \/ /\ status[u] \in {"executing", "completed"}
                             /\ status'[u] \in {"completed", "yielded"}
      BY <1>2, <2>1
    <2> QED BY <1>1, <2>1, <2>2, <2>3, AdvanceSched
  <1>7. CASE Yield
    <2>1. PICK j \in Yieldable(cursor) :
             \/ status' = status
             \/ progress[j] \in Nat /\ ~(progress[j] > 0)
                /\ status' = [status EXCEPT ![j] = "yielded"]
      BY <1>1, <1>7 DEF Yield, Yieldable, TypeOK, Tool
    <2>2. HasOutput(j)
      BY DEF Yieldable
    <2>3. \A u \in Tool : \/ status'[u] = status[u]
                          \/ /\ status[u] \in {"executing", "completed"}
                             /\ status'[u] \in {"completed", "yielded"}
      BY <1>2, <2>1, <2>2 DEF HasOutput
    <2>4. pos' = pos /\ count' = count /\ kind' = kind
      BY <1>7 DEF Yield
    <2> QED BY <1>1, <2>3, <2>4, AdvanceSched
  <1>8. CASE /\ UNCHANGED <<status, pos, count, kind>>
    BY <1>1, <1>8, AdvanceSched
  <1>9. ASSUME NEW t \in Tool, Deliver(t) \/ HandleUpdate(t) \/ DismissDialog(t)
        PROVE  UNCHANGED <<status, pos, count, kind>>
    BY <1>9 DEF Deliver, HandleUpdate, DismissDialog, toolVars
  <1>10. CASE AbortTurn \/ PollResults \/ Discard \/ EndStream \/ QueueDone \/ ResumeYield
              \/ ReadChunk \/ EndCollect \/ Wake \/ UNCHANGED vars
    BY <1>8, <1>10 DEF AbortTurn, ReadChunk, PollResults, Discard, EndStream, QueueDone, ResumeYield,
                       EndCollect, Wake, vars, toolVars
  <1> QED BY <1>3, <1>4, <1>5, <1>6, <1>7, <1>8, <1>9, <1>10 DEF Next, Stopped

\* The scheduling invariant holds in every reachable state.
THEOREM SchedCorrect == Spec => []SchedInv
  <1>1. Init => SchedInv
    BY SchedInit
  <1>2. SchedInv /\ [Next]_vars => SchedInv'
    BY SchedInductive
  <1> QED BY <1>1, <1>2, PTL DEF Spec

\* The variables keep their types, for any number of blocks and any kinds.
THEOREM TypeCorrect == Spec => []TypeOK
  <1>1. SchedInv => TypeOK
    BY DEF SchedInv
  <1> QED BY <1>1, SchedCorrect, PTL

\* A tool that is not concurrency safe executes alone, whatever the number of
\* tools and of processQueue calls under way at once.
THEOREM ExclusiveAccessCorrect == Spec => []ExclusiveAccess
  <1>1. SchedInv => ExclusiveAccess
    BY DEF SchedInv, Sched, Exclusive, ExclusiveAccess
  <1> QED BY <1>1, SchedCorrect, PTL

\* An exclusive tool starts after every earlier tool completed, and completes
\* before any later one starts.
THEOREM SerialCorrect == Spec => []SerialAroundExclusive
  <1>1. SchedInv => SerialAroundExclusive
    BY DEF SchedInv, Sched, Serial, SerialAroundExclusive
  <1> QED BY <1>1, SchedCorrect, PTL

\* No tool is started while an earlier one is queued, however many
\* processQueue calls walk the list.
THEOREM StartInOrderCorrect == Spec => []StartInOrder
  <1>1. SchedInv => StartInOrder
    BY DEF SchedInv, Sched, LeftInOrder, StartInOrder
  <1> QED BY <1>1, SchedCorrect, PTL

-----------------------------------------------------------------------------
\* A tool that can be started will be: a processQueue call is under way.
Attended == Startable(status, 1) # {} => \E c \in Call : pos[c] > 0

\* Tools answer between their start and their completion, with one result.
Unanswered(t) == \/ status[t] \in {"none", "queued"}
                 \/ run[t] \in {"running", "progress", "ok", "error"}
Answered(t)   == \/ status[t] \in {"completed", "yielded"}
                 \/ run[t] \in {"extra", "ending"}

OneAnswer ==
    \A t \in Tool :
        /\ Unanswered(t) => results[t] = <<>>
        /\ Answered(t) => \E r \in ResultType : results[t] = <<r>>
        /\ run[t] = "extra" => results[t] \in {<<"ok">>, <<"error">>}

\* query.ts is at work on a chunk of the response.
Feeding == pc = "reading" \/ (pc = "collect" /\ ~draining)

\* These places are of getRemainingResults.
DrainPlaces == pc \in {"loop", "queue", "waiting"} => draining

\* A tool between its success and its completion is alone among the promise
\* callbacks: none of the others can cancel it there, and no tool is added.
Reporting(t) == run[t] = "ok" \/ (run[t] = "extra" /\ results[t] = <<"ok">>)

Undisturbed ==
    \A t \in Tool : Reporting(t) =>
        /\ \A c \in Call : pos[c] = 0
        /\ \A u \in Tool \ {t} : run[u] \in {"idle", "running"}
        /\ run[t] = "extra" => AbortReason(t) = "none"
        /\ ~Feeding

\* The inductive invariant behind the results.
ResultInv == SchedInv /\ Attended /\ OneAnswer /\ Undisturbed /\ DrainPlaces

\* A scan that resumes where the queue is clear starts what one from the front
\* would.
LEMMA StartableFrom ==
    ASSUME NEW st, NEW p \in Nat, \A k \in Tool : k < p => st[k] # "queued"
    PROVE  Startable(st, p) = Startable(st, 1)
  <1> USE NToolsAssumption DEF Tool
  <1>1. ASSUME NEW k \in Tool, st[k] = "queued" PROVE p <= k /\ 1 <= k
    BY <1>1
  <1>2. \A j \in Tool : j \in Startable(st, p) <=> j \in Startable(st, 1)
    BY <1>1 DEF Startable
  <1> QED BY <1>2 DEF Startable

\* What can be started depends on what is queued and what executes.
LEMMA StartableSame ==
    ASSUME kind' = kind, NEW st,
           \A t \in Tool : /\ st[t] = "queued" <=> status'[t] = "queued"
                           /\ st[t] = "executing" <=> status'[t] = "executing"
    PROVE  Startable(status, 1)' = Startable(st, 1)
  <1>1. Executing(status)' = Executing(st)
    BY DEF Executing
  <1>2. \A b : CanExecute(status, b)' <=> CanExecute(st, b)
    BY <1>1 DEF CanExecute
  <1>3. \A k \in Tool : PassedOver(status, k)' <=> PassedOver(st, k)
    BY <1>2 DEF PassedOver
  <1> QED BY <1>2, <1>3 DEF Startable

\* The results keep their form in a scan: a tool it starts has none, one it
\* cancels gets its only one, and it starts nothing while a tool reports.
LEMMA ScanResults ==
    ASSUME SchedInv, OneAnswer, Undisturbed,
           NEW c \in Call, NEW p \in Nat, NEW st \in [Tool -> StatusType],
           ScanQueue(c, p, st), kind' = kind,
           \A k \in Tool : k < p => st[k] # "queued",
           \A t \in Tool : \/ st[t] = status[t]
                           \/ status[t] = "none" /\ st[t] = "queued",
           UNCHANGED <<hasErrored, discarded, parent>>,
           \/ \A t \in Tool : ~Reporting(t)
           \/ Startable(st, 1) = {} /\ ~Feeding'
    PROVE  Attended' /\ OneAnswer' /\ Undisturbed'
  <1>1. /\ results \in [Tool -> Seq(ResultType)] /\ run \in [Tool -> RunType]
        /\ pos \in [Call -> 0..(NTools + 1)]
    BY DEF SchedInv, TypeOK
  <1>2. Startable(st, p) = Startable(st, 1)
    BY StartableFrom
  <1>3. CASE \E j \in Startable(st, p) : ExecuteTool(j, c, st)
    <2>1. PICK j \in Startable(st, p) : ExecuteTool(j, c, st)
      BY <1>3
    <2>2. /\ j \in Tool /\ st[j] = "queued" /\ j + 1 > 0 /\ DoneCall(j) \in Call
          /\ \A t \in Tool : ~Reporting(t)
      BY <1>2, NToolsAssumption DEF Startable, DoneCall, Call, Tool
    <2>3. results[j] = <<>> /\ run[j] = "idle"
      BY <1>1, <2>2 DEF OneAnswer, Unanswered, SchedInv, LoopWhileExecuting, RunType
    <2>4. CASE AbortReason(j) # "none"
      <3>1. /\ status' = [st EXCEPT ![j] = "completed"]
            /\ results' = [results EXCEPT ![j] = Append(@, "synthetic")]
            /\ pos' = [pos EXCEPT ![c] = j + 1, ![DoneCall(j)] = 1]
            /\ run' = run
        BY <2>1, <2>4 DEF ExecuteTool
      <3>2. pos'[DoneCall(j)] > 0
        <4> DEFINE d == DoneCall(j)
        <4>1. d \in Call /\ pos' = [pos EXCEPT ![c] = j + 1, ![d] = 1]
          BY <2>2, <3>1
        <4> HIDE DEF d
        <4>2. pos'[d] = 1
          BY <1>1, <4>1
        <4> QED BY <4>2 DEF d
      <3>3. results'[j] = <<"synthetic">> /\ "synthetic" \in ResultType
        BY <1>1, <2>2, <2>3, <3>1 DEF ResultType
      <3>4. \A t \in Tool : t # j => results'[t] = results[t] /\ status'[t] = st[t]
        BY <1>1, <3>1
      <3>5. status'[j] = "completed"
        BY <2>2, <3>1
      <3>6. OneAnswer'
        <4> SUFFICES ASSUME NEW t \in Tool
                     PROVE  /\ Unanswered(t)' => results'[t] = <<>>
                            /\ Answered(t)' => \E r \in ResultType : results'[t] = <<r>>
                            /\ run'[t] = "extra" => results'[t] \in {<<"ok">>, <<"error">>}
          BY DEF OneAnswer
        <4>1. CASE t = j
          BY <2>3, <3>1, <3>3, <3>5, <4>1 DEF Unanswered
        <4>2. CASE t # j
          BY <3>1, <3>4, <4>2 DEF OneAnswer, Unanswered, Answered
        <4> QED BY <4>1, <4>2
      <3>7. \A t \in Tool : ~Reporting(t)'
        BY <2>2, <2>3, <3>1, <3>4 DEF Reporting
      <3>8. Undisturbed' /\ Attended'
        BY <2>2, <3>2, <3>7 DEF Undisturbed, Attended
      <3> QED BY <3>6, <3>8
    <2>5. CASE AbortReason(j) = "none"
      <3>1. /\ status' = [st EXCEPT ![j] = "executing"]
            /\ run' \in {[run EXCEPT ![j] = "running"], [run EXCEPT ![j] = "error"]}
            /\ pos' = [pos EXCEPT ![c] = j + 1]
            /\ results' = results
        BY <2>1, <2>5 DEF ExecuteTool
      <3>2. pos'[c] > 0
        BY <1>1, <2>2, <3>1
      <3>3. /\ \A t \in Tool : t # j => run'[t] = run[t] /\ status'[t] = st[t]
            /\ run'[j] \in {"running", "error"} /\ status'[j] = "executing"
        BY <1>1, <2>2, <3>1
      <3>4. OneAnswer'
        <4> SUFFICES ASSUME NEW t \in Tool
                     PROVE  /\ Unanswered(t)' => results'[t] = <<>>
                            /\ Answered(t)' => \E r \in ResultType : results'[t] = <<r>>
                            /\ run'[t] = "extra" => results'[t] \in {<<"ok">>, <<"error">>}
          BY DEF OneAnswer
        <4>1. CASE t = j
          BY <2>3, <3>1, <3>3, <4>1 DEF Answered
        <4>2. CASE t # j
          BY <3>1, <3>3, <4>2 DEF OneAnswer, Unanswered, Answered
        <4> QED BY <4>1, <4>2
      <3>5. \A t \in Tool : ~Reporting(t)'
        BY <2>2, <3>1, <3>3 DEF Reporting
      <3>6. Undisturbed' /\ Attended'
        BY <3>2, <3>5 DEF Undisturbed, Attended
      <3> QED BY <3>4, <3>6
    <2> QED BY <2>4, <2>5
  <1>4. CASE /\ Startable(st, p) = {}
             /\ status' = st
             /\ pos' = [pos EXCEPT ![c] = 0]
             /\ UNCHANGED <<run, results>>
    <2>1. Startable(status, 1)' = Startable(st, 1)
      BY <1>4, StartableSame
    <2>2. Attended'
      BY <1>2, <1>4, <2>1 DEF Attended
    <2>3. OneAnswer'
      BY <1>4 DEF OneAnswer, Unanswered, Answered
    <2>4. \A t \in Tool : Reporting(t)' <=> Reporting(t)
      BY <1>4 DEF Reporting
    <2>5. \A t \in Tool : AbortReason(t)' = AbortReason(t)
      BY DEF AbortReason
    <2>6. \A d \in Call : pos[d] = 0 => pos'[d] = 0
      BY <1>1, <1>4
    <2>7. CASE \A t \in Tool : ~Reporting(t)
      BY <2>2, <2>3, <2>4, <2>7 DEF Undisturbed
    <2>8. CASE ~Feeding'
      <3>1. Undisturbed'
        BY <1>4, <2>4, <2>5, <2>6, <2>8 DEF Undisturbed
      <3> QED BY <2>2, <2>3, <3>1
    <2> QED BY <2>7, <2>8
  <1> QED BY <1>3, <1>4 DEF ScanQueue

\* At rest nobody reports, and nothing can be started.
LEMMA AtRest ==
    ASSUME Attended, Quiescent
    PROVE  /\ \A t \in Tool : ~Reporting(t)
           /\ \A c \in Call : pos[c] = 0
           /\ Startable(status, 1) = {}
BY DEF Attended, Quiescent, Reporting

\* Nobody reports while query.ts is at work on a chunk.
LEMMA FeedingAlone ==
    ASSUME Undisturbed, Feeding
    PROVE  \A t \in Tool : ~Reporting(t)
BY DEF Undisturbed

\* Every step keeps the places of the drain apart from those of the stream.
LEMMA DrainPlacesInductive ==
    ASSUME DrainPlaces, [Next]_vars
    PROVE  DrainPlaces'
  <1>1. ASSUME NEW t \in Tool, Deliver(t) \/ HandleUpdate(t) \/ Finish(t) \/ DismissDialog(t)
        PROVE  DrainPlaces'
    BY <1>1 DEF Deliver, HandleUpdate, Finish, DismissDialog, consumerVars, DrainPlaces
  <1>2. ASSUME NEW c \in Call, ResumeQueue(c) PROVE DrainPlaces'
    BY <1>2 DEF ResumeQueue, consumerVars, DrainPlaces
  <1>3. CASE AbortTurn \/ ReadChunk \/ AddTool \/ PollResults \/ Discard \/ EndStream
    BY <1>3 DEF AbortTurn, ReadChunk, AddTool, PollResults, Discard, EndStream, consumerVars,
                DrainPlaces
  <1>4. CASE DrainLoop \/ QueueDone \/ Yield \/ ResumeYield \/ EndCollect \/ Wake
              \/ UNCHANGED vars
    BY <1>4 DEF DrainLoop, QueueDone, Yield, ResumeYield, EndCollect, Wake, vars,
                consumerVars, DrainPlaces
  <1> QED BY <1>1, <1>2, <1>3, <1>4 DEF Next, Stopped

\* The facts about the results hold initially.
LEMMA ResultInit == Init => ResultInv
  <1> SUFFICES ASSUME Init PROVE ResultInv
    OBVIOUS
  <1>1. SchedInv
    BY SchedInit
  <1>2. \A t \in Tool : status[t] = "none" /\ run[t] = "idle" /\ results[t] = <<>>
    BY DEF Init
  <1>3. Attended
    BY <1>2 DEF Attended, Startable
  <1>4. OneAnswer
    BY <1>2 DEF OneAnswer, Answered
  <1>5. Undisturbed
    BY <1>2 DEF Undisturbed, Reporting
  <1>6. DrainPlaces
    BY DEF Init, DrainPlaces
  <1> QED BY <1>1, <1>3, <1>4, <1>5, <1>6 DEF ResultInv

\* One update of a tool: its only result, unless it goes on with progress.
LEMMA UpdateResults ==
    ASSUME ResultInv, NEW t \in Tool, HandleUpdate(t)
    PROVE  OneAnswer' /\ Undisturbed'
  <1>1. /\ run[t] \in {"progress", "ok", "error", "extra"} /\ status[t] = "executing"
        /\ status' = status /\ pos' = pos /\ kind' = kind
        /\ discarded' = discarded /\ parent' = parent
        /\ pc' = pc /\ draining' = draining
    BY DEF HandleUpdate, ResultInv, SchedInv, LoopWhileExecuting
  <1>2. /\ results \in [Tool -> Seq(ResultType)] /\ run \in [Tool -> RunType]
    BY DEF ResultInv, SchedInv, TypeOK
  <1>3. \A u \in Tool \ {t} : ~Reporting(u)
    BY <1>1 DEF ResultInv, Undisturbed
  <1>4. \/ run[t] = "extra" /\ results[t] \in {<<"ok">>, <<"error">>}
        \/ run[t] # "extra" /\ results[t] = <<>>
    BY <1>1 DEF ResultInv, OneAnswer, Unanswered
  <1>5. \A u \in Tool : u # t => run'[u] = run[u] /\ results'[u] = results[u]
    BY <1>2 DEF HandleUpdate
  <1>6. ASSUME NEW r \in ResultType, results[t] = <<>>,
               results' = [results EXCEPT ![t] = Append(@, r)]
        PROVE  results'[t] = <<r>>
    BY <1>2, <1>6
  <1>7. \A u \in Tool \ {t} : ~Reporting(u)'
    BY <1>3, <1>5 DEF Reporting
  \* It suffices to look at the tool itself.
  <1>8. ASSUME \/ run'[t] = "running" /\ results'[t] = <<>>
               \/ /\ run'[t] \in {"extra", "ending"}
                  /\ \E r \in ResultType : results'[t] = <<r>>
                  /\ run'[t] = "extra" => results'[t] \in {<<"ok">>, <<"error">>}
        PROVE  OneAnswer'
    <2> SUFFICES ASSUME NEW u \in Tool
                 PROVE  /\ Unanswered(u)' => results'[u] = <<>>
                        /\ Answered(u)' => \E r \in ResultType : results'[u] = <<r>>
                        /\ run'[u] = "extra" => results'[u] \in {<<"ok">>, <<"error">>}
      BY DEF OneAnswer
    <2>1. CASE u = t
      BY <1>1, <1>8, <2>1 DEF Unanswered, Answered
    <2>2. CASE u # t
      BY <1>1, <1>5, <2>2 DEF ResultInv, OneAnswer, Unanswered, Answered
    <2> QED BY <2>1, <2>2
  <1>9. ASSUME ~Reporting(t)' PROVE Undisturbed'
    BY <1>7, <1>9 DEF Undisturbed
  <1>10. CASE Replaced(t)
    <2>1. /\ results' = [results EXCEPT ![t] = Append(@, "synthetic")]
          /\ run' = [run EXCEPT ![t] = "ending"]
      BY <1>10 DEF HandleUpdate
    <2>2. run[t] # "extra"
      <3> SUFFICES ASSUME run[t] = "extra" PROVE FALSE
        OBVIOUS
      <3>1. CASE results[t] = <<"error">>
        <4>1. 1 \in DOMAIN results[t] /\ results[t][1] = "error"
          BY <3>1
        <4> QED BY <1>10, <4>1 DEF Replaced, Errored
      <3>2. CASE results[t] = <<"ok">>
        <4>1. AbortReason(t) = "none"
          BY <3>2 DEF ResultInv, Undisturbed, Reporting
        <4> QED BY <1>10, <4>1 DEF Replaced
      <3> QED BY <1>4, <3>1, <3>2
    <2>3. run'[t] = "ending"
      BY <1>2, <2>1
    <2>4. results'[t] = <<"synthetic">> /\ "synthetic" \in ResultType
      BY <1>4, <1>6, <2>1, <2>2 DEF ResultType
    <2> QED BY <1>8, <1>9, <2>3, <2>4 DEF Reporting
  <1>11. CASE ~Replaced(t) /\ run[t] = "progress"
    <2>1. run' = [run EXCEPT ![t] = "running"] /\ results' = results
      BY <1>11 DEF HandleUpdate
    <2>2. run'[t] = "running" /\ results'[t] = <<>>
      BY <1>2, <1>4, <1>11, <2>1
    <2> QED BY <1>8, <1>9, <2>2 DEF Reporting
  <1>12. CASE ~Replaced(t) /\ run[t] \in {"ok", "error"}
    <2>1. /\ results' = [results EXCEPT ![t] = Append(@, run[t])]
          /\ run' \in {[run EXCEPT ![t] = "extra"], [run EXCEPT ![t] = "ending"]}
          /\ hasErrored' = (hasErrored \/ (run[t] = "error" /\ kind[t].bash))
      BY <1>12 DEF HandleUpdate
    <2>2. run'[t] \in {"extra", "ending"}
      BY <1>2, <2>1
    <2>3. results'[t] = <<run[t]>> /\ run[t] \in ResultType
      BY <1>4, <1>6, <1>12, <2>1 DEF ResultType
    <2>4. OneAnswer'
      BY <1>8, <1>12, <2>2, <2>3
    <2>5. CASE run[t] = "error"
      <3>1. results'[t] # <<"ok">>
        BY <2>3, <2>5
      <3> QED BY <1>9, <2>2, <2>4, <3>1 DEF Reporting
    <2>6. CASE run[t] = "ok"
      <3>1. /\ \A c \in Call : pos[c] = 0
            /\ \A u \in Tool \ {t} : run[u] \in {"idle", "running"}
        BY <2>6 DEF ResultInv, Undisturbed, Reporting
      <3>2. AbortReason(t) = "none"
        <4>1. results[t] = <<>>
          BY <1>4, <2>6
        <4>2. ~Errored(t)
          BY <4>1 DEF Errored
        <4> QED BY <1>12, <4>2 DEF Replaced
      <3>3. hasErrored' = hasErrored
        BY <2>1, <2>6 DEF ResultInv, SchedInv, TypeOK
      <3>4. AbortReason(t)' = AbortReason(t)
        BY <1>1, <3>3 DEF AbortReason
      <3>5. ~Feeding'
        BY <1>1, <2>6 DEF ResultInv, Undisturbed, Reporting, Feeding
      <3>6. Undisturbed'
        BY <1>1, <1>5, <1>7, <3>1, <3>2, <3>4, <3>5 DEF Undisturbed
      <3> QED BY <2>4, <3>6
    <2> QED BY <1>12, <2>4, <2>5, <2>6
  <1>13. CASE ~Replaced(t) /\ run[t] = "extra"
    <2>1. run' = [run EXCEPT ![t] = "ending"] /\ results' = results
      BY <1>13 DEF HandleUpdate
    <2>2. run'[t] = "ending" /\ results'[t] \in {<<"ok">>, <<"error">>}
      BY <1>2, <1>4, <1>13, <2>1
    <2>3. \E r \in ResultType : results'[t] = <<r>>
      BY <2>2 DEF ResultType
    <2> QED BY <1>8, <1>9, <2>2, <2>3 DEF Reporting
  <1> QED BY <1>1, <1>10, <1>11, <1>12, <1>13

\* A step that starts, answers and completes nothing keeps the facts about the
\* results, if it cancels nobody or nobody reports.
LEMMA StillResults ==
    ASSUME ResultInv, kind' = kind, UNCHANGED <<run, results, pos>>,
           \A t \in Tool : \/ status'[t] = status[t]
                           \/ status[t] = "completed" /\ status'[t] = "yielded",
           \/ UNCHANGED <<hasErrored, discarded, parent>> /\ ~Feeding'
           \/ \A t \in Tool : ~Reporting(t)
    PROVE  Attended' /\ OneAnswer' /\ Undisturbed'
  <1>1. Startable(status, 1)' = Startable(status, 1)
    BY StartableSame
  <1>2. Attended'
    BY <1>1 DEF ResultInv, Attended
  <1>3. OneAnswer'
    BY DEF ResultInv, OneAnswer, Unanswered, Answered
  <1>4. \A t \in Tool : Reporting(t)' <=> Reporting(t)
    BY DEF Reporting
  <1>5. ASSUME \A t \in Tool : ~Reporting(t) PROVE Undisturbed'
    BY <1>4, <1>5 DEF Undisturbed
  <1>6. ASSUME UNCHANGED <<hasErrored, discarded, parent>>, ~Feeding'
        PROVE  Undisturbed'
    <2>1. \A t \in Tool : AbortReason(t)' = AbortReason(t)
      BY <1>6 DEF AbortReason
    <2> QED BY <1>4, <1>6, <2>1 DEF ResultInv, Undisturbed
  <1> QED BY <1>2, <1>3, <1>5, <1>6

\* Every step keeps the facts about the results.
LEMMA ResultInductive == ResultInv /\ [Next]_vars => ResultInv'
  <1> SUFFICES ASSUME ResultInv, [Next]_vars
               PROVE  Attended' /\ OneAnswer' /\ Undisturbed'
    BY SchedInductive, DrainPlacesInductive DEF ResultInv
  <1>1. SchedInv /\ Attended /\ OneAnswer /\ Undisturbed /\ DrainPlaces
    BY DEF ResultInv
  <1>2. /\ status \in [Tool -> StatusType] /\ count \in Nat
        /\ results \in [Tool -> Seq(ResultType)] /\ run \in [Tool -> RunType]
        /\ pos \in [Call -> 0..(NTools + 1)]
    BY <1>1, NToolsAssumption DEF SchedInv, TypeOK
  <1>3. ASSUME NEW c \in Call, ResumeQueue(c)
        PROVE  Attended' /\ OneAnswer' /\ Undisturbed'
    <2>1. /\ ScanQueue(c, pos[c], status) /\ kind' = kind /\ pos[c] > 0
          /\ UNCHANGED <<hasErrored, discarded, parent>>
      BY <1>3 DEF ResumeQueue
    <2>2. pos[c] \in Nat /\ \A k \in Tool : k < pos[c] => status[k] # "queued"
      BY <1>1, <1>2 DEF SchedInv, Sched, Behind
    <2>3. \A t \in Tool : ~Reporting(t)
      BY <1>1, <2>1, <2>2 DEF Undisturbed
    <2> QED BY <1>1, <1>2, <2>1, <2>2, <2>3, ScanResults
  <1>4. ASSUME NEW t \in Tool, Deliver(t)
        PROVE  Attended' /\ OneAnswer' /\ Undisturbed'
    <2>1. /\ Quiescent /\ run[t] = "running"
          /\ \E u \in {"progress", "ok", "error"} : run' = [run EXCEPT ![t] = u]
          /\ UNCHANGED <<kind, status, results, pos, hasErrored, discarded, parent>>
      BY <1>4 DEF Deliver
    <2>2. /\ run'[t] \in {"progress", "ok", "error"}
          /\ \A u \in Tool \ {t} : run'[u] = run[u] /\ run[u] \in {"idle", "running"}
      BY <1>2, <2>1 DEF Quiescent
    <2>3. Attended'
      <3>1. Startable(status, 1)' = Startable(status, 1)
        BY <2>1, StartableSame
      <3> QED BY <1>1, <2>1, <3>1 DEF Attended
    <2>4. OneAnswer'
      <3> SUFFICES ASSUME NEW u \in Tool
                   PROVE  /\ Unanswered(u)' => results'[u] = <<>>
                          /\ Answered(u)' => \E r \in ResultType : results'[u] = <<r>>
                          /\ run'[u] = "extra" => results'[u] \in {<<"ok">>, <<"error">>}
        BY DEF OneAnswer
      <3>1. CASE u = t
        <4>1. results[t] = <<>> /\ status[t] = "executing"
          BY <1>1, <2>1 DEF OneAnswer, Unanswered, SchedInv, LoopWhileExecuting
        <4> QED BY <2>1, <2>2, <3>1, <4>1 DEF Answered
      <3>2. CASE u # t
        BY <1>1, <2>1, <2>2, <3>2 DEF OneAnswer, Unanswered, Answered
      <3> QED BY <3>1, <3>2
    <2>5. Undisturbed'
      <3>1. \A c \in Call : pos'[c] = 0
        BY <2>1 DEF Quiescent
      <3>2. \A u \in Tool \ {t} : ~Reporting(u)'
        BY <2>2 DEF Reporting
      <3>3. ~Feeding'
        BY <1>4, <2>1 DEF Deliver, consumerVars, Quiescent, Feeding
      <3> QED BY <2>2, <3>1, <3>2, <3>3 DEF Undisturbed
    <2> QED BY <2>3, <2>4, <2>5
  <1>5. ASSUME NEW t \in Tool, HandleUpdate(t)
        PROVE  Attended' /\ OneAnswer' /\ Undisturbed'
    <2>1. UNCHANGED <<kind, status, pos>>
      BY <1>5 DEF HandleUpdate
    <2>2. Startable(status, 1)' = Startable(status, 1)
      BY <2>1, StartableSame
    <2>3. Attended'
      BY <1>1, <2>1, <2>2 DEF Attended
    <2> QED BY <1>5, <2>3, UpdateResults
  <1>6. ASSUME NEW t \in Tool, Finish(t)
        PROVE  Attended' /\ OneAnswer' /\ Undisturbed'
    <2>1. /\ run[t] = "ending" /\ status[t] = "executing"
          /\ run' = [run EXCEPT ![t] = "idle"]
          /\ status' = [status EXCEPT ![t] = "completed"]
          /\ pos' = [pos EXCEPT ![DoneCall(t)] = 1]
          /\ results' = results
      BY <1>1, <1>6 DEF Finish, RecheckQueue, SchedInv, LoopWhileExecuting
    <2>2. Attended'
      <3>1. DoneCall(t) \in Call
        BY DEF DoneCall, Call
      <3>2. pos'[DoneCall(t)] = 1
        BY <1>2, <2>1, <3>1
      <3> QED BY <3>1, <3>2 DEF Attended
    <2>3. OneAnswer'
      BY <1>1, <1>2, <2>1 DEF OneAnswer, Unanswered, Answered
    <2>4. \A u \in Tool : ~Reporting(u)'
      <3>1. \A u \in Tool : ~Reporting(u)
        BY <1>1, <2>1 DEF Undisturbed, Reporting
      <3> QED BY <1>2, <2>1, <3>1 DEF Reporting
    <2> QED BY <2>2, <2>3, <2>4 DEF Undisturbed
  <1>7. ASSUME NEW t \in Tool, DismissDialog(t)
        PROVE  Attended' /\ OneAnswer' /\ Undisturbed'
    <2>1. Quiescent /\ UNCHANGED <<kind, status, run, results, pos>>
      BY <1>7 DEF DismissDialog, toolVars
    <2> QED BY <1>1, <2>1, AtRest, StillResults
  <1>8. CASE AbortTurn \/ ReadChunk \/ ResumeYield
    <2>1. Quiescent /\ UNCHANGED <<kind, status, run, results, pos>>
      BY <1>8 DEF AbortTurn, ReadChunk, ResumeYield, toolVars
    <2> QED BY <1>1, <2>1, AtRest, StillResults
  <1>9. CASE AddTool
    <2> DEFINE t == count + 1
               st == [status EXCEPT ![t] = "queued"]
    <2>1. /\ t \in Tool /\ status[t] = "none" /\ kind' = kind
          /\ Feeding
          /\ UNCHANGED <<hasErrored, discarded, parent>>
      BY <1>1, <1>9, NToolsAssumption DEF AddTool, SchedInv, TypeOK, Tool, Feeding
    <2>2. CASE kind[t].known
      <3>1. ScanQueue(AddCall(t), 1, st) /\ AddCall(t) \in Call
        BY <1>9, <2>1, <2>2 DEF AddTool, AddCall, Call
      <3>2. st \in [Tool -> StatusType]
        BY <1>2, <2>1 DEF StatusType
      <3>3. \A u \in Tool : \/ st[u] = status[u]
                            \/ status[u] = "none" /\ st[u] = "queued"
        BY <1>2, <2>1
      <3>4. 1 \in Nat /\ \A k \in Tool : k < 1 => st[k] # "queued"
        BY DEF Tool
      <3>5. \A u \in Tool : ~Reporting(u)
        BY <1>1, <2>1, FeedingAlone
      <3> HIDE DEF t, st
      <3> QED BY <1>1, <2>1, <3>1, <3>2, <3>3, <3>4, <3>5, ScanResults
    <2>3. CASE ~kind[t].known
      <3>1. /\ status' = [status EXCEPT ![t] = "completed"]
            /\ results' = [results EXCEPT ![t] = Append(@, "error")]
            /\ UNCHANGED <<run, pos>>
        BY <1>9, <2>3 DEF AddTool
      <3>2. run[t] = "idle" /\ results[t] = <<>>
        BY <1>1, <1>2, <2>1 DEF SchedInv, LoopWhileExecuting, OneAnswer, Unanswered
      <3>3. /\ status'[t] = "completed" /\ results'[t] = <<"error">>
            /\ \A u \in Tool : u # t => status'[u] = status[u] /\ results'[u] = results[u]
        BY <1>2, <2>1, <3>1, <3>2
      <3>4. "error" \in ResultType
        BY DEF ResultType
      <3> HIDE DEF t, st
      <3>5. OneAnswer'
        <4> SUFFICES ASSUME NEW u \in Tool
                     PROVE  /\ Unanswered(u)' => results'[u] = <<>>
                            /\ Answered(u)' => \E r \in ResultType : results'[u] = <<r>>
                            /\ run'[u] = "extra" => results'[u] \in {<<"ok">>, <<"error">>}
          BY DEF OneAnswer
        <4>1. CASE u = t
          BY <3>1, <3>2, <3>3, <3>4, <4>1 DEF Unanswered
        <4>2. CASE u # t
          BY <1>1, <3>1, <3>3, <4>2 DEF OneAnswer, Unanswered, Answered
        <4> QED BY <4>1, <4>2
      <3>6. Undisturbed'
        <4>1. \A u \in Tool : ~Reporting(u)'
          BY <1>1, <2>1, <3>1, <3>2, <3>3, FeedingAlone DEF Reporting
        <4> QED BY <4>1 DEF Undisturbed
      <3>7. Attended'
        <4>1. Startable(status, 1)' = Startable(status, 1)
          BY <2>1, <3>3, StartableSame
        <4> QED BY <1>1, <3>1, <4>1 DEF Attended
      <3> QED BY <3>5, <3>6, <3>7
    <2> QED BY <2>2, <2>3
  <1>10. CASE DrainLoop
    <2>1. /\ kind' = kind
          /\ UNCHANGED <<hasErrored, discarded, parent>>
      BY <1>10 DEF DrainLoop
    <2>2. CASE HasUnfinished
      <3>1. ScanQueue(DrainCall, 1, status) /\ DrainCall \in Call
        BY <1>10, <2>2 DEF DrainLoop, DrainCall, Call
      <3>2. 1 \in Nat /\ \A k \in Tool : k < 1 => status[k] # "queued"
        BY DEF Tool
      <3>3. \/ \A t \in Tool : ~Reporting(t)
            \/ Startable(status, 1) = {} /\ ~Feeding'
        BY <1>1, <1>10, <2>2 DEF Undisturbed, Attended, DrainLoop, Feeding
      <3> QED BY <1>1, <1>2, <2>1, <3>1, <3>2, <3>3, ScanResults
    <2>3. CASE ~HasUnfinished
      <3>1. UNCHANGED <<status, run, results, pos>> /\ ~Feeding'
        BY <1>1, <1>10, <2>3 DEF DrainLoop, DrainPlaces, Feeding
      <3> QED BY <2>1, <3>1, StillResults
    <2> QED BY <2>2, <2>3
  <1>11. CASE Yield
    <2>1. PICK j \in Yieldable(cursor) :
             \/ status' = status
             \/ progress[j] \in Nat /\ ~(progress[j] > 0)
                /\ status' = [status EXCEPT ![j] = "yielded"]
      BY <1>1, <1>11 DEF Yield, Yieldable, SchedInv, TypeOK, Tool
    <2>2. HasOutput(j)
      BY DEF Yieldable
    <2>3. \A u \in Tool : \/ status'[u] = status[u]
                          \/ status[u] = "completed" /\ status'[u] = "yielded"
      BY <1>2, <2>1, <2>2 DEF HasOutput
    <2>4. UNCHANGED <<kind, run, results, pos, hasErrored, discarded, parent>>
      BY <1>11 DEF Yield
    <2>5. Feeding \/ ~Feeding'
      BY <1>11 DEF Yield, Feeding
    <2>6. ~Feeding' \/ \A t \in Tool : ~Reporting(t)
      BY <1>1, <2>5, FeedingAlone
    <2> QED BY <2>3, <2>4, <2>6, StillResults
  <1>12. CASE QueueDone \/ EndCollect \/ Wake \/ UNCHANGED vars
    <2>1. UNCHANGED <<kind, status, run, results, pos, hasErrored, discarded, parent>>
      BY <1>12 DEF QueueDone, EndCollect, Wake, vars, toolVars
    <2>2. Feeding \/ ~Feeding'
      BY <1>1, <1>12 DEF QueueDone, EndCollect, Wake, vars, consumerVars, DrainPlaces, Feeding
    <2>3. ~Feeding' \/ \A t \in Tool : ~Reporting(t)
      BY <1>1, <2>2, FeedingAlone
    <2> QED BY <2>1, <2>3, StillResults
  <1>13. CASE PollResults \/ Discard \/ EndStream
    <2>1. Feeding /\ UNCHANGED <<kind, status, run, results, pos>>
      BY <1>13 DEF PollResults, Discard, EndStream, toolVars, Feeding
    <2> QED BY <1>1, <2>1, FeedingAlone, StillResults
  <1> QED BY <1>13, <1>3, <1>4, <1>5, <1>6, <1>7, <1>8, <1>9, <1>10, <1>11, <1>12 DEF Next, Stopped

\* The facts about the results hold in every reachable state.
THEOREM ResultCorrect == Spec => []ResultInv
  <1> QED BY ResultInit, ResultInductive, PTL DEF Spec

\* A completed tool holds exactly one result, for any number of blocks,
\* whatever errors, aborts and late updates it met.
THEOREM OneResultPerToolCorrect == Spec => []OneResultPerTool
  <1>1. ASSUME ResultInv PROVE OneResultPerTool
    <2>1. \A t \in Tool : status[t] \in {"completed", "yielded"} =>
                              \E r \in ResultType : results[t] = <<r>>
      BY <1>1 DEF ResultInv, OneAnswer, Answered
    <2>2. \A r \in ResultType : Len(<<r>>) = 1
      OBVIOUS
    <2> QED BY <2>1, <2>2 DEF OneResultPerTool
  <1> QED BY <1>1, ResultCorrect, PTL

\* A non-empty set of numbers has a least element.
LEMMA LeastExists ==
    ASSUME NEW S, S \subseteq Nat, S # {}
    PROVE  \E x \in S : \A y \in S : x <= y
  <1>1. PICK x \in S : \A y \in S : ~(<<y, x>> \in OpToRel(<, Nat))
    BY NatLessThanWellFounded, WFMin
  <1>2. \A i, j \in Nat : ~(<<j, i>> \in OpToRel(<, Nat)) => i <= j
    BY DEF OpToRel
  <1>3. ASSUME NEW y \in S PROVE x <= y
    BY <1>1, <1>2
  <1> QED BY <1>3

\* A tool that is queued at rest waits for one that executes: a tool nothing
\* holds back is never forgotten by processQueue.
THEOREM QueueServedCorrect == Spec => []QueueServed
  <1>1. ASSUME ResultInv PROVE QueueServed
    <2> SUFFICES ASSUME Quiescent, Executing(status) = {},
                        NEW t \in Tool, status[t] = "queued"
                 PROVE  FALSE
      BY DEF QueueServed
    <2>1. Startable(status, 1) = {}
      BY <1>1, AtRest DEF ResultInv
    <2> DEFINE Q == {k \in Tool : status[k] = "queued"}
    <2>2. PICK k \in Q : \A i \in Q : k <= i
      <3>1. Q \subseteq Nat /\ Q # {}
        BY DEF Tool
      <3> HIDE DEF Q
      <3> QED BY <3>1, LeastExists
    <2>3. \A i \in Tool : i < k => status[i] # "queued"
      BY <2>2 DEF Tool
    <2>4. k \in Startable(status, 1)
      BY <2>2, <2>3, NToolsAssumption DEF Startable, CanExecute, Tool
    <2> QED BY <2>1, <2>4
  <1> QED BY <1>1, ResultCorrect, PTL

\* A tool that is to be cancelled and has not answered reports no success.
THEOREM NoSuccessAfterCancelCorrect == Spec => NoSuccessAfterCancel
  <1>1. ASSUME ResultInv, [Next]_vars,
               NEW t \in Tool, AbortReason(t) # "none", results[t] = <<>>
        PROVE  \A i \in DOMAIN results'[t] : results'[t][i] # "ok"
    <2>1. results \in [Tool -> Seq(ResultType)]
      BY <1>1 DEF ResultInv, SchedInv, TypeOK
    <2>2. ASSUME NEW r \in {"error", "synthetic"}, NEW u \in Tool,
                 results' = [results EXCEPT ![u] = Append(@, r)]
          PROVE  \A i \in DOMAIN results'[t] : results'[t][i] # "ok"
      <3>1. CASE u = t
        <4>1. results'[t] = <<r>>
          BY <1>1, <2>1, <2>2, <3>1
        <4> QED BY <4>1
      <3>2. CASE u # t
        <4>1. results'[t] = <<>>
          BY <1>1, <2>1, <2>2, <3>2
        <4> QED BY <4>1
      <3> QED BY <3>1, <3>2
    <2>3. ASSUME results' = results
          PROVE  \A i \in DOMAIN results'[t] : results'[t][i] # "ok"
      BY <1>1, <2>3
    <2>4. ASSUME NEW c \in Call, NEW p, NEW st, ScanQueue(c, p, st)
          PROVE  \A i \in DOMAIN results'[t] : results'[t][i] # "ok"
      <3>1. \/ results' = results
            \/ \E j \in Tool : results' = [results EXCEPT ![j] = Append(@, "synthetic")]
        BY <2>4 DEF ScanQueue, ExecuteTool, Startable
      <3> QED BY <2>2, <2>3, <3>1
    <2>5. ASSUME NEW u \in Tool, HandleUpdate(u)
          PROVE  \A i \in DOMAIN results'[t] : results'[t][i] # "ok"
      <3>1. CASE u # t
        <4>1. results'[t] = results[t]
          BY <2>1, <2>5, <3>1 DEF HandleUpdate
        <4> QED BY <1>1, <4>1
      <3>2. CASE u = t
        <4>1. Replaced(t)
          BY <1>1 DEF Replaced, Errored
        <4>2. results' = [results EXCEPT ![t] = Append(@, "synthetic")]
          BY <2>5, <3>2, <4>1 DEF HandleUpdate
        <4> QED BY <2>2, <4>2
      <3> QED BY <3>1, <3>2
    <2>6. CASE AddTool
      <3> DEFINE n == count + 1
      <3>1. n \in Tool
        BY <1>1, <2>6, NToolsAssumption DEF AddTool, ResultInv, SchedInv, TypeOK, Tool
      <3>2. AddCall(n) \in Call
        BY <3>1 DEF AddCall, Call
      <3>3. \/ ScanQueue(AddCall(n), 1, [status EXCEPT ![n] = "queued"])
            \/ results' = [results EXCEPT ![n] = Append(@, "error")]
        BY <2>6 DEF AddTool
      <3> HIDE DEF n
      <3> QED BY <2>2, <2>4, <3>1, <3>2, <3>3
    <2>7. CASE DrainLoop
      <3>1. ScanQueue(DrainCall, 1, status) \/ results' = results
        BY <2>7 DEF DrainLoop
      <3>2. DrainCall \in Call
        BY DEF Call
      <3> QED BY <2>3, <2>4, <3>1, <3>2
    <2>8. ASSUME NEW c \in Call, ResumeQueue(c)
          PROVE  \A i \in DOMAIN results'[t] : results'[t][i] # "ok"
      BY <2>4, <2>8 DEF ResumeQueue
    <2>9. ASSUME NEW u \in Tool, Deliver(u) \/ Finish(u) \/ DismissDialog(u)
          PROVE  \A i \in DOMAIN results'[t] : results'[t][i] # "ok"
      BY <2>3, <2>9 DEF Deliver, Finish, DismissDialog, toolVars
    <2>10. CASE AbortTurn \/ PollResults \/ Discard \/ EndStream \/ QueueDone \/ Yield
                \/ ReadChunk \/ ResumeYield \/ EndCollect \/ Wake \/ UNCHANGED vars
      BY <2>3, <2>10 DEF AbortTurn, ReadChunk, PollResults, Discard, EndStream, QueueDone, Yield,
                         ResumeYield, EndCollect, Wake, vars, toolVars
    <2> QED BY <1>1, <2>5, <2>6, <2>7, <2>8, <2>9, <2>10 DEF Next, Stopped
  <1>2. ResultInv /\ [Next]_vars =>
          [\A t \in Tool :
             AbortReason(t) # "none" /\ results[t] = <<>>
                 => \A i \in DOMAIN results'[t] : results'[t][i] # "ok"]_vars
    BY <1>1
  <1> QED BY <1>2, ResultCorrect, PTL DEF Spec, NoSuccessAfterCancel
=============================================================================
