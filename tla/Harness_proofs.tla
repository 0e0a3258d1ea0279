--------------------------- MODULE Harness_proofs ---------------------------
(***************************************************************************)
(* Proofs about the harness: its type invariant and EvidencedProgress, for *)
(* every set of hooks, every choice of modes and any number of commands.   *)
(***************************************************************************)
EXTENDS Harness, TLAPS

-----------------------------------------------------------------------------
(* The steps of a mode *)

\* A non-empty set of steps has a least element, so Min is one.
LEMMA MinOfSteps ==
    ASSUME NEW S \in SUBSET Steps, S # {}
    PROVE  /\ Min(S) \in S
           /\ \A s \in S : Min(S) <= s
<1>1. \E x \in S : \A y \in S : x <= y
  <2> DEFINE least(n) == n \in S /\ \A y \in S : n <= y
  <2>1. CASE 1 \in S
    <3>1. least(1)  BY <2>1 DEF Steps
    <3> QED BY <3>1
  <2>2. CASE 1 \notin S /\ 2 \in S
    <3>1. least(2)  BY <2>2 DEF Steps
    <3> QED BY <3>1
  <2>3. CASE {1, 2} \cap S = {} /\ 3 \in S
    <3>1. least(3)  BY <2>3 DEF Steps
    <3> QED BY <3>1
  <2>4. CASE {1, 2, 3} \cap S = {} /\ 4 \in S
    <3>1. least(4)  BY <2>4 DEF Steps
    <3> QED BY <3>1
  <2>5. CASE {1, 2, 3, 4} \cap S = {} /\ 5 \in S
    <3>1. least(5)  BY <2>5 DEF Steps
    <3> QED BY <3>1
  <2>6. CASE {1, 2, 3, 4, 5} \cap S = {} /\ 6 \in S
    <3>1. least(6)  BY <2>6 DEF Steps
    <3> QED BY <3>1
  <2>7. CASE {1, 2, 3, 4, 5, 6} \cap S = {} /\ 7 \in S
    <3>1. least(7)  BY <2>7 DEF Steps
    <3> QED BY <3>1
  <2>8. CASE {1, 2, 3, 4, 5, 6, 7} \cap S = {}
    <3>1. CASE 8 \in S
      <4>1. least(8)  BY <2>8, <3>1 DEF Steps
      <4> QED BY <4>1
    <3>2. CASE 8 \notin S
      <4>1. \A s \in S : s = 9  BY <2>8, <3>2 DEF Steps
      <4>2. least(9)  BY <4>1
      <4> QED BY <4>2
    <3> QED BY <3>1, <3>2
  <2> QED BY <2>1, <2>2, <2>3, <2>4, <2>5, <2>6, <2>7, <2>8
<1> QED BY <1>1 DEF Min

\* nextStepForMode answers -1 or a step of the mode, and between a step and
\* the next one the mode has none.
LEMMA NextStepOfMode ==
    ASSUME NEW step \in 0..9, NEW mode
    PROVE  /\ NextStep(step, mode) \in Steps \cup {-1}
           /\ NextStep(step, mode) > 0 =>
                \A s \in ModeSteps(mode) : s < NextStep(step, mode) => s <= step
<1> DEFINE later == {s \in ModeSteps(mode) : s > step}
<1>1. ModeSteps(mode) \in SUBSET Steps  BY DEF ModeSteps, Steps
<1>2. CASE later = {}
  BY <1>2 DEF NextStep, Steps
<1>3. CASE later # {}
  <2>1. NextStep(step, mode) = Min(later)  BY <1>3 DEF NextStep
  <2>2. Min(later) \in later /\ \A s \in later : Min(later) <= s
    BY <1>1, <1>3, MinOfSteps
  <2> QED BY <1>1, <2>1, <2>2 DEF Steps
<1> QED BY <1>2, <1>3

-----------------------------------------------------------------------------
(* Type correctness *)

\* What the hook and steer.sh write are states: a state the gate cleared, one
\* that is advanced, one that enters repair, one that was steered.
LEMMA WrittenStates ==
    ASSUME NEW f \in File
    PROVE  /\ Cleared(f) \in File
           /\ Engaged(f) \in File
           /\ \A n \in Steps : Persisted(f, n) \in File
           /\ [f EXCEPT !.star = "steered"] \in File
<1>1. Reset(f) \in File
  BY DEF Reset, File
<1>2. Cleared(f) \in File
  BY <1>1 DEF Cleared, File
<1>3. Engaged(f) \in File
  BY <1>1 DEF Engaged, File
<1>4. ASSUME NEW n \in Steps PROVE Persisted(f, n) \in File
  BY <1>1, <1>4 DEF Persisted, File, Steps
<1>5. [f EXCEPT !.star = "steered"] \in File
  BY DEF File
<1> QED BY <1>2, <1>3, <1>4, <1>5

\* They keep the mode, and all but the advance keep the step.
LEMMA WrittenSteps ==
    ASSUME NEW f \in File
    PROVE  /\ Cleared(f).mode = f.mode /\ Cleared(f).step = f.step
           /\ Engaged(f).mode = f.mode /\ Engaged(f).step = f.step
           /\ \A n \in Steps : Persisted(f, n).mode = f.mode /\ Persisted(f, n).step = n
<1>1. Reset(f) \in File /\ Reset(f).mode = f.mode /\ Reset(f).step = f.step
  BY DEF Reset, File
<1> QED BY <1>1 DEF Cleared, Engaged, Persisted, File

\* TypeOK holds initially.
LEMMA TypeInit == Init => TypeOK
BY MaxCommandsAssumption DEF Init, TypeOK, Log

\* Every step keeps TypeOK.
LEMMA TypeStep == TypeOK /\ [Next]_vars => TypeOK'
<1> SUFFICES ASSUME TypeOK, [Next]_vars PROVE TypeOK'
  OBVIOUS
<1> USE MaxCommandsAssumption, ModesAssumption
<1>1. CASE Guide
  BY <1>1 DEF Guide, TypeOK, File
<1>2. CASE Cancel
  BY <1>2 DEF Cancel, TypeOK
<1>3. CASE SteerCopy
  BY <1>3, WrittenStates DEF SteerCopy, TypeOK
<1>4. CASE SteerMove
  BY <1>4 DEF SteerMove, TypeOK
<1>5. ASSUME NEW good \in BOOLEAN, Teach(good) PROVE TypeOK'
  BY <1>5 DEF Teach, TypeOK, Log
<1>6. CASE Stop
  <2> USE <1>6 DEF Stop
  <2>1. CASE Promised
    BY <2>1 DEF Promised, Close, TypeOK
  <2>2. CASE Exhausted
    BY <2>2 DEF Exhausted, Close, TypeOK
  <2>3. CASE Warn
    BY <2>3 DEF Warn, Missed, TypeOK, File
  <2>4. CASE Engage
    <3>1. file \in File /\ file' = Engaged(file)
      BY <2>4 DEF Engage, Missed, TypeOK
    <3>2. file' \in File
      BY <3>1, WrittenStates
    <3> QED BY <2>4, <3>2 DEF Engage, Missed, TypeOK
  <2>5. CASE RepairMissed
    BY <2>5 DEF RepairMissed, Missed, Close, TypeOK, File
  <2>6. CASE Resolved
    BY <2>6 DEF Resolved, Passed, Close, TypeOK
  <2>7. CASE Advance
    <3> DEFINE next == NextStep(file.step, file.mode)
    <3>1. file \in File /\ next > 0
      BY <2>7 DEF Advance, Passed, TypeOK
    <3>2. next \in Steps
      <4>1. file.step \in 0..9  BY <3>1 DEF File
      <4> QED BY <3>1, <4>1, NextStepOfMode
    <3>3. Cleared(file) \in File /\ Persisted(file, next) \in File
      BY <3>1, <3>2, WrittenStates
    <3>4. file' \in File /\ wait' \in [Hook -> [state : File, next : Steps] \cup {none}]
      BY <2>7, <3>1, <3>2, <3>3 DEF Advance, Passed, TypeOK
    <3> QED BY <3>1, <3>4 DEF TypeOK
  <2> QED BY <2>1, <2>2, <2>3, <2>4, <2>5, <2>6, <2>7
<1>7. ASSUME NEW h \in Hook, Persist(h) PROVE TypeOK'
  <2>1. wait[h].state \in File /\ wait[h].next \in Steps
    BY <1>7 DEF Persist, TypeOK
  <2>2. file' \in File
    BY <1>7, <2>1, WrittenStates DEF Persist
  <2> QED BY <1>7, <2>2 DEF Persist, TypeOK
<1>8. CASE UNCHANGED vars
  BY <1>8 DEF vars, TypeOK
<1> QED BY <1>1, <1>2, <1>3, <1>4, <1>5, <1>6, <1>7, <1>8 DEF Next

\* The state file, what hooks will write and the logs keep their types.
THEOREM TypeCorrect == Spec => []TypeOK
BY TypeInit, TypeStep, PTL DEF Spec

-----------------------------------------------------------------------------
(* Evidenced progress *)

\* A line that was accepted stays accepted: the log is only appended to, and
\* the first line of a step is the one that counts.
LEMMA AcceptedStays ==
    ASSUME TypeOK, [Next]_vars, NEW s \in Steps, Accepted(s)
    PROVE  Accepted(s)'
<1>1. CASE line' = line
  BY <1>1 DEF Accepted
<1>2. ASSUME NEW good \in BOOLEAN, Teach(good) PROVE Accepted(s)'
  <2>1. CASE s = file.step
    BY <1>2, <2>1 DEF Teach, Accepted, TypeOK
  <2>2. CASE s # file.step
    BY <1>2, <2>2 DEF Teach, Accepted, TypeOK
  <2> QED BY <2>1, <2>2
<1> QED
  BY <1>1, <1>2 DEF Next, Guide, Cancel, SteerCopy, SteerMove, Stop, Persist, vars

\* So what was evidenced stays evidenced.
LEMMA EvidencedStays ==
    ASSUME TypeOK, [Next]_vars, NEW mode, NEW step, Evidenced(mode, step)
    PROVE  Evidenced(mode, step)'
<1>1. ModeSteps(mode) \in SUBSET Steps  BY DEF ModeSteps, Steps
<1> QED BY <1>1, AcceptedStays DEF Evidenced

\* A step whose line is accepted gives the evidence of the next one.
LEMMA EvidencedNext ==
    ASSUME NEW step \in 0..9, NEW mode, Evidenced(mode, step),
           step \in Steps => Accepted(step),
           NextStep(step, mode) > 0
    PROVE  Evidenced(mode, NextStep(step, mode))
<1> SUFFICES ASSUME NEW s \in ModeSteps(mode), s < NextStep(step, mode)
             PROVE  Accepted(s)
  BY DEF Evidenced
<1>1. s <= step /\ s \in Steps
  BY NextStepOfMode DEF ModeSteps, Steps
<1>2. CASE s < step
  BY <1>2 DEF Evidenced
<1>3. CASE s = step
  BY <1>1, <1>3
<1> QED BY <1>1, <1>2, <1>3 DEF Steps

\* Every step keeps what is written, and what is about to be, evidenced.
LEMMA EvidencedStep ==
    TypeOK /\ EvidencedPending /\ [Next]_vars => EvidencedPending'
<1> SUFFICES ASSUME TypeOK, EvidencedPending, [Next]_vars PROVE EvidencedPending'
  OBVIOUS
<1> DEFINE Later(mode, step) == \A s \in ModeSteps(mode) : s < step => line'[s] = "accepted"
           Now(f) == f # none => Later(f.mode, f.step)
           Waits(w) == \A h \in Hook : w[h] # none => Later(w[h].state.mode, w[h].next)
<1>1. ASSUME NEW mode, NEW step, Evidenced(mode, step) PROVE Later(mode, step)
  BY <1>1, EvidencedStays DEF Evidenced, Accepted
<1>2. Now(file) /\ Now(copy) /\ Waits(wait)
  BY <1>1 DEF EvidencedPending, EvidencedProgress
<1>3. ASSUME Now(file'), Now(copy'), Waits(wait') PROVE EvidencedPending'
  BY <1>3 DEF EvidencedPending, EvidencedProgress, Evidenced, Accepted
<1>4. CASE Guide
  <2>1. Now(file')
    <3>1. file'.step = 0  BY <1>4 DEF Guide
    <3>2. ModeSteps(file'.mode) \subseteq Steps  BY DEF ModeSteps, Steps
    <3> QED BY <3>1, <3>2 DEF Steps
  <2> QED BY <1>2, <1>3, <1>4, <2>1 DEF Guide
<1>5. CASE Cancel
  BY <1>2, <1>3, <1>5 DEF Cancel
<1>6. CASE SteerCopy
  <2>1. copy'.mode = file.mode /\ copy'.step = file.step
    BY <1>6 DEF SteerCopy, TypeOK, File
  <2> QED BY <1>2, <1>3, <1>6, <2>1 DEF SteerCopy
<1>7. CASE SteerMove
  BY <1>2, <1>3, <1>7 DEF SteerMove
<1>8. ASSUME NEW good \in BOOLEAN, Teach(good) PROVE EvidencedPending'
  BY <1>2, <1>3, <1>8 DEF Teach
<1>9. CASE Stop
  <2>1. copy' = copy  BY <1>9 DEF Stop
  <2>2. CASE Promised \/ Exhausted \/ Resolved
    BY <1>2, <1>3, <2>1, <2>2 DEF Promised, Exhausted, Resolved, Close
  <2>3. CASE Warn \/ Engage \/ RepairMissed
    <3>1. wait' = wait /\ (file' = none \/ (file # none /\ file'.mode = file.mode /\ file'.step = file.step))
      BY <2>3, WrittenSteps DEF Warn, Engage, RepairMissed, Missed, Close, TypeOK, File
    <3> QED BY <1>2, <1>3, <2>1, <3>1
  <2>4. CASE Advance
    <3> DEFINE next == NextStep(file.step, file.mode)
    <3>1. file \in File /\ file # none /\ next > 0
      BY <2>4 DEF Advance, Passed, TypeOK
    <3>2. next \in Steps
      <4>1. file.step \in 0..9  BY <3>1 DEF File
      <4> QED BY <3>1, <4>1, NextStepOfMode
    <3>3. Later(file.mode, next)
      <4>1. file.step \in 0..9  BY <3>1 DEF File
      <4>2. Evidenced(file.mode, file.step)
        BY <3>1 DEF EvidencedPending, EvidencedProgress
      <4>3. file.step \in Steps => Accepted(file.step)
        BY <2>4 DEF Advance, Passed
      <4>4. Evidenced(file.mode, next)
        BY <3>1, <4>1, <4>2, <4>3, EvidencedNext
      <4> QED BY <1>1, <4>4
    <3>4. CASE next \in NeedsProbe
      <4>1. PICK h \in Hook : /\ wait[h] = none
                              /\ wait' = [wait EXCEPT ![h] = [state |-> file, next |-> next]]
                              /\ file' = Cleared(file)
        BY <2>4, <3>1, <3>4 DEF Advance
      <4>2. file'.mode = file.mode /\ file'.step = file.step
        BY <3>1, <4>1, WrittenSteps
      <4>3. Waits(wait')
        BY <1>2, <3>3, <4>1 DEF TypeOK
      <4> QED BY <1>2, <1>3, <2>1, <3>1, <4>2, <4>3
    <3>5. CASE next \notin NeedsProbe
      <4>1. wait' = wait /\ file' = Persisted(file, next)
        BY <2>4, <3>1, <3>5 DEF Advance
      <4>2. file'.mode = file.mode /\ file'.step = next
        BY <3>1, <3>2, <4>1, WrittenSteps
      <4> QED BY <1>2, <1>3, <2>1, <3>3, <4>1, <4>2
    <3> QED BY <3>4, <3>5
  <2> QED BY <1>9, <2>2, <2>3, <2>4 DEF Stop
<1>10. ASSUME NEW h \in Hook, Persist(h) PROVE EvidencedPending'
  <2>1. wait[h] # none /\ wait[h].state \in File
    BY <1>10 DEF Persist, TypeOK
  <2>2. file'.mode = wait[h].state.mode /\ file'.step = wait[h].next
    BY <1>10, <2>1, WrittenSteps DEF Persist, TypeOK
  <2>3. \A k \in Hook : wait'[k] # none => wait'[k] = wait[k]
    BY <1>10 DEF Persist, TypeOK
  <2> QED BY <1>2, <1>3, <1>10, <2>1, <2>2, <2>3 DEF Persist
<1>11. CASE UNCHANGED vars
  BY <1>2, <1>3, <1>11 DEF vars
<1> QED BY <1>4, <1>5, <1>6, <1>7, <1>8, <1>9, <1>10, <1>11 DEF Next

\* The session never stands at a step whose predecessors lack an accepted
\* line, for any number of hooks and whatever the user does meanwhile.
THEOREM EvidencedCorrect == Spec => []EvidencedProgress
<1>1. Init => EvidencedPending
  BY DEF Init, EvidencedPending, EvidencedProgress
<1>2. TypeOK /\ EvidencedPending /\ [Next]_vars => EvidencedPending'
  BY EvidencedStep
<1>3. EvidencedPending => EvidencedProgress
  BY DEF EvidencedPending
<1> QED BY <1>1, <1>2, <1>3, TypeCorrect, PTL DEF Spec
=============================================================================
