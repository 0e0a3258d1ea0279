------------------------------ MODULE Harness ------------------------------
(***************************************************************************)
(* The /guide harness: a loop driven by the Stop hook.  At the end of each *)
(* turn advanceHarness (harness/loop.ts) reads the session's state file,   *)
(* looks in the teachings log for an accepted line of the current step,    *)
(* and either moves to the next step of the mode, asks again, engages the  *)
(* fractal repair, or closes the session by deleting the file.             *)
(*                                                                         *)
(* One session of one working directory.  A hook runs without yielding up  *)
(* to the dev-server probe it awaits (at most one minute) before the steps *)
(* that need a browser; what it writes afterwards it computed before.      *)
(* Escape abandons the turn, not the hook, and another process may work in *)
(* the same directory, so several hooks can wait for their probe at once.  *)
(***************************************************************************)
EXTENDS Integers, FiniteSetsExt

CONSTANTS
    Hook,           \* hook invocations that can wait for a probe at once
    Modes,          \* modes /guide can choose
    none,           \* no state file, no wait
    MaxCommands     \* bound on the /guide, /cancel and /steer commands

ASSUME ModesAssumption == Modes \subseteq {"quick", "standard", "deep"}
ASSUME MaxCommandsAssumption == MaxCommands \in Nat

VARIABLES
    file,       \* the state file of the session, or none
    wait,       \* hooks that await their probe: the state they read, and
                \* the step they will write
    copy,       \* steer.sh: the temporary file it is about to move in place
    line,       \* the first teachings line of each step (see Log)
    commands    \* number of commands so far

vars == <<file, wait, copy, line, commands>>

-----------------------------------------------------------------------------
Steps == 1..9

\* MODE_STEPS: the steps of each mode, which come in ascending order.
ModeSteps(mode) == IF mode = "quick" THEN {1, 5, 9} ELSE Steps

\* requires.agentBrowser: the steps before which the hook awaits the probe.
NeedsProbe == {1, 4, 5, 6, 8, 9}

\* Mutant: the index of the list is one too far.
NextStepSkips(step, mode) ==
    LET later == {s \in ModeSteps(mode) : s > step + 1}
    IN IF later = {} THEN -1 ELSE Min(later)

\* nextStepForMode: the next step of the mode, -1 after the last.
NextStep(step, mode) ==
    LET later == {s \in ModeSteps(mode) : s > step}
    IN IF later = {} THEN -1 ELSE Min(later)

\* What findStepLine and evidenceMissing make of the log: no line of the
\* step; one they accept; one with a malformed tag; such a line followed by
\* a good one.  Only the first line of a step is ever looked at.
Log == {"missing", "accepted", "malformed", "corrected"}
Accepted(step) == line[step] = "accepted"

\* HarnessState, without what is carried along unread.  star: the
\* north star; ws: harnessWs, the workspace of the fractal repair.
File == [step : 0..9, ws : {"null", "open"}, noOp : 0..2, mode : Modes,
         star : {"given", "steered"}]
Repairing(state) == state.ws = "open"

TypeOK ==
    /\ file \in File \cup {none}
    /\ wait \in [Hook -> [state : File, next : Steps] \cup {none}]
    /\ copy \in File \cup {none}
    /\ line \in [Steps -> Log]
    /\ commands \in 0..MaxCommands

Init ==
    /\ file = none
    /\ wait = [h \in Hook |-> none]
    /\ copy = none
    /\ line = [s \in Steps |-> "missing"]
    /\ commands = 0

-----------------------------------------------------------------------------
(* Commands of the user *)

\* setupHarness: a new state file; the teachings log is created only if
\* there is none, so the lines of an earlier run stay.
Guide ==
    /\ commands < MaxCommands
    /\ \E mode \in Modes :
          file' = [step |-> 0, ws |-> "null", noOp |-> 0, mode |-> mode, star |-> "given"]
    /\ commands' = commands + 1
    /\ UNCHANGED <<wait, copy, line>>

\* cancel.sh removes the state file and keeps the teachings.
Cancel ==
    /\ commands < MaxCommands
    /\ file # none
    /\ file' = none
    /\ commands' = commands + 1
    /\ UNCHANGED <<wait, copy, line>>

\* steer.sh writes a copy with the new north star, then moves it in place.
SteerCopy ==
    /\ commands < MaxCommands
    /\ file # none
    /\ copy = none
    /\ copy' = [file EXCEPT !.star = "steered"]
    /\ commands' = commands + 1
    /\ UNCHANGED <<file, wait, line>>

SteerMove ==
    /\ copy # none
    /\ file' = copy
    /\ copy' = none
    /\ UNCHANGED <<wait, line, commands>>

\* The model appends a teachings line for the step it was given.
Teach(good) ==
    /\ file # none
    /\ file.step \in Steps
    /\ LET s == file.step IN
         line' = [line EXCEPT ![s] =
                    IF @ = "missing" THEN (IF good THEN "accepted" ELSE "malformed")
                    ELSE IF @ = "malformed" /\ good THEN "corrected"
                    ELSE @]
    /\ UNCHANGED <<file, wait, copy, commands>>

-----------------------------------------------------------------------------
(* advanceHarness, run at the end of a turn *)

Close == file' = none /\ UNCHANGED wait

\* The last message holds the completion promise.
Promised ==
    /\ file # none
    /\ Close

\* The last step of the mode was under way and no promise came.
Exhausted ==
    /\ file # none
    /\ ~Repairing(file)
    /\ NextStep(file.step, file.mode) < 0
    /\ Close

\* The turn produced no accepted line for the step under way.
Missed ==
    /\ file # none
    /\ Repairing(file) \/ NextStep(file.step, file.mode) > 0
    /\ file.step \in Steps
    /\ ~Accepted(file.step)

\* The writes that start the attempts anew: noOpCount is 0 again.
Reset(state)   == [state EXCEPT !.noOp = 0]
Engaged(state) == [Reset(state) EXCEPT !.ws = "open"]

\* Attempt 1: the step is given again with a warning.
Warn ==
    /\ Missed
    /\ ~Repairing(file)
    /\ file.noOp = 0
    /\ file' = [file EXCEPT !.noOp = 1]
    /\ UNCHANGED wait

\* Attempt 2: engageFibHarness pins the step and resets the count.
Engage ==
    /\ Missed
    /\ ~Repairing(file)
    /\ file.noOp > 0
    /\ file' = Engaged(file)
    /\ UNCHANGED wait

\* The repair itself is counted, and closes the session at the third miss.
RepairMissed ==
    /\ Missed
    /\ Repairing(file)
    /\ IF file.noOp + 1 >= 3
       THEN Close
       ELSE file' = [file EXCEPT !.noOp = @ + 1] /\ UNCHANGED wait

Passed ==
    /\ file # none
    /\ file.step \in Steps => Accepted(file.step)

\* The gate passed in repair on the last step.
Resolved ==
    /\ Passed
    /\ Repairing(file)
    /\ NextStep(file.step, file.mode) < 0
    /\ Close

\* clearFibHarness, or the reset of noOpCount, is written at once.
Cleared(state) == [Reset(state) EXCEPT !.ws = "null"]

\* Mutant: the state is spread after the new step, and wins.
PersistedOld(state, next) == Reset(state)

\* The write that advances spreads the state as the hook first read it.
Persisted(state, next) == [Reset(state) EXCEPT !.step = next]

\* The gate passed: the session moves to the next step, after the probe if
\* that step needs a browser.
Advance ==
    LET next == IF file = none THEN -1 ELSE NextStep(file.step, file.mode) IN
    /\ Passed
    /\ next > 0
    /\ IF next \in NeedsProbe
       THEN \E h \in Hook :
              /\ wait[h] = none
              /\ wait' = [wait EXCEPT ![h] = [state |-> file, next |-> next]]
              /\ file' = Cleared(file)
       ELSE file' = Persisted(file, next) /\ UNCHANGED wait

\* The probe of hook h answered or gave up: the hook writes its advance.
Persist(h) ==
    /\ wait[h] # none
    /\ file' = Persisted(wait[h].state, wait[h].next)
    /\ wait' = [wait EXCEPT ![h] = none]
    /\ UNCHANGED <<copy, line, commands>>

Stop ==
    /\ \/ Promised \/ Exhausted \/ Warn \/ Engage \/ RepairMissed \/ Resolved \/ Advance
    /\ UNCHANGED <<copy, line, commands>>

-----------------------------------------------------------------------------
Next ==
    \/ Guide \/ Cancel \/ SteerCopy \/ SteerMove
    \/ \E good \in BOOLEAN : Teach(good)
    \/ Stop
    \/ \E h \in Hook : Persist(h)

Spec == Init /\ [][Next]_vars

\* Turns keep ending, since a stop that does not close the session is blocked
\* and the model is given another turn; a probe answers or times out within a
\* minute; the script that made a copy moves it.
FairSpec ==
    /\ Spec
    /\ WF_vars(Stop)
    /\ WF_vars(SteerMove)
    /\ \A h \in Hook : WF_vars(Persist(h))

-----------------------------------------------------------------------------
(* Properties *)

\* Every step the mode puts before `step' has an accepted line in the log.
Evidenced(mode, step) == \A s \in ModeSteps(mode) : s < step => Accepted(s)

\* No state file, wherever it came from (a hook that ran on, a copy made by
\* steer.sh, an earlier run), stands at a step whose predecessors in the mode
\* lack an accepted teachings line: the gate cannot be walked through.
EvidencedProgress == file # none => Evidenced(file.mode, file.step)

\* The strengthening that is inductive: it also holds of what the waiting
\* hooks are about to write and of the copy steer.sh is about to move.
EvidencedPending ==
    /\ EvidencedProgress
    /\ copy # none => Evidenced(copy.mode, copy.step)
    /\ \A h \in Hook : wait[h] # none => Evidenced(wait[h].state.mode, wait[h].next)

\* Once the user's commands are over the session closes for good, whatever
\* the model writes: no turn is a no-op for ever, and no hook that waits
\* brings the file back again and again.
LoopCloses == <>[](file = none)
=============================================================================
