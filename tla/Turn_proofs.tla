---------------------------- MODULE Turn_proofs ----------------------------
(***************************************************************************)
(* The turn has one owner and no command is lost: proofs about Turn, for   *)
(* any number of overlapping executions and of commands.                   *)
(*                                                                         *)
(* Owners.  Every step of Turn, whatever it does to the queue, does one of *)
(* four things to the guard: it leaves the generations alone, starts a     *)
(* query, ends one, or revokes the turn.  The invariant GuardInv says that *)
(* a query's generation names it: no two queries have the same, none is    *)
(* ahead of the guard, and the guard runs exactly when the query of its    *)
(* generation does.                                                        *)
(*                                                                         *)
(* Commands.  The invariant CommandInv adds that the queue, the batches    *)
(* and the snapshots are made of objects of commands that were sent, that  *)
(* an execution has a batch until it returns, and that it has a snapshot   *)
(* only while the attachments are made: a step moves objects from one of   *)
(* these places to another, or to where the history counts them.           *)
(***************************************************************************)
EXTENDS Turn, FiniteSetTheorems, SequenceTheorems, TLAPS

GuardTypes ==
    /\ guard \in Guard
    /\ phase \in [Exec -> Phase]
    /\ gen \in [Exec -> Nat]

GuardInv ==
    /\ GuardTypes
    /\ \A e \in Querying : gen[e] <= guard.generation
    /\ \A e, f \in Querying : gen[e] = gen[f] => e = f
    /\ \A e \in Querying : gen[e] = guard.generation => guard.status = "running"
    /\ guard.status = "running" => \E e \in Querying : gen[e] = guard.generation

SameGen(S) == \A f \in S : gen'[f] = gen[f]

\* A step that reserves or releases the guard, or leaves it alone.
Quiet ==
    /\ guard'.generation = guard.generation
    /\ guard'.status = "running" <=> guard.status = "running"
    /\ Querying' = Querying
    /\ SameGen(Querying)

Starting(e) ==
    /\ guard.status # "running"
    /\ guard' = Started(guard)
    /\ e \notin Querying
    /\ Querying' = Querying \cup {e}
    /\ gen'[e] = guard.generation + 1
    /\ SameGen(Querying)

Ending(e) ==
    /\ e \in Querying
    /\ Querying' = Querying \ {e}
    /\ guard' = end(guard, gen[e])
    /\ SameGen(Querying \ {e})

Revoking ==
    /\ guard' = forceEnd(guard)
    /\ Querying' = Querying
    /\ SameGen(Querying)

Shape ==
    \/ Quiet
    \/ \E e \in Exec : Starting(e) \/ Ending(e)
    \/ Revoking

-----------------------------------------------------------------------------
\* Starting an execution reserves the guard at most, and starts no query.
LEMMA ExecuteShape ==
    ASSUME GuardTypes, NEW e \in Exec, NEW os, Execute(e, os)
    PROVE  GuardTypes' /\ Quiet
  <1>1. /\ guard' \in Guard
        /\ guard'.generation = guard.generation
        /\ guard'.status = "running" <=> guard.status = "running"
    BY DEF Execute, reserve, Guard, GuardTypes
  <1>2. /\ phase' \in [Exec -> Phase]
        /\ Querying' = Querying
        /\ gen' = gen
    BY DEF Execute, GuardTypes, Querying, Phase
  <1> QED BY <1>1, <1>2 DEF GuardTypes, Quiet, SameGen

\* Every step does one of four things to the guard and the queries.
LEMMA StepShape ==
    ASSUME GuardTypes, [Next]_vars
    PROVE  GuardTypes' /\ Shape
  <1> USE DEF GuardTypes
  <1>1. ASSUME guard' = guard, phase' = phase, gen' = gen
        PROVE  GuardTypes' /\ Shape
    BY <1>1 DEF Shape, Quiet, SameGen, Querying
  <1>2. ASSUME NEW c \in Cmd, Submit(c) PROVE GuardTypes' /\ Shape
    <2>1. CASE isActive(guard)
      BY <1>1, <1>2, <2>1 DEF Submit, execVars
    <2>2. CASE ~isActive(guard)
      BY <1>2, <2>2, ExecuteShape DEF Submit, Shape
    <2> QED BY <2>1, <2>2
  <1>3. ASSUME NEW c \in Cmd, Notify(c) PROVE GuardTypes' /\ Shape
    BY <1>1, <1>3 DEF Notify, execVars
  <1>4. ASSUME NEW c \in Cmd, IncomingPrompt(c) PROVE GuardTypes' /\ Shape
    <2>1. PICK e \in Exec : /\ phase[e] = "free"
                            /\ phase' = [phase EXCEPT ![e] = "querying"]
                            /\ Start(e, <<Object(c)>>)
      BY <1>4 DEF IncomingPrompt
    <2>2. guard.status # "running" /\ guard' = Started(guard) /\ guard' \in Guard
      BY <1>4, <2>1 DEF IncomingPrompt, isActive, Start, Started, Guard
    <2>3. /\ gen' \in [Exec -> Nat]
          /\ gen'[e] = guard.generation + 1
          /\ \A f \in Exec \ {e} : gen'[f] = gen[f]
      BY <2>1 DEF Start, Guard
    <2>4. /\ phase' \in [Exec -> Phase]
          /\ e \notin Querying
          /\ Querying' = Querying \cup {e}
      BY <2>1 DEF Querying, Phase
    <2>5. Starting(e)
      BY <2>2, <2>3, <2>4 DEF Starting, SameGen, Querying
    <2> QED BY <2>2, <2>3, <2>4, <2>5 DEF Shape
  <1>5. CASE ProcessQueue
    <2>1. CASE UNCHANGED <<queue, guard, execVars, installed>>
      BY <1>1, <2>1 DEF execVars
    <2>2. ASSUME NEW e \in Exec, NEW os, Execute(e, os)
          PROVE  GuardTypes' /\ Shape
      BY <2>2, ExecuteShape DEF Shape
    <2> QED BY <1>5, <2>1, <2>2 DEF ProcessQueue
  <1>6. ASSUME NEW e \in Exec, StartQuery(e) PROVE GuardTypes' /\ Shape
    <2>1. CASE MayStart(guard)
      <3>1. /\ phase[e] = "processing"
            /\ phase' = [phase EXCEPT ![e] = "querying"]
            /\ Start(e, batch[e])
        BY <1>6, <2>1 DEF StartQuery
      <3>2. guard.status # "running" /\ guard' = Started(guard) /\ guard' \in Guard
        BY <2>1, <3>1 DEF MayStart, CanStart, Start, Started, Guard
      <3>3. /\ gen' \in [Exec -> Nat]
            /\ gen'[e] = guard.generation + 1
            /\ \A f \in Exec \ {e} : gen'[f] = gen[f]
        BY <3>1 DEF Start, Guard
      <3>4. /\ phase' \in [Exec -> Phase]
            /\ e \notin Querying
            /\ Querying' = Querying \cup {e}
        BY <3>1 DEF Querying, Phase
      <3>5. Starting(e)
        BY <3>2, <3>3, <3>4 DEF Starting, SameGen, Querying
      <3> QED BY <3>2, <3>3, <3>4, <3>5 DEF Shape
    <2>2. CASE ~MayStart(guard)
      <3>1. /\ phase[e] = "processing"
            /\ phase' = [phase EXCEPT ![e] = "returning"]
            /\ guard' = guard /\ gen' = gen
        BY <1>6, <2>2 DEF StartQuery
      <3>2. phase' \in [Exec -> Phase] /\ Querying' = Querying
        BY <3>1 DEF Querying, Phase
      <3> QED BY <3>1, <3>2 DEF Shape, Quiet, SameGen
    <2> QED BY <2>1, <2>2
  <1>7. ASSUME NEW e \in Exec, FinishLocal(e) \/ FailInput(e) \/ SnapQueue(e)
                                \/ ConsumeDrain(e) \/ ClearController(e) \/ Return(e)
        PROVE  GuardTypes' /\ Shape
    <2>1. /\ guard' \in Guard
          /\ guard'.generation = guard.generation
          /\ guard'.status = "running" <=> guard.status = "running"
      BY <1>7 DEF FinishLocal, FailInput, SnapQueue, ConsumeDrain, ClearController,
                  Return, cancelReservation, Guard
    <2>2. phase' \in [Exec -> Phase] /\ Querying' = Querying
      BY <1>7 DEF FinishLocal, FailInput, SnapQueue, ConsumeDrain, ClearController,
                  Return, Querying, Phase
    <2>3. gen' \in [Exec -> Nat] /\ SameGen(Querying)
      BY <1>7 DEF FinishLocal, FailInput, SnapQueue, ConsumeDrain, ClearController,
                  Return, ForgetBatch, Leave, Querying, SameGen
    <2> QED BY <2>1, <2>2, <2>3 DEF Shape, Quiet
  <1>8. ASSUME NEW e \in Exec, EndQuery(e) PROVE GuardTypes' /\ Shape
    <2>1. e \in Querying /\ guard' = end(guard, gen[e]) /\ guard' \in Guard
      BY <1>8 DEF EndQuery, Querying, EndsTurn, end, Guard
    <2>2. phase' \in [Exec -> Phase] /\ Querying' = Querying \ {e}
      BY <1>8 DEF EndQuery, Querying, Phase
    <2>3. gen' \in [Exec -> Nat] /\ \A f \in Exec \ {e} : gen'[f] = gen[f]
      BY <1>8 DEF EndQuery, Leave
    <2>4. Ending(e)
      BY <2>1, <2>2, <2>3 DEF Ending, SameGen, Querying
    <2> QED BY <2>1, <2>2, <2>3, <2>4 DEF Shape
  <1>9. CASE Cancel
    <2>1. guard' = forceEnd(guard) /\ guard' \in Guard /\ phase' = phase /\ gen' = gen
      BY <1>9 DEF Cancel, forceEnd, isActive, Guard
    <2> QED BY <2>1 DEF Shape, Revoking, SameGen, Querying
  <1>10. CASE PopQueue
    BY <1>1, <1>10 DEF PopQueue, execVars
  <1>11. CASE UNCHANGED vars
    BY <1>1, <1>11 DEF vars, execVars
  <1> QED
    BY <1>2, <1>3, <1>4, <1>5, <1>6, <1>7, <1>8, <1>9, <1>10, <1>11 DEF Next

-----------------------------------------------------------------------------
\* The invariant holds before anything runs.
LEMMA GuardInit == Init => GuardInv
  <1> SUFFICES ASSUME Init PROVE GuardInv
    OBVIOUS
  <1>1. GuardTypes
    BY DEF Init, GuardTypes, IdleGuard, Guard, Phase
  <1>2. Querying = {} /\ guard.status = "idle"
    BY DEF Init, Querying, IdleGuard
  <1> QED BY <1>1, <1>2 DEF GuardInv

\* A query's generation keeps naming it, whatever the step.
LEMMA GuardStep ==
    ASSUME GuardInv, [Next]_vars
    PROVE  GuardInv'
  <1>1. GuardTypes /\ GuardTypes' /\ Shape
    BY StepShape DEF GuardInv
  <1>2. Querying \subseteq Exec /\ Querying' \subseteq Exec
    BY DEF Querying
  <1>3. CASE Quiet
    BY <1>1, <1>2, <1>3 DEF GuardInv, Quiet, SameGen, GuardTypes
  <1>4. ASSUME NEW e \in Exec, Starting(e) PROVE GuardInv'
    <2>1. guard'.generation = guard.generation + 1 /\ guard'.status = "running"
      BY <1>4 DEF Starting, Started
    <2>2. guard.generation \in Nat /\ \A f \in Querying : gen[f] \in Nat
      BY <1>1, <1>2 DEF GuardTypes, Guard
    <2> QED BY <1>1, <1>4, <2>1, <2>2 DEF GuardInv, Starting, SameGen
  <1>5. ASSUME NEW e \in Exec, Ending(e) PROVE GuardInv'
    <2>1. guard'.generation = guard.generation
      BY <1>5 DEF Ending, end
    <2>2. CASE Ends(guard, gen[e])
      <3>1. guard'.status = "idle"
        BY <1>1, <1>5, <2>2 DEF Ending, end, GuardTypes, Guard
      <3>2. \A f \in Querying' : gen'[f] # guard'.generation
        BY <1>5, <2>1, <2>2 DEF GuardInv, Ending, Ends, SameGen
      <3> QED BY <1>1, <1>5, <2>1, <3>1, <3>2 DEF GuardInv, Ending, SameGen
    <2>3. CASE ~Ends(guard, gen[e])
      <3>1. guard' = guard
        BY <1>5, <2>3 DEF Ending, end
      <3> QED BY <1>1, <1>5, <2>3, <3>1 DEF GuardInv, Ending, Ends, SameGen
    <2> QED BY <2>2, <2>3
  <1>6. CASE Revoking
    <2>1. CASE isActive(guard)
      <3>1. guard'.generation = guard.generation + 1 /\ guard'.status = "idle"
        BY <1>6, <2>1 DEF Revoking, forceEnd
      <3>2. guard.generation \in Nat /\ \A f \in Querying : gen[f] \in Nat
        BY <1>1, <1>2 DEF GuardTypes, Guard
      <3> QED BY <1>1, <1>6, <3>1, <3>2 DEF GuardInv, Revoking, SameGen
    <2>2. CASE ~isActive(guard)
      BY <1>1, <1>6, <2>2 DEF GuardInv, Revoking, forceEnd, SameGen
    <2> QED BY <2>1, <2>2
  <1> QED BY <1>1, <1>3, <1>4, <1>5, <1>6 DEF Shape

\* The guard runs exactly when the query of its generation does.
THEOREM GuardCorrect == Spec => []GuardInv
  <1>1. GuardInv /\ [Next]_vars => GuardInv'
    BY GuardStep
  <1> QED BY GuardInit, <1>1, PTL DEF Spec

\* A running guard has exactly one owner, for any number of executions.
THEOREM SoleOwnerCorrect == Spec => []SoleOwner
  <1>1. GuardInv => SoleOwner
    BY DEF GuardInv, SoleOwner, Owners, Ends, Querying
  <1> QED BY <1>1, GuardCorrect, PTL

\* A query owns the turn exactly when the guard carries its generation, so
\* every step of the session is a step of the abstract turn, or changes
\* nothing in it: cancelled queries that unwind late touch no other's turn.
THEOREM TurnOwnerCorrect == Spec => ImplementsTurnOwner
  <1>1. Init => Owner!Init
    BY DEF Init, Owner!Init, Querying, Owners
  <1>2. ASSUME GuardInv, [Next]_vars
        PROVE  [Owner!Next]_<<Querying, Owners>>
    <2>1. GuardTypes /\ Shape
      BY <1>2, StepShape DEF GuardInv
    <2>2. CASE Quiet
      BY <2>2 DEF Quiet, SameGen, Owners, Ends
    <2>3. ASSUME NEW e \in Exec, Starting(e) PROVE Owner!Start(e)
      <3>1. Owners = {}
        BY <2>3 DEF Starting, Owners, Ends
      <3>2. Owners' = {e}
        <4>1. guard'.generation = guard.generation + 1 /\ guard'.status = "running"
          BY <2>3 DEF Starting, Started
        <4>2. \A f \in Querying : gen'[f] # guard.generation + 1
          BY <1>2, <2>1, <2>3 DEF GuardInv, Starting, SameGen, GuardTypes, Guard, Querying
        <4> QED BY <2>3, <4>1, <4>2 DEF Starting, Owners, Ends
      <3> QED BY <2>3, <3>1, <3>2 DEF Owner!Start, Starting
    <2>4. ASSUME NEW e \in Exec, Ending(e) PROVE Owner!Finish(e)
      <3>1. Owners' = Owners \ {e}
        <4>1. CASE Ends(guard, gen[e])
          <5>1. guard'.status = "idle"
            BY <2>1, <2>4, <4>1 DEF Ending, end, GuardTypes, Guard
          <5>2. Owners \subseteq {e}
            BY <1>2, <2>4, <4>1 DEF GuardInv, Owners, Ends, Ending
          <5> QED BY <5>1, <5>2 DEF Owners, Ends
        <4>2. CASE ~Ends(guard, gen[e])
          BY <2>4, <4>2 DEF Ending, end, Owners, Ends, SameGen
        <4> QED BY <4>1, <4>2
      <3> QED BY <2>4, <3>1 DEF Owner!Finish, Ending
    <2>5. CASE Revoking
      <3>1. CASE isActive(guard)
        <4>1. Owners' = {}
          BY <2>5, <3>1 DEF Revoking, forceEnd, Owners, Ends
        <4> QED BY <2>5, <4>1 DEF Owner!Next, Owner!Revoke, Revoking
      <3>2. CASE ~isActive(guard)
        BY <2>5, <3>2 DEF Revoking, forceEnd, Owners, Ends, SameGen
      <3> QED BY <3>1, <3>2
    <2> QED BY <2>1, <2>2, <2>3, <2>4, <2>5 DEF Shape, Owner!Next
  <1> QED BY <1>1, <1>2, GuardCorrect, PTL DEF Spec, ImplementsTurnOwner, Owner!Spec

-----------------------------------------------------------------------------
(* The filter: the elements of a sequence at some of its places. *)

\* The places of a sequence are finitely many, and their ranks number them.
LEMMA Ranks ==
    ASSUME NEW n \in Nat, NEW P \in SUBSET (1..n)
    PROVE  /\ IsFiniteSet(P) /\ Cardinality(P) \in 0..n
           /\ \A i \in P : Rank(P, i) \in 1..Cardinality(P)
           /\ \A i, j \in P : i < j => Rank(P, i) < Rank(P, j)
           /\ \A k \in 1..Cardinality(P) : \E i \in P : Rank(P, i) = k
  <1> DEFINE Upto(i) == {j \in P : j <= i}
  <1>1. /\ IsFiniteSet(P) /\ Cardinality(P) \in 0..n
    <2>1. IsFiniteSet(1..n) /\ Cardinality(1..n) = n
      BY FS_Interval
    <2>2. IsFiniteSet(P) /\ Cardinality(P) <= n
      BY <2>1, FS_Subset
    <2>3. Cardinality(P) \in Nat
      BY <2>2, FS_CardinalityType
    <2> QED BY <2>2, <2>3
  <1>2. \A i \in P : IsFiniteSet(Upto(i)) /\ Rank(P, i) = Cardinality(Upto(i))
    <2> SUFFICES ASSUME NEW i \in P PROVE IsFiniteSet(Upto(i))
      BY DEF Rank
    <2> QED BY <1>1, FS_Subset, Upto(i) \in SUBSET P
  <1>3. \A i \in P : Rank(P, i) \in 1..Cardinality(P)
    <2> SUFFICES ASSUME NEW i \in P PROVE Rank(P, i) \in 1..Cardinality(P)
      OBVIOUS
    <2>1. Cardinality(Upto(i)) <= Cardinality(P) /\ Cardinality(Upto(i)) \in Nat
      BY <1>1, <1>2, FS_Subset, FS_CardinalityType, Upto(i) \in SUBSET P
    <2>2. Upto(i) # {}
      BY i \in 1..n
    <2>3. Cardinality(Upto(i)) # 0
      BY <1>2, <2>2, FS_EmptySet
    <2> QED BY <1>1, <1>2, <2>1, <2>3
  <1>4. \A i, j \in P : i < j => Rank(P, i) < Rank(P, j)
    <2> SUFFICES ASSUME NEW i \in P, NEW j \in P, i < j
                 PROVE  Rank(P, i) < Rank(P, j)
      OBVIOUS
    <2>1. j \in Upto(j) /\ j \notin Upto(i) /\ \A m \in Upto(i) : m \in Upto(j)
      <3>1. \A m \in P : m \in Nat
        OBVIOUS
      <3> QED BY <3>1
    <2>2. Cardinality(Upto(i)) <= Cardinality(Upto(j)) /\ Cardinality(Upto(i)) # Cardinality(Upto(j))
      BY <1>2, <2>1, FS_Subset, Upto(i) \in SUBSET Upto(j)
    <2> QED BY <1>1, <1>2, <1>3, <2>2
  <1>5. \A k \in 1..Cardinality(P) : \E i \in P : Rank(P, i) = k
    <2> DEFINE f == [i \in P |-> Rank(P, i)]
    <2>1. f \in [P -> 1..Cardinality(P)]
      BY <1>3
    <2>2. \A i, j \in P : f[i] = f[j] => i = j
      <3> SUFFICES ASSUME NEW i \in P, NEW j \in P, f[i] = f[j], i # j
                   PROVE  FALSE
        OBVIOUS
      <3>1. i < j \/ j < i
        BY i \in 1..n, j \in 1..n
      <3> QED BY <1>1, <1>3, <1>4, <3>1
    <2> HIDE DEF f
    <2>3. f \in Injection(P, 1..Cardinality(P))
      BY <2>1, <2>2 DEF Injection, IsInjective
    <2>4. IsFiniteSet(1..Cardinality(P)) /\ Cardinality(1..Cardinality(P)) = Cardinality(P)
      BY <1>1, FS_Interval
    <2>5. f \in Surjection(P, 1..Cardinality(P))
      BY <2>3, <2>4, FS_Injection
    <2> QED BY <2>5 DEF Surjection, f
  <1> QED BY <1>1, <1>3, <1>4, <1>5

\* What At gives: as many elements as places, each place's element at its rank.
LEMMA AtPlaces ==
    ASSUME NEW T, NEW s \in Seq(T), NEW P \in SUBSET (1..Len(s))
    PROVE  /\ At(s, P) \in Seq(T)
           /\ Len(At(s, P)) = Cardinality(P)
           /\ \A i \in P : /\ Rank(P, i) \in 1..Len(At(s, P))
                           /\ At(s, P)[Rank(P, i)] = s[i]
           /\ \A k \in 1..Len(At(s, P)) :
                 \E i \in P : Rank(P, i) = k /\ At(s, P)[k] = s[i]
  <1> DEFINE n == Cardinality(P)
             nth(k) == CHOOSE i \in P : Rank(P, i) = k
  <1>1. Len(s) \in Nat
    OBVIOUS
  <1>2. n \in Nat /\ \A i \in P : Rank(P, i) \in 1..n
    BY <1>1, Ranks
  <1>3. \A k \in 1..n : nth(k) \in P /\ Rank(P, nth(k)) = k
    BY <1>1, Ranks
  <1>4. \A i \in P : nth(Rank(P, i)) = i
    <2> SUFFICES ASSUME NEW i \in P, nth(Rank(P, i)) # i PROVE FALSE
      OBVIOUS
    <2>1. nth(Rank(P, i)) \in P /\ Rank(P, nth(Rank(P, i))) = Rank(P, i)
      BY <1>2, <1>3
    <2> DEFINE j == nth(Rank(P, i))
    <2>2. j \in P /\ Rank(P, j) = Rank(P, i) /\ j # i
      BY <2>1
    <2> HIDE DEF j
    <2>3. i < j \/ j < i
      BY <2>2, i \in 1..Len(s), j \in 1..Len(s)
    <2> QED BY <1>1, <1>2, <2>2, <2>3, Ranks
  <1>5. At(s, P) = [k \in 1..n |-> s[nth(k)]]
    BY DEF At
  <1>6. \A k \in 1..n : s[nth(k)] \in T
    <2> SUFFICES ASSUME NEW k \in 1..n PROVE s[nth(k)] \in T
      OBVIOUS
    <2> DEFINE i == nth(k)
    <2>1. i \in 1..Len(s)
      BY <1>3
    <2> HIDE DEF i
    <2>2. s[i] \in T
      BY <2>1
    <2> QED BY <2>2 DEF i
  <1> HIDE DEF nth, n
  <1>7. At(s, P) \in [1..n -> T]
    BY <1>5, <1>6
  <1>8. At(s, P) \in Seq(T) /\ Len(At(s, P)) = n
    BY <1>2, <1>7
  <1> QED BY <1>2, <1>3, <1>4, <1>5, <1>8 DEF n

\* At gives the elements at the places, and no others.
LEMMA AtRange ==
    ASSUME NEW T, NEW s \in Seq(T), NEW P \in SUBSET (1..Len(s))
    PROVE  Range(At(s, P)) = {s[i] : i \in P}
  <1>1. \A x \in Range(At(s, P)) : x \in {s[i] : i \in P}
    <2> SUFFICES ASSUME NEW x \in Range(At(s, P)) PROVE x \in {s[i] : i \in P}
      OBVIOUS
    <2>1. At(s, P) \in Seq(T)
      BY AtPlaces
    <2>2. PICK k \in 1..Len(At(s, P)) : x = At(s, P)[k]
      BY <2>1 DEF Range
    <2>3. PICK i \in P : At(s, P)[k] = s[i]
      BY AtPlaces
    <2> QED BY <2>2, <2>3
  <1>2. ASSUME NEW i \in P PROVE s[i] \in Range(At(s, P))
    <2> DEFINE k == Rank(P, i)
    <2>1. At(s, P) \in Seq(T) /\ k \in 1..Len(At(s, P)) /\ At(s, P)[k] = s[i]
      BY AtPlaces
    <2> HIDE DEF k
    <2> QED BY <2>1 DEF Range
  <1> QED BY <1>1, <1>2

-----------------------------------------------------------------------------
(* The commands of the session. *)

Objects == [cmd : Cmd, copy : Nat]

\* What is queued, run or attached is made of the objects of some commands.
MadeOf(s, C) == s \in Seq(Objects) /\ \A o \in Range(s) : o.cmd \in C

\* What each execution runs and attaches: something until it returns, and the
\* snapshot only while the attachments are made.
ExecTypes ==
    /\ batch \in [Exec -> Seq(Objects)] /\ \A e \in Exec : MadeOf(batch[e], sent)
    /\ snap \in [Exec -> Seq(Objects)] /\ \A e \in Exec : MadeOf(snap[e], sent)
    /\ \A e \in Exec : (phase[e] = "free") <=> (batch[e] = <<>>)
    /\ \A e \in Exec : snap[e] # <<>> => phase[e] = "draining"
    /\ cancelled \subseteq {e \in Exec : phase[e] # "free"}

SessionTypes ==
    /\ class \in [Cmd -> Classes]
    /\ sent \subseteq Cmd
    /\ MadeOf(queue, sent)
    /\ dirty \in BOOLEAN
    /\ installed \in Exec \cup {none}
    /\ handed \in [Cmd -> Nat]
    /\ returned \subseteq sent
    /\ dropped \subseteq sent

CommandInv ==
    /\ GuardTypes /\ ExecTypes /\ SessionTypes
    /\ NothingLost /\ WakeupPending

\* A sequence as a set, under its two names.
LEMMA SetOf ==
    ASSUME NEW s
    PROVE  ToSet(s) = Range(s)
  BY DEF ToSet, Range

\* The empty sequence, and one command.
LEMMA MadeOfOne ==
    ASSUME NEW C \in SUBSET Cmd, NEW c \in C
    PROVE  /\ MadeOf(<<>>, C) /\ Range(<<>>) = {}
           /\ MadeOf(<<Object(c)>>, C) /\ <<Object(c)>> # <<>>
           /\ <<Object(c)>>[1] = Object(c) /\ Range(<<Object(c)>>) = {Object(c)}
           /\ Object(c).cmd = c
  <1>1. Object(c) \in Objects /\ Object(c).cmd = c
    BY DEF Object, Objects
  <1>2. MadeOf(<<>>, C) /\ Range(<<>>) = {}
    BY DEF MadeOf, Range
  <1> DEFINE o == Object(c)
  <1>3. o \in Objects
    BY <1>1
  <1> HIDE DEF o
  <1>4. <<o>> \in Seq(Objects) /\ Range(<<o>>) = {o} /\ <<o>> # <<>> /\ <<o>>[1] = o
    BY <1>3 DEF Range
  <1> QED BY <1>1, <1>2, <1>4 DEF o, MadeOf

\* More commands may have been sent.
LEMMA MadeOfMore ==
    ASSUME NEW C, NEW D, C \subseteq D, NEW s, MadeOf(s, C)
    PROVE  MadeOf(s, D)
  BY DEF MadeOf

\* What is queued behind the rest.
LEMMA MadeOfBoth ==
    ASSUME NEW C, NEW s, NEW t, MadeOf(s, C), MadeOf(t, C)
    PROVE  /\ MadeOf(Enqueue(s, t), C)
           /\ Range(Enqueue(s, t)) = Range(s) \cup Range(t)
  <1>1. s \o t \in Seq(Objects) /\ Range(s \o t) = Range(s) \cup Range(t)
    BY ConcatProperties, RangeConcatenation DEF MadeOf
  <1> QED BY <1>1 DEF MadeOf, Enqueue

\* Some of the objects of a sequence.
LEMMA MadeOfSome ==
    ASSUME NEW C, NEW s, MadeOf(s, C), NEW P \in SUBSET (DOMAIN s)
    PROVE  /\ MadeOf(At(s, P), C)
           /\ Range(At(s, P)) = {s[i] : i \in P}
           /\ P # {} => At(s, P) # <<>>
  <1>1. s \in Seq(Objects) /\ P \in SUBSET (1..Len(s))
    BY DEF MadeOf
  <1>2. Range(At(s, P)) = {s[i] : i \in P}
    BY <1>1, AtRange
  <1>3. At(s, P) \in Seq(Objects)
    BY <1>1, AtPlaces
  <1>4. {s[i] : i \in P} \subseteq Range(s)
    BY DEF Range
  <1>5. ASSUME P # {} PROVE At(s, P) # <<>>
    <2>1. \A i \in P : Rank(P, i) \in 1..Len(At(s, P))
      BY <1>1, AtPlaces
    <2>2. Len(At(s, P)) # 0
      BY <1>5, <2>1
    <2> QED BY <2>2
  <1> QED BY <1>2, <1>3, <1>4, <1>5 DEF MadeOf

\* What is left when some objects are removed.
LEMMA WithoutKeeps ==
    ASSUME NEW C, NEW s, MadeOf(s, C), NEW S
    PROVE  MadeOf(Without(s, S), C) /\ Range(Without(s, S)) = Range(s) \ S
  <1> DEFINE P == {i \in DOMAIN s : s[i] \notin S}
  <1>1. P \in SUBSET (DOMAIN s) /\ Without(s, S) = At(s, P)
    BY DEF Without
  <1>2. {s[i] : i \in P} = Range(s) \ S
    BY DEF Range
  <1> HIDE DEF P
  <1>3. MadeOf(At(s, P), C) /\ Range(At(s, P)) = {s[i] : i \in P}
    BY <1>1, MadeOfSome
  <1> QED BY <1>1, <1>2, <1>3

\* What is queued again: every user-visible text, as a new object.
LEMMA Replayed ==
    ASSUME NEW C, NEW s, MadeOf(s, C)
    PROVE  /\ MadeOf(Replay(s), C)
           /\ \A o \in Range(s) : ~class[o.cmd].meta =>
                 \E p \in Range(Replay(s)) : p.cmd = o.cmd
  <1> DEFINE P == {i \in DOMAIN s : ~ClassOf(class, s[i]).meta}
             visible == At(s, P)
  <1>1. P \in SUBSET (DOMAIN s)
    OBVIOUS
  <1>2. Replay(s) = [i \in DOMAIN visible |-> CopyOf(visible[i])]
    BY DEF Replay
  <1>3. \A o \in Objects : CopyOf(o) \in Objects /\ CopyOf(o).cmd = o.cmd
    BY DEF Objects, CopyOf
  <1>4. \A i \in DOMAIN s : ~class[s[i].cmd].meta => i \in P
    BY DEF ClassOf, TextClass
  <1> HIDE DEF P
  <1>5. MadeOf(visible, C) /\ Range(visible) = {s[i] : i \in P}
    BY <1>1, MadeOfSome
  <1> DEFINE n == Len(visible)
  <1>6. n \in Nat /\ DOMAIN visible = 1..n /\ \A i \in 1..n : visible[i] \in Objects
    BY <1>5 DEF MadeOf
  <1> HIDE DEF visible, n
  <1>7. /\ Replay(s) \in Seq(Objects) /\ DOMAIN Replay(s) = 1..n
        /\ \A i \in 1..n : Replay(s)[i] = CopyOf(visible[i])
    BY <1>2, <1>3, <1>6
  <1>8. \A o \in Range(Replay(s)) : \E p \in Range(visible) : o.cmd = p.cmd
    BY <1>3, <1>6, <1>7 DEF Range
  <1>9. \A p \in Range(visible) : \E o \in Range(Replay(s)) : o.cmd = p.cmd
    BY <1>3, <1>6, <1>7 DEF Range
  <1>10. \A o \in Range(s) : ~class[o.cmd].meta => o \in Range(visible)
    BY <1>4, <1>5 DEF Range
  <1> QED BY <1>5, <1>7, <1>8, <1>9, <1>10 DEF MadeOf

\* Handing objects over counts each of their commands.
LEMMA HandedOver ==
    ASSUME NEW C \in SUBSET Cmd, NEW s, MadeOf(s, C),
           handed \in [Cmd -> Nat], HandOver(s)
    PROVE  /\ handed' \in [Cmd -> Nat]
           /\ \A c \in Cmd : handed[c] > 0 => handed'[c] > 0
           /\ \A o \in Range(s) : handed'[o.cmd] > 0
  <1> DEFINE Of(c) == {i \in DOMAIN s : s[i].cmd = c}
             n(c) == Cardinality(Of(c))
  <1>1. handed' = [c \in Cmd |-> handed[c] + n(c)]
    BY DEF HandOver
  <1>2. ASSUME NEW c \in Cmd
        PROVE  /\ n(c) \in Nat
               /\ \A i \in DOMAIN s : s[i].cmd = c => n(c) # 0
    <2>1. Len(s) \in Nat /\ DOMAIN s = 1..Len(s)
      BY DEF MadeOf
    <2>2. IsFiniteSet(DOMAIN s)
      BY <2>1, FS_Interval
    <2>3. Of(c) \subseteq DOMAIN s
      OBVIOUS
    <2> HIDE DEF Of
    <2>4. IsFiniteSet(Of(c)) /\ n(c) \in Nat
      BY <2>2, <2>3, FS_Subset, FS_CardinalityType
    <2>5. Of(c) # {} => n(c) # 0
      BY <2>4, FS_EmptySet
    <2> QED BY <2>4, <2>5 DEF Of
  <1> HIDE DEF n
  <1>3. handed' \in [Cmd -> Nat]
    BY <1>1, <1>2
  <1>4. \A c \in Cmd : handed'[c] = handed[c] + n(c) /\ handed[c] \in Nat /\ n(c) \in Nat
    BY <1>1, <1>2
  <1>5. \A c \in Cmd : handed[c] > 0 => handed'[c] > 0
    BY <1>4
  <1>6. ASSUME NEW o \in Range(s) PROVE handed'[o.cmd] > 0
    <2>1. PICK i \in DOMAIN s : o = s[i]
      BY DEF Range
    <2>2. o.cmd \in Cmd
      BY DEF MadeOf
    <2>3. n(o.cmd) # 0
      BY <1>2, <2>1, <2>2
    <2> QED BY <1>4, <2>2, <2>3
  <1> QED BY <1>3, <1>5, <1>6
-----------------------------------------------------------------------------
(* What the queue gives to a turn. *)

\* The places of a sequence have a first one.
LEMMA FirstPlace ==
    ASSUME NEW n \in Nat, NEW P \in SUBSET (1..n), P # {}
    PROVE  \E i \in P : \A j \in P : i <= j
  <1>1. /\ \A i \in P : Rank(P, i) \in 1..Cardinality(P)
        /\ \A i, j \in P : i < j => Rank(P, i) < Rank(P, j)
        /\ \A k \in 1..Cardinality(P) : \E i \in P : Rank(P, i) = k
        /\ Cardinality(P) \in 0..n
    BY Ranks
  <1>2. 1 \in 1..Cardinality(P)
    <2> DEFINE m == Cardinality(P)
    <2>1. \A i \in P : Rank(P, i) \in 1..m
      BY <1>1
    <2>2. m \in Nat
      BY <1>1
    <2>3. PICK i \in P : TRUE
      OBVIOUS
    <2>4. Rank(P, i) \in 1..m
      BY <2>1
    <2> HIDE DEF m
    <2>5. m >= 1
      BY <2>2, <2>4
    <2>6. 1 \in 1..m
      BY <2>2, <2>5
    <2> QED BY <2>6 DEF m
  <1>3. PICK i \in P : Rank(P, i) = 1
    BY <1>1, <1>2
  <1>4. ASSUME NEW j \in P PROVE i <= j
    <2>1. ~(j < i)
      BY <1>1, <1>3
    <2> QED BY <2>1
  <1> QED BY <1>4

\* An object of a command has a class, also the plain text of a copy.
LEMMA Classed ==
    ASSUME class \in [Cmd -> Classes], NEW o \in Objects
    PROVE  ClassOf(class, o) \in Class
  BY ClassesAssumption DEF ClassOf, Objects, TextClass, Class, Mode, Priority

\* peek finds a command of the main thread if there is one.
LEMMA PeekFinds ==
    ASSUME class \in [Cmd -> Classes], queue \in Seq(Objects)
    PROVE  /\ Peek(class, queue) \subseteq MainThread(class, queue)
           /\ MainThread(class, queue) # {} => Peek(class, queue) # {}
  <1> DEFINE main == MainThread(class, queue)
             rank(i) == ClassOf(class, queue[i]).priority
             At0(p) == {i \in main : rank(i) = p}
  <1>1. /\ Peek(class, queue) =
              {i \in main : \A j \in main : rank(i) < rank(j) \/ (rank(i) = rank(j) /\ i <= j)}
        /\ Peek(class, queue) \subseteq main
    BY DEF Peek
  <1>2. /\ Len(queue) \in Nat /\ DOMAIN queue = 1..Len(queue)
        /\ main \subseteq 1..Len(queue)
    BY DEF MainThread
  <1>3. \A i \in main : rank(i) \in 0..2
    <2> SUFFICES ASSUME NEW i \in main PROVE rank(i) \in 0..2
      OBVIOUS
    <2>1. queue[i] \in Objects
      BY <1>2
    <2>2. ClassOf(class, queue[i]) \in Class
      BY <2>1, Classed
    <2> QED BY <2>2 DEF Class, Priority
  <1> HIDE DEF main, rank
  <1>4. ASSUME NEW p \in 0..2, At0(p) # {}, \A j \in main : rank(j) >= p
        PROVE  Peek(class, queue) # {}
    <2>1. PICK i \in At0(p) : \A j \in At0(p) : i <= j
      <3>1. At0(p) \in SUBSET (1..Len(queue))
        BY <1>2
      <3> HIDE DEF At0
      <3> QED BY <1>2, <1>4, <3>1, FirstPlace
    <2>2. \A j \in main : rank(i) < rank(j) \/ (rank(i) = rank(j) /\ i <= j)
      BY <1>3, <1>4, <2>1
    <2> QED BY <1>1, <2>1, <2>2
  <1>5. ASSUME main # {} PROVE \E p \in 0..2 : At0(p) # {} /\ \A j \in main : rank(j) >= p
    <2>1. CASE At0(0) # {}
      BY <1>3, <2>1
    <2>2. CASE At0(0) = {} /\ At0(1) # {}
      <3>1. \A j \in main : rank(j) >= 1
        BY <1>3, <2>2
      <3> QED BY <2>2, <3>1
    <2>3. CASE At0(0) = {} /\ At0(1) = {}
      <3>1. \A j \in main : rank(j) = 2
        BY <1>3, <2>3
      <3>2. At0(2) # {}
        BY <1>5, <3>1
      <3> QED BY <3>1, <3>2
    <2> QED BY <2>1, <2>2, <2>3
  <1> QED BY <1>1, <1>4, <1>5 DEF main

\* A turn takes objects of the queue, and some if any are for the main thread.
LEMMA BatchTakes ==
    ASSUME class \in [Cmd -> Classes], NEW C, MadeOf(queue, C)
    PROVE  /\ MadeOf(Batch(class, queue), C)
           /\ Batch(class, queue) = <<>> => MainThread(class, queue) = {}
  <1> DEFINE main == MainThread(class, queue)
             first == CHOOSE i \in Peek(class, queue) : TRUE
             next == queue[first]
             k == ClassOf(class, next)
             P == {i \in DOMAIN queue :
                      LET c == ClassOf(class, queue[i]) IN
                      c.main /\ ~c.slash /\ c.mode = k.mode}
  <1>1. /\ queue \in Seq(Objects) /\ main \subseteq DOMAIN queue
        /\ DOMAIN queue = 1..Len(queue)
    BY DEF MadeOf, MainThread
  <1>2. Peek(class, queue) \subseteq main /\ (main # {} => Peek(class, queue) # {})
    BY <1>1, PeekFinds
  <1>3. Batch(class, queue) =
           IF Peek(class, queue) = {} THEN <<>>
           ELSE IF k.slash \/ k.mode = "bash" THEN <<next>>
           ELSE At(queue, P)
    BY DEF Batch
  <1>4. CASE Peek(class, queue) = {}
    <2>1. Batch(class, queue) = <<>>
      BY <1>3, <1>4
    <2>2. MadeOf(<<>>, C)
      BY DEF MadeOf, Range
    <2> QED BY <1>2, <1>4, <2>1, <2>2
  <1>5. CASE Peek(class, queue) # {}
    <2>1. first \in main
      BY <1>2, <1>5
    <2>2. next \in Objects /\ next.cmd \in C
      <3>1. next \in Range(queue)
        BY <1>1, <2>1 DEF Range
      <3>2. next \in Objects
        BY <1>1, <2>1
      <3> QED BY <3>1, <3>2 DEF MadeOf
    <2> HIDE DEF next
    <2>3. MadeOf(<<next>>, C) /\ <<next>> # <<>>
      <3>1. <<next>> \in Seq(Objects) /\ Range(<<next>>) = {next}
        BY <2>2 DEF Range
      <3> QED BY <2>2, <3>1 DEF MadeOf
    <2>4. ASSUME ~k.slash PROVE MadeOf(At(queue, P), C) /\ At(queue, P) # <<>>
      <3>1. P \in SUBSET (DOMAIN queue)
        OBVIOUS
      <3>2. first \in P
        BY <2>1, <2>4 DEF next, MainThread
      <3> HIDE DEF P
      <3> QED BY <3>1, <3>2, MadeOfSome
    <2> HIDE DEF P, k
    <2> QED BY <1>3, <1>5, <2>3, <2>4
  <1> QED BY <1>4, <1>5

\* What is attached mid-turn comes from the queue.
LEMMA SnapTakes ==
    ASSUME NEW C, MadeOf(queue, C), NEW p
    PROVE  MadeOf(Attachable(UpToPriority(class, queue, p)), C)
  <1> DEFINE P == {i \in DOMAIN queue : ClassOf(class, queue[i]).priority <= p}
             os == At(queue, P)
             Q == {i \in DOMAIN os :
                      LET c == ClassOf(class, os[i]) IN c.main /\ ~c.slash}
  <1>1. UpToPriority(class, queue, p) = os /\ P \in SUBSET (DOMAIN queue)
    BY DEF UpToPriority
  <1>2. Q \in SUBSET (DOMAIN os) /\ Attachable(os) = At(os, Q)
    BY DEF Attachable
  <1> HIDE DEF P
  <1>3. MadeOf(os, C)
    BY <1>1, MadeOfSome
  <1> HIDE DEF os, Q
  <1>4. MadeOf(At(os, Q), C)
    BY <1>2, <1>3, MadeOfSome
  <1> QED BY <1>1, <1>2, <1>4

\* What the drain hands over is made of the objects of the snapshot.
LEMMA NotBashTakes ==
    ASSUME NEW C, NEW s, MadeOf(s, C)
    PROVE  MadeOf(NotBash(s), C)
  <1> DEFINE P == {i \in DOMAIN s : ClassOf(class, s[i]).mode # "bash"}
  <1>1. P \in SUBSET (DOMAIN s) /\ NotBash(s) = At(s, P)
    BY DEF NotBash
  <1> HIDE DEF P
  <1> QED BY <1>1, MadeOfSome

-----------------------------------------------------------------------------
(* What the steps do to the executions. *)

\* Steps that leave the executions alone.
LEMMA ExecStays ==
    ASSUME ExecTypes, UNCHANGED execVars, sent \subseteq sent'
    PROVE  ExecTypes'
  BY MadeOfMore DEF ExecTypes, execVars, MadeOf

\* An execution is started.
LEMMA ExecStarts ==
    ASSUME ExecTypes, phase \in [Exec -> Phase], sent \subseteq sent',
           NEW e \in Exec, NEW os, MadeOf(os, sent'), os # <<>>,
           phase[e] = "free",
           batch' = [batch EXCEPT ![e] = os],
           NEW p \in Phase, p \notin {"free", "draining"},
           phase' = [phase EXCEPT ![e] = p],
           UNCHANGED <<snap, cancelled>>
    PROVE  ExecTypes'
  <1>1. /\ batch' \in [Exec -> Seq(Objects)]
        /\ batch'[e] = os /\ \A f \in Exec \ {e} : batch'[f] = batch[f]
    BY DEF ExecTypes, MadeOf
  <1>2. phase'[e] = p /\ \A f \in Exec \ {e} : phase'[f] = phase[f]
    OBVIOUS
  <1>3. \A f \in Exec : MadeOf(batch'[f], sent') /\ MadeOf(snap'[f], sent')
    BY <1>1, MadeOfMore DEF ExecTypes
  <1>4. snap[e] = <<>>
    BY DEF ExecTypes
  <1>5. \A f \in Exec : (phase'[f] = "free") <=> (batch'[f] = <<>>)
    BY <1>1, <1>2 DEF ExecTypes
  <1>6. \A f \in Exec : snap'[f] # <<>> => phase'[f] = "draining"
    BY <1>2, <1>4 DEF ExecTypes
  <1>7. cancelled' \subseteq {f \in Exec : phase'[f] # "free"}
    BY <1>2 DEF ExecTypes
  <1> QED BY <1>1, <1>3, <1>5, <1>6, <1>7 DEF ExecTypes

\* An execution goes from one of its phases to another.
LEMMA ExecGoesOn ==
    ASSUME ExecTypes, phase \in [Exec -> Phase], sent' = sent,
           NEW e \in Exec, phase[e] # "free",
           NEW p \in Phase, p # "free",
           phase' = [phase EXCEPT ![e] = p],
           NEW os, MadeOf(os, sent), os # <<>> => p = "draining",
           snap' = [snap EXCEPT ![e] = os],
           UNCHANGED <<batch, cancelled>>
    PROVE  ExecTypes'
  <1>1. /\ snap' \in [Exec -> Seq(Objects)]
        /\ snap'[e] = os /\ \A f \in Exec \ {e} : snap'[f] = snap[f]
    BY DEF ExecTypes, MadeOf
  <1>2. phase'[e] = p /\ \A f \in Exec \ {e} : phase'[f] = phase[f]
    OBVIOUS
  <1>3. \A f \in Exec : MadeOf(batch'[f], sent') /\ MadeOf(snap'[f], sent')
    BY <1>1 DEF ExecTypes
  <1>4. \A f \in Exec : (phase'[f] = "free") <=> (batch'[f] = <<>>)
    BY <1>2 DEF ExecTypes
  <1>5. \A f \in Exec : snap'[f] # <<>> => phase'[f] = "draining"
    BY <1>1, <1>2 DEF ExecTypes
  <1>6. cancelled' \subseteq {f \in Exec : phase'[f] # "free"}
    BY <1>2 DEF ExecTypes
  <1> QED BY <1>1, <1>3, <1>4, <1>5, <1>6 DEF ExecTypes

\* Without attachments being made.
LEMMA ExecMoves ==
    ASSUME ExecTypes, phase \in [Exec -> Phase], sent' = sent,
           NEW e \in Exec, phase[e] \notin {"free", "draining"},
           NEW p \in Phase, p # "free",
           phase' = [phase EXCEPT ![e] = p],
           UNCHANGED <<snap, batch, cancelled>>
    PROVE  ExecTypes'
  <1>1. snap[e] = <<>> /\ snap' = [snap EXCEPT ![e] = <<>>]
    BY DEF ExecTypes
  <1>2. MadeOf(<<>>, sent)
    BY DEF MadeOf, Range
  <1> QED BY <1>1, <1>2, ExecGoesOn

\* An execution is over.
LEMMA ExecEnds ==
    ASSUME ExecTypes, phase \in [Exec -> Phase], sent' = sent,
           NEW e \in Exec, phase[e] \notin {"free", "draining"},
           phase' = [phase EXCEPT ![e] = "free"], Leave(e),
           UNCHANGED snap
    PROVE  ExecTypes'
  <1>1. batch' = [batch EXCEPT ![e] = <<>>] /\ cancelled' = cancelled \ {e}
    BY DEF Leave
  <1>2. MadeOf(<<>>, sent) /\ <<>> \in Seq(Objects)
    BY DEF MadeOf, Range
  <1>3. /\ batch' \in [Exec -> Seq(Objects)]
        /\ batch'[e] = <<>> /\ \A f \in Exec \ {e} : batch'[f] = batch[f]
    BY <1>1, <1>2 DEF ExecTypes
  <1>4. phase'[e] = "free" /\ \A f \in Exec \ {e} : phase'[f] = phase[f]
    OBVIOUS
  <1>5. \A f \in Exec : MadeOf(batch'[f], sent') /\ MadeOf(snap'[f], sent')
    BY <1>2, <1>3 DEF ExecTypes
  <1>6. \A f \in Exec : (phase'[f] = "free") <=> (batch'[f] = <<>>)
    BY <1>3, <1>4 DEF ExecTypes
  <1>7. \A f \in Exec : snap'[f] # <<>> => phase'[f] = "draining"
    BY <1>4 DEF ExecTypes
  <1>8. cancelled' \subseteq {f \in Exec : phase'[f] # "free"}
    BY <1>1, <1>4 DEF ExecTypes
  <1> QED BY <1>3, <1>5, <1>6, <1>7, <1>8 DEF ExecTypes

-----------------------------------------------------------------------------
(* What the steps do to the commands. *)

\* The command is not to be answered for, or where it can be found.
Found(c) ==
    \/ class[c].meta
    \/ \E o \in Range(queue) : o.cmd = c
    \/ \E e \in Exec : phase[e] = "processing" /\ \E o \in Range(batch[e]) : o.cmd = c
    \/ handed[c] > 0
    \/ c \in returned
    \/ c \in dropped

\* Nothing is lost when every command that was sent is found.
LEMMA AllFound == NothingLost <=> \A c \in sent : Found(c)
  <1>1. ToSet(queue) = Range(queue) /\ \A e \in Exec : ToSet(batch[e]) = Range(batch[e])
    BY SetOf
  <1> QED BY <1>1 DEF NothingLost, Found

\* The same of the next state.
LEMMA AllFoundNext == NothingLost' <=> \A c \in sent' : Found(c)'
  <1>1. ToSet(queue') = Range(queue') /\ \A e \in Exec : ToSet(batch'[e]) = Range(batch'[e])
    BY SetOf
  <1> QED BY <1>1 DEF NothingLost, Found, ToSet, Range

\* A step loses nothing if what leaves the queue, and what an execution is
\* done with, is found elsewhere.
LEMMA StillFound ==
    ASSUME NothingLost, UNCHANGED class,
           \A o \in Range(queue) : o \in Range(queue') \/ Found(o.cmd)',
           \A f \in Exec : phase[f] = "processing" =>
              \/ phase'[f] = "processing" /\ batch'[f] = batch[f]
              \/ \A o \in Range(batch[f]) : Found(o.cmd)',
           \A c \in sent : handed[c] > 0 => handed'[c] > 0,
           returned \subseteq returned', dropped \subseteq dropped',
           \A c \in sent' \ sent : Found(c)'
    PROVE  NothingLost'
  <1>1. \A c \in sent : Found(c)
    BY AllFound
  <1>2. ASSUME NEW c \in sent' PROVE Found(c)'
    <2>1. CASE c \notin sent
      BY <2>1
    <2>2. CASE c \in sent
      <3>1. Found(c)
        BY <1>1, <2>2
      <3>2. CASE \E o \in Range(queue) : o.cmd = c
        <4>1. PICK o \in Range(queue) : o.cmd = c
          BY <3>2
        <4>2. CASE o \in Range(queue')
          BY <4>1, <4>2 DEF Found
        <4>3. CASE Found(o.cmd)'
          BY <4>1, <4>3
        <4> QED BY <4>2, <4>3
      <3>3. CASE \E e \in Exec : phase[e] = "processing" /\ \E o \in Range(batch[e]) : o.cmd = c
        <4>1. PICK e \in Exec : phase[e] = "processing" /\ \E o \in Range(batch[e]) : o.cmd = c
          BY <3>3
        <4>2. PICK o \in Range(batch[e]) : o.cmd = c
          BY <4>1
        <4>3. CASE phase'[e] = "processing" /\ batch'[e] = batch[e]
          BY <4>2, <4>3 DEF Found
        <4>4. CASE \A p \in Range(batch[e]) : Found(p.cmd)'
          BY <4>2, <4>4
        <4> QED BY <4>1, <4>3, <4>4
      <3>4. CASE class[c].meta \/ handed[c] > 0 \/ c \in returned \/ c \in dropped
        BY <2>2, <3>4 DEF Found
      <3> QED BY <3>1, <3>2, <3>3, <3>4 DEF Found
    <2> QED BY <2>1, <2>2
  <1> QED BY <1>2, AllFoundNext

\* The turn waits for nothing: the guard is active, or the effect is due.
LEMMA StillDue ==
    ASSUME WakeupPending,
           \/ dirty'
           \/ isActive(guard')
           \/ MainThread(class', queue') = {}
           \/ UNCHANGED <<class, queue, guard>> /\ (dirty => dirty')
    PROVE  WakeupPending'
  BY DEF WakeupPending, isActive, MainThread, ClassOf

After == ExecTypes' /\ SessionTypes' /\ NothingLost' /\ WakeupPending'

\* An execution is started on objects taken from the queue or just sent.
LEMMA Executed ==
    ASSUME CommandInv, NEW e \in Exec, NEW os, Execute(e, os), MadeOf(os, sent'),
           os # <<>>, sent \subseteq sent'
    PROVE  /\ ExecTypes' /\ installed' \in Exec \cup {none}
           /\ \A f \in Exec : phase[f] = "processing" =>
                 phase'[f] = "processing" /\ batch'[f] = batch[f]
           /\ phase'[e] = "processing" /\ batch'[e] = os
           /\ isActive(guard')
  <1>1. /\ phase[e] = "free"
        /\ phase' = [phase EXCEPT ![e] = "processing"]
        /\ batch' = [batch EXCEPT ![e] = os]
        /\ installed' = e /\ guard' = reserve(guard)
        /\ UNCHANGED <<gen, snap, cancelled>>
    BY DEF Execute
  <1>2. phase \in [Exec -> Phase] /\ "processing" \in Phase /\ ExecTypes
    BY DEF CommandInv, GuardTypes, Phase
  <1>3. ExecTypes'
    BY <1>1, <1>2, ExecStarts
  <1>4. phase'[e] = "processing" /\ \A f \in Exec \ {e} : phase'[f] = phase[f]
    BY <1>1, <1>2
  <1>5. batch'[e] = os /\ \A f \in Exec \ {e} : batch'[f] = batch[f]
    BY <1>1, <1>2 DEF ExecTypes
  <1>6. isActive(guard')
    BY <1>1 DEF isActive, reserve, CommandInv, GuardTypes, Guard
  <1> QED BY <1>1, <1>3, <1>4, <1>5, <1>6

\* A command of the user is queued, or run by the execution it starts.
LEMMA SubmitStep ==
    ASSUME CommandInv, NEW c \in Cmd, Submit(c)
    PROVE  After
  <1>1. /\ c \notin sent /\ sent' = sent \cup {c} /\ dirty' = TRUE
        /\ UNCHANGED <<class, handed, returned, dropped>>
        /\ \/ queue' = Enqueue(queue, <<Object(c)>>) /\ UNCHANGED <<guard, execVars, installed>>
           \/ (\E e \in Exec : Execute(e, <<Object(c)>>)) /\ UNCHANGED queue
    BY DEF Submit
  <1>2. /\ sent' \in SUBSET Cmd /\ sent \subseteq sent' /\ c \in sent'
        /\ SessionTypes /\ NothingLost /\ WakeupPending /\ ExecTypes
        /\ MadeOf(queue, sent')
    BY <1>1, MadeOfMore DEF CommandInv, SessionTypes
  <1>3. /\ MadeOf(<<Object(c)>>, sent') /\ <<Object(c)>> # <<>>
        /\ Range(<<Object(c)>>) = {Object(c)} /\ Object(c).cmd = c
    BY <1>2, MadeOfOne
  <1> DEFINE o == Object(c)
             s == <<o>>
  <1> HIDE DEF o, s
  <1>4. /\ MadeOf(s, sent') /\ s # <<>> /\ Range(s) = {o} /\ o.cmd = c
    BY <1>3 DEF o, s
  <1>5. CASE queue' = Enqueue(queue, s) /\ UNCHANGED <<guard, execVars, installed>>
    <2>1. MadeOf(queue', sent') /\ Range(queue') = Range(queue) \cup {o}
      BY <1>2, <1>4, <1>5, MadeOfBoth
    <2>2. ExecTypes'
      BY <1>2, <1>5, ExecStays
    <2>3. SessionTypes'
      BY <1>1, <1>2, <1>5, <2>1 DEF SessionTypes
    <2>4. Found(c)'
      BY <1>4, <2>1 DEF Found
    <2>5. NothingLost'
      BY <1>1, <1>2, <1>5, <2>1, <2>4, StillFound DEF execVars
    <2> QED BY <1>1, <1>2, <2>2, <2>3, <2>5, StillDue DEF After
  <1>6. CASE (\E e \in Exec : Execute(e, s)) /\ UNCHANGED queue
    <2>1. PICK e \in Exec : Execute(e, s)
      BY <1>6
    <2>2. /\ ExecTypes' /\ installed' \in Exec \cup {none}
          /\ \A f \in Exec : phase[f] = "processing" =>
                phase'[f] = "processing" /\ batch'[f] = batch[f]
          /\ phase'[e] = "processing" /\ batch'[e] = s
      BY <1>2, <1>4, <2>1, Executed
    <2>3. SessionTypes'
      BY <1>1, <1>2, <1>6, <2>2 DEF SessionTypes
    <2>4. Found(c)'
      BY <1>4, <2>2 DEF Found
    <2>5. NothingLost'
      BY <1>1, <1>2, <1>6, <2>2, <2>4, StillFound
    <2> QED BY <1>1, <1>2, <2>2, <2>3, <2>5, StillDue DEF After
  <1> QED BY <1>1, <1>5, <1>6 DEF o, s

\* A command of the program is queued, and the effect is due.
LEMMA NotifyStep ==
    ASSUME CommandInv, NEW c \in Cmd, Notify(c)
    PROVE  After
  <1>1. /\ c \notin sent /\ sent' = sent \cup {c} /\ dirty' = TRUE
        /\ queue' = Enqueue(queue, <<Object(c)>>)
        /\ UNCHANGED <<class, guard, execVars, installed, handed, returned, dropped>>
    BY DEF Notify
  <1>2. /\ sent' \in SUBSET Cmd /\ sent \subseteq sent' /\ c \in sent'
        /\ SessionTypes /\ NothingLost /\ WakeupPending /\ ExecTypes
        /\ MadeOf(queue, sent')
    BY <1>1, MadeOfMore DEF CommandInv, SessionTypes
  <1>3. /\ MadeOf(<<Object(c)>>, sent')
        /\ Range(<<Object(c)>>) = {Object(c)} /\ Object(c).cmd = c
    BY <1>2, MadeOfOne
  <1>4. MadeOf(queue', sent') /\ Range(queue') = Range(queue) \cup {Object(c)}
    BY <1>1, <1>2, <1>3, MadeOfBoth
  <1>5. ExecTypes'
    BY <1>1, <1>2, ExecStays
  <1>6. SessionTypes'
    BY <1>1, <1>2, <1>4 DEF SessionTypes
  <1>7. Found(c)'
    BY <1>3, <1>4 DEF Found
  <1>8. NothingLost'
    BY <1>1, <1>2, <1>4, <1>7, StillFound DEF execVars
  <1> QED BY <1>1, <1>2, <1>5, <1>6, <1>8, StillDue DEF After

\* What the turn takes leaves the queue for the execution.
LEMMA ProcessQueueStep ==
    ASSUME CommandInv, ProcessQueue
    PROVE  After
  <1> DEFINE os == Batch(class, queue)
  <1>1. /\ UNCHANGED <<class, sent, handed, returned, dropped>>
        /\ \/ /\ isActive(guard) \/ os = <<>>
              /\ dirty' = FALSE /\ UNCHANGED <<queue, guard, execVars, installed>>
           \/ /\ os # <<>> /\ \E e \in Exec : Execute(e, os)
              /\ queue' = Without(queue, ToSet(os)) /\ UNCHANGED dirty
    BY DEF ProcessQueue
  <1>2. /\ SessionTypes /\ NothingLost /\ WakeupPending /\ ExecTypes
        /\ MadeOf(queue, sent) /\ class \in [Cmd -> Classes]
    BY DEF CommandInv, SessionTypes
  <1>3. MadeOf(os, sent) /\ (os = <<>> => MainThread(class, queue) = {})
    BY <1>2, BatchTakes
  <1> HIDE DEF os
  <1>4. CASE /\ isActive(guard) \/ os = <<>>
             /\ dirty' = FALSE /\ UNCHANGED <<queue, guard, execVars, installed>>
    <2>1. ExecTypes'
      BY <1>1, <1>2, <1>4, ExecStays
    <2>2. SessionTypes'
      BY <1>1, <1>2, <1>4 DEF SessionTypes
    <2>3. NothingLost'
      BY <1>1, <1>2, <1>4, StillFound DEF execVars
    <2>4. isActive(guard') \/ MainThread(class', queue') = {}
      BY <1>1, <1>3, <1>4
    <2> QED BY <1>2, <2>1, <2>2, <2>3, <2>4, StillDue DEF After
  <1>5. CASE /\ os # <<>> /\ \E e \in Exec : Execute(e, os)
             /\ queue' = Without(queue, ToSet(os)) /\ UNCHANGED dirty
    <2>1. PICK e \in Exec : Execute(e, os)
      BY <1>5
    <2>2. sent' = sent /\ MadeOf(os, sent')
      BY <1>1, <1>3
    <2>3. /\ ExecTypes' /\ installed' \in Exec \cup {none}
          /\ \A f \in Exec : phase[f] = "processing" =>
                phase'[f] = "processing" /\ batch'[f] = batch[f]
          /\ phase'[e] = "processing" /\ batch'[e] = os
          /\ isActive(guard')
      BY <1>5, <2>1, <2>2, Executed
    <2>4. MadeOf(queue', sent) /\ Range(queue') = Range(queue) \ Range(os)
      BY <1>2, <1>5, WithoutKeeps, SetOf
    <2>5. SessionTypes'
      BY <1>1, <1>2, <1>5, <2>3, <2>4 DEF SessionTypes
    <2>6. \A o \in Range(os) : Found(o.cmd)'
      BY <2>3 DEF Found
    <2>7. NothingLost'
      BY <1>1, <1>2, <2>3, <2>4, <2>6, StillFound
    <2> QED BY <1>2, <2>3, <2>5, <2>7, StillDue DEF After
  <1> QED BY <1>1, <1>4, <1>5

\* An inbox message is given to the conversation at once.
LEMMA IncomingPromptStep ==
    ASSUME CommandInv, NEW c \in Cmd, IncomingPrompt(c)
    PROVE  After
  <1>1. /\ c \notin sent /\ sent' = sent \cup {c} /\ dirty' = TRUE
        /\ UNCHANGED <<class, queue, snap, cancelled, returned, dropped>>
    BY DEF IncomingPrompt
  <1>2. PICK e \in Exec :
           /\ phase[e] = "free"
           /\ phase' = [phase EXCEPT ![e] = "querying"]
           /\ batch' = [batch EXCEPT ![e] = <<Object(c)>>]
           /\ installed' = e
           /\ Start(e, <<Object(c)>>)
    BY DEF IncomingPrompt
  <1>3. /\ sent' \in SUBSET Cmd /\ sent \subseteq sent' /\ c \in sent'
        /\ SessionTypes /\ NothingLost /\ WakeupPending /\ ExecTypes
        /\ MadeOf(queue, sent') /\ handed \in [Cmd -> Nat]
        /\ phase \in [Exec -> Phase] /\ "querying" \in Phase
    BY <1>1, MadeOfMore DEF CommandInv, SessionTypes, GuardTypes, Phase
  <1>4. /\ MadeOf(<<Object(c)>>, sent') /\ <<Object(c)>> # <<>>
        /\ Range(<<Object(c)>>) = {Object(c)} /\ Object(c).cmd = c
    BY <1>3, MadeOfOne
  <1> DEFINE o == Object(c)
             s == <<o>>
  <1> HIDE DEF o, s
  <1>5. /\ MadeOf(s, sent') /\ s # <<>> /\ Range(s) = {o} /\ o.cmd = c
        /\ batch' = [batch EXCEPT ![e] = s] /\ HandOver(s)
    BY <1>2, <1>4 DEF o, s, Start
  <1>6. ExecTypes'
    BY <1>1, <1>2, <1>3, <1>5, ExecStarts
  <1>7. /\ handed' \in [Cmd -> Nat]
        /\ \A d \in Cmd : handed[d] > 0 => handed'[d] > 0
        /\ handed'[c] > 0
    BY <1>3, <1>5, HandedOver
  <1>8. SessionTypes'
    BY <1>1, <1>2, <1>3, <1>7 DEF SessionTypes
  <1>9. Found(c)'
    BY <1>7 DEF Found
  <1>10. \A f \in Exec : phase[f] = "processing" =>
            phase'[f] = "processing" /\ batch'[f] = batch[f]
    BY <1>2, <1>3, <1>5 DEF ExecTypes
  <1>11. NothingLost'
    BY <1>1, <1>3, <1>7, <1>9, <1>10, StillFound DEF SessionTypes
  <1> QED BY <1>1, <1>3, <1>6, <1>8, <1>11, StillDue DEF After

\* A step that changes neither the commands nor where they are.
LEMMA NothingMoves ==
    ASSUME CommandInv, ExecTypes',
           UNCHANGED <<class, sent, queue, handed, returned, dropped>>,
           dirty' \in BOOLEAN, installed' \in Exec \cup {none},
           \A f \in Exec : phase[f] = "processing" =>
              phase'[f] = "processing" /\ batch'[f] = batch[f],
           \/ dirty'
           \/ guard' = guard /\ (dirty => dirty')
    PROVE  After
  <1>1. SessionTypes /\ NothingLost /\ WakeupPending
    BY DEF CommandInv
  <1>2. SessionTypes'
    BY <1>1 DEF SessionTypes
  <1>3. NothingLost'
    BY <1>1, StillFound
  <1> QED BY <1>1, <1>2, <1>3, StillDue DEF After

\* The messages join the conversation, or are queued again.
LEMMA StartQueryStep ==
    ASSUME CommandInv, NEW e \in Exec, StartQuery(e)
    PROVE  After
  <1>1. /\ phase[e] = "processing"
        /\ UNCHANGED <<class, sent, batch, snap, cancelled, installed, returned, dropped>>
        /\ \/ /\ Start(e, batch[e])
              /\ phase' = [phase EXCEPT ![e] = "querying"]
              /\ dirty' = TRUE /\ UNCHANGED queue
           \/ /\ guard.status = "running"
              /\ queue' = Enqueue(queue, Replay(batch[e]))
              /\ phase' = [phase EXCEPT ![e] = "returning"]
              /\ dirty' = (dirty \/ Replay(batch[e]) # <<>>)
              /\ UNCHANGED <<guard, gen, handed>>
    BY DEF StartQuery, MayStart, CanStart
  <1>2. /\ SessionTypes /\ NothingLost /\ WakeupPending /\ ExecTypes
        /\ MadeOf(queue, sent) /\ MadeOf(batch[e], sent)
        /\ sent \in SUBSET Cmd /\ handed \in [Cmd -> Nat] /\ dirty \in BOOLEAN
        /\ phase \in [Exec -> Phase] /\ {"querying", "returning"} \subseteq Phase
    BY DEF CommandInv, SessionTypes, ExecTypes, GuardTypes, Phase
  <1>3. ASSUME NEW f \in Exec \ {e}, NEW p, phase' = [phase EXCEPT ![e] = p]
        PROVE  phase'[f] = phase[f]
    BY <1>2, <1>3
  <1>4. CASE /\ Start(e, batch[e])
             /\ phase' = [phase EXCEPT ![e] = "querying"]
             /\ dirty' = TRUE /\ UNCHANGED queue
    <2>1. ExecTypes'
      BY <1>1, <1>2, <1>4, ExecMoves
    <2>2. /\ handed' \in [Cmd -> Nat]
          /\ \A c \in Cmd : handed[c] > 0 => handed'[c] > 0
          /\ \A o \in Range(batch[e]) : handed'[o.cmd] > 0
      BY <1>2, <1>4, HandedOver DEF Start
    <2>3. SessionTypes'
      BY <1>1, <1>2, <1>4, <2>2 DEF SessionTypes
    <2>4. \A o \in Range(batch[e]) : Found(o.cmd)'
      BY <2>2 DEF Found
    <2>5. \A f \in Exec : phase[f] = "processing" =>
             \/ phase'[f] = "processing" /\ batch'[f] = batch[f]
             \/ \A o \in Range(batch[f]) : Found(o.cmd)'
      BY <1>1, <1>3, <1>4, <2>4
    <2>6. NothingLost'
      BY <1>1, <1>2, <1>4, <2>2, <2>5, StillFound
    <2> QED BY <1>2, <1>4, <2>1, <2>3, <2>6, StillDue DEF After
  <1>5. CASE /\ guard.status = "running"
             /\ queue' = Enqueue(queue, Replay(batch[e]))
             /\ phase' = [phase EXCEPT ![e] = "returning"]
             /\ dirty' = (dirty \/ Replay(batch[e]) # <<>>)
             /\ UNCHANGED <<guard, gen, handed>>
    <2>1. ExecTypes'
      BY <1>1, <1>2, <1>5, ExecMoves
    <2>2. /\ MadeOf(Replay(batch[e]), sent)
          /\ \A o \in Range(batch[e]) : ~class[o.cmd].meta =>
                \E p \in Range(Replay(batch[e])) : p.cmd = o.cmd
      BY <1>2, Replayed
    <2>3. /\ MadeOf(queue', sent)
          /\ Range(queue') = Range(queue) \cup Range(Replay(batch[e]))
      BY <1>2, <1>5, <2>2, MadeOfBoth
    <2>4. SessionTypes'
      BY <1>1, <1>2, <1>5, <2>3 DEF SessionTypes
    <2>5. ASSUME NEW o \in Range(batch[e]) PROVE Found(o.cmd)'
      <3>1. CASE class[o.cmd].meta
        BY <1>1, <3>1 DEF Found
      <3>2. CASE ~class[o.cmd].meta
        <4>1. PICK p \in Range(Replay(batch[e])) : p.cmd = o.cmd
          BY <2>2, <3>2
        <4>2. p \in Range(queue')
          BY <2>3
        <4> QED BY <4>1, <4>2 DEF Found
      <3> QED BY <3>1, <3>2
    <2>6. \A f \in Exec : phase[f] = "processing" =>
             \/ phase'[f] = "processing" /\ batch'[f] = batch[f]
             \/ \A o \in Range(batch[f]) : Found(o.cmd)'
      BY <1>1, <1>3, <1>5, <2>5
    <2>7. NothingLost'
      BY <1>1, <1>2, <1>5, <2>3, <2>6, StillFound
    <2>8. isActive(guard')
      BY <1>5 DEF isActive
    <2> QED BY <1>2, <2>1, <2>4, <2>7, <2>8, StillDue DEF After
  <1> QED BY <1>1, <1>4, <1>5

\* A local command is done once its output is shown.
LEMMA FinishLocalStep ==
    ASSUME CommandInv, NEW e \in Exec, FinishLocal(e)
    PROVE  After
  <1>1. /\ phase[e] = "processing" /\ phase' = [phase EXCEPT ![e] = "returning"]
        /\ HandOver(batch[e]) /\ dirty' = TRUE /\ installed' = none
        /\ UNCHANGED <<class, sent, queue, batch, gen, snap, cancelled, returned, dropped>>
    BY DEF FinishLocal
  <1>2. /\ SessionTypes /\ NothingLost /\ WakeupPending /\ ExecTypes
        /\ MadeOf(batch[e], sent)
        /\ sent \in SUBSET Cmd /\ handed \in [Cmd -> Nat]
        /\ phase \in [Exec -> Phase] /\ "returning" \in Phase
    BY DEF CommandInv, SessionTypes, ExecTypes, GuardTypes, Phase
  <1>3. ExecTypes'
    BY <1>1, <1>2, ExecMoves
  <1>4. /\ handed' \in [Cmd -> Nat]
        /\ \A c \in Cmd : handed[c] > 0 => handed'[c] > 0
        /\ \A o \in Range(batch[e]) : handed'[o.cmd] > 0
    BY <1>1, <1>2, HandedOver
  <1>5. SessionTypes'
    BY <1>1, <1>2, <1>4 DEF SessionTypes
  <1>6. \A o \in Range(batch[e]) : Found(o.cmd)'
    BY <1>4 DEF Found
  <1>7. \A f \in Exec : phase[f] = "processing" =>
           \/ phase'[f] = "processing" /\ batch'[f] = batch[f]
           \/ \A o \in Range(batch[f]) : Found(o.cmd)'
    BY <1>1, <1>2, <1>6
  <1>8. NothingLost'
    BY <1>1, <1>2, <1>4, <1>7, StillFound
  <1> QED BY <1>1, <1>2, <1>3, <1>5, <1>8, StillDue DEF After

\* What failed is dropped.
LEMMA FailInputStep ==
    ASSUME CommandInv, NEW e \in Exec, FailInput(e)
    PROVE  After
  <1>1. /\ phase[e] = "processing" /\ phase' = [phase EXCEPT ![e] = "returning"]
        /\ dropped' = dropped \cup {o.cmd : o \in Range(batch[e])}
        /\ UNCHANGED <<class, sent, queue, dirty, guard, batch, gen, snap, cancelled,
                       installed, handed, returned>>
    BY SetOf DEF FailInput
  <1>2. /\ SessionTypes /\ NothingLost /\ WakeupPending /\ ExecTypes
        /\ MadeOf(batch[e], sent)
        /\ phase \in [Exec -> Phase] /\ "returning" \in Phase
    BY DEF CommandInv, SessionTypes, ExecTypes, GuardTypes, Phase
  <1>3. ExecTypes'
    BY <1>1, <1>2, ExecMoves
  <1>4. SessionTypes'
    BY <1>1, <1>2 DEF SessionTypes, MadeOf
  <1>5. \A o \in Range(batch[e]) : Found(o.cmd)'
    BY <1>1 DEF Found
  <1>6. \A f \in Exec : phase[f] = "processing" =>
           \/ phase'[f] = "processing" /\ batch'[f] = batch[f]
           \/ \A o \in Range(batch[f]) : Found(o.cmd)'
    BY <1>1, <1>2, <1>5
  <1>7. NothingLost'
    BY <1>1, <1>2, <1>6, StillFound
  <1> QED BY <1>1, <1>2, <1>3, <1>4, <1>7, StillDue DEF After

\* The snapshot takes nothing from the queue.
LEMMA SnapQueueStep ==
    ASSUME CommandInv, NEW e \in Exec, SnapQueue(e)
    PROVE  After
  <1>1. /\ phase[e] = "querying" /\ phase' = [phase EXCEPT ![e] = "draining"]
        /\ \E p \in {1, 2} :
              snap' = [snap EXCEPT ![e] = Attachable(UpToPriority(class, queue, p))]
        /\ UNCHANGED <<class, sent, queue, dirty, guard, batch, gen, cancelled,
                       installed, handed, returned, dropped>>
    BY DEF SnapQueue
  <1>2. /\ SessionTypes /\ ExecTypes /\ MadeOf(queue, sent)
        /\ phase \in [Exec -> Phase] /\ "draining" \in Phase
    BY DEF CommandInv, SessionTypes, ExecTypes, GuardTypes, Phase
  <1>3. PICK os : MadeOf(os, sent) /\ snap' = [snap EXCEPT ![e] = os]
    BY <1>1, <1>2, SnapTakes
  <1>4. ExecTypes'
    BY <1>1, <1>2, <1>3, ExecGoesOn
  <1>5. \A f \in Exec : phase[f] = "processing" => phase'[f] = "processing"
    BY <1>1, <1>2
  <1> QED BY <1>1, <1>2, <1>4, <1>5, NothingMoves DEF SessionTypes

\* What was attached leaves the queue, now that the conversation has it or an
\* error dropped it.
LEMMA ConsumeDrainStep ==
    ASSUME CommandInv, NEW e \in Exec, ConsumeDrain(e)
    PROVE  After
  <1> DEFINE os == NotBash(snap[e])
  <1>1. /\ phase[e] = "draining" /\ phase' = [phase EXCEPT ![e] = "querying"]
        /\ \/ HandOver(os) /\ UNCHANGED dropped
           \/ dropped' = dropped \cup {o.cmd : o \in Range(os)} /\ UNCHANGED handed
        /\ queue' = Without(queue, Range(os))
        /\ dirty' = (dirty \/ queue' # queue)
        /\ snap' = [snap EXCEPT ![e] = <<>>]
        /\ UNCHANGED <<class, sent, guard, batch, gen, cancelled, installed, returned>>
    BY SetOf DEF ConsumeDrain
  <1>2. /\ SessionTypes /\ NothingLost /\ WakeupPending /\ ExecTypes
        /\ MadeOf(queue, sent) /\ MadeOf(snap[e], sent)
        /\ sent \in SUBSET Cmd /\ handed \in [Cmd -> Nat] /\ dirty \in BOOLEAN
        /\ phase \in [Exec -> Phase] /\ "querying" \in Phase
    BY DEF CommandInv, SessionTypes, ExecTypes, GuardTypes, Phase
  <1>3. MadeOf(os, sent)
    BY <1>2, NotBashTakes
  <1> HIDE DEF os
  <1>4. MadeOf(<<>>, sent)
    BY DEF MadeOf, Range
  <1>5. ExecTypes'
    BY <1>1, <1>2, <1>4, ExecGoesOn
  <1>6. /\ handed' \in [Cmd -> Nat]
        /\ \A c \in Cmd : handed[c] > 0 => handed'[c] > 0
        /\ dropped \subseteq dropped' /\ dropped' \subseteq sent
        /\ \A o \in Range(os) : handed'[o.cmd] > 0 \/ o.cmd \in dropped'
    <2>1. dropped \subseteq sent
      BY <1>2 DEF SessionTypes
    <2>2. CASE HandOver(os) /\ UNCHANGED dropped
      BY <1>2, <1>3, <2>1, <2>2, HandedOver
    <2>3. CASE dropped' = dropped \cup {o.cmd : o \in Range(os)} /\ UNCHANGED handed
      BY <1>2, <1>3, <2>1, <2>3 DEF MadeOf
    <2> QED BY <1>1, <2>2, <2>3
  <1>7. MadeOf(queue', sent) /\ Range(queue') = Range(queue) \ Range(os)
    BY <1>1, <1>2, WithoutKeeps
  <1>8. SessionTypes'
    BY <1>1, <1>2, <1>6, <1>7 DEF SessionTypes
  <1>9. \A o \in Range(os) : Found(o.cmd)'
    BY <1>6 DEF Found
  <1>10. \A f \in Exec : phase[f] = "processing" => phase'[f] = "processing"
    BY <1>1, <1>2
  <1>11. NothingLost'
    BY <1>1, <1>2, <1>6, <1>7, <1>9, <1>10, StillFound
  <1>12. WakeupPending'
    BY <1>1, <1>2, StillDue
  <1> QED BY <1>5, <1>8, <1>11, <1>12 DEF After

\* An execution that is past its query returns, or is over when nobody waits
\* for it.
LEMMA PastQuery ==
    ASSUME ExecTypes, phase \in [Exec -> Phase], sent' = sent,
           NEW e \in Exec, phase[e] \in {"querying", "ended"}, UNCHANGED snap,
           \/ /\ phase' = [phase EXCEPT ![e] = "ended"]
              /\ UNCHANGED <<batch, gen, cancelled>>
           \/ /\ phase' = [phase EXCEPT ![e] = "returning"]
              /\ UNCHANGED <<batch, gen, cancelled>>
           \/ phase' = [phase EXCEPT ![e] = "free"] /\ Leave(e)
    PROVE  /\ ExecTypes'
           /\ \A f \in Exec : phase[f] = "processing" =>
                 phase'[f] = "processing" /\ batch'[f] = batch[f]
  <1>1. {"ended", "returning"} \subseteq Phase
    BY DEF Phase
  <1>2. CASE phase' = [phase EXCEPT ![e] = "ended"] /\ UNCHANGED <<batch, gen, cancelled>>
    <2>1. ExecTypes'
      BY <1>1, <1>2, ExecMoves
    <2> QED BY <1>2, <2>1
  <1>3. CASE phase' = [phase EXCEPT ![e] = "returning"] /\ UNCHANGED <<batch, gen, cancelled>>
    <2>1. ExecTypes'
      BY <1>1, <1>3, ExecMoves
    <2> QED BY <1>3, <2>1
  <1>4. CASE phase' = [phase EXCEPT ![e] = "free"] /\ Leave(e)
    <2>1. ExecTypes'
      BY <1>4, ExecEnds
    <2>2. \A f \in Exec \ {e} : phase'[f] = phase[f] /\ batch'[f] = batch[f]
      BY <1>4 DEF Leave, ExecTypes
    <2> QED BY <2>1, <2>2
  <1> QED BY <1>2, <1>3, <1>4

\* A query that held the guard when it ended has notified the effect.
LEMMA EndQueryStep ==
    ASSUME CommandInv, NEW e \in Exec, EndQuery(e)
    PROVE  After
  <1>1. /\ phase[e] = "querying"
        /\ EndsTurn(e) \/ guard' = guard
        /\ dirty' = (dirty \/ EndsTurn(e))
        /\ installed' = none \/ installed' = installed
        /\ UNCHANGED <<class, sent, queue, snap, handed, returned, dropped>>
        /\ \/ /\ phase' = [phase EXCEPT ![e] = "ended"]
              /\ UNCHANGED <<batch, gen, cancelled>>
           \/ /\ phase' = [phase EXCEPT ![e] = "returning"]
              /\ UNCHANGED <<batch, gen, cancelled>>
           \/ phase' = [phase EXCEPT ![e] = "free"] /\ Leave(e)
    BY DEF EndQuery
  <1>2. /\ ExecTypes /\ phase \in [Exec -> Phase]
        /\ dirty \in BOOLEAN /\ installed \in Exec \cup {none}
    BY DEF CommandInv, SessionTypes, GuardTypes
  <1>3. /\ ExecTypes'
        /\ \A f \in Exec : phase[f] = "processing" =>
              phase'[f] = "processing" /\ batch'[f] = batch[f]
    BY <1>1, <1>2, PastQuery
  <1>4. EndsTurn(e) \in BOOLEAN
    BY DEF EndsTurn, Ends
  <1>5. /\ dirty' \in BOOLEAN
        /\ dirty' \/ (guard' = guard /\ (dirty => dirty'))
    BY <1>1, <1>2, <1>4
  <1>6. installed' \in Exec \cup {none}
    BY <1>1, <1>2
  <1> QED BY <1>1, <1>3, <1>5, <1>6, NothingMoves

\* The controller is no concern of the commands.
LEMMA ClearControllerStep ==
    ASSUME CommandInv, NEW e \in Exec, ClearController(e)
    PROVE  After
  <1>1. /\ phase[e] = "ended" /\ installed' = none
        /\ UNCHANGED <<class, sent, queue, dirty, guard, snap, handed, returned, dropped>>
        /\ \/ /\ phase' = [phase EXCEPT ![e] = "returning"]
              /\ UNCHANGED <<batch, gen, cancelled>>
           \/ phase' = [phase EXCEPT ![e] = "free"] /\ Leave(e)
    BY DEF ClearController
  <1>2. ExecTypes /\ phase \in [Exec -> Phase] /\ dirty \in BOOLEAN
    BY DEF CommandInv, SessionTypes, GuardTypes
  <1>3. /\ ExecTypes'
        /\ \A f \in Exec : phase[f] = "processing" =>
              phase'[f] = "processing" /\ batch'[f] = batch[f]
    BY <1>1, <1>2, PastQuery
  <1> QED BY <1>1, <1>2, <1>3, NothingMoves

\* The guard that is released tells the effect.
LEMMA ReturnStep ==
    ASSUME CommandInv, NEW e \in Exec, Return(e)
    PROVE  After
  <1>1. /\ phase[e] = "returning" /\ phase' = [phase EXCEPT ![e] = "free"] /\ Leave(e)
        /\ dirty' = (dirty \/ guard' # guard)
        /\ UNCHANGED <<class, sent, queue, snap, installed, handed, returned, dropped>>
    BY DEF Return, NotifyRelease, ForgetBatch
  <1>2. /\ ExecTypes /\ phase \in [Exec -> Phase]
        /\ dirty \in BOOLEAN /\ installed \in Exec \cup {none}
    BY DEF CommandInv, SessionTypes, GuardTypes
  <1>3. ExecTypes'
    BY <1>1, <1>2, ExecEnds
  <1>4. \A f \in Exec : phase[f] = "processing" =>
           phase'[f] = "processing" /\ batch'[f] = batch[f]
    BY <1>1, <1>2 DEF Leave, ExecTypes
  <1>5. /\ dirty' \in BOOLEAN
        /\ dirty' \/ (guard' = guard /\ (dirty => dirty'))
    BY <1>1, <1>2
  <1> QED BY <1>1, <1>2, <1>3, <1>4, <1>5, NothingMoves

\* Escape revokes the turn, and moves no command.
LEMMA CancelStep ==
    ASSUME CommandInv, Cancel
    PROVE  After
  <1>1. /\ dirty' = TRUE /\ installed' = none
        /\ cancelled' = cancelled \cup {e \in Exec : e = installed /\ phase[e] # "free"}
        /\ UNCHANGED <<class, sent, queue, phase, batch, gen, snap, handed, returned, dropped>>
    BY DEF Cancel
  <1>2. ExecTypes
    BY DEF CommandInv
  <1>3. cancelled' \subseteq {e \in Exec : phase'[e] # "free"}
    BY <1>1, <1>2 DEF ExecTypes
  <1>4. ExecTypes'
    BY <1>1, <1>2, <1>3 DEF ExecTypes, MadeOf
  <1> QED BY <1>1, <1>4, NothingMoves

\* What leaves the queue for the input box is the user's again.
LEMMA PopQueueStep ==
    ASSUME CommandInv, PopQueue
    PROVE  After
  <1>1. PICK os \in SUBSET Range(queue) :
           /\ queue' = Without(queue, os)
           /\ returned' = returned \cup {o.cmd : o \in os}
    BY SetOf DEF PopQueue
  <1>2. /\ dirty' = TRUE
        /\ UNCHANGED <<class, sent, guard, execVars, installed, handed, dropped>>
    BY DEF PopQueue
  <1>3. /\ SessionTypes /\ NothingLost /\ WakeupPending /\ ExecTypes
        /\ MadeOf(queue, sent)
    BY DEF CommandInv, SessionTypes
  <1>4. ExecTypes'
    BY <1>2, <1>3, ExecStays
  <1>5. MadeOf(queue', sent) /\ Range(queue') = Range(queue) \ os
    BY <1>1, <1>3, WithoutKeeps
  <1>6. {o.cmd : o \in os} \subseteq sent
    BY <1>3 DEF MadeOf
  <1>7. SessionTypes'
    BY <1>1, <1>2, <1>3, <1>5, <1>6 DEF SessionTypes
  <1>8. \A o \in os : Found(o.cmd)'
    BY <1>1 DEF Found
  <1>9. NothingLost'
    BY <1>1, <1>2, <1>3, <1>5, <1>8, StillFound DEF execVars
  <1> QED BY <1>2, <1>3, <1>4, <1>7, <1>9, StillDue DEF After

-----------------------------------------------------------------------------
(* What every state satisfies. *)

\* No command was sent at first.
LEMMA CommandInit == Init => CommandInv
  <1> SUFFICES ASSUME Init PROVE CommandInv
    OBVIOUS
  <1>1. GuardTypes
    BY DEF Init, GuardTypes, IdleGuard, Guard, Phase
  <1>2. MadeOf(<<>>, {}) /\ <<>> \in Seq(Objects)
    BY DEF MadeOf, Range
  <1>3. ExecTypes
    BY <1>2 DEF Init, ExecTypes
  <1>4. SessionTypes
    BY <1>2 DEF Init, SessionTypes
  <1>5. NothingLost
    BY DEF Init, NothingLost
  <1>6. WakeupPending
    BY DEF Init, WakeupPending, MainThread
  <1> QED BY <1>1, <1>3, <1>4, <1>5, <1>6 DEF CommandInv

\* One step, whatever it is.
LEMMA CommandStep ==
    ASSUME CommandInv, [Next]_vars
    PROVE  CommandInv'
  <1>1. GuardTypes'
    BY StepShape DEF CommandInv
  <1>2. CASE UNCHANGED vars
    <2>1. ExecTypes'
      BY <1>2, ExecStays DEF CommandInv, vars
    <2>2. dirty \in BOOLEAN /\ installed \in Exec \cup {none}
      BY DEF CommandInv, SessionTypes
    <2>3. After
      BY <1>2, <2>1, <2>2, NothingMoves DEF vars, execVars
    <2> QED BY <1>1, <2>3 DEF After, CommandInv
  <1>3. CASE Next
    <2>1. After
      BY <1>3, SubmitStep, NotifyStep, IncomingPromptStep, ProcessQueueStep,
         StartQueryStep, FinishLocalStep, FailInputStep, SnapQueueStep,
         ConsumeDrainStep, EndQueryStep, ClearControllerStep, ReturnStep,
         CancelStep, PopQueueStep DEF Next
    <2> QED BY <1>1, <2>1 DEF After, CommandInv
  <1> QED BY <1>2, <1>3

\* The invariant, for every state of every behaviour.
LEMMA CommandsKept == Spec => []CommandInv
  <1> QED BY CommandInit, CommandStep, PTL DEF Spec

\* Every variable keeps its type, the queue holds only commands that were
\* sent, and an execution holds what it runs exactly from the call of
\* executeUserInput, or of onQuery, until that call returns.
THEOREM TypeCorrect == Spec => []TypeOK
  <1>1. CommandInv => TypeOK
    BY SetOf DEF CommandInv, TypeOK, GuardTypes, ExecTypes, SessionTypes, MadeOf
  <1> QED BY <1>1, CommandsKept, PTL

\* No command of the user disappears (enqueue, executeUserInput, onQuery, the
\* mid-turn drain and popAllEditable): one that left the queue is being
\* processed, was given to the conversation, or is back in the input box,
\* whatever is cancelled and whichever queries collide, unless an error of
\* processUserInput or of the attachments dropped it.
THEOREM NothingLostCorrect == Spec => []NothingLost
  <1>1. CommandInv => NothingLost
    BY DEF CommandInv
  <1> QED BY <1>1, CommandsKept, PTL

\* While commands of the main thread wait and no turn is active, the effect of
\* useQueueProcessor is due: whoever releases the guard or fills the queue
\* has notified it.
THEOREM WakeupPendingCorrect == Spec => []WakeupPending
  <1>1. CommandInv => WakeupPending
    BY DEF CommandInv
  <1> QED BY <1>1, CommandsKept, PTL
=============================================================================
