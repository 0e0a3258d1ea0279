----------------------- MODULE HybridTransport_proofs -----------------------
(***************************************************************************)
(* The events written to the transport leave in order, each once, and no   *)
(* caller of its uploader is forgotten or told of an event that is under   *)
(* way: proofs for any number of events and of overlapping calls, any   *)
(* batch and queue size, and any events that cannot be serialized.         *)
(*                                                                         *)
(* The batch in flight and the queue behind it are one line.  Whatever a   *)
(* step is, it does one of six things to the line: keeps it, takes events  *)
(* at its end, posts the batch, loses it to a refusal, gives it up, or     *)
(* cuts the line at the batch when the uploader closes; meanwhile events that cannot be sent    *)
(* may disappear from it.  From there on the proofs need to know neither   *)
(* where a batch ends nor which of the handlers ran.                       *)
(***************************************************************************)
EXTENDS HybridTransport, FiniteSetTheorems, SequenceTheorems, TLAPS

-----------------------------------------------------------------------------
(* Sequences joined. *)

\* Concatenation, as an operator that the provers do not take apart.
Cat(s, t) == s \o t

\* The elements of two sequences joined, and their places.
LEMMA CatProperties ==
    ASSUME NEW T, NEW s \in Seq(T), NEW t \in Seq(T)
    PROVE  /\ Cat(s, t) \in Seq(T)
           /\ Len(Cat(s, t)) = Len(s) + Len(t)
           /\ DOMAIN Cat(s, t) = 1..(Len(s) + Len(t))
           /\ \A i \in 1..(Len(s) + Len(t)) :
                 Cat(s, t)[i] = IF i <= Len(s) THEN s[i] ELSE t[i - Len(s)]
           /\ Range(Cat(s, t)) = Range(s) \cup Range(t)
  <1>1. Cat(s, t) \in Seq(T) /\ Len(Cat(s, t)) = Len(s) + Len(t)
    BY ConcatProperties DEF Cat
  <1>2. \A i \in 1..(Len(s) + Len(t)) :
           Cat(s, t)[i] = IF i <= Len(s) THEN s[i] ELSE t[i - Len(s)]
    BY ConcatProperties DEF Cat
  <1>3. Range(Cat(s, t)) = Range(s) \cup Range(t)
    BY RangeConcatenation DEF Cat
  <1> QED BY <1>1, <1>2, <1>3

\* What the joined sequence contains.
LEMMA CatRange ==
    ASSUME NEW T, NEW s \in Seq(T), NEW t \in Seq(T)
    PROVE  Range(Cat(s, t)) = Range(s) \cup Range(t)
  BY CatProperties

\* The empty sequence joins nothing.
LEMMA CatEmpty ==
    ASSUME NEW T, NEW s \in Seq(T)
    PROVE  Cat(s, <<>>) = s /\ Cat(<<>>, s) = s
  BY ConcatEmptySeq DEF Cat

\* Joining three sequences, in either grouping.
LEMMA CatAssociative ==
    ASSUME NEW T, NEW s \in Seq(T), NEW t \in Seq(T), NEW u \in Seq(T)
    PROVE  Cat(Cat(s, t), u) = Cat(s, Cat(t, u))
  BY ConcatAssociative DEF Cat

-----------------------------------------------------------------------------
(* The filter: the elements of a sequence at some of its places. *)

\* The places of a sequence are finitely many, and their ranks number them.
LEMMA Ranks ==
    ASSUME NEW n \in Nat, NEW P \in SUBSET (1..n)
    PROVE  /\ IsFiniteSet(P) /\ Cardinality(P) \in 0..n
           /\ \A i \in P : Rank(P, i) \in 1..Cardinality(P)
           /\ \A i, j \in P : i < j => Rank(P, i) < Rank(P, j)
           /\ \A k \in 1..Cardinality(P) : \E i \in P : Rank(P, i) = k
  <1> DEFINE Upto(i) == {j \in P : j <= i}
  <1>1. /\ IsFiniteSet(P) /\ Cardinality(P) \in 0..n
    <2>1. IsFiniteSet(1..n) /\ Cardinality(1..n) = n
      BY FS_Interval
    <2>2. IsFiniteSet(P) /\ Cardinality(P) <= n
      BY <2>1, FS_Subset
    <2>3. Cardinality(P) \in Nat
      BY <2>2, FS_CardinalityType
    <2> QED BY <2>2, <2>3
  <1>2. \A i \in P : IsFiniteSet(Upto(i)) /\ Rank(P, i) = Cardinality(Upto(i))
    <2> SUFFICES ASSUME NEW i \in P PROVE IsFiniteSet(Upto(i))
      BY DEF Rank
    <2> QED BY <1>1, FS_Subset, Upto(i) \in SUBSET P
  <1>3. \A i \in P : Rank(P, i) \in 1..Cardinality(P)
    <2> SUFFICES ASSUME NEW i \in P PROVE Rank(P, i) \in 1..Cardinality(P)
      OBVIOUS
    <2>1. Cardinality(Upto(i)) <= Cardinality(P) /\ Cardinality(Upto(i)) \in Nat
      BY <1>1, <1>2, FS_Subset, FS_CardinalityType, Upto(i) \in SUBSET P
    <2>2. Upto(i) # {}
      BY i \in 1..n
    <2>3. Cardinality(Upto(i)) # 0
      BY <1>2, <2>2, FS_EmptySet
    <2> QED BY <1>1, <1>2, <2>1, <2>3
  <1>4. \A i, j \in P : i < j => Rank(P, i) < Rank(P, j)
    <2> SUFFICES ASSUME NEW i \in P, NEW j \in P, i < j
                 PROVE  Rank(P, i) < Rank(P, j)
      OBVIOUS
    <2>1. j \in Upto(j) /\ j \notin Upto(i) /\ \A m \in Upto(i) : m \in Upto(j)
      <3>1. \A m \in P : m \in Nat
        OBVIOUS
      <3> QED BY <3>1
    <2>2. Cardinality(Upto(i)) <= Cardinality(Upto(j)) /\ Cardinality(Upto(i)) # Cardinality(Upto(j))
      BY <1>2, <2>1, FS_Subset, Upto(i) \in SUBSET Upto(j)
    <2> QED BY <1>1, <1>2, <1>3, <2>2
  <1>5. \A k \in 1..Cardinality(P) : \E i \in P : Rank(P, i) = k
    <2> DEFINE f == [i \in P |-> Rank(P, i)]
    <2>1. f \in [P -> 1..Cardinality(P)]
      BY <1>3
    <2>2. \A i, j \in P : f[i] = f[j] => i = j
      <3> SUFFICES ASSUME NEW i \in P, NEW j \in P, f[i] = f[j], i # j
                   PROVE  FALSE
        OBVIOUS
      <3>1. i < j \/ j < i
        BY i \in 1..n, j \in 1..n
      <3> QED BY <1>1, <1>3, <1>4, <3>1
    <2> HIDE DEF f
    <2>3. f \in Injection(P, 1..Cardinality(P))
      BY <2>1, <2>2 DEF Injection, IsInjective
    <2>4. IsFiniteSet(1..Cardinality(P)) /\ Cardinality(1..Cardinality(P)) = Cardinality(P)
      BY <1>1, FS_Interval
    <2>5. f \in Surjection(P, 1..Cardinality(P))
      BY <2>3, <2>4, FS_Injection
    <2> QED BY <2>5 DEF Surjection, f
  <1> QED BY <1>1, <1>3, <1>4, <1>5

\* What At gives: as many elements as places, each place's element at its rank.
LEMMA AtPlaces ==
    ASSUME NEW T, NEW s \in Seq(T), NEW P \in SUBSET (1..Len(s))
    PROVE  /\ At(s, P) \in Seq(T)
           /\ Len(At(s, P)) = Cardinality(P)
           /\ \A i \in P : /\ Rank(P, i) \in 1..Len(At(s, P))
                           /\ At(s, P)[Rank(P, i)] = s[i]
           /\ \A k \in 1..Len(At(s, P)) :
                 \E i \in P : Rank(P, i) = k /\ At(s, P)[k] = s[i]
  <1> DEFINE n == Cardinality(P)
             nth(k) == CHOOSE i \in P : Rank(P, i) = k
  <1>1. Len(s) \in Nat
    OBVIOUS
  <1>2. n \in Nat /\ \A i \in P : Rank(P, i) \in 1..n
    BY <1>1, Ranks
  <1>3. \A k \in 1..n : nth(k) \in P /\ Rank(P, nth(k)) = k
    BY <1>1, Ranks
  <1>4. \A i \in P : nth(Rank(P, i)) = i
    <2> SUFFICES ASSUME NEW i \in P, nth(Rank(P, i)) # i PROVE FALSE
      OBVIOUS
    <2>1. nth(Rank(P, i)) \in P /\ Rank(P, nth(Rank(P, i))) = Rank(P, i)
      BY <1>2, <1>3
    <2> DEFINE j == nth(Rank(P, i))
    <2>2. j \in P /\ Rank(P, j) = Rank(P, i) /\ j # i
      BY <2>1
    <2> HIDE DEF j
    <2>3. i < j \/ j < i
      BY <2>2, i \in 1..Len(s), j \in 1..Len(s)
    <2> QED BY <1>1, <1>2, <2>2, <2>3, Ranks
  <1>5. At(s, P) = [k \in 1..n |-> s[nth(k)]]
    BY DEF At
  <1>6. \A k \in 1..n : s[nth(k)] \in T
    <2> SUFFICES ASSUME NEW k \in 1..n PROVE s[nth(k)] \in T
      OBVIOUS
    <2> DEFINE i == nth(k)
    <2>1. i \in 1..Len(s)
      BY <1>3
    <2> HIDE DEF i
    <2>2. s[i] \in T
      BY <2>1
    <2> QED BY <2>2 DEF i
  <1> HIDE DEF nth, n
  <1>7. At(s, P) \in [1..n -> T]
    BY <1>5, <1>6
  <1>8. At(s, P) \in Seq(T) /\ Len(At(s, P)) = n
    BY <1>2, <1>7
  <1> QED BY <1>2, <1>3, <1>4, <1>5, <1>8 DEF n

\* At gives the elements at the places, and no others.
LEMMA AtRange ==
    ASSUME NEW T, NEW s \in Seq(T), NEW P \in SUBSET (1..Len(s))
    PROVE  Range(At(s, P)) = {s[i] : i \in P}
  <1>1. \A x \in Range(At(s, P)) : x \in {s[i] : i \in P}
    <2> SUFFICES ASSUME NEW x \in Range(At(s, P)) PROVE x \in {s[i] : i \in P}
      OBVIOUS
    <2>1. At(s, P) \in Seq(T)
      BY AtPlaces
    <2>2. PICK k \in 1..Len(At(s, P)) : x = At(s, P)[k]
      BY <2>1 DEF Range
    <2>3. PICK i \in P : At(s, P)[k] = s[i]
      BY AtPlaces
    <2> QED BY <2>2, <2>3
  <1>2. ASSUME NEW i \in P PROVE s[i] \in Range(At(s, P))
    <2> DEFINE k == Rank(P, i)
    <2>1. At(s, P) \in Seq(T) /\ k \in 1..Len(At(s, P)) /\ At(s, P)[k] = s[i]
      BY AtPlaces
    <2> HIDE DEF k
    <2> QED BY <2>1 DEF Range
  <1> QED BY <1>1, <1>2

\* Every place kept is the sequence itself.
LEMMA AtAll ==
    ASSUME NEW T, NEW s \in Seq(T)
    PROVE  At(s, 1..Len(s)) = s
  <1> DEFINE P == 1..Len(s)
  <1>1. Len(s) \in Nat /\ P \in SUBSET (1..Len(s))
    OBVIOUS
  <1>2. Cardinality(P) = Len(s)
    <2>1. Cardinality(1..Len(s)) = IF 1 > Len(s) THEN 0 ELSE Len(s) - 1 + 1
      BY <1>1, FS_Interval
    <2> QED BY <1>1, <2>1
  <1>3. ASSUME NEW i \in P PROVE Rank(P, i) = i
    <2>1. {j \in P : j <= i} = 1..i
      BY <1>1
    <2>2. i \in Nat \ {0}
      BY <1>1
    <2>3. Cardinality(1..i) = IF 1 > i THEN 0 ELSE i - 1 + 1
      BY <2>2, FS_Interval
    <2>4. Cardinality(1..i) = i
      BY <2>2, <2>3
    <2> QED BY <2>1, <2>4 DEF Rank
  <1>4. At(s, P) \in Seq(T) /\ Len(At(s, P)) = Len(s)
    BY <1>1, <1>2, AtPlaces
  <1>5. ASSUME NEW i \in 1..Len(s) PROVE At(s, P)[i] = s[i]
    BY <1>1, <1>3, AtPlaces
  <1> QED BY <1>4, <1>5, SeqEqual

\* Places moved up by n are as many.
LEMMA Moved ==
    ASSUME NEW n \in Nat, NEW X \in SUBSET Nat, IsFiniteSet(X)
    PROVE  /\ IsFiniteSet({n + j : j \in X})
           /\ Cardinality({n + j : j \in X}) = Cardinality(X)
  <1> DEFINE Y == {n + j : j \in X}
             f == [j \in X |-> n + j]
  <1>1. f \in [X -> Y] /\ (\A y \in Y : \E j \in X : f[j] = y)
    OBVIOUS
  <1>2. \A i, j \in X : f[i] = f[j] => i = j
    <2> SUFFICES ASSUME NEW i \in X, NEW j \in X, n + i = n + j PROVE i = j
      OBVIOUS
    <2> QED BY i \in Nat, j \in Nat
  <1> HIDE DEF f, Y
  <1>3. f \in Bijection(X, Y)
    BY <1>1, <1>2 DEF Bijection, Injection, Surjection, IsInjective
  <1>4. ExistsBijection(X, Y)
    BY <1>3 DEF ExistsBijection
  <1> QED BY <1>4, FS_Bijection DEF Y

\* Two sets of places, the second moved up by n.
Joined(n, P, Q) == P \cup {n + j : j \in Q}

\* Ranks in two sets of places, the second moved up beyond the first.
LEMMA RanksOfBoth ==
    ASSUME NEW n \in Nat, NEW m \in Nat,
           NEW P \in SUBSET (1..n), NEW Q \in SUBSET (1..m)
    PROVE  LET R == Joined(n, P, Q) IN
           /\ Cardinality(R) = Cardinality(P) + Cardinality(Q)
           /\ \A i \in P : Rank(R, i) = Rank(P, i)
           /\ \A j \in Q : Rank(R, n + j) = Cardinality(P) + Rank(Q, j)
  <1> DEFINE R == Joined(n, P, Q)
  <1> USE DEF Joined
  <1>1. /\ IsFiniteSet(P) /\ Cardinality(P) \in Nat
        /\ IsFiniteSet(Q) /\ Cardinality(Q) \in Nat
    <2>1. IsFiniteSet(P) /\ Cardinality(P) \in 0..n
      BY Ranks
    <2>2. IsFiniteSet(Q) /\ Cardinality(Q) \in 0..m
      BY Ranks
    <2> QED BY <2>1, <2>2
  <1>2. ASSUME NEW X \in SUBSET Q
        PROVE  /\ Cardinality(P \cup {n + j : j \in X}) = Cardinality(P) + Cardinality(X)
    <2>1. IsFiniteSet(X) /\ X \in SUBSET Nat
      <3>1. IsFiniteSet(X)
        BY <1>1, FS_Subset
      <3>2. \A j \in X : j \in 1..m
        OBVIOUS
      <3> QED BY <3>1, <3>2
    <2>2. /\ IsFiniteSet({n + j : j \in X})
          /\ Cardinality({n + j : j \in X}) = Cardinality(X)
      BY <2>1, Moved
    <2>3. P \cap {n + j : j \in X} = {}
      <3> SUFFICES ASSUME NEW j \in X, n + j \in P PROVE FALSE
        OBVIOUS
      <3> QED BY j \in 1..m, n + j \in 1..n
    <2>4. Cardinality(X) \in Nat
      BY <2>1, FS_CardinalityType
    <2>5. Cardinality(P \cup {n + j : j \in X})
            = Cardinality(P) + Cardinality({n + j : j \in X}) - Cardinality({})
      BY <1>1, <2>2, <2>3, FS_Union
    <2> QED BY <1>1, <2>2, <2>4, <2>5, FS_EmptySet
  <1>3. Cardinality(R) = Cardinality(P) + Cardinality(Q)
    BY <1>2
  <1>4. ASSUME NEW i \in P PROVE Rank(R, i) = Rank(P, i)
    <2>1. i \in 1..n /\ \A j \in Q : ~(n + j <= i)
      <3>1. i \in 1..n
        OBVIOUS
      <3>2. \A j \in Q : j \in 1..m
        OBVIOUS
      <3> QED BY <3>1, <3>2
    <2>2. {k \in R : k <= i} = {k \in P : k <= i}
      BY <2>1
    <2> QED BY <2>2 DEF Rank
  <1>5. ASSUME NEW j \in Q PROVE Rank(R, n + j) = Cardinality(P) + Rank(Q, j)
    <2> DEFINE X == {k \in Q : k <= j}
    <2>1. j \in 1..m /\ (\A k \in Q : k \in 1..m) /\ \A i \in P : i \in 1..n
      OBVIOUS
    <2>2. \A i \in P : i <= n + j
      BY <2>1
    <2>3. \A k \in Q : n + k <= n + j <=> k <= j
      BY <2>1
    <2>4. {k \in R : k <= n + j} = P \cup {n + k : k \in X}
      BY <2>2, <2>3
    <2>5. Cardinality(P \cup {n + k : k \in X}) = Cardinality(P) + Cardinality(X)
      BY <1>2
    <2> QED BY <2>4, <2>5 DEF Rank
  <1> QED BY <1>3, <1>4, <1>5

\* What is kept of a concatenation is what is kept of its two parts.
LEMMA AtConcat ==
    ASSUME NEW T, NEW s \in Seq(T), NEW t \in Seq(T),
           NEW P \in SUBSET (1..Len(s)), NEW Q \in SUBSET (1..Len(t))
    PROVE  At(Cat(s, t), Joined(Len(s), P, Q)) = Cat(At(s, P), At(t, Q))
  <1> DEFINE n == Len(s)
             R == Joined(n, P, Q)
             u == Cat(s, t)
  <1>0. n \in Nat /\ Len(t) \in Nat
    OBVIOUS
  <1>a. /\ u \in Seq(T) /\ Len(u) = n + Len(t)
        /\ \A i \in 1..(n + Len(t)) : u[i] = IF i <= n THEN s[i] ELSE t[i - n]
    BY CatProperties
  <1>1. n \in Nat /\ Len(t) \in Nat /\ u \in Seq(T) /\ Len(u) = n + Len(t)
    BY <1>0, <1>a
  <1>2. R \in SUBSET (1..Len(u))
    <2>1. \A i \in P : i \in 1..Len(u)
      BY <1>1
    <2>2. \A j \in Q : n + j \in 1..Len(u)
      <3> SUFFICES ASSUME NEW j \in Q PROVE n + j \in 1..Len(u)
        OBVIOUS
      <3> QED BY <1>1, j \in 1..Len(t)
    <2> QED BY <2>1, <2>2 DEF Joined
  <1>3. /\ Cardinality(R) = Cardinality(P) + Cardinality(Q)
        /\ \A i \in P : Rank(R, i) = Rank(P, i)
        /\ \A j \in Q : Rank(R, n + j) = Cardinality(P) + Rank(Q, j)
    BY <1>1, RanksOfBoth
  <1>4. /\ At(s, P) \in Seq(T) /\ Len(At(s, P)) = Cardinality(P)
        /\ \A i \in P : /\ Rank(P, i) \in 1..Len(At(s, P))
                        /\ At(s, P)[Rank(P, i)] = s[i]
    BY AtPlaces
  <1>5. /\ At(t, Q) \in Seq(T) /\ Len(At(t, Q)) = Cardinality(Q)
        /\ \A i \in Q : /\ Rank(Q, i) \in 1..Len(At(t, Q))
                        /\ At(t, Q)[Rank(Q, i)] = t[i]
    BY AtPlaces
  <1>6. /\ At(u, R) \in Seq(T) /\ Len(At(u, R)) = Cardinality(R)
        /\ \A k \in 1..Len(At(u, R)) :
                 \E i \in R : Rank(R, i) = k /\ At(u, R)[k] = u[i]
    BY <1>1, <1>2, AtPlaces
  <1> DEFINE a == At(s, P)
             b == At(t, Q)
  <1>7. /\ Cat(a, b) \in Seq(T)
        /\ Len(Cat(a, b)) = Len(a) + Len(b)
        /\ \A i \in 1 .. Len(a) + Len(b) : Cat(a, b)[i] =
                     IF i <= Len(a) THEN a[i] ELSE b[i - Len(a)]
    BY <1>4, <1>5, CatProperties
  <1>8. ASSUME NEW k \in 1..Len(At(u, R)) PROVE At(u, R)[k] = Cat(a, b)[k]
    <2>1. Len(a) \in Nat /\ Len(b) \in Nat /\ k \in 1..(Len(a) + Len(b))
      BY <1>3, <1>4, <1>5, <1>6
    <2>2. PICK i \in R : Rank(R, i) = k /\ At(u, R)[k] = u[i]
      BY <1>6
    <2>5. i \in P \/ \E j \in Q : i = n + j
      BY <2>2 DEF Joined
    <2>3. CASE i \in P
      <3>1. i \in 1..n /\ u[i] = s[i]
        BY <1>1, <1>a, <2>3
      <3>2. k <= Len(a) /\ a[k] = s[i]
        <4>1. Rank(P, i) = k /\ Rank(P, i) \in 1..Len(a) /\ a[Rank(P, i)] = s[i]
          BY <1>3, <1>4, <2>2, <2>3
        <4> QED BY <2>1, <4>1
      <3> QED BY <1>7, <2>1, <2>2, <3>1, <3>2
    <2>4. ASSUME NEW j \in Q, i = n + j PROVE At(u, R)[k] = Cat(a, b)[k]
      <3>1. j \in 1..Len(t) /\ u[i] = t[j]
        <4>1. j \in 1..Len(t)
          OBVIOUS
        <4>2. n + j \in 1..(n + Len(t)) /\ ~(n + j <= n) /\ (n + j) - n = j
          BY <1>1, <4>1
        <4> QED BY <1>a, <2>4, <4>1, <4>2
      <3>2. k = Len(a) + Rank(Q, j) /\ Rank(Q, j) \in 1..Len(b) /\ b[Rank(Q, j)] = t[j]
        BY <1>3, <1>4, <1>5, <2>2, <2>4
      <3>3. ~(k <= Len(a)) /\ k - Len(a) = Rank(Q, j)
        BY <2>1, <3>2
      <3> QED BY <1>7, <2>1, <2>2, <3>1, <3>2, <3>3
    <2> QED BY <2>3, <2>4, <2>5
  <1>9. Len(At(u, R)) = Len(Cat(a, b))
    BY <1>3, <1>4, <1>5, <1>6, <1>7
  <1> HIDE DEF u, R, a, b
  <1>10. At(u, R) = Cat(a, b)
    BY <1>6, <1>7, <1>8, <1>9, SeqEqual
  <1> QED BY <1>10 DEF u, R, a, b

-----------------------------------------------------------------------------
(* The invariant. *)

Ascending(s) == \A i, j \in DOMAIN s : i < j => s[i] < s[j]

Below(s, t) == \A x \in Range(s), y \in Range(t) : x < y

\* Calls that wait for room, or are about to look for it.
Waiting(c) == call[c].phase \in {"blocked", "woken"}

\* The drain loop holds a batch exactly while it sends it, ends only when the
\* queue is empty or the uploader closed, and sleeps on a batch to send again.
LoopInv ==
    /\ loop = "sending" <=> batch # <<>>
    /\ \A e \in Range(batch) : Sendable(e)
    /\ loop = "idle" /\ ~closed => pending = <<>>
    /\ loop = "sleeping" /\ ~closed => pending # <<>> /\ Sendable(pending[1])

\* Who waits for room waits for an open uploader whose loop runs.
BlockedInv ==
    \A c \in Calls : call[c].phase = "blocked" =>
        ~closed /\ (Len(call[c].items) <= MaxQueue => loop # "idle")

\* close uses its call once, and closes the uploader when that has ended.
CloserInv ==
    /\ call[Closer].phase \in {"unused", "flushing", "returned", "cut"}
    /\ closed => call[Closer].phase \in {"returned", "cut"}

\* The events accepted and not settled, those that cannot be sent included.
Line == Cat(batch, pending)

\* The events a call answers for are posted or refused, or still under way as
\* long as the call has not returned.
Answered(c) ==
    \A i \in DOMAIN call[c].items :
        Sendable(call[c].items[i]) =>
            call[c].items[i] \in Range(posted) \cup refused

UnderWay(c) ==
    \A i \in DOMAIN call[c].items :
        Sendable(call[c].items[i]) =>
            call[c].items[i] \in Range(posted) \cup refused \cup Range(Line)

FlushInv ==
    \A c \in Calls :
        /\ call[c].before <= dropped
        /\ call[c].flushes /\ call[c].before = dropped =>
              /\ call[c].phase \in {"enqueued", "flushing"} /\ ~closed => UnderWay(c)
              /\ call[c].phase = "returned" /\ (~closed \/ c = Closer) => Answered(c)

\* Before anybody waited for room, all that was written is in line.
Ordered ==
    /\ Ascending(posted) /\ Ascending(Line) /\ Ascending(buffer)
    /\ Below(posted, Line) /\ Below(posted, buffer) /\ Below(Line, buffer)
    /\ \A e \in Range(posted) \cup Range(Line) \cup Range(buffer) : e <= written

OrderInv == ~everBlocked => Ordered /\ \A c \in Calls : ~Waiting(c)

IInv == TypeOK /\ LoopInv /\ BlockedInv /\ CloserInv /\ FlushInv /\ OrderInv

-----------------------------------------------------------------------------
(* What takeBatch keeps of the queue. *)

\* The sendable events, and only those.
LEMMA SendableKept ==
    ASSUME NEW s \in Seq(Events)
    PROVE  /\ SendableIn(s) \in Seq(Events)
           /\ Range(SendableIn(s)) = {e \in Range(s) : Sendable(e)}
           /\ Len(SendableIn(s)) <= Len(s)
  <1> DEFINE P == {i \in DOMAIN s : Sendable(s[i])}
  <1>1. Len(s) \in Nat /\ DOMAIN s = 1..Len(s) /\ P \in SUBSET (1..Len(s))
    OBVIOUS
  <1>2. SendableIn(s) = At(s, P)
    BY DEF SendableIn
  <1>3. Cardinality(P) \in 0..Len(s)
    BY <1>1, Ranks
  <1> HIDE DEF P
  <1>4. At(s, P) \in Seq(Events) /\ Len(At(s, P)) = Cardinality(P)
    BY <1>1, AtPlaces
  <1>5. Range(At(s, P)) = {s[i] : i \in P}
    BY <1>1, AtRange
  <1>6. {s[i] : i \in P} = {e \in Range(s) : Sendable(e)}
    BY <1>1 DEF P, Range
  <1> QED BY <1>1, <1>2, <1>3, <1>4, <1>5, <1>6

\* Nothing sendable is left exactly when there was nothing sendable.
LEMMA SendableEmpty ==
    ASSUME NEW s \in Seq(Events)
    PROVE  SendableIn(s) = <<>> <=> \A e \in Range(s) : ~Sendable(e)
  <1>1. /\ SendableIn(s) \in Seq(Events)
        /\ Range(SendableIn(s)) = {e \in Range(s) : Sendable(e)}
    BY SendableKept
  <1>2. SendableIn(s) = <<>> <=> Range(SendableIn(s)) = {}
    <2> DEFINE q == SendableIn(s)
    <2>1. q \in Seq(Events)
      BY <1>1
    <2> HIDE DEF q
    <2>2. q = <<>> <=> Range(q) = {}
      <3>1. CASE q = <<>>
        BY <3>1 DEF Range
      <3>2. CASE q # <<>>
        <4>1. 1 \in DOMAIN q
          BY <2>1, <3>2
        <4> QED BY <3>2, <4>1 DEF Range
      <3> QED BY <3>1, <3>2
    <2> QED BY <2>2 DEF q
  <1> QED BY <1>1, <1>2

\* Where every event is sendable nothing is dropped.
LEMMA SendableAll ==
    ASSUME NEW s \in Seq(Events), \A e \in Range(s) : Sendable(e)
    PROVE  SendableIn(s) = s
  <1>1. DOMAIN s = 1..Len(s)
    OBVIOUS
  <1>2. {i \in DOMAIN s : Sendable(s[i])} = 1..Len(s)
    BY <1>1 DEF Range
  <1> QED BY <1>2, AtAll DEF SendableIn

\* Filtering two joined queues is joining the filtered ones.
LEMMA SendableConcat ==
    ASSUME NEW s \in Seq(Events), NEW t \in Seq(Events)
    PROVE  SendableIn(Cat(s, t)) = Cat(SendableIn(s), SendableIn(t))
  <1> DEFINE P == {i \in 1..Len(s) : Sendable(s[i])}
             Q == {i \in 1..Len(t) : Sendable(t[i])}
             R == Joined(Len(s), P, Q)
  <1>1. /\ Len(s) \in Nat /\ DOMAIN s = 1..Len(s)
        /\ Len(t) \in Nat /\ DOMAIN t = 1..Len(t)
    OBVIOUS
  <1>2. /\ DOMAIN Cat(s, t) = 1..(Len(s) + Len(t))
        /\ \A i \in 1..(Len(s) + Len(t)) :
              Cat(s, t)[i] = IF i <= Len(s) THEN s[i] ELSE t[i - Len(s)]
    BY CatProperties
  <1>3. {i \in DOMAIN Cat(s, t) : Sendable(Cat(s, t)[i])} = R
    <2>1. ASSUME NEW i \in DOMAIN Cat(s, t), Sendable(Cat(s, t)[i]) PROVE i \in R
      <3>1. i \in 1..(Len(s) + Len(t))
        BY <1>2
      <3>2. CASE i <= Len(s)
        BY <1>1, <1>2, <2>1, <3>1, <3>2 DEF Joined
      <3>3. CASE ~(i <= Len(s))
        <4>1. i - Len(s) \in 1..Len(t) /\ i = Len(s) + (i - Len(s))
          BY <1>1, <3>1, <3>3
        <4>2. i - Len(s) \in Q
          BY <1>2, <2>1, <3>1, <3>3, <4>1
        <4> QED BY <4>1, <4>2 DEF Joined
      <3> QED BY <3>2, <3>3
    <2>2. ASSUME NEW i \in P PROVE i \in DOMAIN Cat(s, t) /\ Sendable(Cat(s, t)[i])
      BY <1>1, <1>2
    <2>3. ASSUME NEW j \in Q
          PROVE  Len(s) + j \in DOMAIN Cat(s, t) /\ Sendable(Cat(s, t)[Len(s) + j])
      <3>1. j \in 1..Len(t) /\ Sendable(t[j])
        OBVIOUS
      <3>2. /\ Len(s) + j \in 1..(Len(s) + Len(t))
            /\ ~(Len(s) + j <= Len(s)) /\ Len(s) + j - Len(s) = j
        BY <1>1, <3>1
      <3> QED BY <1>2, <3>1, <3>2
    <2> QED BY <2>1, <2>2, <2>3 DEF Joined
  <1>4. SendableIn(Cat(s, t)) = At(Cat(s, t), R)
    BY <1>3 DEF SendableIn
  <1>5. SendableIn(s) = At(s, P) /\ SendableIn(t) = At(t, Q)
    BY <1>1 DEF SendableIn
  <1>6. P \in SUBSET (1..Len(s)) /\ Q \in SUBSET (1..Len(t))
    OBVIOUS
  <1> HIDE DEF P, Q
  <1>7. At(Cat(s, t), R) = Cat(At(s, P), At(t, Q))
    BY <1>6, AtConcat
  <1> QED BY <1>4, <1>5, <1>7

\* In order.
LEMMA SendableAscending ==
    ASSUME NEW s \in Seq(Events), Ascending(s)
    PROVE  Ascending(SendableIn(s))
  <1> DEFINE P == {i \in DOMAIN s : Sendable(s[i])}
             q == At(s, P)
  <1>1. Len(s) \in Nat /\ DOMAIN s = 1..Len(s) /\ P \in SUBSET (1..Len(s))
    OBVIOUS
  <1>2. SendableIn(s) = q
    BY DEF SendableIn
  <1> HIDE DEF P
  <1>3. /\ q \in Seq(Events)
        /\ \A k \in 1..Len(q) : \E i \in P : Rank(P, i) = k /\ q[k] = s[i]
    BY <1>1, AtPlaces
  <1>4. \A i, j \in P : i < j => Rank(P, i) < Rank(P, j)
    BY <1>1, Ranks
  <1> HIDE DEF q
  <1>5. ASSUME NEW k \in DOMAIN q, NEW l \in DOMAIN q, k < l
        PROVE  q[k] < q[l]
    <2>1. k \in 1..Len(q) /\ l \in 1..Len(q)
      BY <1>3
    <2>2. PICK i \in P : Rank(P, i) = k /\ q[k] = s[i]
      BY <1>3, <2>1
    <2>3. PICK j \in P : Rank(P, j) = l /\ q[l] = s[j]
      BY <1>3, <2>1
    <2>4. i \in 1..Len(s) /\ j \in 1..Len(s)
      BY <1>1
    <2>5. ~(j < i) /\ i # j
      BY <1>3, <1>4, <1>5, <2>1, <2>2, <2>3
    <2> QED BY <1>1, <2>2, <2>3, <2>4, <2>5 DEF Ascending
  <1> QED BY <1>2, <1>5 DEF Ascending

-----------------------------------------------------------------------------
(* Sequences in ascending order. *)

\* Two sequences joined are in order when each is, and the first is below the second.
LEMMA AscendingConcat ==
    ASSUME NEW s \in Seq(Events), NEW t \in Seq(Events)
    PROVE  Ascending(Cat(s, t)) <=> Ascending(s) /\ Ascending(t) /\ Below(s, t)
  <1> USE DEF Events
  <1> DEFINE u == Cat(s, t)
             m == Len(s)
             n == Len(t)
  <1>1. /\ m \in Nat /\ DOMAIN s = 1..m
        /\ n \in Nat /\ DOMAIN t = 1..n
        /\ u \in Seq(Events)
        /\ DOMAIN u = 1..(m + n)
        /\ \A i \in 1..(m + n) : u[i] = IF i <= m THEN s[i] ELSE t[i - m]
    <2>1. m \in Nat /\ DOMAIN s = 1..m /\ n \in Nat /\ DOMAIN t = 1..n
      OBVIOUS
    <2>2. /\ u \in Seq(Events)
          /\ DOMAIN u = 1..(m + n)
          /\ \A i \in 1..(m + n) : u[i] = IF i <= m THEN s[i] ELSE t[i - m]
      <3> HIDE DEF Events
      <3> QED BY CatProperties
    <2> QED BY <2>1, <2>2
  <1>2. /\ \A i \in 1..m : i \in 1..(m + n) /\ u[i] = s[i]
        /\ \A i \in 1..n : m + i \in 1..(m + n) /\ u[m + i] = t[i]
    <2>1. \A i \in 1..m : i \in 1..(m + n) /\ u[i] = s[i]
      BY <1>1
    <2>2. ASSUME NEW i \in 1..n PROVE m + i \in 1..(m + n) /\ u[m + i] = t[i]
      <3>1. m + i \in 1..(m + n) /\ ~(m + i <= m) /\ (m + i) - m = i
        BY <1>1
      <3> QED BY <1>1, <3>1
    <2> QED BY <2>1, <2>2
  <1> HIDE DEF u, m, n
  <1>3. ASSUME Ascending(u) PROVE Ascending(s) /\ Ascending(t) /\ Below(s, t)
    <2>1. Ascending(s)
      BY <1>1, <1>2, <1>3 DEF Ascending
    <2>2. Ascending(t)
      <3> SUFFICES ASSUME NEW i \in 1..n, NEW j \in 1..n, i < j PROVE t[i] < t[j]
        BY <1>1 DEF Ascending
      <3>1. m + i < m + j
        BY <1>1
      <3> QED BY <1>1, <1>2, <1>3, <3>1 DEF Ascending
    <2>3. Below(s, t)
      <3> SUFFICES ASSUME NEW i \in 1..m, NEW j \in 1..n PROVE s[i] < t[j]
        BY <1>1 DEF Below, Range
      <3>1. i < m + j
        BY <1>1
      <3> QED BY <1>1, <1>2, <1>3, <3>1 DEF Ascending
    <2> QED BY <2>1, <2>2, <2>3
  <1>4. ASSUME Ascending(s), Ascending(t), Below(s, t) PROVE Ascending(u)
    <2> SUFFICES ASSUME NEW i \in 1..(m + n), NEW j \in 1..(m + n), i < j
                 PROVE  u[i] < u[j]
      BY <1>1 DEF Ascending
    <2>1. CASE j <= m
      <3>1. i \in 1..m /\ j \in 1..m
        BY <1>1, <2>1
      <3> QED BY <1>1, <1>2, <1>4, <3>1 DEF Ascending
    <2>2. CASE i <= m /\ ~(j <= m)
      <3>1. i \in 1..m /\ j - m \in 1..n /\ u[i] = s[i] /\ u[j] = t[j - m]
        BY <1>1, <2>2
      <3>2. s[i] \in Range(s) /\ t[j - m] \in Range(t)
        BY <1>1, <3>1 DEF Range
      <3> QED BY <1>4, <3>1, <3>2 DEF Below
    <2>3. CASE ~(i <= m)
      <3>1. /\ i - m \in 1..n /\ j - m \in 1..n /\ i - m < j - m
            /\ u[i] = t[i - m] /\ u[j] = t[j - m]
        BY <1>1, <2>3
      <3> QED BY <1>1, <1>4, <3>1 DEF Ascending
    <2> QED BY <1>1, <2>1, <2>2, <2>3
  <1> QED BY <1>3, <1>4 DEF u

-----------------------------------------------------------------------------
(* The head of the drain loop. *)

\* A queue is what comes before a place and what comes after it.
LEMMA Split ==
    ASSUME NEW T, NEW s \in Seq(T), NEW n \in 1..Len(s)
    PROVE  /\ SubSeq(s, 1, n) \in Seq(T) /\ Len(SubSeq(s, 1, n)) = n
           /\ SubSeq(s, 1, n)[1] = s[1]
           /\ SubSeq(s, n + 1, Len(s)) \in Seq(T)
           /\ Len(SubSeq(s, n + 1, Len(s))) = Len(s) - n
           /\ s = Cat(SubSeq(s, 1, n), SubSeq(s, n + 1, Len(s)))
  <1>1. Len(s) \in Nat /\ n \in Nat /\ n >= 1 /\ n <= Len(s)
    OBVIOUS
  <1>2. /\ SubSeq(s, 1, n) \in Seq(T) /\ Len(SubSeq(s, 1, n)) = n
        /\ SubSeq(s, 1, n)[1] = s[1]
    BY <1>1
  <1>3. /\ SubSeq(s, n + 1, Len(s)) \in Seq(T)
        /\ Len(SubSeq(s, n + 1, Len(s))) = Len(s) - n
    BY <1>1
  <1>4. SubSeq(s, 1, n) \o SubSeq(s, n + 1, Len(s)) = SubSeq(s, 1, Len(s))
    <2>1. 1 \in 1..(Len(s) + 1) /\ n \in (1 - 1)..Len(s) /\ Len(s) \in n..Len(s)
      BY <1>1
    <2> QED BY <2>1, ConcatAdjacentSubSeq
  <1>5. SubSeq(s, 1, Len(s)) = s
    BY SubSeqFull
  <1> QED BY <1>2, <1>3, <1>4, <1>5 DEF Cat

\* r is q without some of the events that cannot be sent.
Carried(q, r) ==
    /\ r \in Seq(Events)
    /\ Range(r) \subseteq Range(q)
    /\ \A e \in Range(q) : Sendable(e) => e \in Range(r)
    /\ SendableIn(r) = SendableIn(q)
    /\ Ascending(q) => Ascending(r)
    /\ Len(r) <= Len(q)

\* What the loop does with the queue: it ends, or takes a batch off the head;
\* no sendable event is lost or moved.
LEMMA Turned ==
    ASSUME NEW queue \in Seq(Events), NEW cs, UploaderAssumption,
           LoopTurns(queue, cs)
    PROVE  /\ batch' \in Seq(Events) /\ pending' \in Seq(Events)
           /\ loop' \in {"idle", "sending"}
           /\ loop' = "sending" <=> batch' # <<>>
           /\ loop' = "idle" /\ ~closed => pending' = <<>>
           /\ \A e \in Range(batch') : Sendable(e)
           /\ Carried(queue, Cat(batch', pending'))
           /\ \/ call' = cs
              \/ call' = ResolveFlushes(cs) /\ batch' = <<>> /\ pending' = <<>>
           /\ queue # <<>> /\ Sendable(queue[1]) /\ ~closed => loop' = "sending"
  <1>1. Range(<<>>) = {} /\ Ascending(<<>>) /\ <<>> \in Seq(Events) /\ Len(<<>>) = 0
    BY DEF Range, Ascending
  <1>2. Len(queue) \in Nat
    OBVIOUS
  <1>3. CASE queue = <<>> \/ closed
    <2>1. /\ loop' = "idle" /\ batch' = <<>> /\ pending' = queue
          /\ call' = IF queue = <<>> THEN ResolveFlushes(cs) ELSE cs
      BY <1>3 DEF LoopTurns, LoopEnds
    <2>2. Cat(batch', pending') = queue
      BY <2>1, CatEmpty
    <2>3. Carried(queue, queue)
      BY <1>2 DEF Carried
    <2> QED BY <1>1, <1>3, <2>1, <2>2, <2>3
  <1>4. CASE ~(queue = <<>> \/ closed)
    <2>1. PICK n \in 1..Len(queue) :
            /\ BatchEndsAt(queue, n)
            /\ LET taken == SendableIn(SubSeq(queue, 1, n)) IN
               IF taken = <<>>
               THEN LoopEnds(<<>>, cs)
               ELSE /\ loop' = "sending"
                    /\ batch' = taken
                    /\ pending' = SubSeq(queue, n + 1, Len(queue))
                    /\ call' = cs
      BY <1>4 DEF LoopTurns
    <2> DEFINE head == SubSeq(queue, 1, n)
               rest == SubSeq(queue, n + 1, Len(queue))
               taken == SendableIn(head)
    <2>2. /\ head \in Seq(Events) /\ Len(head) = n /\ head[1] = queue[1]
          /\ rest \in Seq(Events) /\ Len(rest) = Len(queue) - n
          /\ queue = Cat(head, rest)
      BY Split
    <2>3. BatchEndsAt(queue, n)
      BY <2>1
    <2>4. IF taken = <<>>
          THEN LoopEnds(<<>>, cs)
          ELSE loop' = "sending" /\ batch' = taken /\ pending' = rest /\ call' = cs
      BY <2>1
    <2>5. taken = <<>> => n = Len(queue)
      BY <2>3 DEF BatchEndsAt, UploaderAssumption
    <2> HIDE DEF head, rest, taken
    <2>6. /\ taken \in Seq(Events)
          /\ Range(taken) = {e \in Range(head) : Sendable(e)}
          /\ Len(taken) <= n
      BY <2>2, SendableKept DEF taken
    <2>7. n \in Nat /\ Len(taken) \in Nat /\ Len(rest) \in Nat
      BY <2>2, <2>6
    <2>8. Range(queue) = Range(head) \cup Range(rest)
      BY <2>2, CatRange
    <2>9. head[1] \in Range(head)
      BY <2>2 DEF Range
    <2>10. CASE taken = <<>>
      <3>1. loop' = "idle" /\ batch' = <<>> /\ pending' = <<>> /\ call' = ResolveFlushes(cs)
        BY <2>4, <2>10 DEF LoopEnds
      <3>2. rest = <<>>
        BY <2>2, <2>5, <2>10
      <3>3. queue = head
        BY <2>2, <3>2, CatEmpty
      <3>4. \A e \in Range(queue) : ~Sendable(e)
        BY <2>6, <2>10, <3>3, <1>1
      <3>5. Cat(batch', pending') = <<>>
        BY <1>1, <3>1, CatEmpty
      <3>6. SendableIn(queue) = <<>> /\ SendableIn(<<>>) = <<>>
        BY <1>1, <3>4, SendableEmpty
      <3>7. ~Sendable(queue[1])
        BY <2>9, <3>3, <3>4
      <3>8. Carried(queue, <<>>)
        BY <1>1, <1>2, <3>4, <3>6 DEF Carried
      <3> QED BY <1>1, <3>1, <3>5, <3>7, <3>8
    <2>11. CASE taken # <<>>
      <3>1. loop' = "sending" /\ batch' = taken /\ pending' = rest /\ call' = cs
        BY <2>4, <2>11
      <3>2. Range(Cat(taken, rest)) = Range(taken) \cup Range(rest)
        BY <2>2, <2>6, CatRange
      <3>3. SendableIn(Cat(taken, rest)) = SendableIn(queue)
        <4>1. SendableIn(taken) = taken
          BY <2>6, SendableAll
        <4>2. SendableIn(Cat(taken, rest)) = Cat(SendableIn(taken), SendableIn(rest))
          BY <2>2, <2>6, SendableConcat
        <4>3. SendableIn(queue) = Cat(SendableIn(head), SendableIn(rest))
          BY <2>2, SendableConcat
        <4> QED BY <4>1, <4>2, <4>3 DEF taken
      <3>4. ASSUME Ascending(queue) PROVE Ascending(Cat(taken, rest))
        <4>1. Ascending(head) /\ Ascending(rest) /\ Below(head, rest)
          BY <2>2, <3>4, AscendingConcat
        <4>2. Ascending(taken)
          BY <2>2, <4>1, SendableAscending DEF taken
        <4>3. Below(taken, rest)
          BY <2>6, <4>1 DEF Below
        <4> QED BY <2>2, <2>6, <4>1, <4>2, <4>3, AscendingConcat
      <3>5. Len(taken) + Len(rest) <= Len(queue)
        BY <1>2, <2>2, <2>6, <2>7
      <3>6. /\ Range(Cat(taken, rest)) \subseteq Range(queue)
            /\ \A e \in Range(queue) : Sendable(e) => e \in Range(Cat(taken, rest))
        BY <2>6, <2>8, <3>2
      <3>7. Cat(taken, rest) \in Seq(Events) /\ Len(Cat(taken, rest)) = Len(taken) + Len(rest)
        BY <2>2, <2>6, CatProperties
      <3>8. Carried(queue, Cat(taken, rest))
        BY <3>3, <3>4, <3>5, <3>6, <3>7 DEF Carried
      <3> QED BY <2>2, <2>6, <2>11, <3>1, <3>8
    <2> QED BY <2>10, <2>11
  <1> QED BY <1>3, <1>4

-----------------------------------------------------------------------------
(* The callers. *)

Phases == {"unused", "blocked", "woken", "enqueued", "flushing", "returned", "cut"}

\* r is the call s, but for its phase.
SameCall(r, s) == r.flushes = s.flushes /\ r.items = s.items /\ r.before = s.before

\* Setting a phase gives a call that differs in nothing else.
LEMMA PhaseSet ==
    ASSUME NEW r \in Call, NEW p \in Phases
    PROVE  /\ [r EXCEPT !.phase = p] \in Call
           /\ [r EXCEPT !.phase = p].phase = p
           /\ SameCall([r EXCEPT !.phase = p], r)
  BY DEF Call, Phases, SameCall

\* Releasing the callers that wait for room changes their phase only.
LEMMA Released ==
    ASSUME NEW cs \in [Calls -> Call]
    PROVE  /\ Release(cs) \in [Calls -> Call]
           /\ \A c \in Calls :
                 /\ SameCall(Release(cs)[c], cs[c])
                 /\ Release(cs)[c].phase =
                       IF cs[c].phase = "blocked" THEN "woken" ELSE cs[c].phase
  <1>1. ASSUME NEW c \in Calls
        PROVE  /\ Release(cs)[c] \in Call
               /\ SameCall(Release(cs)[c], cs[c])
               /\ Release(cs)[c].phase =
                     IF cs[c].phase = "blocked" THEN "woken" ELSE cs[c].phase
    <2>1. cs[c] \in Call
      OBVIOUS
    <2> DEFINE r == [cs[c] EXCEPT !.phase = "woken"]
    <2>2. Release(cs)[c] = IF cs[c].phase = "blocked" THEN r ELSE cs[c]
      BY DEF Release
    <2>3. "woken" \in Phases
      BY DEF Phases
    <2>4. r \in Call /\ r.phase = "woken" /\ SameCall(r, cs[c])
      BY <2>1, <2>3, PhaseSet
    <2> HIDE DEF r
    <2> QED BY <2>1, <2>2, <2>4 DEF SameCall
  <1>2. Release(cs) \in [Calls -> Call]
    <2>1. Release(cs) = [c \in Calls |-> Release(cs)[c]]
      BY DEF Release
    <2> QED BY <1>1, <2>1
  <1> QED BY <1>1, <1>2

\* Resolving the callers in flush changes their phase only.
LEMMA Resolved ==
    ASSUME NEW cs \in [Calls -> Call]
    PROVE  /\ ResolveFlushes(cs) \in [Calls -> Call]
           /\ \A c \in Calls :
                 /\ SameCall(ResolveFlushes(cs)[c], cs[c])
                 /\ ResolveFlushes(cs)[c].phase =
                       IF cs[c].phase = "flushing" THEN "returned" ELSE cs[c].phase
  <1>1. ASSUME NEW c \in Calls
        PROVE  /\ ResolveFlushes(cs)[c] \in Call
               /\ SameCall(ResolveFlushes(cs)[c], cs[c])
               /\ ResolveFlushes(cs)[c].phase =
                     IF cs[c].phase = "flushing" THEN "returned" ELSE cs[c].phase
    <2>1. cs[c] \in Call
      OBVIOUS
    <2> DEFINE r == [cs[c] EXCEPT !.phase = "returned"]
    <2>2. ResolveFlushes(cs)[c] = IF cs[c].phase = "flushing" THEN r ELSE cs[c]
      BY DEF ResolveFlushes
    <2>3. "returned" \in Phases
      BY DEF Phases
    <2>4. r \in Call /\ r.phase = "returned" /\ SameCall(r, cs[c])
      BY <2>1, <2>3, PhaseSet
    <2> HIDE DEF r
    <2> QED BY <2>1, <2>2, <2>4 DEF SameCall
  <1>2. ResolveFlushes(cs) \in [Calls -> Call]
    <2>1. ResolveFlushes(cs) = [c \in Calls |-> ResolveFlushes(cs)[c]]
      BY DEF ResolveFlushes
    <2> QED BY <1>1, <2>1
  <1> QED BY <1>1, <1>2

\* Call c is this one in phase p, the others are as they were.
Placed(cs, c, this, p) ==
    /\ cs \in [Calls -> Call]
    /\ cs[c].phase = p /\ SameCall(cs[c], this)
    /\ \A d \in Calls \ {c} : cs[d] = call[d]

\* Updating one call leaves the others alone.
LEMMA PlaceCall ==
    ASSUME call \in [Calls -> Call], NEW c \in Calls, NEW this \in Call,
           NEW p \in Phases
    PROVE  Placed([call EXCEPT ![c] = [this EXCEPT !.phase = p]], c, this, p)
  <1> DEFINE r == [this EXCEPT !.phase = p]
  <1>1. r \in Call /\ r.phase = p /\ SameCall(r, this)
    BY PhaseSet
  <1> HIDE DEF r
  <1>2. Placed([call EXCEPT ![c] = r], c, this, p)
    BY <1>1 DEF Placed
  <1> QED BY <1>2 DEF r

\* What enqueue does: nothing, or it pushes the events, or the caller waits.
LEMMA EnqueueCases ==
    ASSUME call \in [Calls -> Call], NEW c \in Calls, NEW this \in Call,
           Enqueue(c, this)
    PROVE  \E cs, p :
              /\ Placed(cs, c, this, p)
              /\ \/ /\ p = IF this.flushes THEN "enqueued" ELSE "returned"
                    /\ \/ (closed \/ this.items = <<>>) /\ OnlyCalls(cs)
                       \/ ~closed /\ Push(this.items, cs)
                 \/ /\ p = "blocked" /\ ~closed /\ ~HasRoom(this.items)
                    /\ OnlyCalls(cs)
  <1> DEFINE q == IF this.flushes THEN "enqueued" ELSE "returned"
             past == [call EXCEPT ![c] = [this EXCEPT !.phase = q]]
             wait == [call EXCEPT ![c] = [this EXCEPT !.phase = "blocked"]]
  <1>1. /\ \/ (closed \/ this.items = <<>>) /\ OnlyCalls(past)
           \/ ~closed /\ Push(this.items, past)
           \/ ~closed /\ ~HasRoom(this.items) /\ OnlyCalls(wait)
    BY DEF Enqueue
  <1>2. q \in Phases /\ "blocked" \in Phases
    BY DEF Phases
  <1>3. Placed(past, c, this, q) /\ Placed(wait, c, this, "blocked")
    BY <1>2, PlaceCall
  <1>4. q = IF this.flushes THEN "enqueued" ELSE "returned"
    OBVIOUS
  <1> HIDE DEF q, past, wait
  <1> QED BY <1>1, <1>3, <1>4

-----------------------------------------------------------------------------
(* What the steps of the uploader do to its events and to the callers. *)

QueueTypes ==
    /\ pending \in Seq(Events) /\ batch \in Seq(Events)
    /\ loop \in {"idle", "sending", "sleeping"}
    /\ failures = 0 \/ failures \in 1..(MaxFailures - 1)

\* The loop leaves the callers alone, or lets those in flush go when nothing
\* is left.
CallsAfter(cs) ==
    \/ call' = cs
    \/ call' = ResolveFlushes(cs) /\ batch' = <<>> /\ pending' = <<>>

\* A line that stays is carried.
LEMMA CarriedSame ==
    ASSUME NEW q \in Seq(Events)
    PROVE  Carried(q, q)
  BY DEF Carried

\* The empty queue.
LEMMA NothingLeft ==
    /\ <<>> \in Seq(Events) /\ Range(<<>>) = {} /\ Len(<<>>) = 0
    /\ Ascending(<<>>) /\ Cat(<<>>, <<>>) = <<>>
  <1>1. <<>> \in Seq(Events) /\ Range(<<>>) = {} /\ Len(<<>>) = 0 /\ Ascending(<<>>)
    BY DEF Range, Ascending
  <1> QED BY <1>1, CatEmpty

\* The loop takes its next turn, of a queue that is all there is.
LEMMA TurnsLoop ==
    ASSUME NEW queue \in Seq(Events), NEW cs, UploaderAssumption,
           LoopTurns(queue, cs), UNCHANGED closed,
           failures' = 0 \/ failures' \in 1..(MaxFailures - 1)
    PROVE  /\ QueueTypes' /\ LoopInv' /\ CallsAfter(cs) /\ Carried(queue, Line')
           /\ queue # <<>> /\ Sendable(queue[1]) /\ ~closed => loop' # "idle"
  <1>1. /\ batch' \in Seq(Events) /\ pending' \in Seq(Events)
        /\ loop' \in {"idle", "sending"}
        /\ loop' = "sending" <=> batch' # <<>>
        /\ loop' = "idle" /\ ~closed => pending' = <<>>
        /\ \A e \in Range(batch') : Sendable(e)
        /\ Carried(queue, Cat(batch', pending'))
        /\ \/ call' = cs
           \/ call' = ResolveFlushes(cs) /\ batch' = <<>> /\ pending' = <<>>
        /\ queue # <<>> /\ Sendable(queue[1]) /\ ~closed => loop' = "sending"
    BY Turned
  <1>2. QueueTypes'
    BY <1>1 DEF QueueTypes
  <1>3. LoopInv'
    BY <1>1 DEF LoopInv, Sendable
  <1>4. Line' = Cat(batch', pending')
    BY DEF Line, Cat
  <1> QED BY <1>1, <1>2, <1>3, <1>4 DEF CallsAfter

\* Events are pushed onto an open queue, and the loop is started if it rests.
LEMMA Pushed ==
    ASSUME QueueTypes, LoopInv, UploaderAssumption, NEW items \in Seq(Events),
           NEW cs, ~closed, UNCHANGED closed, Push(items, cs)
    PROVE  /\ QueueTypes' /\ LoopInv' /\ CallsAfter(cs)
           /\ Carried(Cat(Line, items), Line')
           /\ loop # "idle" => loop' # "idle"
  <1> DEFINE q == Cat(pending, items)
  <1>1. q \in Seq(Events) /\ q = pending \o items
    BY CatProperties DEF QueueTypes, Cat
  <1>2. CASE loop = "idle"
    <2>1. pending = <<>> /\ batch = <<>>
      BY <1>2 DEF LoopInv
    <2>2. q = items /\ Line = <<>> /\ Cat(Line, items) = items
      BY <2>1, CatEmpty, NothingLeft DEF Line
    <2>3. LoopTurns(items, cs) /\ failures' = 0
      BY <1>1, <1>2, <2>2 DEF Push
    <2> QED BY <1>2, <2>2, <2>3, TurnsLoop
  <1>3. CASE loop # "idle"
    <2>1. /\ pending' = q /\ call' = cs
          /\ loop' = loop /\ batch' = batch /\ failures' = failures
      BY <1>1, <1>3 DEF Push
    <2>2. QueueTypes'
      BY <1>1, <2>1 DEF QueueTypes
    <2>3. pending # <<>> => q # <<>> /\ q[1] = pending[1]
      <3> SUFFICES ASSUME pending # <<>> PROVE q # <<>> /\ q[1] = pending[1]
        OBVIOUS
      <3>1. Len(pending) \in Nat /\ Len(items) \in Nat /\ Len(pending) >= 1
        BY DEF QueueTypes
      <3>2. /\ Len(q) = Len(pending) + Len(items)
            /\ \A i \in 1..(Len(pending) + Len(items)) :
                  q[i] = IF i <= Len(pending) THEN pending[i] ELSE items[i - Len(pending)]
        BY CatProperties DEF QueueTypes
      <3> HIDE DEF q
      <3>3. Len(q) # 0 /\ q[1] = pending[1]
        BY <3>1, <3>2
      <3> QED BY <3>3, NothingLeft
    <2> HIDE DEF q
    <2>4. LoopInv'
      BY <1>3, <2>1, <2>3 DEF LoopInv, Sendable
    <2>5. Line' = Cat(Line, items)
      <3>1. Line' = Cat(batch, q)
        BY <2>1 DEF Line, Cat
      <3> QED BY <3>1, CatAssociative DEF Line, QueueTypes, q
    <2>6. Cat(Line, items) \in Seq(Events)
      BY CatProperties DEF Line, QueueTypes
    <2> QED BY <1>3, <2>1, <2>2, <2>4, <2>5, <2>6, CarriedSame DEF CallsAfter
  <1> QED BY <1>2, <1>3

-----------------------------------------------------------------------------
(* The steps of the uploader, as its events and its callers see them. *)

\* The line stays, but for events that cannot be sent.
Keeps ==
    Carried(Line, Line') /\ UNCHANGED <<posted, refused, dropped, closed>>

\* Events join the end of the line of an open uploader.
Takes(items) ==
    /\ items \in Seq(Events) /\ ~closed
    /\ Carried(Cat(Line, items), Line')
    /\ UNCHANGED <<posted, refused, dropped, closed>>

\* The batch leaves the line, posted, refused or given up.
Posts ==
    /\ batch # <<>> /\ posted' = Cat(posted, batch)
    /\ Carried(pending, Line')
    /\ UNCHANGED <<refused, dropped, closed>>

Refuses ==
    /\ batch # <<>> /\ refused' = refused \cup Range(batch)
    /\ Carried(pending, Line')
    /\ UNCHANGED <<posted, dropped, closed>>

GivesUp ==
    /\ batch # <<>> /\ dropped' = dropped + 1
    /\ Carried(pending, Line')
    /\ UNCHANGED <<posted, refused, closed>>

\* Only the batch is left of the line.
Closes ==
    /\ ~closed /\ closed' /\ Line' = batch
    /\ UNCHANGED <<posted, refused, dropped>>

\* What a step may do to call c: move it on, or begin a new one.
MovesOn(c) ==
    LET r == call'[c] s == call[c] IN
    /\ SameCall(r, s)
    /\ \/ r.phase = s.phase
       \/ s.phase = "blocked" /\ r.phase = "woken"
       \/ s.phase = "enqueued" /\ r.phase = "flushing"
       \/ s.phase = "flushing" /\ r.phase = "cut"
       \/ /\ s.phase \in {"enqueued", "flushing"} /\ r.phase = "returned"
          /\ \/ Line' = <<>> /\ UNCHANGED closed
             \/ closed' /\ c # Closer

Begins(c) ==
    LET r == call'[c] IN
    /\ r.before <= dropped
    /\ \/ r.phase = "blocked"
       \/ r.phase = "returned" /\ ~r.flushes
       \/ r.phase = "enqueued" /\ (closed' \/ UnderWay(c)')
       \/ r.phase = "flushing" /\ UnderWay(c)'
       \/ r.phase = "returned" /\ UnderWay(c)' /\ Line' = <<>>

Goes(c) == MovesOn(c) \/ Begins(c)

\* No call begins.
Quiet == \A c \in Calls : MovesOn(c)

\* What is known of the uploader before a step of it.
Ready ==
    /\ QueueTypes /\ LoopInv /\ UploaderAssumption
    /\ posted \in Seq(Events) /\ refused \subseteq Events
    /\ dropped \in Nat /\ closed \in BOOLEAN
    /\ call \in [Calls -> Call]
    /\ BlockedInv /\ CloserInv

\* And after it.
Done ==
    /\ QueueTypes' /\ LoopInv' /\ call' \in [Calls -> Call]
    /\ BlockedInv' /\ CloserInv'
    /\ \A c \in Calls : Goes(c)

\* The calls after a turn of the loop.
LEMMA AfterTurn ==
    ASSUME NEW cs \in [Calls -> Call], CallsAfter(cs)
    PROVE  /\ call' \in [Calls -> Call]
           /\ \A c \in Calls :
                 /\ SameCall(call'[c], cs[c])
                 /\ \/ call'[c].phase = cs[c].phase
                    \/ /\ cs[c].phase = "flushing" /\ call'[c].phase = "returned"
                       /\ Line' = <<>>
  <1>1. CASE call' = cs
    BY <1>1 DEF SameCall
  <1>2. CASE call' = ResolveFlushes(cs) /\ batch' = <<>> /\ pending' = <<>>
    <2>1. Line' = <<>>
      <3>1. Line' = Cat(batch', pending')
        BY DEF Line, Cat
      <3> QED BY <1>2, <3>1, NothingLeft
    <2> QED BY <1>2, <2>1, Resolved
  <1> QED BY <1>1, <1>2 DEF CallsAfter

\* Where nothing is woken, cut or closed, the callers' invariants stay.
LEMMA CallersKept ==
    ASSUME Ready, UNCHANGED closed, loop # "idle" => loop' # "idle",
           \A c \in Calls :
              call'[c].phase = "blocked" =>
                 \/ SameCall(call'[c], call[c]) /\ call[c].phase = "blocked"
                 \/ ~closed /\ (Len(call'[c].items) <= MaxQueue => loop' # "idle"),
           \/ call'[Closer].phase = call[Closer].phase
           \/ call[Closer].phase \in {"unused", "flushing"} /\ call'[Closer].phase \in {"flushing", "returned"}
    PROVE  BlockedInv' /\ CloserInv'
  <1>1. BlockedInv'
    BY DEF Ready, BlockedInv, SameCall
  <1>2. CloserInv'
    BY DEF Ready, CloserInv
  <1> QED BY <1>1, <1>2

\* An enqueue, first or again.
LEMMA EnqueueStep ==
    ASSUME Ready, NEW c \in Calls, NEW this \in Call, c # Closer,
           this.before <= dropped, Enqueue(c, this),
           UNCHANGED <<closed, dropped, posted, refused>>
    PROVE  Done /\ (Keeps \/ Takes(this.items))
  <1> DEFINE items == this.items
  <1>1. /\ items \in Seq(Events) /\ this.flushes \in BOOLEAN
        /\ Line \in Seq(Events) /\ pending \in Seq(Events) /\ batch \in Seq(Events)
    <2>1. items \in Seq(Events) /\ this.flushes \in BOOLEAN
      BY DEF Call
    <2>2. pending \in Seq(Events) /\ batch \in Seq(Events)
      BY DEF Ready, QueueTypes
    <2> QED BY <2>1, <2>2, CatProperties DEF Line
  <1>2. PICK cs, p :
           /\ Placed(cs, c, this, p)
           /\ \/ /\ p = IF this.flushes THEN "enqueued" ELSE "returned"
                 /\ \/ (closed \/ items = <<>>) /\ OnlyCalls(cs)
                    \/ ~closed /\ Push(items, cs)
              \/ /\ p = "blocked" /\ ~closed /\ ~HasRoom(items)
                 /\ OnlyCalls(cs)
    BY EnqueueCases DEF Ready
  <1>3. /\ cs \in [Calls -> Call] /\ cs[c].phase = p
        /\ cs[c].items = items /\ cs[c].flushes = this.flushes
        /\ cs[c].before = this.before
        /\ \A d \in Calls \ {c} : cs[d] = call[d]
    BY <1>2 DEF Placed, SameCall
  <1>4. /\ QueueTypes' /\ LoopInv' /\ CallsAfter(cs)
        /\ loop # "idle" => loop' # "idle"
        /\ Keeps \/ Takes(items)
        /\ \/ p = "blocked" /\ call' = cs /\ ~closed
              /\ (Len(items) <= MaxQueue => loop' # "idle")
           \/ /\ p = IF this.flushes THEN "enqueued" ELSE "returned"
              /\ closed \/ items = <<>> \/ Takes(items)
    <2>1. ASSUME OnlyCalls(cs)
          PROVE  /\ QueueTypes' /\ LoopInv' /\ CallsAfter(cs)
                 /\ loop' = loop /\ Keeps /\ call' = cs
      <3>1. /\ UNCHANGED <<pending, loop, batch, failures>> /\ call' = cs
        BY <2>1 DEF OnlyCalls
      <3>2. QueueTypes' /\ LoopInv'
        BY <3>1 DEF Ready, QueueTypes, LoopInv, Sendable
      <3>3. Line' = Line
        BY <3>1 DEF Line, Cat
      <3>4. Carried(Line, Line')
        BY <1>1, <3>3, CarriedSame
      <3> QED BY <3>1, <3>2, <3>4 DEF Keeps, CallsAfter
    <2>2. ASSUME ~closed, Push(items, cs)
          PROVE  /\ QueueTypes' /\ LoopInv' /\ CallsAfter(cs) /\ Takes(items)
                 /\ loop # "idle" => loop' # "idle"
      BY <1>1, <2>2, Pushed DEF Ready, Takes
    <2>3. ASSUME ~HasRoom(items), ~closed, Len(items) <= MaxQueue PROVE loop # "idle"
      <3>1. Len(pending) + Len(items) > MaxQueue
        <4>1. Len(pending) \in Nat /\ Len(items) \in Nat /\ MaxQueue \in Nat
          BY <1>1 DEF Ready, UploaderAssumption
        <4> QED BY <2>3, <4>1 DEF HasRoom
      <3>2. Len(pending) \in Nat /\ Len(items) \in Nat /\ MaxQueue \in Nat
        BY <1>1 DEF Ready, UploaderAssumption
      <3>3. Len(pending) # 0
        BY <2>3, <3>1, <3>2
      <3>4. pending # <<>>
        BY <3>3, NothingLeft
      <3> QED BY <2>3, <3>4 DEF Ready, LoopInv
    <2>4. CASE (closed \/ items = <<>>) /\ OnlyCalls(cs)
               /\ p = IF this.flushes THEN "enqueued" ELSE "returned"
      BY <2>1, <2>4
    <2>5. CASE ~closed /\ Push(items, cs)
               /\ p = IF this.flushes THEN "enqueued" ELSE "returned"
      BY <2>2, <2>5
    <2>6. CASE p = "blocked" /\ ~closed /\ ~HasRoom(items) /\ OnlyCalls(cs)
      BY <2>1, <2>3, <2>6
    <2> QED BY <1>2, <2>4, <2>5, <2>6
  <1>5. /\ call' \in [Calls -> Call]
        /\ \A d \in Calls :
              /\ SameCall(call'[d], cs[d])
              /\ \/ call'[d].phase = cs[d].phase
                 \/ /\ cs[d].phase = "flushing" /\ call'[d].phase = "returned"
                    /\ Line' = <<>>
    BY <1>3, <1>4, AfterTurn
  <1> HIDE DEF items
  <1>6. p \in {"blocked", "enqueued", "returned"}
    BY <1>4
  <1>7. /\ call'[c].phase = p /\ call'[c].items = items
        /\ call'[c].flushes = this.flushes /\ call'[c].before = this.before
    BY <1>3, <1>5, <1>6 DEF SameCall
  <1>8. \A d \in Calls \ {c} :
           /\ SameCall(call'[d], call[d])
           /\ \/ call'[d].phase = call[d].phase
              \/ /\ call[d].phase = "flushing" /\ call'[d].phase = "returned"
                 /\ Line' = <<>>
    BY <1>3, <1>5
  <1>9. BlockedInv' /\ CloserInv'
    <2>1. Closer \in Calls \ {c}
      BY DEF Ready, UploaderAssumption, Calls, Closer
    <2>2. \/ call'[Closer].phase = call[Closer].phase
          \/ call[Closer].phase \in {"unused", "flushing"} /\ call'[Closer].phase \in {"flushing", "returned"}
      BY <1>8, <2>1
    <2>3. ASSUME NEW d \in Calls, call'[d].phase = "blocked"
          PROVE  \/ SameCall(call'[d], call[d]) /\ call[d].phase = "blocked"
                 \/ ~closed /\ (Len(call'[d].items) <= MaxQueue => loop' # "idle")
      <3>1. CASE d = c
        <4>1. ~closed /\ (Len(items) <= MaxQueue => loop' # "idle")
          BY <1>4, <1>7, <2>3, <3>1
        <4> QED BY <1>7, <3>1, <4>1
      <3>2. CASE d # c
        BY <1>8, <2>3, <3>2
      <3> QED BY <3>1, <3>2
    <2> QED BY <1>4, <2>2, <2>3, CallersKept
  <1>10. ASSUME NEW d \in Calls PROVE Goes(d)
    <2>1. CASE d # c
      BY <1>8, <2>1 DEF Goes, MovesOn
    <2>2. CASE d = c /\ p = "blocked"
      BY <1>7, <2>2 DEF Goes, Begins
    <2>3. CASE d = c /\ p = "returned"
      BY <1>4, <1>7, <2>3 DEF Goes, Begins
    <2>4. CASE d = c /\ p = "enqueued"
      <3>1. ASSUME ~closed' PROVE UnderWay(c)'
        <4>1. closed' = closed
          OBVIOUS
        <4>2. items = <<>> \/ Takes(items)
          BY <1>4, <2>4, <3>1, <4>1
        <4>3. CASE items = <<>>
          BY <1>7, <4>3 DEF UnderWay
        <4>4. CASE Takes(items)
          <5>1. Range(Cat(Line, items)) = Range(Line) \cup Range(items)
            BY <1>1, CatRange DEF items
          <5>2. \A e \in Range(items) : Sendable(e) => e \in Range(Line')
            BY <4>4, <5>1 DEF Takes, Carried
          <5>3. \A i \in DOMAIN items : items[i] \in Range(items)
            BY DEF Range
          <5>4. \A i \in DOMAIN items : Sendable(items[i]) => items[i] \in Range(Line')
            BY <5>2, <5>3
          <5> QED BY <1>7, <5>4 DEF UnderWay, Sendable
        <4> QED BY <4>2, <4>3, <4>4
      <3> QED BY <1>7, <2>4, <3>1 DEF Goes, Begins
    <2> QED BY <1>6, <2>1, <2>2, <2>3, <2>4
  <1> QED BY <1>4, <1>5, <1>9, <1>10 DEF Done, items

\* The queue is settled: nothing is in line.
LEMMA NothingInLine ==
    ASSUME Ready, NothingUnderWay
    PROVE  Line = <<>>
  <1>1. pending = <<>> /\ batch = <<>>
    BY DEF Ready, LoopInv, NothingUnderWay
  <1> QED BY <1>1, NothingLeft DEF Line

\* A step that leaves the queue alone.
LEMMA QueueStays ==
    ASSUME Ready, UNCHANGED <<pending, loop, batch, failures, closed, dropped, posted, refused>>
    PROVE  QueueTypes' /\ LoopInv' /\ Keeps /\ Line' = Line
  <1>1. QueueTypes' /\ LoopInv'
    BY DEF Ready, QueueTypes, LoopInv, Sendable
  <1>2. Line' = Line
    BY DEF Line, Cat
  <1>3. Line \in Seq(Events)
    BY CatProperties DEF Line, Ready, QueueTypes
  <1> QED BY <1>1, <1>2, <1>3, CarriedSame DEF Keeps

\* The flush that follows an enqueue.
LEMMA FlushStep ==
    ASSUME Ready, NEW c \in Calls, FlushAfterEnqueue(c)
    PROVE  Done /\ Keeps
  <1> DEFINE p == IF NothingUnderWay THEN "returned" ELSE "flushing"
             cs == [call EXCEPT ![c] = [call[c] EXCEPT !.phase = p]]
  <1>1. /\ call' = cs /\ call[c].phase = "enqueued"
        /\ UNCHANGED <<pending, loop, batch, failures, closed, dropped, posted, refused>>
    BY DEF FlushAfterEnqueue, Flush, OnlyCalls
  <1>2. p \in Phases /\ p \in {"returned", "flushing"}
    BY DEF Phases
  <1>3. call \in [Calls -> Call] /\ call[c] \in Call
    BY DEF Ready
  <1>4. Placed(cs, c, call[c], p)
    BY <1>2, <1>3, PlaceCall
  <1>5. p = "returned" => NothingUnderWay
    OBVIOUS
  <1> HIDE DEF p, cs
  <1>6. QueueTypes' /\ LoopInv' /\ Keeps /\ Line' = Line
    BY <1>1, QueueStays
  <1>7. /\ call' \in [Calls -> Call]
        /\ call'[c].phase = p /\ SameCall(call'[c], call[c])
        /\ \A d \in Calls \ {c} : call'[d] = call[d]
    BY <1>1, <1>4 DEF Placed
  <1>8. c # Closer
    BY <1>1 DEF Ready, CloserInv
  <1>9. Closer \in Calls
    BY DEF Ready, UploaderAssumption, Calls, Closer
  <1>10. BlockedInv' /\ CloserInv'
    <2>1. call'[Closer] = call[Closer]
      BY <1>7, <1>8, <1>9
    <2>2. \A d \in Calls : call'[d].phase = "blocked" =>
             SameCall(call'[d], call[d]) /\ call[d].phase = "blocked"
      BY <1>2, <1>7 DEF SameCall
    <2> QED BY <1>1, <2>1, <2>2, CallersKept
  <1>11. p = "returned" => Line' = <<>>
    BY <1>5, <1>6, NothingInLine
  <1>12. ASSUME NEW d \in Calls PROVE Goes(d)
    <2>1. CASE d = c
      BY <1>1, <1>2, <1>7, <1>11, <2>1 DEF Goes, MovesOn
    <2>2. CASE d # c
      BY <1>7, <2>2 DEF Goes, MovesOn, SameCall
    <2> QED BY <2>1, <2>2
  <1> QED BY <1>6, <1>7, <1>10, <1>12 DEF Done

\* The flush of close.
LEMMA CloseStep ==
    ASSUME Ready, Close
    PROVE  Done /\ Keeps
  <1> DEFINE this == NewCall(TRUE, batch \o pending)
             cs == [call EXCEPT ![Closer] = [this EXCEPT !.phase = CloserPhase]]
  <1>1. /\ call' = cs /\ call[Closer].phase = "unused"
        /\ UNCHANGED <<pending, loop, batch, failures, closed, dropped, posted, refused>>
    BY DEF Close, OnlyCalls
  <1>2. CloserPhase \in Phases /\ CloserPhase \in {"returned", "flushing"}
    BY DEF Phases, CloserPhase
  <1>3. call \in [Calls -> Call] /\ Closer \in Calls
    BY DEF Ready, UploaderAssumption, Calls, Closer
  <1>4. /\ this \in Call /\ this.items = Line
        /\ this.before = dropped
    <2>1. Line \in Seq(Events)
      BY CatProperties DEF Line, Ready, QueueTypes
    <2>2. batch \o pending = Line
      BY DEF Line, Cat
    <2>3. NewCall(TRUE, Line) \in Call
      BY <2>1 DEF NewCall, NoCall, Call, Ready
    <2>4. NewCall(TRUE, Line).items = Line /\ NewCall(TRUE, Line).before = dropped
      BY DEF NewCall, NoCall
    <2> QED BY <2>2, <2>3, <2>4
  <1> HIDE DEF this
  <1>5. Placed(cs, Closer, this, CloserPhase)
    BY <1>2, <1>3, <1>4, PlaceCall
  <1>6. CloserPhase = "returned" => NothingUnderWay
    BY DEF CloserPhase
  <1> HIDE DEF cs
  <1>7. QueueTypes' /\ LoopInv' /\ Keeps /\ Line' = Line
    BY <1>1, QueueStays
  <1>8. /\ call' \in [Calls -> Call]
        /\ call'[Closer].phase = CloserPhase
        /\ call'[Closer].items = Line /\ call'[Closer].before = dropped
        /\ \A d \in Calls \ {Closer} : call'[d] = call[d]
    BY <1>1, <1>4, <1>5 DEF Placed, SameCall
  <1>9. BlockedInv' /\ CloserInv'
    <2>1. \A d \in Calls : call'[d].phase = "blocked" =>
             SameCall(call'[d], call[d]) /\ call[d].phase = "blocked"
      BY <1>2, <1>8 DEF SameCall
    <2> QED BY <1>1, <1>2, <1>8, <2>1, CallersKept
  <1>10. UnderWay(Closer)'
    <2>1. \A i \in DOMAIN Line : Line[i] \in Range(Line)
      BY DEF Range
    <2> QED BY <1>7, <1>8, <2>1 DEF UnderWay
  <1>11. CloserPhase = "returned" => Line' = <<>>
    BY <1>6, <1>7, NothingInLine
  <1>12. ASSUME NEW d \in Calls PROVE Goes(d)
    <2>1. CASE d = Closer
      <3>1. call'[Closer].before <= dropped
        BY <1>8 DEF Ready
      <3> QED BY <1>2, <1>8, <1>10, <1>11, <2>1, <3>1 DEF Goes, Begins
    <2>2. CASE d # Closer
      BY <1>8, <2>2 DEF Goes, MovesOn, SameCall
    <2> QED BY <2>1, <2>2
  <1> QED BY <1>7, <1>8, <1>9, <1>12 DEF Done

\* The flush of the transport: the buffer handed to enqueue, and a flush.
LEMMA FlushNowStep ==
    ASSUME Ready, NEW c \in Calls, NEW d \in Calls, c # d, c # Closer, d # Closer,
           buffer \in Seq(Events), FlushNow(c, d),
           UNCHANGED <<closed, dropped, posted, refused>>
    PROVE  Done /\ (Keeps \/ Takes(buffer))
  <1> DEFINE open == ~closed /\ buffer # <<>>
             pushed == open /\ HasRoom(buffer)
             held == batch \o pending \o (IF pushed THEN buffer ELSE <<>>)
             pc == IF open /\ ~pushed THEN "blocked" ELSE "returned"
             pd == IF NothingUnderWay /\ ~pushed THEN "returned" ELSE "flushing"
             hand == [NewCall(FALSE, buffer) EXCEPT !.phase = pc]
             wait == [NewCall(TRUE, held) EXCEPT !.phase = pd]
             cs == [call EXCEPT ![c] = hand, ![d] = wait]
  <1>1. IF pushed THEN Push(buffer, cs) ELSE OnlyCalls(cs)
    BY DEF FlushNow
  <1>2. /\ batch \in Seq(Events) /\ pending \in Seq(Events) /\ Line \in Seq(Events)
        /\ call \in [Calls -> Call] /\ dropped \in Nat
    <2>1. batch \in Seq(Events) /\ pending \in Seq(Events)
      BY DEF Ready, QueueTypes
    <2> QED BY <2>1, CatProperties DEF Line, Ready
  <1>3. held = IF pushed THEN Cat(Line, buffer) ELSE Line
    <2>1. batch \o pending = Line
      BY DEF Line, Cat
    <2>2. CASE pushed
      BY <2>1, <2>2 DEF Cat
    <2>3. CASE ~pushed
      <3>1. held = Cat(Line, <<>>)
        BY <2>1, <2>3 DEF Cat
      <3> QED BY <1>2, <2>3, <3>1, CatEmpty
    <2> QED BY <2>2, <2>3
  <1>4. Cat(Line, buffer) \in Seq(Events)
        /\ Range(Cat(Line, buffer)) = Range(Line) \cup Range(buffer)
    BY <1>2, CatProperties
  <1>5. pc \in Phases /\ pd \in Phases
    BY DEF Phases
  <1>6. /\ pc \in {"blocked", "returned"} /\ pd \in {"flushing", "returned"}
        /\ pc = "blocked" => ~closed /\ ~HasRoom(buffer) /\ ~pushed
        /\ pd = "returned" => NothingUnderWay /\ ~pushed
        /\ pushed => ~closed
    OBVIOUS
  <1> HIDE DEF held, pc, pd, pushed, open
  <1>7. held \in Seq(Events)
    BY <1>2, <1>3, <1>4
  <1>8. /\ hand \in Call /\ hand.phase = pc /\ hand.before = dropped
        /\ hand.items = buffer /\ hand.flushes = FALSE
    <2>1. NewCall(FALSE, buffer) \in Call
      BY <1>2 DEF NewCall, NoCall, Call
    <2>2. /\ NewCall(FALSE, buffer).before = dropped
          /\ NewCall(FALSE, buffer).items = buffer
          /\ NewCall(FALSE, buffer).flushes = FALSE
      BY DEF NewCall, NoCall
    <2> QED BY <1>5, <2>1, <2>2, PhaseSet DEF SameCall
  <1>9. /\ wait \in Call /\ wait.phase = pd /\ wait.before = dropped
        /\ wait.items = held
    <2>1. NewCall(TRUE, held) \in Call
      BY <1>2, <1>7 DEF NewCall, NoCall, Call
    <2>2. NewCall(TRUE, held).before = dropped /\ NewCall(TRUE, held).items = held
      BY DEF NewCall, NoCall
    <2> QED BY <1>5, <2>1, <2>2, PhaseSet DEF SameCall
  <1> HIDE DEF hand, wait
  <1>10. /\ cs \in [Calls -> Call] /\ cs[c] = hand /\ cs[d] = wait
         /\ \A e \in Calls \ {c, d} : cs[e] = call[e]
    BY <1>2, <1>8, <1>9
  <1> HIDE DEF cs
  <1>11. /\ QueueTypes' /\ LoopInv' /\ CallsAfter(cs)
         /\ loop # "idle" => loop' # "idle"
         /\ Keeps \/ Takes(buffer)
         /\ Carried(held, Line')
         /\ ~pushed => Line' = Line
    <2>1. CASE pushed
      <3>1. ~closed /\ Push(buffer, cs)
        BY <1>1, <1>6, <2>1
      <3>2. /\ QueueTypes' /\ LoopInv' /\ CallsAfter(cs)
            /\ Carried(Cat(Line, buffer), Line')
            /\ loop # "idle" => loop' # "idle"
        BY <3>1, Pushed DEF Ready
      <3>3. Takes(buffer)
        BY <3>1, <3>2 DEF Takes
      <3> QED BY <1>3, <2>1, <3>2, <3>3
    <2>2. CASE ~pushed
      <3>1. /\ UNCHANGED <<pending, loop, batch, failures>> /\ call' = cs
        BY <1>1, <2>2 DEF OnlyCalls
      <3>2. QueueTypes' /\ LoopInv' /\ Keeps /\ Line' = Line
        BY <3>1, QueueStays
      <3> QED BY <1>2, <1>3, <2>2, <3>1, <3>2, CarriedSame DEF CallsAfter
    <2> QED BY <2>1, <2>2
  <1>12. /\ call' \in [Calls -> Call]
         /\ \A e \in Calls :
               /\ SameCall(call'[e], cs[e])
               /\ \/ call'[e].phase = cs[e].phase
                  \/ /\ cs[e].phase = "flushing" /\ call'[e].phase = "returned"
                     /\ Line' = <<>>
    BY <1>10, <1>11, AfterTurn
  <1>13. /\ call'[c].phase = pc /\ call'[c].before = dropped
         /\ call'[c].items = buffer /\ ~call'[c].flushes
    BY <1>6, <1>8, <1>10, <1>12 DEF SameCall
  <1>14. /\ call'[d].items = held /\ call'[d].before = dropped
         /\ \/ call'[d].phase = "flushing"
            \/ call'[d].phase = "returned" /\ Line' = <<>>
    <2>1. pd = "returned" => Line' = <<>>
      BY <1>6, <1>11, NothingInLine
    <2> QED BY <1>6, <1>9, <1>10, <1>12, <2>1 DEF SameCall
  <1>15. ASSUME pc = "blocked", Len(buffer) <= MaxQueue PROVE loop' # "idle"
    <2>1. Len(pending) \in Nat /\ Len(buffer) \in Nat /\ MaxQueue \in Nat
      BY <1>2 DEF Ready, UploaderAssumption
    <2>2. ~closed /\ ~(Len(pending) + Len(buffer) <= MaxQueue)
      BY <1>6, <1>15 DEF HasRoom
    <2>3. Len(pending) # 0
      BY <1>15, <2>1, <2>2
    <2>4. pending # <<>>
      BY <2>3, NothingLeft
    <2> QED BY <1>11, <2>2, <2>4 DEF Ready, LoopInv
  <1>16. BlockedInv' /\ CloserInv'
    <2>1. Closer \in Calls \ {c, d}
      BY DEF Ready, UploaderAssumption, Calls, Closer
    <2>2. \/ call'[Closer].phase = call[Closer].phase
          \/ call[Closer].phase \in {"unused", "flushing"} /\ call'[Closer].phase \in {"flushing", "returned"}
      BY <1>10, <1>12, <2>1
    <2>3. ASSUME NEW e \in Calls, call'[e].phase = "blocked"
          PROVE  \/ SameCall(call'[e], call[e]) /\ call[e].phase = "blocked"
                 \/ ~closed /\ (Len(call'[e].items) <= MaxQueue => loop' # "idle")
      <3>1. CASE e = c
        BY <1>6, <1>13, <1>15, <2>3, <3>1
      <3>2. CASE e = d
        BY <1>14, <2>3, <3>2
      <3>3. CASE e \notin {c, d}
        BY <1>10, <1>12, <2>3, <3>3
      <3> QED BY <3>1, <3>2, <3>3
    <2> QED BY <1>11, <2>2, <2>3, CallersKept
  <1>17. UnderWay(d)'
    <2>1. \A i \in DOMAIN held : held[i] \in Range(held)
      BY DEF Range
    <2>2. \A i \in DOMAIN held : Sendable(held[i]) => held[i] \in Range(Line')
      BY <1>11, <2>1 DEF Carried
    <2> QED BY <1>14, <2>2 DEF UnderWay, Sendable
  <1>18. ASSUME NEW e \in Calls PROVE Goes(e)
    <2>1. dropped <= dropped
      BY <1>2
    <2>2. CASE e = c
      BY <1>6, <1>13, <2>1, <2>2 DEF Goes, Begins
    <2>3. CASE e = d
      BY <1>14, <1>17, <2>1, <2>3 DEF Goes, Begins
    <2>4. CASE e \notin {c, d}
      BY <1>10, <1>12, <2>4 DEF Goes, MovesOn
    <2> QED BY <2>2, <2>3, <2>4
  <1> QED BY <1>11, <1>12, <1>16, <1>18 DEF Done

\* The close of the uploader, after the flush or instead of it.
LEMMA CloseUploaderStep ==
    ASSUME Ready, ~closed, NEW cs \in [Calls -> Call], CloseUploader(cs),
           \A c \in Calls \ {Closer} : cs[c] = call[c],
           SameCall(cs[Closer], call[Closer]),
           \/ cs[Closer].phase = "returned" /\ call[Closer].phase = "returned"
           \/ cs[Closer].phase = "cut" /\ call[Closer].phase = "flushing"
    PROVE  Done /\ Closes /\ Quiet
  <1>1. /\ closed' /\ pending' = <<>> /\ call' = ResolveFlushes(Release(cs))
        /\ UNCHANGED <<loop, batch, failures, dropped, posted, refused>>
    BY DEF CloseUploader
  <1>2. Closer \in Calls
    BY DEF Ready, UploaderAssumption, Calls, Closer
  <1>3. /\ Release(cs) \in [Calls -> Call]
        /\ \A c \in Calls :
              /\ SameCall(Release(cs)[c], cs[c])
              /\ Release(cs)[c].phase =
                    IF cs[c].phase = "blocked" THEN "woken" ELSE cs[c].phase
    BY Released
  <1>4. /\ call' \in [Calls -> Call]
        /\ \A c \in Calls :
              /\ SameCall(call'[c], Release(cs)[c])
              /\ call'[c].phase = IF Release(cs)[c].phase = "flushing" THEN "returned"
                                  ELSE Release(cs)[c].phase
    BY <1>1, <1>3, Resolved
  <1>5. QueueTypes' /\ LoopInv'
    BY <1>1, NothingLeft DEF Ready, QueueTypes, LoopInv, Sendable
  <1>6. Line' = batch
    <2>1. Line' = Cat(batch', pending')
      BY DEF Line, Cat
    <2> QED BY <1>1, <2>1, CatEmpty DEF Ready, QueueTypes
  <1>7. ASSUME NEW c \in Calls
        PROVE  /\ SameCall(call'[c], cs[c])
               /\ call'[c].phase = IF cs[c].phase = "blocked" THEN "woken"
                                   ELSE IF cs[c].phase = "flushing" THEN "returned"
                                   ELSE cs[c].phase
    BY <1>3, <1>4 DEF SameCall
  <1>8. BlockedInv' /\ CloserInv'
    <2>1. \A c \in Calls : call'[c].phase # "blocked"
      BY <1>7
    <2>2. call'[Closer].phase \in {"returned", "cut"}
      BY <1>2, <1>7
    <2> QED BY <2>1, <2>2 DEF BlockedInv, CloserInv
  <1>9. ASSUME NEW c \in Calls PROVE MovesOn(c)
    <2>1. CASE c = Closer
      <3>1. SameCall(call'[c], call[c])
        BY <1>7, <2>1 DEF SameCall
      <3>2. \/ call'[c].phase = call[c].phase
            \/ call[c].phase = "flushing" /\ call'[c].phase = "cut"
        BY <1>7, <2>1
      <3> QED BY <3>1, <3>2 DEF MovesOn
    <2>2. CASE c # Closer
      <3>1. SameCall(call'[c], call[c]) /\ cs[c] = call[c]
        BY <1>7, <2>2
      <3> QED BY <1>1, <1>7, <2>2, <3>1 DEF MovesOn
    <2> QED BY <2>1, <2>2
  <1> QED BY <1>1, <1>4, <1>5, <1>6, <1>8, <1>9 DEF Done, Goes, Closes, Quiet

\* The batch is settled, and the loop goes on with all callers woken that
\* waited for room.
LEMMA BatchSettled ==
    ASSUME Ready, loop = "sending", failures' = 0,
           LoopTurns(pending, Release(call)), UNCHANGED closed
    PROVE  Done /\ Quiet /\ Carried(pending, Line') /\ batch # <<>>
  <1>1. call \in [Calls -> Call] /\ pending \in Seq(Events) /\ UploaderAssumption
    BY DEF Ready, QueueTypes
  <1>2. /\ QueueTypes' /\ LoopInv' /\ CallsAfter(Release(call))
        /\ Carried(pending, Line')
    BY <1>1, TurnsLoop
  <1>3. /\ Release(call) \in [Calls -> Call]
        /\ \A c \in Calls :
              /\ SameCall(Release(call)[c], call[c])
              /\ Release(call)[c].phase =
                    IF call[c].phase = "blocked" THEN "woken" ELSE call[c].phase
    BY <1>1, Released
  <1>4. /\ call' \in [Calls -> Call]
        /\ \A c \in Calls :
              /\ SameCall(call'[c], Release(call)[c])
              /\ \/ call'[c].phase = Release(call)[c].phase
                 \/ /\ Release(call)[c].phase = "flushing" /\ call'[c].phase = "returned"
                    /\ Line' = <<>>
    BY <1>2, <1>3, AfterTurn
  <1>5. ASSUME NEW c \in Calls
        PROVE  /\ SameCall(call'[c], call[c])
               /\ \/ call'[c].phase = call[c].phase /\ call[c].phase # "blocked"
                  \/ call[c].phase = "blocked" /\ call'[c].phase = "woken"
                  \/ /\ call[c].phase = "flushing" /\ call'[c].phase = "returned"
                     /\ Line' = <<>>
    <2>1. SameCall(call'[c], call[c])
      BY <1>3, <1>4 DEF SameCall
    <2> QED BY <1>3, <1>4, <2>1
  <1>6. Closer \in Calls
    BY <1>1 DEF UploaderAssumption, Calls, Closer
  <1>7. BlockedInv'
    <2>1. \A c \in Calls : call'[c].phase # "blocked"
      BY <1>5
    <2> QED BY <2>1 DEF BlockedInv
  <1>8. CloserInv'
    <2>1. /\ call[Closer].phase \in {"unused", "flushing", "returned", "cut"}
          /\ closed => call[Closer].phase \in {"returned", "cut"}
      BY DEF Ready, CloserInv
    <2> QED BY <1>5, <1>6, <2>1 DEF CloserInv
  <1>9. Quiet
    BY <1>5 DEF Quiet, MovesOn
  <1>10. batch # <<>>
    BY DEF Ready, LoopInv
  <1> QED BY <1>2, <1>4, <1>7, <1>8, <1>9, <1>10 DEF Done, Goes, Quiet

\* The batch is posted.
LEMMA SendSucceedsStep ==
    ASSUME Ready, SendSucceeds
    PROVE  Done /\ Quiet /\ Posts
  <1>1. /\ loop = "sending" /\ posted' = Cat(posted, batch) /\ failures' = 0
        /\ LoopTurns(pending, Release(call)) /\ UNCHANGED <<closed, dropped, refused>>
    BY DEF SendSucceeds, Cat
  <1> QED BY <1>1, BatchSettled DEF Posts

\* The batch is refused.
LEMMA SendRefusedStep ==
    ASSUME Ready, SendRefused
    PROVE  Done /\ Quiet /\ Refuses
  <1>1. /\ loop = "sending" /\ refused' = refused \cup Range(batch) /\ failures' = 0
        /\ LoopTurns(pending, Release(call)) /\ UNCHANGED <<closed, dropped, posted>>
    BY DEF SendRefused
  <1> QED BY <1>1, BatchSettled DEF Refuses

\* The batch is given up.
LEMMA SendGivesUpStep ==
    ASSUME Ready, SendGivesUp
    PROVE  Done /\ Quiet /\ GivesUp
  <1>1. /\ loop = "sending" /\ dropped' = dropped + 1 /\ failures' = 0
        /\ LoopTurns(pending, Release(call)) /\ UNCHANGED <<closed, posted, refused>>
    BY DEF SendGivesUp
  <1> QED BY <1>1, BatchSettled DEF GivesUp

\* Where no call changes.
LEMMA CallsStay ==
    ASSUME Ready, UNCHANGED <<call, closed>>,
           \/ loop' # "idle"
           \/ \A c \in Calls : call[c].phase # "blocked"
    PROVE  BlockedInv' /\ CloserInv' /\ call' \in [Calls -> Call] /\ Quiet
  BY DEF Ready, BlockedInv, CloserInv, Quiet, MovesOn, SameCall

\* The batch that failed is again the head of the queue.
LEMMA SendFailsStep ==
    ASSUME Ready, SendFails
    PROVE  Done /\ Quiet /\ Keeps
  <1>1. /\ loop = "sending" /\ ~LastFailure
        /\ failures' = IF MaxFailures = 0 THEN 0 ELSE failures + 1
        /\ loop' = "sleeping" /\ pending' = Line /\ batch' = <<>>
        /\ UNCHANGED <<closed, dropped, call, posted, refused>>
    BY DEF SendFails, Requeue, Line, Cat
  <1>2. batch \in Seq(Events) /\ pending \in Seq(Events) /\ batch # <<>>
    BY <1>1 DEF Ready, QueueTypes, LoopInv
  <1>3. /\ Line \in Seq(Events)
        /\ Len(Line) = Len(batch) + Len(pending)
        /\ \A i \in 1..(Len(batch) + Len(pending)) :
              Line[i] = IF i <= Len(batch) THEN batch[i] ELSE pending[i - Len(batch)]
    BY <1>2, CatProperties DEF Line
  <1>4. Len(batch) \in Nat /\ Len(pending) \in Nat /\ Len(batch) >= 1
    BY <1>2
  <1>5. Len(Line) # 0 /\ Line[1] = batch[1]
    BY <1>3, <1>4
  <1>6. Sendable(batch[1])
    <2>1. batch[1] \in Range(batch)
      BY <1>2, <1>4 DEF Range
    <2> QED BY <2>1 DEF Ready, LoopInv
  <1>7. Line' = Line
    <2>1. Line' = Cat(batch', pending')
      BY DEF Line, Cat
    <2> QED BY <1>1, <1>3, <2>1, CatEmpty
  <1>8. failures' = 0 \/ failures' \in 1..(MaxFailures - 1)
    <2>1. MaxFailures \in Nat /\ (failures = 0 \/ failures \in 1..(MaxFailures - 1))
      BY DEF Ready, QueueTypes, UploaderAssumption
    <2> QED BY <1>1, <2>1 DEF LastFailure
  <1>9. QueueTypes'
    BY <1>1, <1>3, <1>8, NothingLeft DEF QueueTypes
  <1>10. LoopInv'
    <2>1. Line # <<>> /\ Sendable(Line[1])
      BY <1>5, <1>6, NothingLeft
    <2> QED BY <1>1, <2>1, NothingLeft DEF LoopInv, Sendable
  <1>11. Keeps
    BY <1>1, <1>3, <1>7, CarriedSame DEF Keeps
  <1>12. /\ BlockedInv' /\ CloserInv' /\ call' \in [Calls -> Call]
         /\ Quiet
    BY <1>1, CallsStay
  <1> QED BY <1>9, <1>10, <1>11, <1>12 DEF Done, Goes, Quiet

\* The backoff is over: the loop takes the head of the queue again.
LEMMA SleepEndsStep ==
    ASSUME Ready, SleepEnds
    PROVE  Done /\ Quiet /\ Keeps
  <1>1. /\ loop = "sleeping" /\ LoopTurns(pending, call)
        /\ UNCHANGED <<failures, closed, dropped, posted, refused>>
    BY DEF SleepEnds
  <1>2. /\ pending \in Seq(Events) /\ batch = <<>> /\ UploaderAssumption
        /\ call \in [Calls -> Call]
        /\ failures' = 0 \/ failures' \in 1..(MaxFailures - 1)
        /\ ~closed => pending # <<>> /\ Sendable(pending[1])
    BY <1>1 DEF Ready, QueueTypes, LoopInv
  <1>3. Line = pending
    BY <1>2, CatEmpty DEF Line
  <1>4. /\ QueueTypes' /\ LoopInv' /\ CallsAfter(call)
        /\ Carried(pending, Line')
        /\ pending # <<>> /\ Sendable(pending[1]) /\ ~closed => loop' # "idle"
    BY <1>1, <1>2, TurnsLoop
  <1>5. Keeps
    BY <1>1, <1>3, <1>4 DEF Keeps
  <1>6. /\ call' \in [Calls -> Call]
        /\ \A c \in Calls :
              /\ SameCall(call'[c], call[c])
              /\ \/ call'[c].phase = call[c].phase
                 \/ /\ call[c].phase = "flushing" /\ call'[c].phase = "returned"
                    /\ Line' = <<>>
    BY <1>2, <1>4, AfterTurn
  <1>7. Closer \in Calls
    BY <1>2 DEF UploaderAssumption, Calls, Closer
  <1>8. BlockedInv'
    <2>1. \A c \in Calls : call[c].phase = "blocked" => ~closed
      BY DEF Ready, BlockedInv
    <2>2. \A c \in Calls : call'[c].phase = "blocked" => call[c].phase = "blocked"
      BY <1>6
    <2> QED BY <1>1, <1>2, <1>4, <2>1, <2>2 DEF BlockedInv
  <1>9. CloserInv'
    <2>1. /\ call[Closer].phase \in {"unused", "flushing", "returned", "cut"}
          /\ closed => call[Closer].phase \in {"returned", "cut"}
      BY DEF Ready, CloserInv
    <2> QED BY <1>1, <1>6, <1>7, <2>1 DEF CloserInv
  <1>10. Quiet
    BY <1>1, <1>6 DEF Quiet, MovesOn
  <1> QED BY <1>4, <1>5, <1>6, <1>8, <1>9, <1>10 DEF Done, Goes, Quiet

-----------------------------------------------------------------------------
(* What the steps mean for the callers in flush and for the order. *)

QueueStep ==
    \/ Keeps \/ (\E items : Takes(items))
    \/ Posts \/ Refuses \/ GivesUp \/ Closes

\* Sendable events leave the line only as posted, unless a batch is given up
\* or the uploader closed.
LEMMA LineGoesOn ==
    ASSUME Ready, QueueStep
    PROVE  /\ posted' \in Seq(Events) /\ refused' \subseteq Events
           /\ dropped' \in Nat /\ closed' \in BOOLEAN
           /\ dropped <= dropped' /\ (closed => closed')
           /\ Range(posted) \subseteq Range(posted') /\ refused \subseteq refused'
           /\ ~closed' /\ dropped' = dropped =>
                 \A e \in Range(posted) \cup refused \cup Range(Line) :
                    Sendable(e) => e \in Range(posted') \cup refused' \cup Range(Line')
  <1>1. /\ posted \in Seq(Events) /\ refused \subseteq Events
        /\ dropped \in Nat /\ closed \in BOOLEAN
        /\ batch \in Seq(Events) /\ pending \in Seq(Events)
    BY DEF Ready, QueueTypes
  <1>2. Line \in Seq(Events) /\ Range(Line) = Range(batch) \cup Range(pending)
    BY <1>1, CatProperties DEF Line
  <1>3. CASE Keeps
    BY <1>1, <1>3 DEF Keeps, Carried
  <1>4. CASE \E items : Takes(items)
    <2>1. PICK items : Takes(items)
      BY <1>4
    <2>2. Range(Cat(Line, items)) = Range(Line) \cup Range(items)
      BY <1>2, <2>1, CatRange DEF Takes
    <2> QED BY <1>1, <2>1, <2>2 DEF Takes, Carried
  <1>5. CASE Posts
    <2>1. /\ Cat(posted, batch) \in Seq(Events)
          /\ Range(Cat(posted, batch)) = Range(posted) \cup Range(batch)
      BY <1>1, CatProperties
    <2> QED BY <1>1, <1>2, <1>5, <2>1 DEF Posts, Carried
  <1>6. CASE GivesUp
    BY <1>1, <1>6 DEF GivesUp
  <1>7. CASE Closes
    BY <1>1, <1>7 DEF Closes
  <1>8. CASE Refuses
    <2>1. Range(batch) \subseteq Events
      BY <1>1 DEF Range
    <2> QED BY <1>1, <1>2, <1>8, <2>1 DEF Refuses, Carried
  <1> QED BY <1>3, <1>4, <1>5, <1>6, <1>7, <1>8 DEF QueueStep

\* What a call answers for stays in line until it is posted.
LEMMA FlushKept ==
    ASSUME Ready, FlushInv, Done, QueueStep
    PROVE  FlushInv'
  <1>1. /\ posted' \in Seq(Events) /\ dropped' \in Nat /\ closed' \in BOOLEAN
        /\ dropped <= dropped' /\ (closed => closed')
        /\ Range(posted) \subseteq Range(posted') /\ refused \subseteq refused'
        /\ ~closed' /\ dropped' = dropped =>
              \A e \in Range(posted) \cup refused \cup Range(Line) :
                 Sendable(e) => e \in Range(posted') \cup refused' \cup Range(Line')
    BY LineGoesOn
  <1>2. dropped \in Nat
    BY DEF Ready
  <1> SUFFICES ASSUME NEW c \in Calls
               PROVE  /\ call'[c].before <= dropped'
                      /\ call'[c].flushes /\ call'[c].before = dropped' =>
                            /\ call'[c].phase \in {"enqueued", "flushing"} /\ ~closed'
                               => UnderWay(c)'
                            /\ call'[c].phase = "returned" /\ (~closed' \/ c = Closer)
                               => Answered(c)'
    BY DEF FlushInv
  <1>3. call[c] \in Call /\ call'[c] \in Call /\ call[c].before \in Nat
        /\ call'[c].before \in Nat /\ call[c].items \in Seq(Events)
    <2>1. call[c] \in Call /\ call'[c] \in Call
      BY DEF Ready, Done
    <2> QED BY <2>1 DEF Call
  <1>4. /\ call[c].before <= dropped
        /\ call[c].flushes /\ call[c].before = dropped =>
              /\ call[c].phase \in {"enqueued", "flushing"} /\ ~closed => UnderWay(c)
              /\ call[c].phase = "returned" /\ (~closed \/ c = Closer) => Answered(c)
    BY DEF FlushInv
  <1>5. ASSUME UnderWay(c)', Line' = <<>> PROVE Answered(c)'
    BY <1>5, NothingLeft DEF UnderWay, Answered
  <1>6. CASE Begins(c)
    <2>1. call'[c].before <= dropped'
      BY <1>1, <1>2, <1>3, <1>6 DEF Begins
    <2> QED BY <1>5, <1>6, <2>1 DEF Begins
  <1>7. CASE MovesOn(c)
    <2>1. /\ call'[c].flushes = call[c].flushes /\ call'[c].items = call[c].items
          /\ call'[c].before = call[c].before
      BY <1>7 DEF MovesOn, SameCall
    <2>2. call'[c].before <= dropped'
      BY <1>1, <1>2, <1>3, <1>4, <2>1
    <2> SUFFICES ASSUME call'[c].flushes, call'[c].before = dropped'
                 PROVE  /\ call'[c].phase \in {"enqueued", "flushing"} /\ ~closed'
                           => UnderWay(c)'
                        /\ call'[c].phase = "returned" /\ (~closed' \/ c = Closer)
                           => Answered(c)'
      BY <2>2
    <2>3. dropped' = dropped /\ call[c].before = dropped /\ call[c].flushes
      BY <1>1, <1>2, <1>3, <1>4, <2>1
    <2>4. ASSUME call[c].phase \in {"enqueued", "flushing"}, ~closed'
          PROVE  UnderWay(c)'
      <3>1. UnderWay(c)
        BY <1>1, <1>4, <2>3, <2>4
      <3> DEFINE items == call[c].items
      <3>2. \A i \in DOMAIN items :
               Sendable(items[i]) => items[i] \in Range(posted) \cup refused \cup Range(Line)
        BY <3>1 DEF UnderWay
      <3>3. call'[c].items = items
        BY <2>1
      <3> HIDE DEF items
      <3>4. \A i \in DOMAIN items :
               Sendable(items[i]) => items[i] \in Range(posted') \cup refused' \cup Range(Line')
        BY <1>1, <2>3, <2>4, <3>2
      <3> QED BY <3>3, <3>4 DEF UnderWay, Sendable
    <2>5. ASSUME call[c].phase = "returned", ~closed' \/ c = Closer
          PROVE  Answered(c)'
      <3>1. Answered(c)
        BY <1>1, <1>4, <2>3, <2>5
      <3> QED BY <1>1, <2>1, <3>1 DEF Answered, Sendable
    <2>6. call'[c].phase \in {"enqueued", "flushing"} =>
             call[c].phase \in {"enqueued", "flushing"}
      BY <1>7 DEF MovesOn
    <2>7. ASSUME call'[c].phase = "returned", ~closed' \/ c = Closer
          PROVE  Answered(c)'
      <3>1. CASE call[c].phase = "returned"
        BY <2>5, <2>7, <3>1
      <3>2. CASE call[c].phase # "returned"
        <4>1. /\ call[c].phase \in {"enqueued", "flushing"}
              /\ Line' = <<>> /\ closed' = closed
          BY <1>1, <1>7, <2>7, <3>2 DEF MovesOn
        <4>2. ASSUME ~closed' PROVE Answered(c)'
          BY <1>5, <2>4, <4>1, <4>2
        <4>3. ASSUME closed', c = Closer PROVE Answered(c)'
          BY <4>1, <4>3 DEF Ready, CloserInv
        <4> QED BY <2>7, <4>2, <4>3
      <3> QED BY <3>1, <3>2
    <2> QED BY <2>4, <2>6, <2>7
  <1> QED BY <1>6, <1>7 DEF Done, Goes

\* Events written later than all those written so far, in order.
Fresh(s) ==
    /\ s \in Seq(Events) /\ Ascending(s)
    /\ written \in Nat /\ written' \in Nat /\ written <= written'
    /\ \A e \in Range(s) : written < e /\ e <= written'

\* What a step does to the buffer: it stays or is dropped, or a stream event
\* joins it, or it goes to the uploader ahead of the events just written.
Ships ==
    \/ /\ buffer' \in {buffer, <<>>} /\ written' = written
       /\ Keeps \/ Posts \/ Refuses \/ GivesUp \/ Closes
    \/ \E s : Fresh(s) /\ Keeps /\ buffer' = Cat(buffer, s)
    \/ \E s : Fresh(s) /\ buffer' = <<>> /\ (Keeps \/ Takes(Cat(buffer, s)))

\* Who waits for room is known to have been blocked.
Noted ==
    /\ everBlocked => everBlocked'
    /\ \A c \in Calls :
          call'[c].phase = "blocked" => call[c].phase = "blocked" \/ everBlocked'

\* The order of the line survives every step that ships events in order.
LEMMA OrderedGoesOn ==
    ASSUME Ready, Ordered, Ships, buffer \in Seq(Events), written \in Nat
    PROVE  Ordered'
  <1>1. /\ posted \in Seq(Events) /\ batch \in Seq(Events) /\ pending \in Seq(Events)
    BY DEF Ready, QueueTypes
  <1>2. /\ Line \in Seq(Events) /\ Range(Line) = Range(batch) \cup Range(pending)
        /\ Ascending(batch) /\ Ascending(pending) /\ Below(batch, pending)
    <2>1. Ascending(Line)
      BY DEF Ordered
    <2> QED BY <1>1, <2>1, CatProperties, AscendingConcat DEF Line
  <1>3. /\ Range(posted) \subseteq Events /\ Range(Line) \subseteq Events
        /\ Range(buffer) \subseteq Events
    BY <1>1, <1>2 DEF Range
  <1> DEFINE line1 == Line'
             posted1 == posted'
             buffer1 == buffer'
             written1 == written'
  <1> SUFFICES /\ Ascending(posted1) /\ Ascending(line1) /\ Ascending(buffer1)
               /\ Below(posted1, line1) /\ Below(posted1, buffer1) /\ Below(line1, buffer1)
               /\ \A e \in Range(posted1) \cup Range(line1) \cup Range(buffer1) : e <= written1
    BY DEF Ordered, Ascending, Below, Range
  <1>4. \A q : Carried(q, Line') =>
           Range(line1) \subseteq Range(q) /\ (Ascending(q) => Ascending(line1))
    BY DEF Carried
  <1>5. CASE /\ buffer' \in {buffer, <<>>} /\ written' = written
             /\ Keeps \/ Posts \/ Refuses \/ GivesUp \/ Closes
    <2>1. Range(buffer1) \subseteq Range(buffer) /\ Ascending(buffer1)
      BY <1>5, NothingLeft DEF Ordered
    <2>2. CASE Keeps
      <3>1. posted1 = posted /\ Range(line1) \subseteq Range(Line) /\ Ascending(line1)
        BY <1>4, <2>2 DEF Keeps, Ordered
      <3> HIDE DEF line1, posted1, buffer1
      <3> QED BY <1>5, <2>1, <3>1 DEF Ordered, Below
    <2>3. CASE Posts
      <3>1. /\ Range(line1) \subseteq Range(pending) /\ Ascending(line1)
            /\ posted1 = Cat(posted, batch)
        BY <1>2, <1>4, <2>3 DEF Posts
      <3>2. Below(posted, batch)
        BY <1>2 DEF Ordered, Below
      <3>3. /\ Range(posted1) = Range(posted) \cup Range(batch)
            /\ Ascending(posted1)
        BY <1>1, <1>2, <3>1, <3>2, CatRange, AscendingConcat DEF Ordered
      <3> HIDE DEF line1, posted1, buffer1
      <3> QED BY <1>2, <1>5, <2>1, <3>1, <3>3 DEF Ordered, Below
    <2>4. CASE Refuses \/ GivesUp
      <3>1. /\ Range(line1) \subseteq Range(pending) /\ Ascending(line1)
            /\ posted1 = posted
        BY <1>2, <1>4, <2>4 DEF GivesUp, Refuses
      <3> HIDE DEF line1, posted1, buffer1
      <3> QED BY <1>2, <1>5, <2>1, <3>1 DEF Ordered, Below
    <2>5. CASE Closes
      <3>1. line1 = batch /\ posted1 = posted
        BY <2>5 DEF Closes
      <3> HIDE DEF line1, posted1, buffer1
      <3> QED BY <1>2, <1>5, <2>1, <3>1 DEF Ordered, Below
    <2> QED BY <1>5, <2>2, <2>3, <2>4, <2>5
  <1>6. ASSUME NEW s, Fresh(s)
        PROVE  /\ s \in Seq(Events) /\ Cat(buffer, s) \in Seq(Events)
               /\ Range(Cat(buffer, s)) = Range(buffer) \cup Range(s)
               /\ Ascending(Cat(buffer, s))
               /\ Range(s) \subseteq Nat
               /\ \A e \in Range(s) : written < e /\ e <= written1
               /\ written1 \in Nat /\ written <= written1
    <2>1. s \in Seq(Events) /\ Range(s) \subseteq Events
      BY <1>6 DEF Fresh, Range
    <2>2. Cat(buffer, s) \in Seq(Events) /\ Range(Cat(buffer, s)) = Range(buffer) \cup Range(s)
      BY <2>1, CatProperties
    <2>3. Below(buffer, s)
      <3>1. \A x \in Range(buffer) : x \in Nat /\ x <= written
        BY <1>3 DEF Ordered, Events
      <3>2. \A x \in Range(s) : x \in Nat /\ written < x
        BY <1>6, <2>1 DEF Events, Fresh
      <3> QED BY <3>1, <3>2 DEF Below
    <2>4. Ascending(Cat(buffer, s))
      BY <1>6, <2>1, <2>3, AscendingConcat DEF Fresh, Ordered
    <2>5. Range(s) \subseteq Nat
      BY <2>1 DEF Events
    <2> QED BY <1>6, <2>1, <2>2, <2>4, <2>5 DEF Fresh
  <1>7. /\ Range(posted) \subseteq Nat /\ Range(Line) \subseteq Nat
        /\ Range(buffer) \subseteq Nat
        /\ \A e \in Range(posted) \cup Range(Line) \cup Range(buffer) : e <= written
    BY <1>3 DEF Events, Ordered
  <1>8. CASE \E s : Fresh(s) /\ Keeps /\ buffer' = Cat(buffer, s)
    <2>1. PICK s : Fresh(s) /\ Keeps /\ buffer' = Cat(buffer, s)
      BY <1>8
    <2>2. /\ posted1 = posted /\ Range(line1) \subseteq Range(Line) /\ Ascending(line1)
      BY <1>4, <2>1 DEF Keeps, Ordered
    <2>3. /\ Range(buffer1) = Range(buffer) \cup Range(s) /\ Ascending(buffer1)
          /\ Range(s) \subseteq Nat
          /\ \A e \in Range(s) : written < e /\ e <= written1
          /\ written1 \in Nat /\ written <= written1
      BY <1>6, <2>1
    <2> HIDE DEF line1, posted1, buffer1, written1
    <2>4. Below(posted1, buffer1) /\ Below(line1, buffer1)
      <3>1. \A x \in Range(posted) \cup Range(Line), y \in Range(s) : x < y
        BY <1>7, <2>3
      <3> QED BY <2>2, <2>3, <3>1 DEF Below, Ordered
    <2>5. \A e \in Range(posted1) \cup Range(line1) \cup Range(buffer1) : e <= written1
      BY <1>7, <2>2, <2>3
    <2>6. Ascending(posted1) /\ Below(posted1, line1)
      BY <2>2 DEF Ordered, Below
    <2> QED BY <2>2, <2>3, <2>4, <2>5, <2>6
  <1>9. CASE \E s : Fresh(s) /\ buffer' = <<>> /\ (Keeps \/ Takes(Cat(buffer, s)))
    <2>1. PICK s : Fresh(s) /\ buffer' = <<>> /\ (Keeps \/ Takes(Cat(buffer, s)))
      BY <1>9
    <2> DEFINE items == Cat(buffer, s)
    <2>2. /\ items \in Seq(Events) /\ Range(items) = Range(buffer) \cup Range(s)
          /\ Ascending(items) /\ Range(s) \subseteq Nat
          /\ \A e \in Range(s) : written < e /\ e <= written1
          /\ written1 \in Nat /\ written <= written1
      BY <1>6, <2>1
    <2>3. Keeps \/ Takes(items)
      BY <2>1
    <2> HIDE DEF items
    <2>4. \A x \in Range(posted) \cup Range(Line), y \in Range(items) : x < y
      <3>1. \A x \in Range(posted) \cup Range(Line), y \in Range(s) : x < y
        BY <1>7, <2>2
      <3> QED BY <2>2, <3>1 DEF Ordered, Below
    <2>5. /\ Ascending(Cat(Line, items))
          /\ Range(Cat(Line, items)) = Range(Line) \cup Range(items)
      <3>1. Below(Line, items) /\ Ascending(Line)
        BY <2>4 DEF Below, Ordered
      <3> QED BY <1>2, <2>2, <3>1, AscendingConcat, CatRange
    <2>6. /\ posted1 = posted /\ Ascending(line1)
          /\ Range(line1) \subseteq Range(Line) \cup Range(items)
      <3>1. CASE Keeps
        BY <1>4, <3>1 DEF Keeps, Ordered
      <3>2. CASE Takes(items)
        BY <1>4, <2>5, <3>2 DEF Takes
      <3> QED BY <2>3, <3>1, <3>2
    <2>7. buffer1 = <<>>
      BY <2>1
    <2> HIDE DEF line1, posted1, buffer1, written1
    <2>8. Ascending(buffer1) /\ Range(buffer1) = {}
      BY <2>7, NothingLeft
    <2>9. Below(posted1, line1)
      BY <2>4, <2>6 DEF Below, Ordered
    <2>10. \A e \in Range(posted1) \cup Range(line1) \cup Range(buffer1) : e <= written1
      BY <1>7, <2>2, <2>6, <2>8
    <2>11. Ascending(posted1) /\ Below(posted1, buffer1) /\ Below(line1, buffer1)
      BY <2>6, <2>8 DEF Ordered, Below
    <2> QED BY <2>6, <2>8, <2>9, <2>10, <2>11
  <1> QED BY <1>5, <1>8, <1>9 DEF Ships

\* Until somebody waits for room, every step ships events in order.
LEMMA OrderKept ==
    ASSUME Ready, OrderInv, Done, Noted, buffer \in Seq(Events), written \in Nat,
           Ships \/ \E c \in Calls : Waiting(c)
    PROVE  OrderInv'
  <1> SUFFICES ASSUME ~everBlocked'
               PROVE  Ordered' /\ \A c \in Calls : ~Waiting(c)'
    BY DEF OrderInv
  <1>1. ~everBlocked /\ Ordered /\ \A c \in Calls : ~Waiting(c)
    BY DEF OrderInv, Noted
  <1>2. Ordered'
    BY <1>1, OrderedGoesOn
  <1>3. ASSUME NEW c \in Calls PROVE ~Waiting(c)'
    <2>1. call'[c].phase # "blocked" /\ call[c].phase \notin {"blocked", "woken"}
      BY <1>1 DEF Noted, Waiting
    <2>2. call'[c].phase # "woken"
      BY <2>1 DEF Done, Goes, MovesOn, Begins
    <2> QED BY <2>1, <2>2 DEF Waiting
  <1> QED BY <1>2, <1>3

-----------------------------------------------------------------------------
(* Every step preserves the invariant. *)

QueueKind == Keeps \/ Posts \/ Refuses \/ GivesUp \/ Closes

\* The steps of the transport, by what they do.
LEMMA Stepped ==
    ASSUME UploaderAssumption, IInv, Next
    PROVE  /\ Done /\ QueueStep /\ Noted
           /\ Ships \/ \E c \in Calls : Waiting(c)
           /\ buffer' \in Seq(Events) /\ timer' \in BOOLEAN
           /\ written' \in 0..MaxEvents /\ calls' \in 0..MaxCalls
           /\ everBlocked' \in BOOLEAN
  <1> DEFINE Goal ==
                /\ Done /\ QueueStep /\ Noted
                /\ Ships \/ \E c \in Calls : Waiting(c)
                /\ buffer' \in Seq(Events) /\ timer' \in BOOLEAN
                /\ written' \in 0..MaxEvents /\ calls' \in 0..MaxCalls
                /\ everBlocked' \in BOOLEAN
  <1> SUFFICES Goal
    OBVIOUS
  <1>1. /\ Ready /\ MaxEvents \in Nat /\ MaxCalls \in Nat
        /\ buffer \in Seq(Events) /\ timer \in BOOLEAN
        /\ written \in 0..MaxEvents /\ calls \in 0..MaxCalls
        /\ everBlocked \in BOOLEAN /\ written \in Nat
    <2>1. Ready
      BY DEF IInv, TypeOK, UploaderTypeOK, Ready, QueueTypes
    <2>2. MaxEvents \in Nat /\ MaxCalls \in Nat
      BY DEF UploaderAssumption
    <2> QED BY <2>1, <2>2 DEF IInv, TypeOK, UploaderTypeOK
  <1>2. Line \in Seq(Events)
    BY <1>1, CatProperties DEF Line, Ready, QueueTypes
  <1>3. NoteBlocked => Noted /\ everBlocked' \in BOOLEAN
    BY DEF NoteBlocked, Noted
  <1>4. Closer \notin 1..MaxCalls /\ 1..MaxCalls \subseteq Calls
    BY <1>1 DEF Closer, Calls
  <1>5. Fresh(<<>>) \/ written' # written
    BY <1>1, NothingLeft DEF Fresh
  <1>6. ASSUME NEW items \in Seq(Events)
        PROVE  /\ NewCall(TRUE, items) \in Call /\ NewCall(FALSE, items) \in Call
               /\ NewCall(TRUE, items).items = items /\ NewCall(FALSE, items).items = items
               /\ NewCall(TRUE, items).before = dropped /\ NewCall(FALSE, items).before = dropped
    <2>1. dropped \in Nat
      BY <1>1 DEF Ready
    <2> QED BY <2>1 DEF NewCall, NoCall, Call
  <1>7. ASSUME NEW c \in 1..MaxCalls, NEW items \in Seq(Events), NEW f \in BOOLEAN,
               Enqueue(c, NewCall(f, items)), UNCHANGED <<closed, dropped, posted, refused>>
        PROVE  Done /\ (Keeps \/ Takes(items))
    <2>1. NewCall(f, items) \in Call /\ NewCall(f, items).items = items
          /\ NewCall(f, items).before <= dropped
      <3>1. f = TRUE \/ f = FALSE
        OBVIOUS
      <3>2. dropped <= dropped
        BY <1>1 DEF Ready
      <3> QED BY <1>6, <3>1, <3>2
    <2>2. c \in Calls /\ c # Closer
      BY <1>4
    <2> DEFINE this == NewCall(f, items)
    <2>3. this \in Call /\ this.items = items /\ this.before <= dropped /\ Enqueue(c, this)
      BY <1>7, <2>1
    <2> HIDE DEF this
    <2> QED BY <1>1, <1>7, <2>2, <2>3, EnqueueStep
  <1>8. CASE WriteStream
    <2>1. /\ written < MaxEvents /\ written' = written + 1
          /\ buffer' = Append(buffer, written + 1) /\ timer' = TRUE
          /\ UNCHANGED <<pending, loop, batch, failures, closed, dropped, posted, refused>>
          /\ UNCHANGED <<call, calls, everBlocked>>
      BY <1>8 DEF WriteStream, uploader
    <2>2. QueueTypes' /\ LoopInv' /\ Keeps
      BY <1>1, <2>1, QueueStays
    <2>3. Done
      <3>1. \/ loop' # "idle"
            \/ \A c \in Calls : call[c].phase = "blocked" => loop = "idle"
        BY <2>1
      <3>2. BlockedInv' /\ CloserInv'
        BY <2>1 DEF IInv, BlockedInv, CloserInv
      <3>3. \A c \in Calls : Goes(c)
        BY <2>1 DEF Goes, MovesOn, SameCall
      <3> QED BY <1>1, <2>1, <2>2, <3>2, <3>3 DEF Done, Ready
    <2>4. Noted
      BY <2>1 DEF Noted
    <2> DEFINE s == <<written + 1>>
    <2>5. /\ s \in Seq(Events) /\ Ascending(s)
          /\ \A e \in Range(s) : e = written + 1
      BY <1>1, <2>1 DEF Events, Ascending, Range
    <2>6. Fresh(s)
      <3> HIDE DEF s
      <3> QED BY <1>1, <2>1, <2>5 DEF Fresh
    <2>7. buffer' = Cat(buffer, s)
      BY <1>1, <2>1, AppendIsConcat DEF Cat, Events
    <2>8. written' \in 0..MaxEvents /\ buffer' \in Seq(Events)
      BY <1>1, <2>1 DEF Events
    <2> HIDE DEF s
    <2>9. Ships
      BY <2>2, <2>6, <2>7 DEF Ships
    <2> QED BY <1>1, <2>1, <2>2, <2>3, <2>4, <2>8, <2>9 DEF QueueStep
  <1>9. CASE Write
    <2>1. PICK n \in 1..2 :
             /\ written + n <= MaxEvents /\ written' = written + n
             /\ Enqueue(calls', NewCall(TRUE, WithBuffer([i \in 1..n |-> written + i])))
      BY <1>9 DEF Write
    <2>2. /\ calls < MaxCalls /\ calls' = calls + 1
          /\ buffer' = <<>> /\ timer' = FALSE /\ NoteBlocked
          /\ UNCHANGED <<closed, dropped, posted, refused>>
      BY <1>9 DEF Write, TakeBuffer
    <2> DEFINE s == [i \in 1..n |-> written + i]
    <2>3. /\ s \in Seq(Events) /\ Ascending(s)
          /\ \A e \in Range(s) : e \in Nat /\ written < e /\ e <= written + n
      <3>1. \A i \in 1..n : written + i \in Events
        BY <1>1, <2>1 DEF Events
      <3>2. s \in Seq(Events)
        BY <3>1, n \in Nat
      <3>3. DOMAIN s = 1..n /\ \A i \in 1..n : s[i] = written + i
        OBVIOUS
      <3>4. n \in Nat
        OBVIOUS
      <3> HIDE DEF s
      <3>5. Ascending(s)
        BY <1>1, <3>3, <3>4 DEF Ascending
      <3>6. \A e \in Range(s) : e \in Nat /\ written < e /\ e <= written + n
        BY <1>1, <3>3, <3>4 DEF Range
      <3> QED BY <3>2, <3>5, <3>6
    <2> DEFINE items == Cat(buffer, s)
    <2>4. Enqueue(calls', NewCall(TRUE, items))
      BY <2>1 DEF WithBuffer, Cat
    <2> HIDE DEF s
    <2>5. items \in Seq(Events)
      BY <1>1, <2>3, CatProperties
    <2>6. Fresh(s)
      BY <1>1, <2>1, <2>3 DEF Fresh
    <2> HIDE DEF items
    <2>7. calls' \in 1..MaxCalls
      BY <1>1, <2>2
    <2>8. Done /\ (Keeps \/ Takes(items))
      BY <1>7, <2>2, <2>4, <2>5, <2>7
    <2>9. Ships
      BY <2>2, <2>6, <2>8 DEF Ships, items
    <2>10. written' \in 0..MaxEvents
      BY <1>1, <2>1
    <2>11. QueueStep
      BY <2>8 DEF QueueStep
    <2>12. calls' \in 0..MaxCalls /\ timer' \in BOOLEAN /\ buffer' \in Seq(Events)
      <3>1. calls' \in 0..MaxCalls
        BY <1>1, <2>7
      <3>2. timer' \in BOOLEAN
        BY <2>2
      <3>3. buffer' \in Seq(Events)
        BY <2>2, NothingLeft
      <3> QED BY <3>1, <3>2, <3>3
    <2>13. Noted /\ everBlocked' \in BOOLEAN
      BY <1>3, <2>2
    <2> QED BY <2>8, <2>9, <2>10, <2>11, <2>12, <2>13
  <1>10. CASE BufferTimer
    <2>1. /\ calls < MaxCalls /\ calls' = calls + 1
          /\ Enqueue(calls', NewCall(FALSE, buffer))
          /\ buffer' = <<>> /\ timer' = FALSE /\ NoteBlocked
          /\ UNCHANGED <<closed, dropped, posted, refused, written>>
      BY <1>10 DEF BufferTimer, TakeBuffer
    <2>2. calls' \in 1..MaxCalls
      BY <1>1, <2>1
    <2>3. Done /\ (Keeps \/ Takes(buffer))
      BY <1>1, <1>7, <2>1, <2>2
    <2>4. Cat(buffer, <<>>) = buffer
      BY <1>1, CatEmpty
    <2>5. Ships
      BY <1>5, <2>1, <2>3, <2>4 DEF Ships
    <2>6. QueueStep
      BY <2>3 DEF QueueStep
    <2>7. /\ calls' \in 0..MaxCalls /\ timer' \in BOOLEAN /\ buffer' \in Seq(Events)
          /\ written' \in 0..MaxEvents
      <3>1. calls' \in 0..MaxCalls /\ written' \in 0..MaxEvents
        BY <1>1, <2>1, <2>2
      <3>2. timer' \in BOOLEAN
        BY <2>1
      <3>3. buffer' \in Seq(Events)
        BY <2>1, NothingLeft
      <3> QED BY <3>1, <3>2, <3>3
    <2>8. Noted /\ everBlocked' \in BOOLEAN
      BY <1>3, <2>1
    <2> QED BY <2>3, <2>5, <2>6, <2>7, <2>8
  <1>11. CASE Close
    <2>1. Done /\ Keeps
      BY <1>1, <1>11, CloseStep
    <2>2. /\ buffer' = <<>> /\ timer' = FALSE
          /\ UNCHANGED <<closed, dropped, posted, refused, written, calls, everBlocked>>
          /\ call' = [call EXCEPT ![Closer] =
                [NewCall(TRUE, batch \o pending) EXCEPT !.phase = CloserPhase]]
      BY <1>11 DEF Close, OnlyCalls
    <2>3. \A c \in Calls : call'[c].phase = "blocked" => call[c].phase = "blocked"
      <3>1. call'[Closer].phase # "blocked"
        BY <2>1 DEF Done, CloserInv
      <3>2. \A c \in Calls \ {Closer} : call'[c] = call[c]
        BY <1>1, <2>2 DEF Ready
      <3> QED BY <3>1, <3>2
    <2>4. Noted
      BY <2>2, <2>3 DEF Noted
    <2>5. Ships
      BY <2>1, <2>2 DEF Ships
    <2> QED BY <1>1, <2>1, <2>2, <2>4, <2>5, NothingLeft DEF QueueStep
  <1>12. ASSUME NEW c \in Calls, Continue(c) PROVE Goal
    <2>1. NoteBlocked /\ UNCHANGED <<buffer, timer, written, calls>>
      BY <1>12 DEF Continue, transport
    <2>2. CASE FlushAfterEnqueue(c)
      <3>1. Done /\ Keeps
        BY <1>1, <2>2, FlushStep
      <3> QED BY <1>1, <1>3, <2>1, <3>1 DEF Ships, QueueStep
    <2>3. CASE Recheck(c)
      <3>1. /\ call[c].phase = "woken" /\ Enqueue(c, call[c])
            /\ UNCHANGED <<closed, dropped, posted, refused>>
        BY <2>3 DEF Recheck
      <3>2. c # Closer
        BY <3>1 DEF IInv, CloserInv
      <3>3. call[c] \in Call /\ call[c].before <= dropped
        BY <1>1 DEF Ready, IInv, FlushInv
      <3>4. Done /\ (Keeps \/ Takes(call[c].items))
        BY <1>1, <3>1, <3>2, <3>3, EnqueueStep
      <3>5. \E d \in Calls : Waiting(d)
        BY <3>1 DEF Waiting
      <3>6. QueueStep
        BY <3>4 DEF QueueStep
      <3> QED BY <1>1, <1>3, <2>1, <3>4, <3>5, <3>6
    <2> QED BY <1>12, <2>2, <2>3 DEF Continue
  <1>13. ASSUME UNCHANGED <<transport, everBlocked>>, Done, QueueKind, Quiet
         PROVE  Goal
    <2>1. UNCHANGED <<buffer, timer, written, calls, everBlocked>>
      BY <1>13 DEF transport
    <2>2. Noted
      BY <1>13, <2>1 DEF Noted, Quiet, MovesOn
    <2>3. Ships
      BY <1>13, <2>1 DEF Ships, QueueKind
    <2>4. QueueStep
      BY <1>13 DEF QueueStep, QueueKind
    <2> QED BY <1>1, <1>13, <2>1, <2>2, <2>3, <2>4
  <1>14. CASE FlushedThenClosed
    <2>1. /\ call[Closer].phase = "returned" /\ ~closed /\ CloseUploader(call)
          /\ UNCHANGED <<transport, everBlocked>>
      BY <1>14 DEF FlushedThenClosed
    <2>2. call \in [Calls -> Call]
      BY <1>1 DEF Ready
    <2>3. Done /\ Closes /\ Quiet
      BY <1>1, <2>1, <2>2, CloseUploaderStep DEF SameCall
    <2> QED BY <1>13, <2>1, <2>3 DEF QueueKind
  <1>15. CASE GraceEnds
    <2> DEFINE cs == [call EXCEPT ![Closer].phase = "cut"]
    <2>1. /\ call[Closer].phase = "flushing" /\ ~closed /\ CloseUploader(cs)
          /\ UNCHANGED <<transport, everBlocked>>
      BY <1>15 DEF GraceEnds
    <2>2. call \in [Calls -> Call] /\ Closer \in Calls /\ call[Closer] \in Call
      BY <1>1 DEF Ready, Closer, Calls
    <2>3. "cut" \in Phases
      BY DEF Phases
    <2>4. Placed(cs, Closer, call[Closer], "cut")
      <3>1. cs = [call EXCEPT ![Closer] = [call[Closer] EXCEPT !.phase = "cut"]]
        OBVIOUS
      <3> QED BY <2>2, <2>3, <3>1, PlaceCall
    <2> HIDE DEF cs
    <2>5. Done /\ Closes /\ Quiet
      BY <1>1, <2>1, <2>4, CloseUploaderStep DEF Placed
    <2> QED BY <1>13, <2>1, <2>5 DEF QueueKind
  <1>16. CASE Deliver
    <2>1. Drain /\ UNCHANGED <<transport, everBlocked>>
      BY <1>16 DEF Deliver
    <2>2. Done /\ Quiet /\ QueueKind
      BY <1>1, <2>1, SendSucceedsStep, SendRefusedStep, SendFailsStep, SendGivesUpStep, SleepEndsStep
         DEF Drain, QueueKind
    <2> QED BY <1>13, <2>1, <2>2
  <1>17. CASE FlushTransport
    <2>1. /\ calls + 2 <= MaxCalls /\ calls' = calls + 2
          /\ FlushNow(calls + 1, calls + 2)
          /\ buffer' = <<>> /\ timer' = FALSE /\ NoteBlocked
          /\ UNCHANGED <<closed, dropped, posted, refused, written>>
      BY <1>17 DEF FlushTransport, TakeBuffer
    <2>2. /\ calls + 1 \in 1..MaxCalls /\ calls + 2 \in 1..MaxCalls
          /\ calls + 1 # calls + 2 /\ calls' \in 0..MaxCalls
      BY <1>1, <2>1
    <2>3. /\ calls + 1 \in Calls /\ calls + 2 \in Calls
          /\ calls + 1 # Closer /\ calls + 2 # Closer
      BY <1>4, <2>2
    <2>4. Done /\ (Keeps \/ Takes(buffer))
      BY <1>1, <2>1, <2>2, <2>3, FlushNowStep
    <2>5. Cat(buffer, <<>>) = buffer
      BY <1>1, CatEmpty
    <2>6. Ships
      BY <1>5, <2>1, <2>4, <2>5 DEF Ships
    <2>7. QueueStep
      BY <2>4 DEF QueueStep
    <2>8. timer' \in BOOLEAN /\ buffer' \in Seq(Events) /\ written' \in 0..MaxEvents
      BY <1>1, <2>1, NothingLeft
    <2>9. Noted /\ everBlocked' \in BOOLEAN
      BY <1>3, <2>1
    <2> QED BY <2>2, <2>4, <2>6, <2>7, <2>8, <2>9
  <1> HIDE DEF Goal
  <1>18. Goal
    BY <1>8, <1>9, <1>10, <1>11, <1>12, <1>14, <1>15, <1>16, <1>17 DEF Next
  <1> QED BY <1>18

\* The initial state satisfies the invariant.
LEMMA InitInv == Init => IInv
  <1> SUFFICES ASSUME Init PROVE IInv
    OBVIOUS
  <1>1. /\ pending = <<>> /\ batch = <<>> /\ posted = <<>> /\ buffer = <<>>
        /\ refused = {} /\ loop = "idle" /\ failures = 0 /\ closed = FALSE /\ dropped = 0
        /\ call = [c \in Calls |-> NoCall]
        /\ timer = FALSE /\ written = 0 /\ calls = 0 /\ everBlocked = FALSE
    BY DEF Init, UploaderInit
  <1>2. NoCall \in Call /\ NoCall.phase = "unused" /\ ~NoCall.flushes
        /\ NoCall.before = 0
    BY NothingLeft DEF NoCall, Call
  <1>3. call \in [Calls -> Call] /\ \A c \in Calls : call[c] = NoCall
    BY <1>1, <1>2
  <1>4. TypeOK
    <2>1. MaxEvents \in Nat /\ MaxCalls \in Nat
      BY UploaderAssumption DEF UploaderAssumption
    <2>2. written \in 0..MaxEvents /\ calls \in 0..MaxCalls /\ dropped \in Nat
      BY <1>1, <2>1
    <2>3. /\ pending \in Seq(Events) /\ batch \in Seq(Events)
          /\ posted \in Seq(Events) /\ buffer \in Seq(Events)
      BY <1>1, NothingLeft
    <2>4. /\ closed \in BOOLEAN /\ timer \in BOOLEAN /\ everBlocked \in BOOLEAN
          /\ refused \subseteq Events
      BY <1>1
    <2> QED BY <1>1, <1>3, <2>2, <2>3, <2>4 DEF TypeOK, UploaderTypeOK
  <1>5. LoopInv
    BY <1>1, NothingLeft DEF LoopInv
  <1>6. BlockedInv
    BY <1>2, <1>3 DEF BlockedInv
  <1>7. CloserInv
    <2>1. Closer \in Calls
      BY UploaderAssumption DEF UploaderAssumption, Closer, Calls
    <2> QED BY <1>1, <1>2, <1>3, <2>1 DEF CloserInv
  <1>8. FlushInv
    BY <1>1, <1>2, <1>3 DEF FlushInv
  <1>9. Ordered
    <2>1. Line = <<>>
      BY <1>1, NothingLeft DEF Line
    <2> QED BY <1>1, <2>1, NothingLeft DEF Ordered, Below
  <1>10. OrderInv
    BY <1>2, <1>3, <1>9 DEF OrderInv, Waiting
  <1> QED BY <1>4, <1>5, <1>6, <1>7, <1>8, <1>10 DEF IInv

\* Every step preserves the invariant.
LEMMA NextInv == IInv /\ [Next]_vars => IInv'
  <1> SUFFICES ASSUME IInv, [Next]_vars PROVE IInv'
    OBVIOUS
  <1>1. CASE Next
    <2>1. /\ Done /\ QueueStep /\ Noted
          /\ Ships \/ \E c \in Calls : Waiting(c)
          /\ buffer' \in Seq(Events) /\ timer' \in BOOLEAN
          /\ written' \in 0..MaxEvents /\ calls' \in 0..MaxCalls
          /\ everBlocked' \in BOOLEAN
      BY <1>1, UploaderAssumption, Stepped
    <2>2. Ready
      BY UploaderAssumption DEF IInv, TypeOK, UploaderTypeOK, Ready, QueueTypes
    <2>3. /\ posted' \in Seq(Events) /\ refused' \subseteq Events
          /\ dropped' \in Nat /\ closed' \in BOOLEAN
      BY <2>1, <2>2, LineGoesOn
    <2>4. FlushInv'
      BY <2>1, <2>2, FlushKept DEF IInv
    <2>5. buffer \in Seq(Events) /\ written \in Nat
      BY UploaderAssumption DEF IInv, TypeOK, UploaderTypeOK, UploaderAssumption
    <2>6. OrderInv'
      BY <2>1, <2>2, <2>5, OrderKept DEF IInv
    <2>7. TypeOK'
      BY <2>1, <2>3 DEF TypeOK, UploaderTypeOK, Done, QueueTypes
    <2> QED BY <2>1, <2>4, <2>6, <2>7 DEF IInv, Done
  <1>2. CASE UNCHANGED vars
    <2>1. /\ UNCHANGED <<pending, loop, batch, failures, closed, dropped, posted, refused>>
          /\ UNCHANGED <<call, buffer, timer, written, calls, everBlocked>>
      BY <1>2 DEF vars, uploader, transport
    <2>2. Line' = Line
      BY <2>1 DEF Line, Cat
    <2>3. TypeOK' /\ LoopInv' /\ BlockedInv' /\ CloserInv'
      BY <2>1 DEF IInv, TypeOK, UploaderTypeOK, LoopInv, BlockedInv, CloserInv, Sendable
    <2>4. FlushInv'
      BY <2>1, <2>2 DEF IInv, FlushInv, UnderWay, Answered, Sendable
    <2>5. OrderInv'
      BY <2>1, <2>2 DEF IInv, OrderInv, Ordered, Waiting, Ascending, Below
    <2> QED BY <2>3, <2>4, <2>5 DEF IInv
  <1> QED BY <1>1, <1>2

\* The invariant holds in every reachable state.
LEMMA Invariance == Spec => []IInv
<1>1. Init => IInv
  BY InitInv
<1>2. IInv /\ [Next]_vars => IInv'
  BY NextInv
<1> QED BY <1>1, <1>2, PTL DEF Spec

-----------------------------------------------------------------------------
(* The theorems. *)

\* The types of the uploader's and the transport's state
\* (SerialBatchEventUploader.ts, HybridTransport.ts).
THEOREM TypeCorrect == Spec => []TypeOK
<1>1. IInv => TypeOK
  BY DEF IInv
<1> QED BY <1>1, Invariance, PTL

\* A caller that waits for room is never forgotten: its events may fit, the
\* uploader is open and its drain loop runs (SerialBatchEventUploader.ts,
\* enqueue and releaseBackpressure), for any number of callers and events.
THEOREM NoStrandedCallerCorrect == Spec => []NoStrandedCaller
<1>1. IInv => NoStrandedCaller
  BY DEF IInv, BlockedInv, NoStrandedCaller
<1> QED BY <1>1, Invariance, PTL

\* Events leave in the order in which they were written, each once, as long as
\* no caller had to wait for room (HybridTransport.ts, write, writeBatch and
\* the buffer of stream events), whatever overlaps, fails or is retried.
THEOREM WriteOrderCorrect == Spec => []WriteOrder
<1>1. IInv => WriteOrder
  <2> SUFFICES ASSUME IInv, ~everBlocked
               PROVE  Ascending(posted \o batch \o pending \o buffer)
    BY DEF WriteOrder, Ascending
  <2>1. /\ posted \in Seq(Events) /\ batch \in Seq(Events)
        /\ pending \in Seq(Events) /\ buffer \in Seq(Events)
    BY DEF IInv, TypeOK, UploaderTypeOK
  <2>2. Line \in Seq(Events) /\ Cat(posted, Line) \in Seq(Events)
        /\ Range(Cat(posted, Line)) = Range(posted) \cup Range(Line)
    <3>1. Line \in Seq(Events)
      BY <2>1, CatProperties DEF Line
    <3> QED BY <2>1, <3>1, CatProperties
  <2>3. Ordered
    BY DEF IInv, OrderInv
  <2>4. Ascending(Cat(posted, Line))
    BY <2>1, <2>2, <2>3, AscendingConcat DEF Ordered
  <2>5. Below(Cat(posted, Line), buffer)
    BY <2>2, <2>3 DEF Ordered, Below
  <2>6. Ascending(Cat(Cat(posted, Line), buffer))
    BY <2>1, <2>2, <2>3, <2>4, <2>5, AscendingConcat DEF Ordered
  <2>7. Cat(posted, Line) = Cat(Cat(posted, batch), pending)
    BY <2>1, CatAssociative DEF Line
  <2>8. Ascending(Cat(Cat(Cat(posted, batch), pending), buffer))
    BY <2>6, <2>7
  <2> QED BY <2>8 DEF Cat
<1> QED BY <1>1, Invariance, PTL

\* When a write or a flush returns its events are posted or were refused for
\* good, unless the count of dropped batches has grown since the call or the
\* uploader was closed; and so are, when close finds the queue flushed within
\* its grace period, the events it found (HybridTransport.ts, write, flush,
\* close and postOnce; flush of the uploader).
THEOREM SettledWhenReturnedCorrect == Spec => []SettledWhenReturned
<1>1. IInv => SettledWhenReturned
  BY DEF IInv, FlushInv, Answered, SettledWhenReturned
<1> QED BY <1>1, Invariance, PTL

-----------------------------------------------------------------------------
(* The uploader keeps what EventStream promises. *)

\* Stream u is s, then t.
Divided(u, s, t) ==
    /\ IsPrefix(s, u)
    /\ SubSeq(u, 1, Len(s)) = s
    /\ SubSeq(u, Len(s) + 1, Len(u)) = t

\* The first of two joined streams is a head of them, the second the rest.
LEMMA HeadAndRest ==
    ASSUME NEW T, NEW s \in Seq(T), NEW t \in Seq(T)
    PROVE  Divided(Cat(s, t), s, t)
  <1> DEFINE u == Cat(s, t)
  <1>1. Len(s) \in Nat /\ Len(t) \in Nat
    OBVIOUS
  <1>2. /\ u \in Seq(T) /\ Len(u) = Len(s) + Len(t)
        /\ \A i \in 1..(Len(s) + Len(t)) :
              u[i] = IF i <= Len(s) THEN s[i] ELSE t[i - Len(s)]
    BY CatProperties
  <1> HIDE DEF u
  <1>3. SubSeq(u, 1, Len(s)) = s
    <2> DEFINE h == SubSeq(u, 1, Len(s))
    <2>1. h \in Seq(T) /\ Len(h) = Len(s)
          /\ \A i \in 1..Len(s) : h[i] = u[i]
      BY <1>1, <1>2
    <2> HIDE DEF h
    <2>2. \A i \in 1..Len(s) : h[i] = s[i]
      BY <1>1, <1>2, <2>1
    <2>3. h = s
      BY <2>1, <2>2, SeqEqual
    <2> QED BY <2>3 DEF h
  <1>4. SubSeq(u, Len(s) + 1, Len(u)) = t
    <2> DEFINE r == SubSeq(u, Len(s) + 1, Len(u))
    <2>1. /\ r \in Seq(T) /\ Len(r) = Len(t)
          /\ \A i \in 1..Len(t) : r[i] = u[Len(s) + i]
      BY <1>1, <1>2
    <2> HIDE DEF r
    <2>2. ASSUME NEW i \in 1..Len(t) PROVE r[i] = t[i]
      <3>1. /\ Len(s) + i \in 1..(Len(s) + Len(t)) /\ ~(Len(s) + i <= Len(s))
            /\ (Len(s) + i) - Len(s) = i
        BY <1>1
      <3> QED BY <1>2, <2>1, <3>1
    <2>3. r = t
      BY <2>1, <2>2, SeqEqual
    <2> QED BY <2>3 DEF r
  <1>5. SubSeq(s, 1, Len(s)) = s /\ Len(s) <= Len(u)
    BY <1>1, <1>2, SubSeqFull
  <1>6. IsPrefix(s, u)
    BY <1>3, <1>5 DEF IsPrefix
  <1> QED BY <1>3, <1>4, <1>6 DEF u, Divided

\* The events under way that can be sent are an ordered stream: accepted at
\* the end, posted or lost from the head, whatever failures, retries,
\* dropped batches and waiting callers come between
\* (SerialBatchEventUploader.ts).
THEOREM StreamCorrect == Spec => StreamSpec
  <1>1. Init => Promise!Init
    <2> SUFFICES ASSUME Init PROVE Promise!Init
      OBVIOUS
    <2>1. pending = <<>> /\ batch = <<>> /\ posted = <<>> /\ closed = FALSE
      BY DEF Init, UploaderInit
    <2>2. batch \o pending = <<>>
      BY <2>1, NothingLeft DEF Cat
    <2>3. SendableIn(<<>>) = <<>>
      BY NothingLeft, SendableEmpty
    <2> QED BY <2>1, <2>2, <2>3 DEF Promise!Init, Unsettled
  <1>2. ASSUME IInv, [Next]_vars
        PROVE  [Promise!Next]_<<Unsettled, posted, closed>>
    <2>1. Unsettled = SendableIn(Line) /\ Unsettled' = SendableIn(Line')
      BY DEF Unsettled, Line, Cat, SendableIn, Sendable
    <2>2. CASE UNCHANGED vars
      <3>1. UNCHANGED <<batch, pending, posted, closed>>
        BY <2>2 DEF vars, uploader
      <3>2. Line' = Line
        BY <3>1 DEF Line, Cat
      <3> QED BY <2>1, <3>1, <3>2
    <2>3. CASE Next
      <3>1. /\ batch \in Seq(Events) /\ pending \in Seq(Events) /\ posted \in Seq(Events)
            /\ Line \in Seq(Events) /\ Line = Cat(batch, pending)
            /\ \A e \in Range(batch) : Sendable(e)
        <4>1. batch \in Seq(Events) /\ pending \in Seq(Events) /\ posted \in Seq(Events)
          BY <1>2 DEF IInv, TypeOK, UploaderTypeOK
        <4> QED BY <1>2, <4>1, CatProperties DEF Line, IInv, LoopInv
      <3> DEFINE rest == SendableIn(pending)
                 stream == Unsettled
                 stream1 == Unsettled'
      <3>2. rest \in Seq(Events)
        BY <3>1, SendableKept
      <3>3. stream = Cat(batch, rest)
        BY <2>1, <3>1, SendableAll, SendableConcat
      <3>4. /\ SubSeq(stream, 1, Len(batch)) = batch
            /\ SubSeq(stream, Len(batch) + 1, Len(stream)) = rest
            /\ IsPrefix(batch, stream)
            /\ Len(stream) = Len(batch) + Len(rest)
        <4> HIDE DEF rest, stream
        <4>1. Len(Cat(batch, rest)) = Len(batch) + Len(rest)
          BY <3>1, <3>2, CatProperties
        <4>2. Divided(Cat(batch, rest), batch, rest)
          BY <3>1, <3>2, HeadAndRest
        <4> QED BY <3>3, <4>1, <4>2 DEF Divided
      <3>5. ASSUME batch # <<>> PROVE Len(batch) \in 1..Len(stream)
        <4>1. Len(batch) \in Nat /\ Len(batch) >= 1 /\ Len(rest) \in Nat
          BY <3>1, <3>2, <3>5
        <4> QED BY <3>4, <4>1
      <3>6. Carried(pending, Line') => stream1 = rest
        BY <2>1 DEF Carried
      <3>7. QueueStep
        BY <1>2, <2>3, UploaderAssumption, Stepped
      <3>8. CASE Keeps
        BY <2>1, <3>8 DEF Keeps, Carried
      <3>9. CASE \E items : Takes(items)
        <4>1. PICK items : Takes(items)
          BY <3>9
        <4>2. /\ items \in Seq(Events) /\ ~closed
              /\ stream1 = SendableIn(Cat(Line, items))
              /\ UNCHANGED <<posted, closed>>
          BY <2>1, <4>1 DEF Takes, Carried
        <4>3. stream1 = Cat(stream, SendableIn(items))
          BY <2>1, <3>1, <4>2, SendableConcat
        <4>4. stream \in Seq(Events) /\ SendableIn(items) \in Seq(Events)
          BY <2>1, <3>1, <4>2, SendableKept
        <4>5. IsPrefix(stream, stream1)
          BY <4>3, <4>4, HeadAndRest DEF Divided
        <4>6. Promise!Accept
          BY <4>2, <4>5 DEF Promise!Accept, Promise!IsPrefix, IsPrefix
        <4> QED BY <4>6 DEF Promise!Next
      <3>10. CASE Posts
        <4>1. /\ posted' = posted \o SubSeq(stream, 1, Len(batch))
              /\ stream1 = SubSeq(stream, Len(batch) + 1, Len(stream))
              /\ Len(batch) \in 1..Len(stream) /\ UNCHANGED closed
          BY <3>4, <3>5, <3>6, <3>10 DEF Posts, Cat
        <4>2. Promise!Post
          BY <4>1 DEF Promise!Post
        <4> QED BY <4>2 DEF Promise!Next
      <3>11. CASE Refuses \/ GivesUp
        <4>1. /\ stream1 = SubSeq(stream, Len(batch) + 1, Len(stream))
              /\ Len(batch) \in 1..Len(stream) /\ UNCHANGED <<posted, closed>>
          BY <3>4, <3>5, <3>6, <3>11 DEF GivesUp, Refuses
        <4>2. Promise!GiveUp
          BY <4>1 DEF Promise!GiveUp
        <4> QED BY <4>2 DEF Promise!Next
      <3>12. CASE Closes
        <4>1. stream1 = batch
          BY <2>1, <3>1, <3>12, SendableAll DEF Closes
        <4>2. closed' = TRUE /\ ~closed /\ UNCHANGED posted
          <5>1. closed' \in BOOLEAN
            BY <1>2, <3>7, UploaderAssumption, LineGoesOn
               DEF IInv, TypeOK, UploaderTypeOK, Ready, QueueTypes
          <5> QED BY <3>12, <5>1 DEF Closes
        <4>3. Promise!Close
          BY <3>4, <4>1, <4>2 DEF Promise!Close, Promise!IsPrefix, IsPrefix
        <4> QED BY <4>3 DEF Promise!Next
      <3> QED BY <3>7, <3>8, <3>9, <3>10, <3>11, <3>12 DEF QueueStep
    <2> QED BY <1>2, <2>2, <2>3
  <1> QED BY <1>1, <1>2, Invariance, PTL DEF Spec, StreamSpec, Promise!Spec
=============================================================================
