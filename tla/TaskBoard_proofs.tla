-------------------------- MODULE TaskBoard_proofs --------------------------
(***************************************************************************)
(* The safety of the task board, for any number of agents, tasks,          *)
(* operations and crashes.                                                 *)
(*                                                                         *)
(* The invariants are stated of the operation o of an agent wherever they  *)
(* can be, since a step changes the operation of one agent only: they hold *)
(* of the others as before.                                                *)
(***************************************************************************)
EXTENDS TaskBoard, FiniteSetTheorems, SequenceTheorems,
        WellFoundedInduction, TLAPS

-----------------------------------------------------------------------------
(* Types: what an operation is made of, and what it has at which place. *)

Changes ==
    [owner : Agent \cup {None}] \cup [status : Status]
    \cup [owner : Agent \cup {None}, status : Status]
    \cup [blocks : SUBSET Id] \cup [blockedBy : SUBSET Id]
    \cup [blocks : SUBSET Id, blockedBy : SUBSET Id]

Op == [kind : Kinds, pc : Places, id : 0..MaxId, seen : Task \cup {None},
       todo : Seq(Id \X Changes), high : 0..MaxId, rest : SUBSET Id]

Writing == {"read", "truncate", "fill"}
LockPlaces == {"claim_read", "claim_list"} \cup Writing

ToWrite(a, i) == << <<i, [owner |-> a]>> >>

Shape(a, o) ==
    /\ o \in Op
    /\ o.kind = "idle" => o.pc = "idle" /\ o.todo = <<>>
    /\ o.kind = "create" =>
          /\ o.pc \in {"list_lock", "scan", "read_mark", "read_names",
                       "create", "fill_new"}
          /\ o.pc \in {"create", "fill_new"} => o.id \in Id
          /\ o.todo = <<>>
    /\ o.kind = "reset" =>
          /\ o.pc \in {"list_lock", "scan", "read_mark", "write_mark",
                       "fill_mark", "sweep", "unlink"}
          /\ o.todo = <<>>
    /\ o.kind = "delete" =>
          /\ o.pc \in {"read_mark", "write_mark", "fill_mark", "unlink",
                       "cascade"}
          /\ o.id \in Id /\ o.todo = <<>>
    /\ o.kind = "claim" =>
          /\ o.pc \in {"lock"} \cup LockPlaces
          /\ o.id \in Id
          /\ o.todo = IF o.pc \in Writing THEN ToWrite(a, o.id) ELSE <<>>
          /\ o.pc \in {"claim_list"} \cup Writing => o.seen \in Task
    /\ o.kind = "update" =>
          /\ o.pc \in {"precheck", "lock"} \cup Writing
          /\ o.todo # <<>>
          /\ o.pc \in {"truncate", "fill"} => o.seen \in Task

Types ==
    /\ file \in [Id -> Task \cup {None, Empty}]
    /\ mark \in 0..MaxId \cup {Empty}
    /\ taskLock \in [Id -> Agent \cup {None}]
    /\ listLock \in Agent \cup {None}
    /\ op \in [Agent -> Op]
    /\ \A a \in Agent : Shape(a, op[a])
    /\ used \subseteq Id /\ edges \subseteq Id \X Id

-----------------------------------------------------------------------------
(* Locks. *)

TargetOf(o) == IF o.kind = "claim" THEN o.id ELSE Head(o.todo)[1]

Locked(o) == o.pc \in LockPlaces
ListLocked(o) == o.kind \in {"create", "reset"} /\ o.pc # "list_lock"

Locks ==
    \A a \in Agent :
        /\ Locked(op[a]) => taskLock[TargetOf(op[a])] = a
        /\ ListLocked(op[a]) => listLock = a

-----------------------------------------------------------------------------
(* Identifiers in use: files, operations and arrays name no others. *)

InHand(o, i) ==
    \/ o.kind \in {"claim", "delete"} /\ o.id = i
    \/ \E k \in DOMAIN o.todo : o.todo[k][1] = i

KnownOf(o) ==
    /\ \A i \in Id : InHand(o, i) => i \in used
    /\ o.seen \in Task => o.seen.blockedBy \subseteq used
    /\ \A k \in DOMAIN o.todo : "blockedBy" \in DOMAIN o.todo[k][2] =>
                                    o.todo[k][2].blockedBy \subseteq used
    /\ o.kind = "create" /\ o.pc = "fill_new" => o.id \in used

Known ==
    /\ \A i \in Id : file[i] # None => i \in used
    /\ \A i \in Id : Readable(i) => file[i].blockedBy \subseteq used
    /\ \A a \in Agent : KnownOf(op[a])
    /\ \A e \in edges : e[1] \in used /\ e[2] \in used

-----------------------------------------------------------------------------
(* Numbering: the mark or the name of a file covers every identifier used. *)

Marked(u) == u <= MarkRead
Named(u) == \E i \in Id : file[i] # None /\ u <= i

CoversOf(o) ==
    /\ o.kind = "create" /\ o.pc = "read_mark" =>
          \A u \in used : u <= o.high \/ Marked(u)
    /\ o.kind = "create" /\ o.pc = "read_names" =>
          \A u \in used : u <= o.high \/ Named(u)
    /\ o.kind = "create" /\ o.pc = "create" => \A u \in used : u < o.id
    /\ o.kind = "delete" /\ o.pc # "cascade" => file[o.id] # None
    /\ o.kind = "delete" /\ o.pc = "unlink" => Marked(o.id)
    /\ o.pc = "write_mark" => o.id > MarkRead
    /\ o.pc = "fill_mark" => mark = Empty
    /\ o.kind = "reset" /\ o.pc \in {"read_mark", "write_mark", "fill_mark"} =>
          /\ o.id \in Id /\ file[o.id] # None
          /\ \A u \in used : u <= o.id \/ Marked(u)
    /\ o.kind = "reset" /\ o.pc \in {"sweep", "unlink"} =>
          \A u \in used : Marked(u)

Covers ==
    ~raced =>
        /\ ~reused /\ ~Overlap
        /\ \A u \in used : Marked(u) \/ Named(u)
        /\ \A a \in Agent : CoversOf(op[a])

-----------------------------------------------------------------------------
(* A new file is in nobody's hand, and a task is written only by the        *)
(* holder of its lock.                                                      *)

Creating(o) == o.kind = "create" /\ o.pc = "fill_new"

Fresh ==
    \A a \in Agent : Creating(op[a]) =>
        /\ file[op[a].id] \in {None, Empty}
        /\ \A b \in Agent \ {a} : /\ ~InHand(op[b], op[a].id)
                                  /\ ~(Creating(op[b]) /\ op[b].id = op[a].id)
        /\ \A e \in edges : e[2] # op[a].id

AtomicOf(a, o) ==
    /\ o.pc = "truncate" => file[TargetOf(o)] \in {o.seen, None}
    /\ o.pc = "fill" => file[TargetOf(o)] \in {Empty, None}
    /\ o.kind = "claim" /\ o.pc \in {"claim_list", "read"} =>
          file[o.id] \in {o.seen, None}
    /\ o.kind = "claim" /\ o.pc \in {"claim_list"} \cup Writing =>
          o.seen.owner \in {None, a}

Atomic == ~reused => Fresh /\ \A a \in Agent : AtomicOf(a, op[a])

-----------------------------------------------------------------------------
(* Blockers and edges. *)

\* The task b is resolved and stays so, whoever is writing it.
Settled(b) ==
    /\ ~Unresolved(b)
    /\ file[b] = Empty =>
          \A a \in Agent :
              /\ op[a].pc = "fill" /\ TargetOf(op[a]) = b =>
                    op[a].seen.status = "completed"
              /\ ~(Creating(op[a]) /\ op[a].id = b)

Resolved ==
    ~blurred /\ ~reused =>
        \A a \in Agent : op[a].kind = "claim" /\ op[a].pc \in Writing =>
            \A b \in op[a].seen.blockedBy : Settled(b)

\* The operation o keeps the edge e.
KeepsEdge(o, e) ==
    /\ o.pc \in {"truncate", "fill"} /\ TargetOf(o) = e[2] =>
          e[1] \in Patched(o.seen, Head(o.todo)[2]).blockedBy
    /\ \A k \in DOMAIN o.todo :
          o.todo[k][1] = e[2] /\ "blockedBy" \in DOMAIN o.todo[k][2] =>
              e[1] \in o.todo[k][2].blockedBy

Distinct(o) ==
    \A k, l \in DOMAIN o.todo : k # l => o.todo[k][1] # o.todo[l][1]

Edges ==
    /\ \A a \in Agent : Distinct(op[a])
    /\ ~crossed => ~Crossing
    /\ ~crossed /\ ~blurred /\ ~reused =>
          /\ \A a \in Agent : op[a].kind = "delete" /\ op[a].pc = "cascade" =>
                file[op[a].id] = None
          /\ \A e \in edges : file[e[1]] # None =>
                /\ Readable(e[2]) => e[1] \in file[e[2]].blockedBy
                /\ \A a \in Agent : KeepsEdge(op[a], e)

IInv == Types /\ Locks /\ Known /\ Covers /\ Atomic /\ Resolved /\ Edges

-----------------------------------------------------------------------------
(* Numbers and records. *)

LEMMA Least ==
    ASSUME NEW S \in SUBSET Nat, S # {}
    PROVE  \E x \in S : \A y \in S : x <= y
<1>1. \E x \in S : \A y \in S : ~(<<y, x>> \in OpToRel(<, Nat))
  BY NatLessThanWellFounded, WFMin
<1>2. \A x, y \in Nat : ~(<<y, x>> \in OpToRel(<, Nat)) => x <= y
  BY DEF OpToRel
<1>3. PICK x \in S : \A y \in S : ~(<<y, x>> \in OpToRel(<, Nat))
  BY <1>1
<1>4. \A y \in S : x <= y
  <2> TAKE y \in S
  <2>1. x \in Nat /\ y \in Nat /\ ~(<<y, x>> \in OpToRel(<, Nat))
    BY <1>3
  <2> QED BY <2>1, <1>2
<1> QED BY <1>4

\* A non-empty set of small numbers has a greatest element.
LEMMA Greatest ==
    ASSUME NEW n \in Nat, NEW S \in SUBSET (0..n), S # {}
    PROVE  Max(S) \in S /\ \A y \in S : y <= Max(S)
<1> DEFINE T == {n - x : x \in S}
<1>1. T \in SUBSET Nat
  <2> SUFFICES ASSUME NEW x \in S PROVE n - x \in Nat
    OBVIOUS
  <2>1. x \in 0..n
    OBVIOUS
  <2> QED BY <2>1
<1>2. T # {}
  OBVIOUS
<1>3. PICK z \in T : \A y \in T : z <= y
  <2> HIDE DEF T
  <2> QED BY <1>1, <1>2, Least
<1>4. PICK x \in S : z = n - x
  OBVIOUS
<1>5. \A y \in S : x >= y
  <2> TAKE y \in S
  <2>1. z <= n - y
    BY <1>3
  <2>2. x \in 0..n /\ y \in 0..n
    OBVIOUS
  <2> QED BY <2>1, <2>2, <1>4
<1>6. Max(S) \in S /\ \A y \in S : Max(S) >= y
  BY <1>5 DEF Max
<1> QED
  <2> SUFFICES ASSUME NEW y \in S PROVE y <= Max(S)
    BY <1>6
  <2>1. Max(S) >= y /\ y \in 0..n /\ Max(S) \in 0..n
    BY <1>6
  <2> QED BY <2>1

LEMMA HighestIs ==
    /\ HighestFile \in 0..MaxId
    /\ \A i \in Id : file[i] # None => i <= HighestFile
    /\ HighestFile > 0 => HighestFile \in Id /\ file[HighestFile] # None
<1> DEFINE S == {0} \cup {i \in Id : file[i] # None}
<1>1. S \in SUBSET (0..MaxId) /\ S # {}
  BY BoundsAssumption DEF Id
<1>2. HighestFile \in S /\ \A y \in S : y <= HighestFile
  <2> HIDE DEF S
  <2>1. Max(S) \in S /\ \A y \in S : y <= Max(S)
    BY <1>1, Greatest, BoundsAssumption
  <2> QED BY <2>1 DEF HighestFile, S
<1> QED BY <1>1, <1>2

LEMMA MarkIs == mark \in 0..MaxId \cup {Empty} => MarkRead \in 0..MaxId
BY BoundsAssumption DEF MarkRead

\* What an update makes of a task.
LEMMA PatchedIs ==
    ASSUME NEW t \in Task, NEW c \in Changes
    PROVE  /\ Patched(t, c) \in Task
           /\ "owner" \notin DOMAIN c => Patched(t, c).owner = t.owner
           /\ "status" \notin DOMAIN c => Patched(t, c).status = t.status
           /\ "blockedBy" \notin DOMAIN c =>
                 Patched(t, c).blockedBy = t.blockedBy
           /\ "owner" \in DOMAIN c => Patched(t, c).owner = c.owner
           /\ "status" \in DOMAIN c => Patched(t, c).status = c.status
           /\ "blockedBy" \in DOMAIN c =>
                 /\ Patched(t, c).blockedBy = c.blockedBy
                 /\ c.blockedBy \in SUBSET Id
BY DEF Task, Changes, Patched

LEMMA HeadTail ==
    ASSUME NEW S, NEW s \in Seq(S), s # <<>>
    PROVE  /\ Head(s) \in S /\ Head(s) = s[1] /\ 1 \in DOMAIN s
           /\ Tail(s) \in Seq(S)
           /\ Len(s) # 1 => Tail(s) # <<>>
           /\ \A k \in DOMAIN Tail(s) : /\ k + 1 \in DOMAIN s /\ k + 1 # 1
                                        /\ Tail(s)[k] = s[k + 1]
<1>1. Len(s) \in Nat \ {0} /\ DOMAIN s = 1..Len(s)
  OBVIOUS
<1>2. /\ Tail(s) \in Seq(S) /\ Len(Tail(s)) = Len(s) - 1
      /\ \A k \in 1..Len(Tail(s)) : Tail(s)[k] = s[k + 1]
  BY HeadTailProperties
<1>3. Head(s) \in S /\ Head(s) = s[1] /\ 1 \in DOMAIN s
  BY <1>1
<1>4. Len(s) # 1 => Tail(s) # <<>>
  BY <1>1, <1>2
<1>5. \A k \in DOMAIN Tail(s) : /\ k + 1 \in DOMAIN s /\ k + 1 # 1
                                /\ Tail(s)[k] = s[k + 1]
  BY <1>1, <1>2
<1> QED BY <1>2, <1>3, <1>4, <1>5

-----------------------------------------------------------------------------
(* A step of the agent a that leaves the files of the tasks alone: what it  *)
(* has to say of the new operation o of a.                                  *)

Base == Types /\ Locks /\ Known /\ Atomic /\ Resolved /\ Edges

Becomes(a, o) == op' = [op EXCEPT ![a] = o]

Fits(a, o) ==
    /\ Shape(a, o) /\ KnownOf(o) /\ Distinct(o)
    /\ ~Creating(o) /\ o.pc # "fill"
    /\ \A i \in Id : InHand(o, i) => InHand(op[a], i) \/ Readable(i)
    /\ ~reused => AtomicOf(a, o)

\* Nobody's lock is taken away from him, and a has those that it needs.
LocksFit(a, o) ==
    /\ taskLock' \in [Id -> Agent \cup {None}]
    /\ listLock' \in Agent \cup {None}
    /\ \A i \in Id : taskLock'[i] # taskLock[i] => taskLock[i] \in {a, None}
    /\ listLock' # listLock => listLock \in {a, None}
    /\ Locked(o) => taskLock'[TargetOf(o)] = a
    /\ ListLocked(o) => listLock' = a

EdgesFit(o) ==
    /\ o.kind = "delete" /\ o.pc = "cascade" => file[o.id] = None
    /\ \A e \in edges :
          /\ file[e[1]] # None
          /\ Readable(e[2]) => e[1] \in file[e[2]].blockedBy
          => KeepsEdge(o, e)

FlagsGrow ==
    /\ blurred => blurred'
    /\ crossed => crossed'
    /\ ~crossed' => ~Crossing'

LEMMA TargetIs ==
    ASSUME NEW a \in Agent, NEW o, Shape(a, o), o.pc \in {"lock", "precheck"} \cup LockPlaces
    PROVE  TargetOf(o) \in Id /\ InHand(o, TargetOf(o))
<1>1. CASE o.kind = "claim"
  BY <1>1 DEF Shape, TargetOf, InHand
<1>2. CASE o.kind = "update"
  <2>1. o.todo \in Seq(Id \X Changes) /\ o.todo # <<>>
    BY <1>2 DEF Shape, Op
  <2>2. /\ Head(o.todo) \in Id \X Changes /\ Head(o.todo) = o.todo[1]
        /\ 1 \in DOMAIN o.todo
    BY <2>1, HeadTail
  <2> QED BY <1>2, <2>2 DEF TargetOf, InHand
<1>3. o.kind \in {"claim", "update"}
  BY DEF Shape, Op, Kinds, LockPlaces, Writing
<1> QED BY <1>1, <1>2, <1>3

LEMMA LocksQuiet ==
    ASSUME Types, Locks, NEW a \in Agent, NEW o, Becomes(a, o), LocksFit(a, o)
    PROVE  Locks'
<1> SUFFICES ASSUME NEW b \in Agent
             PROVE  /\ Locked(op'[b]) => taskLock'[TargetOf(op'[b])] = b
                    /\ ListLocked(op'[b]) => listLock' = b
  BY DEF Locks, Locked, ListLocked, TargetOf
<1>1. CASE b = a
  <2>1. op'[b] = o
    BY <1>1 DEF Becomes, Types
  <2> QED BY <1>1, <2>1 DEF LocksFit
<1>2. CASE b # a
  <2>1. op'[b] = op[b]
    BY <1>2 DEF Becomes, Types
  <2>2. /\ Locked(op[b]) => taskLock[TargetOf(op[b])] = b
        /\ ListLocked(op[b]) => listLock = b
    BY DEF Locks
  <2>3. Locked(op[b]) => TargetOf(op[b]) \in Id
    BY TargetIs DEF Types, Locked
  <2>4. b # None
    BY NamesAssumption
  <2> QED BY <1>2, <2>1, <2>2, <2>3, <2>4 DEF LocksFit
<1> QED BY <1>1, <1>2

LEMMA TypesQuiet ==
    ASSUME Types, NEW a \in Agent, NEW o, Becomes(a, o), Shape(a, o),
           LocksFit(a, o), file' \in [Id -> Task \cup {None, Empty}],
           mark' \in 0..MaxId \cup {Empty}, used' \subseteq Id,
           edges' \subseteq Id \X Id
    PROVE  Types'
<1>1. op' \in [Agent -> Op] /\ \A b \in Agent : Shape(b, op'[b])
  BY DEF Types, Becomes, Shape
<1> QED BY <1>1 DEF Types, LocksFit, Shape

LEMMA KnownQuiet ==
    ASSUME Types, Known, NEW a \in Agent, NEW o, Becomes(a, o), KnownOf(o),
           UNCHANGED <<file, used, edges>>
    PROVE  Known'
<1>1. \A b \in Agent : KnownOf(op'[b])
  BY DEF Becomes, Types, Known
<1>2. \A b \in Agent : KnownOf(op[b])'
  BY <1>1 DEF KnownOf, InHand
<1> QED BY <1>2 DEF Known, Readable

LEMMA AtomicQuiet ==
    ASSUME Types, Atomic, NEW a \in Agent, NEW o, Becomes(a, o), Fits(a, o),
           UNCHANGED <<file, edges, reused>>
    PROVE  Atomic'
<1> SUFFICES ASSUME ~reused
             PROVE  Fresh' /\ \A b \in Agent : AtomicOf(b, op[b])'
  BY DEF Atomic
<1>0. op'[a] = o /\ \A b \in Agent \ {a} : op'[b] = op[b]
  BY DEF Becomes, Types
<1>1. \A b \in Agent : AtomicOf(b, op[b])'
  BY <1>0 DEF Atomic, Fits, AtomicOf, TargetOf
<1>2. Fresh'
  <2> SUFFICES ASSUME NEW c \in Agent, Creating(op'[c])
               PROVE  /\ file[op'[c].id] \in {None, Empty}
                      /\ \A b \in Agent \ {c} :
                            /\ ~InHand(op'[b], op'[c].id)
                            /\ ~(Creating(op'[b]) /\ op'[b].id = op'[c].id)
                      /\ \A e \in edges : e[2] # op'[c].id
    BY DEF Fresh, Creating, InHand
  <2>1. c # a /\ op'[c] = op[c]
    BY <1>0 DEF Fits
  <2>2. /\ file[op[c].id] \in {None, Empty}
        /\ \A b \in Agent \ {c} :
              /\ ~InHand(op[b], op[c].id)
              /\ ~(Creating(op[b]) /\ op[b].id = op[c].id)
        /\ \A e \in edges : e[2] # op[c].id
    BY <2>1 DEF Atomic, Fresh
  <2>3. op[c].id \in Id /\ ~Readable(op[c].id)
    BY <2>1, <2>2 DEF Types, Shape, Creating, Readable
  <2>4. ~InHand(o, op[c].id) /\ ~Creating(o)
    BY <2>1, <2>2, <2>3 DEF Fits
  <2> QED BY <1>0, <2>1, <2>2, <2>4
<1> QED BY <1>1, <1>2

LEMMA ResolvedQuiet ==
    ASSUME Types, Resolved, NEW a \in Agent, NEW o, Becomes(a, o), Fits(a, o),
           UNCHANGED <<file, reused>>, blurred => blurred',
           ~blurred' /\ ~reused /\ o.kind = "claim" /\ o.pc \in Writing =>
               \A b \in o.seen.blockedBy : Settled(b)
    PROVE  Resolved'
<1> SUFFICES ASSUME ~blurred', ~reused, NEW c \in Agent,
                    op'[c].kind = "claim", op'[c].pc \in Writing,
                    NEW b \in op'[c].seen.blockedBy
             PROVE  Settled(b)'
  BY DEF Resolved
<1>0. op'[a] = o /\ \A d \in Agent \ {a} : op'[d] = op[d]
  BY DEF Becomes, Types
<1>1. Settled(b)
  BY <1>0 DEF Resolved
<1>2. o.pc # "fill" /\ ~Creating(o)
  BY DEF Fits
<1>3. \A d \in Agent : /\ op'[d].pc = "fill" => op'[d] = op[d]
                       /\ Creating(op'[d]) => op'[d] = op[d]
  BY <1>0, <1>2
<1> QED BY <1>1, <1>3 DEF Settled, Unresolved, Readable, TargetOf, Creating

LEMMA EdgesQuiet ==
    ASSUME Types, Edges, NEW a \in Agent, NEW o, Becomes(a, o), Distinct(o),
           UNCHANGED <<file, edges, reused>>, FlagsGrow,
           ~crossed' /\ ~blurred' /\ ~reused => EdgesFit(o)
    PROVE  Edges'
<1>0. op'[a] = o /\ \A b \in Agent \ {a} : op'[b] = op[b]
  BY DEF Becomes, Types
<1>1. \A b \in Agent : Distinct(op[b])'
  BY <1>0 DEF Edges, Distinct
<1>2. ASSUME ~crossed', ~blurred', ~reused
      PROVE  /\ \A b \in Agent : op'[b].kind = "delete" /\ op'[b].pc = "cascade"
                                    => file[op'[b].id] = None
             /\ \A e \in edges : file[e[1]] # None =>
                   /\ Readable(e[2]) => e[1] \in file[e[2]].blockedBy
                   /\ \A b \in Agent : KeepsEdge(op'[b], e)
  <2>1. /\ \A b \in Agent : op[b].kind = "delete" /\ op[b].pc = "cascade"
                               => file[op[b].id] = None
        /\ \A e \in edges : file[e[1]] # None =>
              /\ Readable(e[2]) => e[1] \in file[e[2]].blockedBy
              /\ \A b \in Agent : KeepsEdge(op[b], e)
    BY <1>2 DEF Edges, FlagsGrow
  <2>2. EdgesFit(o)
    BY <1>2
  <2> QED BY <1>0, <2>1, <2>2 DEF EdgesFit
<1> QED BY <1>1, <1>2 DEF Edges, FlagsGrow, KeepsEdge, TargetOf, Readable

LEMMA Quiet ==
    ASSUME Base, NEW a \in Agent, NEW o, Becomes(a, o), Fits(a, o),
           LocksFit(a, o), UNCHANGED <<file, used, edges, reused>>, FlagsGrow,
           mark' \in 0..MaxId \cup {Empty},
           ~blurred' /\ ~reused /\ o.kind = "claim" /\ o.pc \in Writing =>
               \A b \in o.seen.blockedBy : Settled(b),
           ~crossed' /\ ~blurred' /\ ~reused => EdgesFit(o)
    PROVE  Base'
<1>1. Types' BY TypesQuiet DEF Base, Fits, Types
<1>2. Locks' BY LocksQuiet DEF Base
<1>3. Known' BY KnownQuiet DEF Base, Fits
<1>4. Atomic' BY AtomicQuiet DEF Base
<1>5. Resolved' BY ResolvedQuiet DEF Base, FlagsGrow
<1>6. Edges' BY EdgesQuiet DEF Base, Fits
<1> QED BY <1>1, <1>2, <1>3, <1>4, <1>5, <1>6 DEF Base

-----------------------------------------------------------------------------
(* Steps after which a has no task in hand, or the one it had. *)

Flags == crossed' = (crossed \/ Crossing')

PlainOp(a, o) ==
    /\ Shape(a, o)
    /\ o.kind \in {"idle", "create", "reset", "delete"}
    /\ o.pc \notin {"fill_new", "cascade"}
    /\ o.seen \in {None, op[a].seen}
    /\ o.kind = "delete" =>
          Readable(o.id) \/ (op[a].kind = "delete" /\ op[a].id = o.id)

LEMMA IdleIs ==
    /\ Idle \in Op /\ Idle.todo = <<>> /\ Idle.seen = None
    /\ Idle.kind = "idle" /\ Idle.pc = "idle"
BY BoundsAssumption DEF Idle, Op, Kinds, Places

LEMMA PlainFits ==
    ASSUME Base, NEW a \in Agent, NEW o, PlainOp(a, o)
    PROVE  Fits(a, o) /\ EdgesFit(o) /\ ~Locked(o) /\ o.kind # "claim"
<1>1. o.todo = <<>> /\ DOMAIN o.todo = {}
  BY DEF PlainOp, Shape
<1>2. o.pc \notin LockPlaces /\ ~Creating(o)
  BY DEF PlainOp, Shape, LockPlaces, Writing, Creating
<1>3. \A i \in Id : InHand(o, i) => InHand(op[a], i) \/ Readable(i)
  BY <1>1 DEF InHand, PlainOp
<1>4. KnownOf(o)
  <2>1. \A i \in Id : InHand(o, i) => i \in used
    BY <1>3 DEF Base, Known, KnownOf, Readable
  <2>2. o.seen \in Task => o.seen.blockedBy \subseteq used
    BY NamesAssumption DEF PlainOp, Base, Known, KnownOf
  <2> QED BY <1>1, <1>2, <2>1, <2>2 DEF KnownOf, Creating
<1>5. AtomicOf(a, o) /\ EdgesFit(o)
  BY <1>1, <1>2 DEF AtomicOf, EdgesFit, KeepsEdge, PlainOp, LockPlaces, Writing
<1>6. Distinct(o)
  BY <1>1 DEF Distinct
<1> QED
  BY <1>2, <1>3, <1>4, <1>5, <1>6
  DEF Fits, PlainOp, Locked, LockPlaces, Writing

LEMMA Plainly ==
    ASSUME Base, NEW a \in Agent, NEW o, PlainOp(a, o), Becomes(a, o),
           UNCHANGED <<file, used, edges, reused>>, Flags, blurred => blurred',
           mark' \in 0..MaxId \cup {Empty},
           taskLock' \in [Id -> Agent \cup {None}],
           listLock' \in Agent \cup {None},
           \A i \in Id : taskLock'[i] # taskLock[i] => taskLock[i] \in {a, None},
           listLock' # listLock => listLock \in {a, None},
           ListLocked(o) => listLock' = a
    PROVE  Base'
<1>1. Fits(a, o) /\ EdgesFit(o) /\ ~Locked(o) /\ o.kind # "claim"
  BY PlainFits
<1>2. LocksFit(a, o)
  BY <1>1 DEF LocksFit
<1>3. FlagsGrow
  BY DEF FlagsGrow, Flags
<1> QED BY <1>1, <1>2, <1>3, Quiet

\* What an agent at a place under the lock of the list is doing, and that
\* nothing of an idle agent is asked.
LEMMA IdlePlain ==
    ASSUME NEW a \in Agent
    PROVE  PlainOp(a, Idle) /\ ~ListLocked(Idle) /\ ~Locked(Idle)
BY BoundsAssumption, NamesAssumption
DEF PlainOp, Idle, Shape, Op, Kinds, Places, ListLocked, Locked, LockPlaces,
    Writing

LEMMA TakeListLockBase ==
    ASSUME Base, NEW a \in Agent, TakeListLock(a), Flags
    PROVE  Base'
<1> DEFINE o == [op[a] EXCEPT !.pc = "scan"]
<1>1. Shape(a, op[a]) /\ op[a] \in Op
  BY DEF Base, Types, Shape
<1>2. op[a].kind \in {"create", "reset"}
  BY <1>1 DEF TakeListLock, Shape, Op, Kinds, LockPlaces, Writing
<1>3. PlainOp(a, o)
  BY <1>1, <1>2 DEF PlainOp, Shape, Op, Kinds, Places
<1>4. Becomes(a, o)
  BY DEF TakeListLock, Goto, Becomes
<1> HIDE DEF o
<1> QED
  BY <1>3, <1>4, Plainly
  DEF TakeListLock, Base, Types, history, files

LEMMA CreateScanBase ==
    ASSUME Base, NEW a \in Agent, CreateScan(a), Flags
    PROVE  Base'
<1>1. Shape(a, op[a]) /\ op[a] \in Op /\ listLock = a
  BY DEF Base, Types, Shape, Locks, CreateScan, At, ListLocked
<1>2. HighestFile \in 0..MaxId /\ MarkRead \in 0..MaxId
  BY HighestIs, MarkIs DEF Base, Types
<1>3. PICK n \in 0..MaxId, pc \in {"read_mark", "read_names"} :
         Becomes(a, [op[a] EXCEPT !.high = n, !.pc = pc])
  BY <1>2 DEF CreateScan, Becomes
<1> DEFINE o == [op[a] EXCEPT !.high = n, !.pc = pc]
<1>4. PlainOp(a, o)
  BY <1>1, <1>3 DEF PlainOp, Shape, Op, Kinds, Places, CreateScan, At
<1> HIDE DEF o
<1>5. Becomes(a, o)
  BY <1>3 DEF o
<1> QED
  BY <1>1, <1>4, <1>5, Plainly
  DEF CreateScan, Base, Types, history, files, locks

LEMMA CreateChooseBase ==
    ASSUME Base, NEW a \in Agent, CreateChoose(a), Flags
    PROVE  Base'
<1> DEFINE o == [op[a] EXCEPT !.id = NextId(a), !.pc = "create"]
<1>1. Shape(a, op[a]) /\ op[a] \in Op /\ listLock = a
  BY DEF Base, Types, Shape, Locks, CreateChoose, At, ListLocked
<1>2. NextId(a) \in Id /\ NextId(a) \in 0..MaxId
  BY BoundsAssumption DEF CreateChoose, Id
<1>3. PlainOp(a, o)
  BY <1>1, <1>2 DEF PlainOp, Shape, Op, Kinds, Places, CreateChoose
<1>4. Becomes(a, o)
  BY DEF CreateChoose, Becomes
<1> HIDE DEF o
<1> QED
  BY <1>1, <1>3, <1>4, Plainly
  DEF CreateChoose, Base, Types, history, files, locks

LEMMA ResetScanBase ==
    ASSUME Base, NEW a \in Agent, ResetScan(a), Flags
    PROVE  Base'
<1>1. Shape(a, op[a]) /\ op[a] \in Op /\ listLock = a
  BY DEF Base, Types, Shape, Locks, ResetScan, At, ListLocked
<1>2. HighestFile \in 0..MaxId
  BY HighestIs
<1>3. PICK pc \in {"read_mark", "sweep"} :
         Becomes(a, [op[a] EXCEPT !.id = HighestFile, !.pc = pc])
  BY DEF ResetScan, Becomes
<1> DEFINE o == [op[a] EXCEPT !.id = HighestFile, !.pc = pc]
<1>4. PlainOp(a, o)
  BY <1>1, <1>2, <1>3 DEF PlainOp, Shape, Op, Kinds, Places, ResetScan, At
<1>5. Becomes(a, o)
  BY <1>3
<1> HIDE DEF o
<1> QED
  BY <1>1, <1>4, <1>5, Plainly
  DEF ResetScan, Base, Types, history, files, locks

LEMMA ResetSweepBase ==
    ASSUME Base, NEW a \in Agent, ResetSweep(a), Flags
    PROVE  Base'
<1> DEFINE o == [op[a] EXCEPT !.rest = {i \in Id : file[i] # None},
                              !.pc = "unlink"]
<1>1. Shape(a, op[a]) /\ op[a] \in Op /\ listLock = a
  BY DEF Base, Types, Shape, Locks, ResetSweep, At, ListLocked
<1>2. PlainOp(a, o)
  BY <1>1 DEF PlainOp, Shape, Op, Kinds, Places, ResetSweep, At
<1>3. Becomes(a, o)
  BY DEF ResetSweep, Becomes
<1> HIDE DEF o
<1> QED
  BY <1>1, <1>2, <1>3, Plainly
  DEF ResetSweep, Base, Types, history, files, locks

LEMMA ResetEndBase ==
    ASSUME Base, NEW a \in Agent, ResetEnd(a), Flags
    PROVE  Base'
<1>1. listLock = a
  BY DEF Base, Types, Shape, Locks, ResetEnd, At, ListLocked
<1>2. Becomes(a, Idle)
  BY DEF ResetEnd, EndUnderListLock, Becomes
<1> QED
  BY <1>1, <1>2, Plainly, IdlePlain
  DEF ResetEnd, EndUnderListLock, Base, Types, history, files

\* The mark is raised by the three kinds of steps of RaiseMark.
LEMMA RaiseMarkBase ==
    ASSUME Base, NEW a \in Agent, RaiseMark(a), Flags
    PROVE  Base'
<1>1. Shape(a, op[a]) /\ op[a] \in Op
  BY DEF Base, Types, Shape
<1>2. op[a].kind \in {"reset", "delete"}
  BY <1>1 DEF RaiseMark, ReadMark, WriteMark, FillMark, Shape, Op, Kinds,
              LockPlaces, Writing
<1>3. PICK pc \in {"write_mark", "fill_mark", AfterMark(a)} :
         Becomes(a, [op[a] EXCEPT !.pc = pc])
  BY DEF RaiseMark, ReadMark, WriteMark, FillMark, Becomes, Goto
<1> DEFINE o == [op[a] EXCEPT !.pc = pc]
<1>4. PlainOp(a, o)
  BY <1>1, <1>2, <1>3 DEF PlainOp, Shape, Op, Kinds, Places, AfterMark
<1>5. Becomes(a, o)
  BY <1>3
<1>6. ListLocked(o) => listLock = a
  BY <1>1, <1>2 DEF Base, Locks, ListLocked, RaiseMark, ReadMark, WriteMark,
                    FillMark, Op
<1>7. mark' \in 0..MaxId \cup {Empty}
  BY <1>1 DEF RaiseMark, ReadMark, WriteMark, FillMark, files, Base, Types, Op
<1> HIDE DEF o
<1> QED
  BY <1>4, <1>5, <1>6, <1>7, Plainly
  DEF RaiseMark, ReadMark, WriteMark, FillMark, Base, Types, history, files,
      locks

LEMMA LockFailsBase ==
    ASSUME Base, NEW a \in Agent, LockFails(a), Flags
    PROVE  Base'
<1>1. Becomes(a, Idle)
  BY DEF LockFails, Becomes
<1> QED
  BY <1>1, Plainly, IdlePlain
  DEF LockFails, Base, Types, history, files, locks

LEMMA CrashBase ==
    ASSUME Base, NEW a \in Agent, Crash(a), Flags
    PROVE  Base'
<1>1. Becomes(a, Idle)
  BY DEF Crash, Becomes
<1>2. taskLock' \in [Id -> Agent \cup {None}]
  BY DEF Crash, Base, Types
<1> QED
  BY <1>1, <1>2, Plainly, IdlePlain
  DEF Crash, Base, Types, history, files

-----------------------------------------------------------------------------
(* Steps after which a has updates to make. *)

UpdatesOp(a, o) ==
    /\ o \in Op /\ o.kind = "update" /\ o.pc = "precheck" /\ o.todo # <<>>
    /\ o.seen \in {None, op[a].seen}
    /\ \A k \in DOMAIN o.todo :
          /\ InHand(op[a], o.todo[k][1]) \/ Readable(o.todo[k][1])
          /\ "blockedBy" \in DOMAIN o.todo[k][2] =>
                o.todo[k][2].blockedBy \subseteq used
    /\ Distinct(o)

LEMMA UpdatesFits ==
    ASSUME Base, NEW a \in Agent, NEW o, UpdatesOp(a, o)
    PROVE  Fits(a, o) /\ ~Locked(o) /\ ~ListLocked(o)
<1>1. Shape(a, o) /\ ~Creating(o) /\ ~Locked(o) /\ ~ListLocked(o)
  BY DEF UpdatesOp, Shape, Creating, Locked, LockPlaces, Writing, ListLocked
<1>2. \A i \in Id : InHand(o, i) => InHand(op[a], i) \/ Readable(i)
  BY DEF InHand, UpdatesOp
<1>3. \A i \in Id : InHand(o, i) => i \in used
  BY <1>2 DEF Base, Known, KnownOf, Readable
<1>4. o.seen \in Task => o.seen.blockedBy \subseteq used
  BY NamesAssumption DEF UpdatesOp, Base, Known, KnownOf
<1>5. KnownOf(o) /\ AtomicOf(a, o)
  BY <1>1, <1>3, <1>4
  DEF KnownOf, UpdatesOp, AtomicOf, Creating, Writing
<1> QED BY <1>1, <1>2, <1>5 DEF Fits, UpdatesOp

LEMMA UpdatesQuiet ==
    ASSUME Base, NEW a \in Agent, NEW o, UpdatesOp(a, o), Becomes(a, o),
           UNCHANGED <<file, mark, used, edges, reused, listLock>>,
           Flags, blurred => blurred',
           taskLock' \in [Id -> Agent \cup {None}],
           \A i \in Id : taskLock'[i] # taskLock[i] => taskLock[i] \in {a, None},
           ~crossed' /\ ~blurred' /\ ~reused => EdgesFit(o)
    PROVE  Base'
<1>1. Fits(a, o) /\ ~Locked(o) /\ ~ListLocked(o)
  BY UpdatesFits
<1>2. LocksFit(a, o)
  BY <1>1 DEF LocksFit, Base, Types
<1>3. FlagsGrow
  BY DEF FlagsGrow, Flags
<1>4. mark' \in 0..MaxId \cup {Empty}
  BY DEF Base, Types
<1>5. o.kind # "claim"
  BY DEF UpdatesOp
<1> QED BY <1>1, <1>2, <1>3, <1>4, <1>5, Quiet

\* The updates t of tasks that can be read, to which no edge is lost.
Sound(t) ==
    /\ t \in Seq(Id \X Changes) /\ t # <<>>
    /\ \A k \in DOMAIN t :
          /\ Readable(t[k][1])
          /\ "blockedBy" \in DOMAIN t[k][2] => t[k][2].blockedBy \subseteq used
    /\ \A k, l \in DOMAIN t : k # l => t[k][1] # t[l][1]

Keeping(t) ==
    \A e \in edges : \A k \in DOMAIN t :
        /\ file[e[1]] # None /\ e[2] = t[k][1]
        /\ e[1] \in file[e[2]].blockedBy
        /\ "blockedBy" \in DOMAIN t[k][2]
        => e[1] \in t[k][2].blockedBy

LEMMA UpdatesIs ==
    ASSUME Base, NEW a \in Agent, NEW t, Sound(t)
    PROVE  /\ UpdatesOp(a, Updates(t))
           /\ Keeping(t) => EdgesFit(Updates(t))
<1> DEFINE o == Updates(t)
<1>1. /\ o \in Op /\ o.kind = "update" /\ o.pc = "precheck" /\ o.todo = t
      /\ o.seen = None
  BY IdleIs DEF Updates, Op, Kinds, Places, Sound
<1> HIDE DEF o
<1>2. UpdatesOp(a, o)
  BY <1>1 DEF UpdatesOp, Sound, Distinct
<1>3. ASSUME Keeping(t) PROVE EdgesFit(o)
  BY <1>1, <1>3 DEF EdgesFit, KeepsEdge, Keeping, Sound
<1> QED BY <1>2, <1>3 DEF o

LEMMA BeginUpdates ==
    ASSUME Base, NEW a \in Agent, NEW t, Sound(t), Keeping(t),
           Start(a, Updates(t)), Flags
    PROVE  Base'
<1>1. UpdatesOp(a, Updates(t)) /\ EdgesFit(Updates(t))
  BY UpdatesIs
<1>2. Becomes(a, Updates(t))
  BY DEF Start, Becomes
<1> QED BY <1>1, <1>2, UpdatesQuiet DEF Start, Base, Types

\* A single update that leaves the arrays alone.
LEMMA SoundOne ==
    ASSUME NEW i \in Id, Readable(i), NEW c \in Changes,
           "blockedBy" \notin DOMAIN c
    PROVE  Sound(<< <<i, c>> >>) /\ Keeping(<< <<i, c>> >>)
<1> DEFINE t == << <<i, c>> >>
<1>1. t \in Seq(Id \X Changes) /\ t # <<>> /\ DOMAIN t = {1} /\ t[1] = <<i, c>>
  OBVIOUS
<1> HIDE DEF t
<1>2. Sound(t) /\ Keeping(t)
  BY <1>1 DEF Sound, Keeping
<1> QED BY <1>2 DEF t

LEMMA BeginPlain ==
    ASSUME Base, NEW a \in Agent, NEW o, PlainOp(a, o), Start(a, o), Flags,
           ~ListLocked(o)
    PROVE  Base'
<1>1. Becomes(a, o)
  BY DEF Start, Becomes
<1> QED BY <1>1, Plainly DEF Start, Base, Types

LEMMA BeginCreateBase ==
    ASSUME Base, NEW a \in Agent, BeginCreate(a) \/ BeginReset(a), Flags
    PROVE  Base'
<1>1. PICK kind \in {"create", "reset"} :
         Start(a, [Idle EXCEPT !.kind = kind, !.pc = "list_lock"])
  BY DEF BeginCreate, BeginReset
<1> DEFINE o == [Idle EXCEPT !.kind = kind, !.pc = "list_lock"]
<1>2. /\ o \in Op /\ o.kind = kind /\ o.pc = "list_lock"
      /\ o.todo = <<>> /\ o.seen = None
  BY IdleIs DEF Op, Kinds, Places
<1>3. Start(a, o)
  BY <1>1
<1> HIDE DEF o
<1>4. PlainOp(a, o) /\ ~ListLocked(o)
  BY <1>1, <1>2 DEF PlainOp, Shape, ListLocked
<1> QED BY <1>3, <1>4, BeginPlain

LEMMA BeginDeleteBase ==
    ASSUME Base, NEW a \in Agent, NEW i \in Id, BeginDelete(a, i), Flags
    PROVE  Base'
<1> DEFINE o == [Idle EXCEPT !.kind = "delete", !.pc = "read_mark", !.id = i]
<1>0. i \in 0..MaxId
  BY BoundsAssumption DEF Id
<1>1. /\ o \in Op /\ o.kind = "delete" /\ o.pc = "read_mark" /\ o.id = i
      /\ o.todo = <<>> /\ o.seen = None
  BY <1>0, IdleIs DEF Op, Kinds, Places
<1>2. Start(a, o) /\ Readable(i)
  BY DEF BeginDelete
<1> HIDE DEF o
<1>3. PlainOp(a, o) /\ ~ListLocked(o)
  BY <1>1, <1>2 DEF PlainOp, Shape, ListLocked
<1> QED BY <1>2, <1>3, BeginPlain

LEMMA BeginClaimBase ==
    ASSUME Base, NEW a \in Agent, NEW i \in Id, BeginClaim(a, i), Flags
    PROVE  Base'
<1> DEFINE o == [Idle EXCEPT !.kind = "claim", !.pc = "lock", !.id = i]
<1>0. i \in 0..MaxId
  BY BoundsAssumption DEF Id
<1>1. /\ o \in Op /\ o.kind = "claim" /\ o.pc = "lock" /\ o.id = i
      /\ o.todo = <<>> /\ o.seen = None
  BY <1>0, IdleIs DEF Op, Kinds, Places
<1>2. Becomes(a, o) /\ Start(a, o)
  BY DEF BeginClaim, Start, Becomes
<1>3. Readable(i)
  BY DEF BeginClaim
<1> HIDE DEF o
<1>4. Shape(a, o) /\ ~Creating(o) /\ ~Locked(o) /\ ~ListLocked(o)
  BY <1>1 DEF Shape, Creating, Locked, LockPlaces, Writing, ListLocked
<1>5. DOMAIN o.todo = {}
  BY <1>1
<1>6. \A j \in Id : InHand(o, j) => j = i
  BY <1>1, <1>5 DEF InHand
<1>7. KnownOf(o) /\ Distinct(o) /\ AtomicOf(a, o) /\ EdgesFit(o)
  BY <1>1, <1>3, <1>5, <1>6, NamesAssumption
  DEF KnownOf, Distinct, AtomicOf, EdgesFit, KeepsEdge, Base, Known, Readable,
      Writing
<1>8. Fits(a, o)
  BY <1>1, <1>3, <1>4, <1>6, <1>7 DEF Fits
<1>9. LocksFit(a, o) /\ FlagsGrow
  BY <1>2, <1>4 DEF LocksFit, FlagsGrow, Flags, Start, Base, Types
<1> QED
  BY <1>1, <1>2, <1>7, <1>8, <1>9, Quiet DEF Start, Base, Types, Writing

LEMMA BeginOneBase ==
    ASSUME Base, NEW a \in Agent, NEW i \in Id,
           BeginWork(a, i) \/ BeginComplete(a, i), Flags
    PROVE  Base'
<1>1. Readable(i)
  BY DEF BeginWork, BeginComplete
<1>2. PICK c \in Changes : "blockedBy" \notin DOMAIN c
                           /\ Start(a, Updates(<< <<i, c>> >>))
  <2>1. /\ [status |-> "in_progress", owner |-> a] \in Changes
        /\ [status |-> "in_progress"] \in Changes
        /\ [status |-> "completed"] \in Changes
    BY DEF Changes, Status
  <2>2. /\ "blockedBy" \notin DOMAIN [status |-> "in_progress", owner |-> a]
        /\ "blockedBy" \notin DOMAIN [status |-> "in_progress"]
        /\ "blockedBy" \notin DOMAIN [status |-> "completed"]
    OBVIOUS
  <2>3. CASE BeginComplete(a, i)
    BY <2>1, <2>2, <2>3 DEF BeginComplete
  <2>4. CASE BeginWork(a, i)
    <3>1. CASE file[i].owner = None
      BY <2>1, <2>2, <2>4, <3>1 DEF BeginWork
    <3>2. CASE file[i].owner # None
      BY <2>1, <2>2, <2>4, <3>2 DEF BeginWork
    <3> QED BY <3>1, <3>2
  <2> QED BY <2>3, <2>4
<1>3. Sound(<< <<i, c>> >>) /\ Keeping(<< <<i, c>> >>)
  BY <1>1, <1>2, SoundOne
<1> QED BY <1>2, <1>3, BeginUpdates

LEMMA Pair ==
    ASSUME NEW S, NEW x \in S, NEW y \in S
    PROVE  /\ <<x>> \in Seq(S) /\ <<y>> \in Seq(S) /\ <<x, y>> \in Seq(S)
           /\ <<x>> \o <<y>> = <<x, y>>
<1>1. <<x>> \in Seq(S) /\ <<y>> \in Seq(S) /\ <<x, y>> \in Seq(S)
  OBVIOUS
<1>2. /\ Len(<<x>>) = 1 /\ Len(<<y>>) = 1 /\ Len(<<x, y>>) = 2
      /\ <<x>>[1] = x /\ <<y>>[1] = y /\ <<x, y>>[1] = x /\ <<x, y>>[2] = y
  OBVIOUS
<1> DEFINE s == <<x>> \o <<y>>
<1>3. /\ s \in Seq(S) /\ Len(s) = 2
      /\ \A i \in 1..2 : s[i] = IF i <= 1 THEN <<x>>[i] ELSE <<y>>[i - 1]
  BY <1>1, <1>2, ConcatProperties
<1> HIDE DEF s
<1>4. s[1] = x /\ s[2] = y
  BY <1>2, <1>3
<1>5. \A i \in 1..Len(s) : s[i] = <<x, y>>[i]
  BY <1>2, <1>3, <1>4
<1>6. s = <<x, y>>
  BY <1>1, <1>2, <1>3, <1>5, SeqEqual
<1> QED BY <1>1, <1>6 DEF s

LEMMA BeginBlockBase ==
    ASSUME Base, NEW a \in Agent, NEW i \in Id, NEW j \in Id, i # j,
           BeginBlock(a, i, j), Flags
    PROVE  Base'
<1> DEFINE s == <<i, [blocks |-> file[i].blocks \cup {j}]>>
           t == <<j, [blockedBy |-> AddBlocker(file[j], i)]>>
<1>1. Readable(i) /\ Readable(j) /\ file[i] \in Task /\ file[j] \in Task
  BY DEF BeginBlock, Readable, Base, Types
<1>2. i \in used /\ file[j].blockedBy \subseteq used
  BY <1>1 DEF Base, Known, Readable
<1>3. /\ s \in Id \X Changes /\ s[1] = i /\ "blockedBy" \notin DOMAIN s[2]
      /\ t \in Id \X Changes /\ t[1] = j /\ DOMAIN t[2] = {"blockedBy"}
      /\ t[2].blockedBy = file[j].blockedBy \cup {i}
  BY <1>1 DEF Task, Changes, AddBlocker
<1> HIDE DEF s, t
<1>4. /\ <<s>> \in Seq(Id \X Changes) /\ <<t>> \in Seq(Id \X Changes)
      /\ <<s, t>> \in Seq(Id \X Changes)
      /\ <<s>> \o <<t>> = <<s, t>>
  <2> DEFINE V == Id \X Changes
  <2>1. s \in V /\ t \in V
    BY <1>3
  <2> HIDE DEF V
  <2>2. /\ <<s>> \in Seq(V) /\ <<t>> \in Seq(V) /\ <<s, t>> \in Seq(V)
        /\ <<s>> \o <<t>> = <<s, t>>
    BY <2>1, Pair
  <2> QED BY <2>2 DEF V
<1> USE DEF s, t
<1>5. \E u \in {<<s>>, <<t>>, <<s, t>>} : Start(a, Updates(u))
  <2>1. CASE j \in file[i].blocks
    BY <2>1 DEF BeginBlock
  <2>2. CASE j \notin file[i].blocks /\ i \in file[j].blockedBy
    BY <2>2 DEF BeginBlock
  <2>3. CASE j \notin file[i].blocks /\ i \notin file[j].blockedBy
    <3>1. Start(a, Updates(<<s>> \o <<t>>))
      BY <2>3 DEF BeginBlock
    <3> HIDE DEF s, t
    <3> QED BY <3>1, <1>4
  <2> QED BY <2>1, <2>2, <2>3
<1> HIDE DEF s, t
<1>6. ASSUME NEW u \in {<<s>>, <<t>>, <<s, t>>}
      PROVE  Sound(u) /\ Keeping(u)
  <2>1. u \in Seq(Id \X Changes) /\ u # <<>>
    <3>1. CASE u = <<s, t>>
      BY <1>4, <3>1
    <3>2. CASE u = <<s>>
      BY <1>4, <3>2
    <3>3. CASE u = <<t>>
      BY <1>4, <3>3
    <3> QED BY <3>1, <3>2, <3>3
  <2>2. \A k \in DOMAIN u : u[k] \in {s, t}
    OBVIOUS
  <2>3. \A k, l \in DOMAIN u : k # l => u[k][1] # u[l][1]
    <3>1. CASE u = <<s, t>>
      <4>1. DOMAIN u = {1, 2} /\ u[1] = s /\ u[2] = t
        BY <3>1
      <4> QED BY <4>1, <1>3
    <3>2. CASE u # <<s, t>>
      <4>1. DOMAIN u = {1}
        BY <3>2
      <4> QED BY <4>1
    <3> QED BY <3>1, <3>2
  <2> QED BY <1>1, <1>2, <1>3, <2>1, <2>2, <2>3 DEF Sound, Keeping
<1> QED BY <1>5, <1>6, BeginUpdates

\* An order of a set of tasks.
LEMMA OrderIs ==
    ASSUME NEW S \in SUBSET Id, NEW order \in SetToSeqs(S)
    PROVE  \E n \in Nat :
              /\ order \in [1..n -> S] /\ (S # {} => n # 0)
              /\ \A k, l \in 1..n : k # l => order[k] # order[l]
<1>1. IsFiniteSet(S)
  <2>1. 1 \in Int /\ MaxId \in Int
    BY BoundsAssumption
  <2>2. IsFiniteSet(1..MaxId)
    BY <2>1, FS_Interval
  <2> QED BY <2>2, FS_Subset DEF Id
<1>2. Cardinality(S) \in Nat /\ (S # {} => Cardinality(S) # 0)
  BY <1>1, FS_CardinalityType, FS_EmptySet
<1> QED BY <1>2 DEF SetToSeqs

LEMMA BeginUnassignBase ==
    ASSUME Base, NEW a \in Agent, NEW mate \in Agent, BeginUnassign(a, mate),
           Flags
    PROVE  Base'
<1> DEFINE S == {i \in Listed : Unresolved(i) /\ file[i].owner = mate}
<1>1. S \in SUBSET Id /\ S # {} /\ \A i \in S : Readable(i)
  BY DEF Listed, BeginUnassign
<1>2. PICK order \in SetToSeqs(S) :
         Start(a, Updates([k \in DOMAIN order |-> <<order[k], Released>>]))
  BY DEF BeginUnassign
<1> DEFINE t == [k \in DOMAIN order |-> <<order[k], Released>>]
<1> HIDE DEF S
<1>3. PICK n \in Nat :
         /\ order \in [1..n -> S] /\ n # 0
         /\ \A k, l \in 1..n : k # l => order[k] # order[l]
  BY <1>1, OrderIs
<1>4. Released \in Changes /\ "blockedBy" \notin DOMAIN Released
  BY DEF Released, Changes, Status
<1>5. /\ DOMAIN t = 1..n
      /\ \A k \in 1..n : t[k][1] = order[k] /\ t[k][2] = Released
      /\ t \in [1..n -> Id \X Changes]
  BY <1>1, <1>3, <1>4
<1>6. Start(a, Updates(t))
  BY <1>2
<1> HIDE DEF t
<1>7. t \in Seq(Id \X Changes) /\ t # <<>>
  BY <1>3, <1>5
<1>8. Sound(t) /\ Keeping(t)
  BY <1>1, <1>3, <1>4, <1>5, <1>7 DEF Sound, Keeping
<1> QED BY <1>6, <1>8, BeginUpdates

LEMMA BeginBase ==
    ASSUME Base, NEW a \in Agent, Begin(a), Flags
    PROVE  Base'
BY BeginCreateBase, BeginDeleteBase, BeginClaimBase, BeginOneBase,
   BeginBlockBase, BeginUnassignBase
DEF Begin

\* The references to the deleted task are dropped: they are no edges any more.
LEMMA DeleteCascadeBase ==
    ASSUME Base, NEW a \in Agent, DeleteCascade(a), Flags
    PROVE  Base'
<1> DEFINE gone == op[a].id
           S == {i \in Listed : gone \in file[i].blocks
                                \/ gone \in file[i].blockedBy}
           c(i) == [blocks |-> file[i].blocks \ {gone},
                    blockedBy |-> file[i].blockedBy \ {gone}]
<1>0. /\ UNCHANGED <<file, mark, taskLock, listLock, used, reused, edges>>
      /\ blurred' = blurred
  BY DEF DeleteCascade, files, locks, history
<1>1. CASE S = {}
  <2>1. Becomes(a, Idle)
    BY <1>1 DEF DeleteCascade, Becomes
  <2> QED BY <1>0, <2>1, Plainly, IdlePlain DEF Base, Types
<1>2. CASE S # {}
  <2>1. S \in SUBSET Id /\ \A i \in S : Readable(i) /\ file[i] \in Task
    BY DEF Listed, Readable, Base, Types
  <2>2. PICK order \in SetToSeqs(S) :
           Becomes(a, Updates([k \in DOMAIN order |->
                                  <<order[k], c(order[k])>>]))
    BY <1>2 DEF DeleteCascade, Becomes
  <2> DEFINE t == [k \in DOMAIN order |-> <<order[k], c(order[k])>>]
  <2> HIDE DEF S, t
  <2>3. PICK n \in Nat :
           /\ order \in [1..n -> S] /\ n # 0
           /\ \A k, l \in 1..n : k # l => order[k] # order[l]
    BY <1>2, <2>1, OrderIs
  <2>4. \A i \in S : /\ c(i) \in Changes
                     /\ c(i).blockedBy = file[i].blockedBy \ {gone}
                     /\ c(i).blockedBy \subseteq used
    BY <2>1 DEF Changes, Task, Base, Known, Readable
  <2>5. Becomes(a, Updates(t))
    BY <2>2 DEF t
  <2> HIDE DEF c
  <2>6. /\ DOMAIN t = 1..n
        /\ \A k \in 1..n : /\ t[k][1] = order[k] /\ t[k][2] = c(order[k])
                           /\ order[k] \in S
        /\ t \in [1..n -> Id \X Changes]
    BY <2>1, <2>3, <2>4 DEF t
  <2> HIDE DEF gone
  <2>7. t \in Seq(Id \X Changes) /\ t # <<>>
    BY <2>3, <2>6
  <2>8. Sound(t)
    BY <2>1, <2>3, <2>4, <2>6, <2>7 DEF Sound
  <2>9. file[gone] = None => Keeping(t)
    BY <2>4, <2>6 DEF Keeping
  <2>10. ~crossed' /\ ~blurred' /\ ~reused => file[gone] = None
    <3>1. op[a].kind = "delete" /\ op[a].pc = "cascade"
      BY DEF DeleteCascade, At
    <3> QED BY <1>0, <3>1 DEF Base, Edges, Flags, gone
  <2>11. UpdatesOp(a, Updates(t)) /\ (Keeping(t) => EdgesFit(Updates(t)))
    BY <2>8, UpdatesIs
  <2> QED
    BY <1>0, <2>5, <2>9, <2>10, <2>11, UpdatesQuiet DEF Base, Types
<1> QED BY <1>1, <1>2

-----------------------------------------------------------------------------
(* Under the lock of a task, as long as nothing is written. *)

\* The update that a is at.
LEMMA HeadIs ==
    ASSUME Base, NEW a \in Agent, op[a].pc \in Writing
    PROVE  /\ op[a].todo \in Seq(Id \X Changes) /\ op[a].todo # <<>>
           /\ Head(op[a].todo) = op[a].todo[1] /\ 1 \in DOMAIN op[a].todo
           /\ Head(op[a].todo)[1] = TargetOf(op[a])
           /\ Head(op[a].todo)[2] \in Changes
           /\ op[a].kind = "claim" =>
                 Head(op[a].todo)[2] = [owner |-> a]
<1>1. Shape(a, op[a]) /\ op[a] \in Op
  BY DEF Base, Types, Shape
<1>2. op[a].kind \in {"claim", "update"}
  BY <1>1 DEF Shape, Op, Kinds, Writing
<1>3. op[a].todo # <<>>
  BY <1>1, <1>2 DEF Shape, ToWrite
<1>4. op[a].todo \in Seq(Id \X Changes)
  BY <1>1 DEF Op
<1>5. /\ Head(op[a].todo) \in Id \X Changes
      /\ Head(op[a].todo) = op[a].todo[1] /\ 1 \in DOMAIN op[a].todo
  BY <1>3, <1>4, HeadTail
<1>6. op[a].kind = "claim" =>
         Head(op[a].todo)[1] = op[a].id /\ Head(op[a].todo)[2] = [owner |-> a]
  BY <1>1, <1>5 DEF Shape, ToWrite
<1> QED BY <1>2, <1>3, <1>4, <1>5, <1>6 DEF TargetOf

\* The updates of a that are left when the first one is over.
LEMMA NextUpdate ==
    ASSUME Base, NEW a \in Agent, op[a].kind = "update",
           Len(op[a].todo) # 1, NEW s \in {None, op[a].seen}, NEW o,
           o = [op[a] EXCEPT !.todo = Tail(@), !.pc = "precheck", !.seen = s]
    PROVE  /\ UpdatesOp(a, o)
           /\ \A e \in Id \X Id : KeepsEdge(op[a], e) => KeepsEdge(o, e)
           /\ \A k \in DOMAIN o.todo : o.todo[k][1] # TargetOf(op[a])
           /\ \A i \in Id : InHand(o, i) => InHand(op[a], i)
<1> DEFINE t == op[a].todo
<1>1. op[a] \in Op /\ t \in Seq(Id \X Changes) /\ t # <<>>
  BY DEF Base, Types, Shape, Op
<1>2. Distinct(op[a]) /\ KnownOf(op[a])
  BY DEF Base, Edges, Known
<1> HIDE DEF t
<1>3. /\ Head(t) = t[1] /\ 1 \in DOMAIN t
      /\ Tail(t) \in Seq(Id \X Changes) /\ Tail(t) # <<>>
      /\ \A k \in DOMAIN Tail(t) : /\ k + 1 \in DOMAIN t /\ k + 1 # 1
                                   /\ Tail(t)[k] = t[k + 1]
  BY <1>1, HeadTail DEF t
<1>4. /\ o \in Op /\ o.kind = "update" /\ o.pc = "precheck"
      /\ o.todo = Tail(t) /\ o.seen = s
  BY <1>1, <1>3 DEF Op, Places, t
<1>5. \A k \in DOMAIN o.todo : /\ k + 1 \in DOMAIN t /\ k + 1 # 1
                               /\ o.todo[k] = t[k + 1]
  BY <1>3, <1>4
<1>6. \A k, l \in DOMAIN t : k # l => t[k][1] # t[l][1]
  BY <1>2 DEF Distinct, t
<1>7. \A k \in DOMAIN o.todo : o.todo[k][1] # TargetOf(op[a])
  BY <1>3, <1>5, <1>6 DEF TargetOf, t
<1>8. \A k \in DOMAIN o.todo : InHand(op[a], o.todo[k][1])
  BY <1>5 DEF InHand, t
<1>9. \A i \in Id : InHand(o, i) => InHand(op[a], i)
  BY <1>4, <1>8 DEF InHand
<1>10. \A k, l \in DOMAIN o.todo : k # l => k + 1 # l + 1
  <2>1. DOMAIN o.todo \subseteq Nat
    BY <1>3, <1>4
  <2> QED BY <2>1
<1>11. Distinct(o)
  BY <1>5, <1>6, <1>10 DEF Distinct
<1>12. UpdatesOp(a, o)
  BY <1>2, <1>3, <1>4, <1>5, <1>8, <1>11 DEF UpdatesOp, KnownOf, t
<1>13. \A e \in Id \X Id : KeepsEdge(op[a], e) => KeepsEdge(o, e)
  BY <1>4, <1>5 DEF KeepsEdge, t
<1> QED BY <1>7, <1>9, <1>12, <1>13

\* An operation that keeps the edges op[a] keeps fits.
LEMMA EdgesStay ==
    ASSUME Base, NEW a \in Agent, NEW o, ~crossed, ~blurred, ~reused,
           ~(o.kind = "delete" /\ o.pc = "cascade"),
           \A e \in Id \X Id : KeepsEdge(op[a], e) => KeepsEdge(o, e)
    PROVE  EdgesFit(o)
BY DEF EdgesFit, Base, Edges, Types

\* What comes after an update that is over, or could not be made.
LEMMA DoneIs ==
    ASSUME Base, NEW a \in Agent, op[a].pc \in Writing, Done(a)
    PROVE  \E o : /\ Becomes(a, o) /\ (o = Idle \/ UpdatesOp(a, o))
                  /\ \A e \in Id \X Id : KeepsEdge(op[a], e) => KeepsEdge(o, e)
                  /\ \A k \in DOMAIN o.todo :
                        o.todo[k][1] = TargetOf(op[a]) =>
                            "blockedBy" \notin DOMAIN o.todo[k][2]
                  /\ \A i \in Id : InHand(o, i) => InHand(op[a], i)
<1>1. Shape(a, op[a]) /\ op[a] \in Op
  BY DEF Base, Types, Shape
<1>2. op[a].kind \in {"claim", "update"}
  BY <1>1 DEF Shape, Op, Kinds, Writing
<1>3. CASE op[a].kind = "claim"
  <2> DEFINE c == [status |-> "in_progress"]
             t == << <<op[a].id, c>> >>
             o == Updates(t)
  <2>1. Becomes(a, o)
    BY <1>3 DEF Done, Becomes
  <2>2. op[a].id \in Id /\ c \in Changes /\ "blockedBy" \notin DOMAIN c
    BY <1>1, <1>3 DEF Shape, Changes, Status
  <2>3. /\ t \in Seq(Id \X Changes) /\ t # <<>> /\ DOMAIN t = {1}
        /\ t[1][1] = op[a].id /\ t[1][2] = c
    BY <2>2
  <2> HIDE DEF t, c
  <2>4. /\ o \in Op /\ o.kind = "update" /\ o.pc = "precheck" /\ o.todo = t
        /\ o.seen = None
    BY <2>3, IdleIs DEF Updates, Op, Kinds, Places
  <2> HIDE DEF o
  <2>5. InHand(op[a], op[a].id)
    BY <1>3 DEF InHand
  <2>6. UpdatesOp(a, o)
    BY <2>2, <2>3, <2>4, <2>5 DEF UpdatesOp, Distinct
  <2>7. \A e : KeepsEdge(o, e)
    BY <2>2, <2>3, <2>4 DEF KeepsEdge
  <2>8. \A i \in Id : InHand(o, i) => InHand(op[a], i)
    BY <2>3, <2>4, <2>5 DEF InHand
  <2> QED BY <2>1, <2>2, <2>3, <2>4, <2>6, <2>7, <2>8
<1>4. CASE op[a].kind = "update" /\ Len(op[a].todo) = 1
  <2>1. Becomes(a, Idle)
    BY <1>4 DEF Done, Becomes
  <2>2. /\ \A e : KeepsEdge(Idle, e)
        /\ DOMAIN Idle.todo = {}
    BY IdleIs DEF KeepsEdge
  <2>3. \A i \in Id : ~InHand(Idle, i)
    BY <2>2, IdleIs DEF InHand
  <2> QED BY <2>1, <2>2, <2>3
<1>5. CASE op[a].kind = "update" /\ Len(op[a].todo) # 1
  <2> DEFINE o == [op[a] EXCEPT !.todo = Tail(@), !.pc = "precheck",
                                !.seen = None]
  <2>1. Becomes(a, o)
    BY <1>5 DEF Done, Becomes, Rest
  <2>2. /\ UpdatesOp(a, o)
        /\ \A e \in Id \X Id : KeepsEdge(op[a], e) => KeepsEdge(o, e)
        /\ \A k \in DOMAIN o.todo : o.todo[k][1] # TargetOf(op[a])
        /\ \A i \in Id : InHand(o, i) => InHand(op[a], i)
    BY <1>5, NextUpdate
  <2> HIDE DEF o
  <2> QED BY <2>1, <2>2
<1> QED BY <1>2, <1>3, <1>4, <1>5

\* Only the lock of the target of a, which a holds, is released.
LEMMA Release ==
    ASSUME Base, NEW a \in Agent, Locked(op[a]),
           taskLock' = [taskLock EXCEPT ![Target(a)] = None]
    PROVE  /\ taskLock' \in [Id -> Agent \cup {None}]
           /\ \A i \in Id : taskLock'[i] # taskLock[i] => taskLock[i] = a
BY DEF Target, TargetOf, Base, Types, Locks

\* A step under the lock of a task that ends the operation.
LEMMA AbandonBase ==
    ASSUME Base, NEW a \in Agent, Locked(op[a]), Abandon(a),
           UNCHANGED <<file, mark, listLock, used, edges, reused>>,
           Flags, blurred => blurred'
    PROVE  Base'
<1>1. Becomes(a, Idle)
  BY DEF Abandon, Becomes
<1>2. /\ taskLock' \in [Id -> Agent \cup {None}]
      /\ \A i \in Id : taskLock'[i] # taskLock[i] => taskLock[i] = a
  BY Release DEF Abandon
<1> QED BY <1>1, <1>2, Plainly, IdlePlain DEF Base, Types

LEMMA PrecheckBase ==
    ASSUME Base, NEW a \in Agent, Precheck(a), Flags
    PROVE  Base'
<1>0. /\ Shape(a, op[a]) /\ op[a] \in Op
      /\ UNCHANGED <<file, mark, taskLock, listLock, used, edges, reused>>
      /\ blurred => blurred'
  BY DEF Base, Types, Shape, Precheck, files, locks
<1>1. op[a].kind = "update" /\ op[a].pc = "precheck"
  BY <1>0 DEF Precheck, Shape, Op, Kinds, LockPlaces, Writing
<1>2. CASE Readable(Target(a))
  <2> DEFINE o == [op[a] EXCEPT !.pc = "lock"]
  <2>1. Becomes(a, o)
    BY <1>2 DEF Precheck, Becomes
  <2>2. /\ o \in Op /\ o.kind = "update" /\ o.pc = "lock"
        /\ o.todo = op[a].todo /\ o.seen = op[a].seen
    BY <1>0, <1>1 DEF Op, Places
  <2> HIDE DEF o
  <2>3. /\ Shape(a, o) /\ ~Creating(o) /\ ~Locked(o) /\ ~ListLocked(o)
        /\ AtomicOf(a, o)
    BY <1>0, <1>1, <2>2
    DEF Shape, Creating, Locked, LockPlaces, Writing, ListLocked, AtomicOf
  <2>4. KnownOf(o) /\ \A i \in Id : InHand(o, i) => InHand(op[a], i)
    BY <1>1, <2>2 DEF Base, Known, KnownOf, InHand
  <2>5. Distinct(o)
    BY <2>2 DEF Base, Edges, Distinct
  <2>6. \A e \in Id \X Id : KeepsEdge(op[a], e) => KeepsEdge(o, e)
    BY <2>2 DEF KeepsEdge
  <2>7. ~crossed' /\ ~blurred' /\ ~reused => EdgesFit(o)
    BY <1>0, <2>2, <2>6, EdgesStay DEF Flags
  <2>8. Fits(a, o) /\ LocksFit(a, o) /\ FlagsGrow
    BY <1>0, <2>2, <2>3, <2>4, <2>5
    DEF Fits, LocksFit, FlagsGrow, Flags, Base, Types
  <2> QED BY <1>0, <2>1, <2>2, <2>7, <2>8, Quiet DEF Base, Types
<1>3. CASE ~Readable(Target(a)) /\ Len(op[a].todo) = 1
  <2>1. Becomes(a, Idle)
    BY <1>3 DEF Precheck, Becomes
  <2> QED BY <1>0, <2>1, Plainly, IdlePlain DEF Base, Types
<1>4. CASE ~Readable(Target(a)) /\ Len(op[a].todo) # 1
  <2> DEFINE o == [op[a] EXCEPT !.todo = Tail(@), !.pc = "precheck",
                                !.seen = op[a].seen]
  <2>1. Becomes(a, o)
    <3>1. [op[a] EXCEPT !.todo = Rest(a)] = o
      BY <1>0, <1>1 DEF Op, Rest
    <3> QED BY <1>4, <3>1 DEF Precheck, Becomes
  <2>2. /\ UpdatesOp(a, o)
        /\ \A e \in Id \X Id : KeepsEdge(op[a], e) => KeepsEdge(o, e)
    BY <1>1, <1>4, NextUpdate
  <2> HIDE DEF o
  <2>3. ~crossed' /\ ~blurred' /\ ~reused => EdgesFit(o)
    BY <1>0, <2>2, EdgesStay DEF Flags, UpdatesOp
  <2> QED BY <1>0, <2>1, <2>2, <2>3, UpdatesQuiet DEF Base, Types
<1> QED BY <1>2, <1>3, <1>4

LEMMA LockTaskBase ==
    ASSUME Base, NEW a \in Agent, LockTask(a), Flags
    PROVE  Base'
<1>0. /\ Shape(a, op[a]) /\ op[a] \in Op /\ op[a].pc = "lock"
      /\ UNCHANGED <<file, mark, listLock, used, edges, reused, blurred>>
  BY DEF Base, Types, Shape, LockTask, files, history
<1>1. op[a].kind \in {"claim", "update"}
  BY <1>0 DEF Shape, Op, Kinds
<1>2. TargetOf(op[a]) \in Id /\ Target(a) = TargetOf(op[a])
  BY <1>0, TargetIs DEF Target, TargetOf
<1>3. PICK pc \in {"claim_read", "read"} :
         /\ Becomes(a, [op[a] EXCEPT !.pc = pc])
         /\ pc = "claim_read" <=> op[a].kind = "claim"
  <2>1. CASE op[a].kind = "claim"
    BY <2>1 DEF LockTask, Goto, Becomes
  <2>2. CASE op[a].kind # "claim"
    BY <2>2 DEF LockTask, Goto, Becomes
  <2> QED BY <2>1, <2>2
<1> DEFINE o == [op[a] EXCEPT !.pc = pc]
<1>4. /\ o \in Op /\ o.kind = op[a].kind /\ o.pc = pc /\ o.id = op[a].id
      /\ o.todo = op[a].todo /\ o.seen = op[a].seen
  BY <1>0, <1>3 DEF Op, Places
<1>5. Becomes(a, o)
  BY <1>3
<1> HIDE DEF o
<1>6. /\ Shape(a, o) /\ ~Creating(o) /\ ~ListLocked(o) /\ AtomicOf(a, o)
  BY <1>0, <1>1, <1>3, <1>4
  DEF Shape, Creating, LockPlaces, Writing, ListLocked, AtomicOf
<1>7. KnownOf(o) /\ \A i \in Id : InHand(o, i) => InHand(op[a], i)
  BY <1>1, <1>4 DEF Base, Known, KnownOf, InHand
<1>8. Distinct(o)
  BY <1>4 DEF Base, Edges, Distinct
<1>9. \A e \in Id \X Id : KeepsEdge(op[a], e) => KeepsEdge(o, e)
  BY <1>3, <1>4 DEF KeepsEdge
<1>10. ~crossed' /\ ~blurred' /\ ~reused => EdgesFit(o)
  BY <1>0, <1>1, <1>4, <1>9, EdgesStay DEF Flags
<1>11. Fits(a, o) /\ FlagsGrow
  BY <1>0, <1>3, <1>4, <1>6, <1>7, <1>8 DEF Fits, FlagsGrow, Flags
<1>12. LocksFit(a, o)
  <2>1. /\ taskLock' = [taskLock EXCEPT ![TargetOf(op[a])] = a]
        /\ taskLock[TargetOf(op[a])] = None
    BY <1>2 DEF LockTask, Free
  <2>2. TargetOf(o) = TargetOf(op[a])
    BY <1>4 DEF TargetOf
  <2> QED BY <1>0, <1>2, <1>6, <2>1, <2>2 DEF LocksFit, Base, Types
<1>13. o.kind = "claim" => o.pc \notin Writing
  BY <1>3, <1>4 DEF Writing
<1> QED
  BY <1>0, <1>5, <1>10, <1>11, <1>12, <1>13, Quiet DEF Base, Types

\* A claim that goes on: it has read the task, or found no open blocker.
LEMMA ClaimGoesOn ==
    ASSUME Base, NEW a \in Agent, op[a].kind = "claim", Locked(op[a]),
           NEW o, Becomes(a, o), o \in Op,
           o.kind = "claim", o.id = op[a].id, o.seen \in Task,
           \/ o.pc = "claim_list" /\ o.todo = <<>>
           \/ o.pc = "read" /\ o.todo = ToWrite(a, o.id),
           o.seen.blockedBy \subseteq used,
           ~reused => o.seen.owner \in {None, a},
           ~reused => file[o.id] \in {o.seen, None},
           ~blurred' /\ ~reused /\ o.pc = "read" =>
               \A b \in o.seen.blockedBy : Settled(b),
           UNCHANGED <<file, mark, taskLock, listLock, used, edges, reused>>,
           Flags, blurred => blurred'
    PROVE  Base'
<1>1. op[a].id \in Id /\ InHand(op[a], op[a].id) /\ op[a].id \in used
  <2>1. op[a].id \in Id
    BY DEF Base, Types, Shape
  <2> QED BY <2>1 DEF InHand, Base, Known, KnownOf
<1>2. /\ Shape(a, o) /\ ~Creating(o) /\ ~ListLocked(o)
  BY <1>1 DEF Shape, Creating, ListLocked, LockPlaces, Writing
<1>3. \A k \in DOMAIN o.todo :
         /\ o.todo[k][1] = o.id /\ "blockedBy" \notin DOMAIN o.todo[k][2]
         /\ k = 1
  <2>1. CASE o.todo = <<>>
    BY <2>1
  <2>2. CASE o.todo = << <<o.id, [owner |-> a]>> >>
    BY <2>2
  <2> QED BY <2>1, <2>2 DEF ToWrite
<1>4. \A i \in Id : InHand(o, i) => i = op[a].id
  BY <1>3 DEF InHand
<1>5. KnownOf(o) /\ Distinct(o)
  BY <1>1, <1>3, <1>4 DEF KnownOf, Distinct
<1>6. EdgesFit(o)
  BY <1>3 DEF EdgesFit, KeepsEdge
<1>7. ~reused => AtomicOf(a, o)
  BY DEF AtomicOf, Writing
<1>8. Fits(a, o)
  BY <1>1, <1>2, <1>4, <1>5, <1>7 DEF Fits
<1>9. LocksFit(a, o)
  <2>1. taskLock[TargetOf(op[a])] = a
    BY DEF Base, Locks
  <2> QED BY <1>2, <2>1 DEF LocksFit, TargetOf, Base, Types
<1>10. FlagsGrow
  BY DEF FlagsGrow, Flags
<1> QED
  BY <1>6, <1>8, <1>9, <1>10, Quiet DEF Base, Types, Writing

LEMMA ClaimReadBase ==
    ASSUME Base, NEW a \in Agent, ClaimRead(a), Flags
    PROVE  Base'
<1>0. /\ Shape(a, op[a]) /\ op[a] \in Op /\ op[a].pc = "claim_read"
      /\ UNCHANGED <<file, mark, listLock, used, edges, reused, blurred>>
  BY DEF Base, Types, Shape, ClaimRead, files, history
<1>1. op[a].kind = "claim" /\ Locked(op[a]) /\ op[a].id \in Id
  BY <1>0 DEF Shape, Op, Kinds, Writing, Locked, LockPlaces
<1>2. CASE Readable(op[a].id) /\ Claimable(file[op[a].id], a)
  <2> DEFINE o == [op[a] EXCEPT !.pc = "claim_list", !.seen = file[op[a].id]]
  <2>1. Becomes(a, o) /\ UNCHANGED taskLock
    BY <1>2 DEF ClaimRead, Becomes
  <2>2. file[op[a].id] \in Task
    BY <1>1, <1>2 DEF Readable, Base, Types
  <2>3. /\ o \in Op /\ o.kind = "claim" /\ o.id = op[a].id
        /\ o.pc = "claim_list" /\ o.seen = file[op[a].id]
        /\ o.todo = <<>>
    BY <1>0, <1>1, <2>2 DEF Op, Places, Shape, Writing
  <2> HIDE DEF o
  <2>4. o.seen.blockedBy \subseteq used /\ o.seen.owner \in {None, a}
    BY <1>1, <1>2, <2>3 DEF Base, Known, Claimable
  <2> QED BY <1>0, <1>1, <2>1, <2>2, <2>3, <2>4, ClaimGoesOn
<1>3. CASE ~(Readable(op[a].id) /\ Claimable(file[op[a].id], a))
  BY <1>0, <1>1, <1>3, AbandonBase DEF ClaimRead
<1> QED BY <1>2, <1>3

LEMMA ClaimListBase ==
    ASSUME Base, NEW a \in Agent, ClaimList(a), Flags
    PROVE  Base'
<1>0. /\ Shape(a, op[a]) /\ op[a] \in Op /\ op[a].pc = "claim_list"
      /\ UNCHANGED <<file, mark, listLock, used, edges, reused>>
      /\ blurred => blurred'
      /\ ~blurred' => \A b \in op[a].seen.blockedBy : file[b] # Empty
  BY DEF Base, Types, Shape, ClaimList, files
<1>1. /\ op[a].kind = "claim" /\ Locked(op[a]) /\ op[a].id \in Id
      /\ op[a].seen \in Task
  BY <1>0 DEF Shape, Op, Kinds, Writing, Locked, LockPlaces
<1>2. CASE Blockers(op[a].seen) = {}
  <2> DEFINE t == ToWrite(a, op[a].id)
             o == [op[a] EXCEPT !.pc = "read", !.todo = t]
  <2>1. Becomes(a, o) /\ UNCHANGED taskLock
    BY <1>2 DEF ClaimList, Becomes, ToWrite
  <2>2. t \in Seq(Id \X Changes)
    <3>1. <<op[a].id, [owner |-> a]>> \in Id \X Changes
      BY <1>1 DEF Changes
    <3> QED BY <3>1 DEF ToWrite
  <2> HIDE DEF t
  <2>3. /\ o \in Op /\ o.kind = "claim" /\ o.id = op[a].id
        /\ o.pc = "read" /\ o.seen = op[a].seen /\ o.todo = t
    BY <1>0, <1>1, <2>2 DEF Op, Places
  <2> HIDE DEF o
  <2>4. o.seen.blockedBy \subseteq used
    BY <1>1, <2>3 DEF Base, Known, KnownOf
  <2>5. ~reused => file[o.id] \in {o.seen, None} /\ o.seen.owner \in {None, a}
    BY <1>0, <1>1, <2>3 DEF Base, Atomic, AtomicOf
  <2>6. ~blurred' => \A b \in o.seen.blockedBy : Settled(b)
    BY <1>0, <1>2, <2>3 DEF Blockers, Settled
  <2> QED
    BY <1>0, <1>1, <2>1, <2>3, <2>4, <2>5, <2>6, ClaimGoesOn DEF t
<1>3. CASE Blockers(op[a].seen) # {}
  BY <1>0, <1>1, <1>3, AbandonBase DEF ClaimList
<1> QED BY <1>2, <1>3

LEMMA ReadBase ==
    ASSUME Base, NEW a \in Agent, Read(a), Flags
    PROVE  Base'
<1>0. /\ Shape(a, op[a]) /\ op[a] \in Op /\ op[a].pc = "read"
      /\ UNCHANGED <<file, mark, listLock, used, edges, reused>>
      /\ blurred => blurred'
  BY DEF Base, Types, Shape, Read, files
<1>1. /\ op[a].kind \in {"claim", "update"} /\ op[a].pc \in Writing
      /\ Locked(op[a])
  BY <1>0 DEF Shape, Op, Kinds, Writing, Locked, LockPlaces
<1>2. TargetOf(op[a]) \in Id /\ Target(a) = TargetOf(op[a])
  BY <1>0, <1>1, TargetIs DEF Target, TargetOf, LockPlaces
<1>3. CASE Readable(Target(a))
  <2> DEFINE o == [op[a] EXCEPT !.pc = "truncate", !.seen = file[Target(a)]]
  <2>1. Becomes(a, o) /\ UNCHANGED taskLock
    BY <1>3 DEF Read, Becomes
  <2>2. file[TargetOf(op[a])] \in Task
    BY <1>2, <1>3 DEF Readable, Base, Types
  <2>3. /\ o \in Op /\ o.kind = op[a].kind /\ o.id = op[a].id
        /\ o.pc = "truncate" /\ o.seen = file[TargetOf(op[a])]
        /\ o.todo = op[a].todo
    BY <1>0, <1>2, <2>2 DEF Op, Places
  <2> HIDE DEF o
  <2>4. TargetOf(o) = TargetOf(op[a])
    BY <2>3 DEF TargetOf
  <2>5. Shape(a, o) /\ ~Creating(o) /\ ~ListLocked(o)
    <3>1. ~Creating(o) /\ ~ListLocked(o)
      BY <1>1, <2>3 DEF Creating, ListLocked
    <3>2. CASE op[a].kind = "claim"
      <4>1. op[a].todo = ToWrite(a, op[a].id) /\ op[a].id \in Id
        BY <1>0, <1>1, <3>2 DEF Shape
      <4> QED
        BY <2>2, <2>3, <3>1, <3>2, <4>1 DEF Shape, Writing, LockPlaces
    <3>3. CASE op[a].kind = "update"
      <4>1. op[a].todo # <<>>
        BY <1>0, <3>3 DEF Shape
      <4> QED BY <2>2, <2>3, <3>1, <3>3, <4>1 DEF Shape, Writing
    <3> QED BY <1>1, <3>2, <3>3
  <2>6. KnownOf(o) /\ \A i \in Id : InHand(o, i) => InHand(op[a], i)
    <3>1. o.seen.blockedBy \subseteq used
      BY <1>2, <1>3, <2>3 DEF Base, Known
    <3> QED BY <1>1, <2>3, <3>1 DEF Base, Known, KnownOf, InHand
  <2>7. Distinct(o)
    BY <2>3 DEF Base, Edges, Distinct
  \* A claim reads again what it read before.
  <2>8. ~reused /\ o.kind = "claim" => o.seen = op[a].seen
    <3>1. ~reused /\ o.kind = "claim" => file[op[a].id] \in {op[a].seen, None}
      BY <1>0, <2>3 DEF Base, Atomic, AtomicOf
    <3> QED BY <1>3, <2>3, <3>1, <1>2 DEF TargetOf, Readable
  <2>9. ~reused => AtomicOf(a, o)
    <3>1. ~reused /\ o.kind = "claim" => op[a].seen.owner \in {None, a}
      BY <1>1, <2>3 DEF Base, Atomic, AtomicOf
    <3> QED BY <2>3, <2>4, <2>8, <3>1 DEF AtomicOf
  <2>10. ~blurred' /\ ~reused /\ o.kind = "claim" /\ o.pc \in Writing =>
            \A b \in o.seen.blockedBy : Settled(b)
    BY <1>0, <1>1, <2>3, <2>8 DEF Base, Resolved
  <2>11. ASSUME NEW e \in edges, KeepsEdge(op[a], e),
                Readable(e[2]) => e[1] \in file[e[2]].blockedBy
         PROVE  KeepsEdge(o, e)
    <3>1. ASSUME TargetOf(o) = e[2]
          PROVE  e[1] \in Patched(o.seen, Head(o.todo)[2]).blockedBy
      <4> DEFINE c == Head(op[a].todo)[2]
      <4>1. /\ Head(op[a].todo) = op[a].todo[1] /\ 1 \in DOMAIN op[a].todo
            /\ Head(op[a].todo)[1] = e[2] /\ c \in Changes
        BY <1>1, <2>4, <3>1, HeadIs
      <4>2. e[1] \in o.seen.blockedBy
        BY <1>2, <1>3, <2>3, <2>4, <2>11, <3>1
      <4>3. "blockedBy" \in DOMAIN c => e[1] \in c.blockedBy
        BY <2>11, <4>1 DEF KeepsEdge
      <4> HIDE DEF c
      <4>4. e[1] \in Patched(o.seen, c).blockedBy
        BY <2>2, <2>3, <4>1, <4>2, <4>3, PatchedIs
      <4> QED BY <2>3, <4>4 DEF c
    <3> QED BY <2>3, <2>11, <3>1 DEF KeepsEdge
  <2>12. ~crossed' /\ ~blurred' /\ ~reused => EdgesFit(o)
    BY <1>0, <1>1, <2>3, <2>11 DEF EdgesFit, Base, Edges, Flags
  <2>13. LocksFit(a, o)
    <3>1. taskLock[TargetOf(op[a])] = a
      BY <1>1 DEF Base, Locks
    <3> QED BY <1>0, <2>1, <2>4, <2>5, <3>1 DEF LocksFit, Base, Types
  <2>14. Fits(a, o) /\ FlagsGrow
    BY <1>0, <2>3, <2>5, <2>6, <2>7, <2>9 DEF Fits, FlagsGrow, Flags
  <2> QED
    BY <1>0, <2>1, <2>10, <2>12, <2>13, <2>14, Quiet DEF Base, Types
<1>4. CASE ~Readable(Target(a))
  <2>1. Done(a)
    BY <1>4 DEF Read
  <2>2. PICK o : /\ Becomes(a, o) /\ (o = Idle \/ UpdatesOp(a, o))
                 /\ \A e \in Id \X Id : KeepsEdge(op[a], e) => KeepsEdge(o, e)
    BY <1>1, <2>1, DoneIs
  <2>3. /\ taskLock' \in [Id -> Agent \cup {None}]
        /\ \A i \in Id : taskLock'[i] # taskLock[i] => taskLock[i] = a
    BY <1>1, <2>1, Release DEF Done
  <2>4. CASE o = Idle
    BY <1>0, <2>2, <2>3, <2>4, Plainly, IdlePlain DEF Base, Types
  <2>5. CASE UpdatesOp(a, o)
    <3>1. ~crossed' /\ ~blurred' /\ ~reused => EdgesFit(o)
      BY <1>0, <2>2, <2>5, EdgesStay DEF Flags, UpdatesOp
    <3> QED BY <1>0, <2>2, <2>3, <2>5, <3>1, UpdatesQuiet
  <2> QED BY <2>2, <2>4, <2>5
<1> QED BY <1>3, <1>4

-----------------------------------------------------------------------------
(* A step of the agent a that gives the file of one task i the content v.   *)

Writes(i, v) == file' = [file EXCEPT ![i] = v]

LEMMA KnownWrite ==
    ASSUME Types, Known, NEW a \in Agent, NEW o, Becomes(a, o), KnownOf(o),
           NEW i \in Id, NEW v, Writes(i, v), UNCHANGED used,
           v # None => i \in used,
           v \notin {None, Empty} => v.blockedBy \subseteq used,
           \A e \in edges' : e \in edges \/ (e[1] \in used /\ e[2] \in used)
    PROVE  Known'
<1>1. \A b \in Agent : KnownOf(op[b])'
  <2>1. \A b \in Agent : KnownOf(op'[b])
    BY DEF Becomes, Types, Known
  <2> QED BY <2>1 DEF KnownOf, InHand
<1>2. /\ file'[i] = v /\ \A j \in Id : j # i => file'[j] = file[j]
  BY DEF Writes, Types
<1>3. \A j \in Id : file'[j] # None => j \in used
  BY <1>2 DEF Known
<1>4. \A j \in Id : file'[j] \notin {None, Empty} =>
                       file'[j].blockedBy \subseteq used
  BY <1>2 DEF Known, Readable
<1>5. \A e \in edges' : e[1] \in used /\ e[2] \in used
  BY DEF Known
<1> QED BY <1>1, <1>3, <1>4, <1>5 DEF Known, Readable

\* The task i is in the hands of a only.
Alone(a, i) ==
    \A b \in Agent \ {a} : /\ Locked(op[b]) => TargetOf(op[b]) # i
                           /\ Creating(op[b]) => op[b].id # i

LEMMA AtomicWrite ==
    ASSUME Types, Atomic, NEW a \in Agent, NEW o, Becomes(a, o),
           NEW i \in Id, NEW v, Writes(i, v), UNCHANGED reused,
           ~Creating(o), \A j \in Id : InHand(o, j) => InHand(op[a], j),
           ~reused => v = None \/ Alone(a, i),
           ~reused => AtomicOf(a, op[a])',
           \A e \in edges' : e \in edges \/ InHand(op[a], e[2])
    PROVE  Atomic'
<1> SUFFICES ASSUME ~reused
             PROVE  Fresh' /\ \A b \in Agent : AtomicOf(b, op[b])'
  BY DEF Atomic
<1>0. op'[a] = o /\ \A b \in Agent \ {a} : op'[b] = op[b]
  BY DEF Becomes, Types
<1>1. file'[i] = v /\ \A j \in Id : j # i => file'[j] = file[j]
  BY DEF Writes, Types
<1>2. ASSUME NEW b \in Agent \ {a}
      PROVE  AtomicOf(b, op[b])'
  <2>1. AtomicOf(b, op[b]) /\ op'[b] = op[b]
    BY <1>0 DEF Atomic
  <2>2. Locked(op[b]) => TargetOf(op[b]) \in Id
    BY TargetIs DEF Types, Locked
  <2>3. \A j \in Id : file'[j] = file[j] \/ (j = i /\ file'[j] = v)
    BY <1>1
  <2>4. Locked(op[b]) =>
           file'[TargetOf(op[b])] \in {file[TargetOf(op[b])], None}
    BY <2>2, <2>3 DEF Alone
  <2> QED
    BY <2>1, <2>4 DEF AtomicOf, TargetOf, Locked, LockPlaces, Writing
<1>3. ASSUME NEW c \in Agent, Creating(op'[c])
      PROVE  /\ file'[op'[c].id] \in {None, Empty}
             /\ \A b \in Agent \ {c} :
                   /\ ~InHand(op'[b], op'[c].id)
                   /\ ~(Creating(op'[b]) /\ op'[b].id = op'[c].id)
             /\ \A e \in edges' : e[2] # op'[c].id
  <2>1. c # a /\ op'[c] = op[c] /\ op[c].id \in Id
    BY <1>0, <1>3 DEF Types, Shape, Creating
  <2>2. /\ file[op[c].id] \in {None, Empty}
        /\ \A b \in Agent \ {c} :
              /\ ~InHand(op[b], op[c].id)
              /\ ~(Creating(op[b]) /\ op[b].id = op[c].id)
        /\ \A e \in edges : e[2] # op[c].id
    BY <1>3, <2>1 DEF Atomic, Fresh
  <2>3. file'[op[c].id] \in {None, Empty}
    BY <1>1, <1>3, <2>1, <2>2 DEF Alone
  <2> QED BY <1>0, <2>1, <2>2, <2>3
<1>4. Fresh'
  BY <1>3 DEF Fresh, Creating, InHand
<1>5. \A b \in Agent : AtomicOf(b, op[b])'
  BY <1>2
<1> QED BY <1>4, <1>5

LEMMA ResolvedWrite ==
    ASSUME Types, Resolved, NEW a \in Agent, NEW o, Becomes(a, o),
           NEW i \in Id, NEW v, Writes(i, v), UNCHANGED reused,
           blurred => blurred', ~Creating(o),
           o.pc = "fill" => TargetOf(o) = i,
           o.kind = "claim" =>
               op[a].kind = "claim" /\ op[a].pc \in Writing /\ o.seen = op[a].seen,
           ~blurred' /\ ~reused /\ Settled(i) => Settled(i)'
    PROVE  Resolved'
<1> SUFFICES ASSUME ~blurred', ~reused, NEW c \in Agent,
                    op'[c].kind = "claim", op'[c].pc \in Writing,
                    NEW b \in op'[c].seen.blockedBy
             PROVE  Settled(b)'
  BY DEF Resolved
<1>0. op'[a] = o /\ \A d \in Agent \ {a} : op'[d] = op[d]
  BY DEF Becomes, Types
<1>1. Settled(b)
  BY <1>0 DEF Resolved
<1>2. CASE b = i
  BY <1>1, <1>2
<1>3. CASE b # i
  <2>1. file'[b] = file[b]
    BY <1>3 DEF Writes, Types
  <2>2. /\ o.pc = "fill" => TargetOf(o) # b
        /\ ~Creating(o)
    BY <1>3
  <2> QED
    BY <1>0, <1>1, <2>1, <2>2
    DEF Settled, Unresolved, Readable, TargetOf, Creating
<1> QED BY <1>2, <1>3

LEMMA EdgesWrite ==
    ASSUME Types, Edges, NEW a \in Agent, NEW o, Becomes(a, o), Distinct(o),
           NEW i \in Id, NEW v, Writes(i, v), UNCHANGED reused, FlagsGrow,
           edges' \subseteq edges,
           ~crossed' /\ ~blurred' /\ ~reused =>
              /\ v = None => \A e \in edges' : e[1] # i /\ e[2] # i
              /\ v # None => /\ file[i] # None
                             /\ v = Empty \/ \A e \in edges' : e[2] # i
              /\ o.kind = "delete" /\ o.pc = "cascade" => file'[o.id] = None
              /\ \A e \in Id \X Id : KeepsEdge(op[a], e) => KeepsEdge(o, e)
    PROVE  Edges'
<1>0. op'[a] = o /\ \A b \in Agent \ {a} : op'[b] = op[b]
  BY DEF Becomes, Types
<1>1. \A b \in Agent : Distinct(op[b])'
  BY <1>0 DEF Edges, Distinct
<1>2. file'[i] = v /\ \A j \in Id : j # i => file'[j] = file[j]
  BY DEF Writes, Types
<1>3. ASSUME ~crossed', ~blurred', ~reused
      PROVE  /\ \A b \in Agent : op'[b].kind = "delete" /\ op'[b].pc = "cascade"
                                    => file'[op'[b].id] = None
             /\ \A e \in edges' : file'[e[1]] # None =>
                   /\ file'[e[2]] \notin {None, Empty} =>
                         e[1] \in file'[e[2]].blockedBy
                   /\ \A b \in Agent : KeepsEdge(op'[b], e)
  <2>1. /\ \A b \in Agent : op[b].kind = "delete" /\ op[b].pc = "cascade"
                               => file[op[b].id] = None
        /\ \A e \in edges : file[e[1]] # None =>
              /\ Readable(e[2]) => e[1] \in file[e[2]].blockedBy
              /\ \A b \in Agent : KeepsEdge(op[b], e)
    BY <1>3 DEF Edges, FlagsGrow
  <2>2. ASSUME NEW b \in Agent, op'[b].kind = "delete", op'[b].pc = "cascade"
        PROVE  file'[op'[b].id] = None
    <3>1. CASE b = a
      BY <1>0, <1>3, <2>2, <3>1
    <3>2. CASE b # a
      <4>1. op'[b] = op[b] /\ op[b].id \in Id /\ file[op[b].id] = None
        BY <1>0, <2>1, <2>2, <3>2 DEF Types, Shape
      <4> QED BY <1>2, <1>3, <4>1
    <3> QED BY <3>1, <3>2
  <2>3. ASSUME NEW e \in edges', file'[e[1]] # None
        PROVE  /\ file'[e[2]] \notin {None, Empty} =>
                     e[1] \in file'[e[2]].blockedBy
               /\ \A b \in Agent : KeepsEdge(op'[b], e)
    <3>1. e \in edges /\ e \in Id \X Id /\ e[1] \in Id /\ e[2] \in Id
      BY DEF Types
    <3>2. file[e[1]] # None
      BY <1>2, <1>3, <2>3, <3>1
    <3>3. file'[e[2]] \notin {None, Empty} => file'[e[2]] = file[e[2]]
      BY <1>2, <1>3, <3>1
    <3>4. \A b \in Agent : KeepsEdge(op'[b], e)
      BY <1>0, <1>3, <2>1, <3>1, <3>2
    <3> QED BY <2>1, <3>1, <3>2, <3>3, <3>4 DEF Readable
  <2> QED BY <2>2, <2>3
<1>4. /\ \A e \in edges', b \in Agent :
            KeepsEdge(op'[b], e) => KeepsEdge(op[b], e)'
  BY DEF KeepsEdge, TargetOf
<1> QED BY <1>1, <1>3, <1>4 DEF Edges, FlagsGrow, Readable

\* A new identifier: nobody has it in hand, and no edge names it.
LEMMA CreateFileBase ==
    ASSUME Base, NEW a \in Agent, CreateFile(a), Flags
    PROVE  Base'
<1> DEFINE o == [op[a] EXCEPT !.pc = "fill_new"]
           i == op[a].id
<1>0. /\ Shape(a, op[a]) /\ op[a] \in Op /\ i \in Id /\ op[a].todo = <<>>
      /\ op[a].kind = "create" /\ op[a].pc = "create"
      /\ UNCHANGED <<mark, taskLock, listLock, edges, blurred>>
      /\ file' = [file EXCEPT ![i] = Empty] /\ used' = used \cup {i}
      /\ ~reused' => ~reused /\ i \notin used
  BY DEF Base, Types, Shape, CreateFile, At, locks
<1>1. /\ o \in Op /\ o.kind = "create" /\ o.pc = "fill_new" /\ o.id = i
      /\ o.todo = <<>> /\ o.seen = op[a].seen /\ Becomes(a, o)
  BY <1>0 DEF Op, Places, CreateFile, Goto, Becomes
<1> HIDE DEF o, i
<1>2. /\ Shape(a, o) /\ ~Locked(o) /\ DOMAIN o.todo = {}
  BY <1>0, <1>1 DEF Shape, Locked, LockPlaces, Writing
<1>3. \A j \in Id : ~InHand(o, j)
  BY <1>1, <1>2 DEF InHand
<1>4. op'[a] = o /\ \A b \in Agent \ {a} : op'[b] = op[b]
  BY <1>1 DEF Becomes, Base, Types
<1>5. file'[i] = Empty /\ \A j \in Id : j # i => file'[j] = file[j]
  BY <1>0 DEF Base, Types
<1>6. /\ \A j \in Id, b \in Agent : InHand(op[b], j) => j \in used
      /\ \A b \in Agent : Creating(op[b]) => op[b].id \in used
      /\ \A e \in edges : e[1] \in used /\ e[2] \in used
                          /\ e[1] \in Id /\ e[2] \in Id
  BY DEF Base, Known, KnownOf, Creating, Types
<1>7. Types'
  <2>1. LocksFit(a, o)
    BY <1>0, <1>2 DEF LocksFit, Base, Types, Locks, ListLocked
  <2>2. file' \in [Id -> Task \cup {None, Empty}]
    BY <1>0 DEF Base, Types
  <2> QED BY <1>0, <1>1, <1>2, <2>1, <2>2, TypesQuiet DEF Base, Types
<1>8. Locks'
  <2>1. LocksFit(a, o)
    BY <1>0, <1>2 DEF LocksFit, Base, Types, Locks, ListLocked
  <2> QED BY <1>1, <2>1, LocksQuiet DEF Base
<1>9. Known'
  <2>1. /\ \A j \in Id : InHand(o, j) => j \in used'
        /\ o.seen \in Task => o.seen.blockedBy \subseteq used'
        /\ o.id \in used'
    BY <1>0, <1>1, <1>3 DEF Base, Known, KnownOf
  <2>2. \A b \in Agent : KnownOf(op[b])'
    <3> TAKE b \in Agent
    <3>1. CASE b = a
      BY <1>2, <1>4, <2>1, <3>1 DEF KnownOf, InHand
    <3>2. CASE b # a
      BY <1>0, <1>4, <3>2 DEF KnownOf, InHand, Base, Known
    <3> QED BY <3>1, <3>2
  <2>3. \A j \in Id : /\ file'[j] # None => j \in used'
                      /\ file'[j] \notin {None, Empty} =>
                            file'[j].blockedBy \subseteq used'
    BY <1>0, <1>5 DEF Base, Known, Readable
  <2> QED BY <1>0, <1>6, <2>2, <2>3 DEF Known, Readable
<1>10. Atomic'
  <2> SUFFICES ASSUME ~reused, i \notin used
               PROVE  Fresh' /\ \A b \in Agent : AtomicOf(b, op[b])'
    BY <1>0 DEF Atomic
  <2>1. ASSUME NEW b \in Agent
        PROVE  AtomicOf(b, op[b])'
    <3>1. CASE b = a
      BY <1>1, <1>4, <3>1 DEF AtomicOf
    <3>2. CASE b # a
      <4>1. Locked(op[b]) => TargetOf(op[b]) \in Id /\ TargetOf(op[b]) # i
        BY <1>6, TargetIs DEF Base, Types, Locked
      <4>2. AtomicOf(b, op[b]) /\ op'[b] = op[b]
        BY <1>4, <3>2 DEF Base, Atomic
      <4> QED
        BY <1>5, <4>1, <4>2
        DEF AtomicOf, TargetOf, Locked, LockPlaces, Writing
    <3> QED BY <3>1, <3>2
  <2>2. ASSUME NEW c \in Agent, Creating(op'[c])
        PROVE  /\ file'[op'[c].id] \in {None, Empty}
               /\ \A b \in Agent \ {c} :
                     /\ ~InHand(op'[b], op'[c].id)
                     /\ ~(Creating(op'[b]) /\ op'[b].id = op'[c].id)
               /\ \A e \in edges' : e[2] # op'[c].id
    <3>1. CASE c = a
      BY <1>0, <1>1, <1>4, <1>5, <1>6, <3>1
    <3>2. CASE c # a
      <4>1. /\ op'[c] = op[c] /\ op[c].id \in Id /\ op[c].id \in used
        BY <1>4, <1>6, <2>2, <3>2 DEF Base, Types, Shape, Creating
      <4>2. /\ file[op[c].id] \in {None, Empty}
            /\ \A b \in Agent \ {c} :
                  /\ ~InHand(op[b], op[c].id)
                  /\ ~(Creating(op[b]) /\ op[b].id = op[c].id)
            /\ \A e \in edges : e[2] # op[c].id
        BY <2>2, <4>1 DEF Base, Atomic, Fresh
      <4> QED BY <1>0, <1>1, <1>3, <1>4, <1>5, <4>1, <4>2
    <3> QED BY <3>1, <3>2
  <2>3. Fresh'
    BY <2>2 DEF Fresh, Creating, InHand
  <2>4. \A b \in Agent : AtomicOf(b, op[b])'
    BY <2>1
  <2> QED BY <2>3, <2>4
<1>11. Resolved'
  <2> SUFFICES ASSUME ~blurred, ~reused, i \notin used, NEW c \in Agent,
                      op'[c].kind = "claim", op'[c].pc \in Writing,
                      NEW b \in op'[c].seen.blockedBy
               PROVE  Settled(b)'
    BY <1>0 DEF Resolved
  <2>1. c # a /\ op'[c] = op[c]
    BY <1>1, <1>4
  <2>2. Settled(b)
    BY <2>1 DEF Base, Resolved
  <2>3. b \in used
    <3>1. op[c].seen \in Task
      BY <2>1 DEF Base, Types, Shape
    <3> QED BY <2>1, <3>1 DEF Base, Known, KnownOf
  <2>4. b # i /\ file'[b] = file[b]
    BY <1>5, <2>3 DEF Base, Types
  <2> QED
    BY <1>1, <1>4, <2>2, <2>4
    DEF Settled, Unresolved, Readable, TargetOf, Creating
<1>12. Edges'
  <2>1. \A b \in Agent : Distinct(op[b])'
    BY <1>2, <1>4 DEF Base, Edges, Distinct
  <2>2. ASSUME ~crossed', ~blurred, ~reused'
        PROVE  /\ \A b \in Agent : op'[b].kind = "delete" /\ op'[b].pc = "cascade"
                                      => file'[op'[b].id] = None
               /\ \A e \in edges' : file'[e[1]] # None =>
                     /\ file'[e[2]] \notin {None, Empty} =>
                           e[1] \in file'[e[2]].blockedBy
                     /\ \A b \in Agent : KeepsEdge(op'[b], e)
    <3>1. /\ \A b \in Agent : op[b].kind = "delete" /\ op[b].pc = "cascade"
                                 => file[op[b].id] = None
          /\ \A e \in edges : file[e[1]] # None =>
                /\ Readable(e[2]) => e[1] \in file[e[2]].blockedBy
                /\ \A b \in Agent : KeepsEdge(op[b], e)
      BY <1>0, <2>2 DEF Base, Edges, Flags
    <3>2. i \notin used
      BY <1>0, <2>2
    <3>3. ASSUME NEW b \in Agent, op'[b].kind = "delete",
                 op'[b].pc = "cascade"
          PROVE  file'[op'[b].id] = None
      <4>1. b # a /\ op'[b] = op[b]
        BY <1>1, <1>4, <3>3
      <4>2. op[b].id \in Id /\ InHand(op[b], op[b].id)
        BY <3>3, <4>1 DEF InHand, Base, Types, Shape
      <4> QED BY <1>5, <1>6, <3>1, <3>2, <3>3, <4>1, <4>2
    <3>4. \A e : KeepsEdge(o, e)
      BY <1>1, <1>2 DEF KeepsEdge
    <3> QED BY <1>0, <1>4, <1>5, <1>6, <3>1, <3>2, <3>3, <3>4 DEF Readable
  <2>3. \A e \in edges', b \in Agent :
           KeepsEdge(op'[b], e) => KeepsEdge(op[b], e)'
    BY DEF KeepsEdge, TargetOf
  <2>4. ~crossed' => ~Crossing'
    BY DEF Flags
  <2> QED BY <1>0, <2>1, <2>2, <2>3, <2>4 DEF Edges, Readable
<1> QED BY <1>7, <1>8, <1>9, <1>10, <1>11, <1>12 DEF Base

LEMMA CreateFillBase ==
    ASSUME Base, NEW a \in Agent, CreateFill(a), Flags
    PROVE  Base'
<1> DEFINE i == op[a].id
<1>0. /\ i \in Id /\ Creating(op[a]) /\ listLock = a /\ listLock' = None
      /\ Becomes(a, Idle)
      /\ UNCHANGED <<mark, taskLock, used, reused, edges, blurred>>
  BY DEF Base, Types, Shape, Locks, CreateFill, At, ListLocked, Creating,
         EndUnderListLock, Becomes, history
<1>1. CASE file[i] # Empty
  <2>1. file' = file
    BY <1>1 DEF CreateFill, Base, Types
  <2> QED BY <1>0, <2>1, Plainly, IdlePlain DEF Base, Types
<1>2. CASE file[i] = Empty
  <2>1. Writes(i, NewTask)
    BY <1>2 DEF CreateFill, Writes
  <2> HIDE DEF i
  <2>2. /\ Fits(a, Idle) /\ ~Locked(Idle) /\ ~ListLocked(Idle)
        /\ DOMAIN Idle.todo = {}
    BY PlainFits, IdlePlain, IdleIs
  <2>3. LocksFit(a, Idle) /\ FlagsGrow
    BY <1>0, <2>2 DEF LocksFit, FlagsGrow, Flags, Base, Types
  <2>4. NewTask \in Task /\ NewTask.blockedBy = {} /\ NewTask # None
    BY NamesAssumption DEF NewTask, Task, Status
  <2>5. file' \in [Id -> Task \cup {None, Empty}]
    BY <2>1, <2>4 DEF Writes, Base, Types
  <2>6. Types' /\ Locks'
    BY <1>0, <2>2, <2>3, <2>5, TypesQuiet, LocksQuiet DEF Base, Types, Fits
  <2>7. Known'
    <3>1. i \in used
      BY <1>0, <1>2, NamesAssumption DEF Base, Known
    <3> QED BY <1>0, <2>1, <2>2, <2>4, <3>1, KnownWrite DEF Base, Fits
  <2>8. ~reused => Fresh
    BY DEF Base, Atomic
  <2>9. \A j \in Id : ~InHand(Idle, j)
    BY <2>2, IdleIs DEF InHand
  <2>10. Atomic'
    <3>1. ~reused => Alone(a, i)
      <4>1. \A b \in Agent : Locked(op[b]) => InHand(op[b], TargetOf(op[b]))
        BY TargetIs DEF Locked, Base, Types
      <4>2. ~reused => \A b \in Agent \ {a} :
                          /\ ~InHand(op[b], i)
                          /\ ~(Creating(op[b]) /\ op[b].id = i)
        BY <1>0, <2>8 DEF Fresh, i
      <4> QED BY <4>1, <4>2 DEF Alone
    <3>2. AtomicOf(a, op[a])'
      BY <1>0, IdleIs DEF AtomicOf, Becomes, Base, Types
    <3> QED
      BY <1>0, <2>1, <2>2, <2>9, <3>1, <3>2, AtomicWrite DEF Base, Fits
  <2>11. Resolved'
    <3>1. Settled(i) => FALSE
      BY <1>0, <1>2 DEF Settled, i
    <3> QED
      BY <1>0, <2>1, <2>2, <3>1, IdleIs, ResolvedWrite DEF Base, Fits
  <2>12. Edges'
    <3>1. ~reused => \A e \in edges : e[2] # i
      BY <1>0, <2>8 DEF Fresh, i
    <3>2. \A e : KeepsEdge(Idle, e)
      BY <2>2, IdleIs DEF KeepsEdge
    <3> QED
      BY <1>0, <1>2, <2>1, <2>2, <2>3, <2>4, <3>1, <3>2, IdleIs, EdgesWrite,
         NamesAssumption
      DEF Base, Fits
  <2> QED BY <2>6, <2>7, <2>10, <2>11, <2>12 DEF Base
<1> QED BY <1>1, <1>2

\* An unlink dissolves the edges of the task, and a delete goes on with the
\* tasks that refer to it.
LEMMA UnlinkBase ==
    ASSUME Base, NEW a \in Agent, NEW o, NEW i \in Id, Becomes(a, o),
           Writes(i, None), edges' = Dissolved(i),
           UNCHANGED <<mark, taskLock, listLock, used, reused, blurred>>, Flags,
           Shape(a, o), o.kind \in {"idle", "reset", "delete"},
           o.seen \in {None, op[a].seen},
           o.kind = "delete" =>
               op[a].kind = "delete" /\ o.id = op[a].id /\ o.id = i,
           ListLocked(o) => listLock = a
    PROVE  Base'
<1>1. /\ o.todo = <<>> /\ DOMAIN o.todo = {}
      /\ o.pc \notin LockPlaces /\ ~Creating(o) /\ ~Locked(o)
  BY DEF Shape, LockPlaces, Writing, Creating, Locked
<1>2. \A j \in Id : InHand(o, j) => InHand(op[a], j)
  BY <1>1 DEF InHand
<1>3. KnownOf(o)
  <2>1. o.seen \in Task => o.seen.blockedBy \subseteq used
    BY NamesAssumption DEF Base, Known, KnownOf
  <2>2. \A j \in Id : InHand(o, j) => j \in used
    BY <1>2 DEF Base, Known, KnownOf
  <2> QED BY <1>1, <2>1, <2>2 DEF KnownOf, Creating
<1>4. LocksFit(a, o) /\ FlagsGrow
  BY <1>1 DEF LocksFit, FlagsGrow, Flags, Base, Types
<1>5. /\ edges' \subseteq edges /\ \A e \in edges' : e[1] # i /\ e[2] # i
  BY DEF Dissolved
<1>6. file' \in [Id -> Task \cup {None, Empty}] /\ file'[i] = None
  BY DEF Writes, Base, Types
<1>7. Types' /\ Locks'
  BY <1>4, <1>5, <1>6, TypesQuiet, LocksQuiet DEF Base, Types
<1>8. Known'
  BY <1>3, <1>5, KnownWrite DEF Base
<1>9. Atomic'
  <2>1. op'[a] = o
    BY DEF Becomes, Base, Types
  <2>2. AtomicOf(a, op[a])'
    BY <1>1, <2>1 DEF AtomicOf, LockPlaces, Writing
  <2> QED BY <1>1, <1>2, <1>5, <2>2, AtomicWrite DEF Base
<1>10. Resolved'
  <2>1. Settled(i)'
    BY <1>6, NamesAssumption DEF Settled, Unresolved, Readable
  <2> QED
    BY <1>1, <2>1, ResolvedWrite DEF Base, LockPlaces, Writing
<1>11. Edges'
  <2>1. \A e : KeepsEdge(o, e)
    BY <1>1 DEF KeepsEdge, LockPlaces, Writing
  <2>2. Distinct(o)
    BY <1>1 DEF Distinct
  <2> QED BY <1>4, <1>5, <1>6, <2>1, <2>2, EdgesWrite DEF Base
<1> QED BY <1>7, <1>8, <1>9, <1>10, <1>11 DEF Base

LEMMA ResetUnlinkBase ==
    ASSUME Base, NEW a \in Agent, ResetUnlink(a), Flags
    PROVE  Base'
<1>0. /\ Shape(a, op[a]) /\ op[a] \in Op /\ op[a].rest \subseteq Id
      /\ op[a].kind = "reset" /\ op[a].pc = "unlink" /\ listLock = a
      /\ UNCHANGED <<mark, taskLock, listLock, used, reused, blurred>>
  BY DEF Base, Types, Shape, Op, Locks, ListLocked, ResetUnlink, At, locks
<1>1. PICK i \in op[a].rest :
         /\ Writes(i, None) /\ edges' = Dissolved(i)
         /\ Becomes(a, [op[a] EXCEPT !.rest = @ \ {i}])
  BY DEF ResetUnlink, Writes, Becomes
<1> DEFINE o == [op[a] EXCEPT !.rest = @ \ {i}]
<1>2. /\ o \in Op /\ o.kind = "reset" /\ o.pc = "unlink"
      /\ o.todo = op[a].todo /\ o.seen = op[a].seen /\ Becomes(a, o)
  BY <1>0, <1>1 DEF Op
<1> HIDE DEF o
<1>3. Shape(a, o)
  BY <1>0, <1>2 DEF Shape
<1> QED BY <1>0, <1>1, <1>2, <1>3, UnlinkBase

LEMMA DeleteUnlinkBase ==
    ASSUME Base, NEW a \in Agent, DeleteUnlink(a), Flags
    PROVE  Base'
<1> DEFINE i == op[a].id
<1>0. /\ Shape(a, op[a]) /\ op[a] \in Op /\ i \in Id
      /\ op[a].kind = "delete" /\ op[a].pc = "unlink"
      /\ UNCHANGED <<mark, taskLock, listLock, used, reused, blurred>>
      /\ edges' = Dissolved(i)
  BY DEF Base, Types, Shape, DeleteUnlink, At, locks
<1>1. CASE file[i] = None
  <2>1. Becomes(a, Idle) /\ Writes(i, None)
    BY <1>1 DEF DeleteUnlink, Becomes, Writes, Base, Types
  <2>2. Shape(a, Idle) /\ ~ListLocked(Idle)
    BY IdlePlain DEF PlainOp
  <2> QED BY <1>0, <2>1, <2>2, IdleIs, UnlinkBase
<1>2. CASE file[i] # None
  <2> DEFINE o == [op[a] EXCEPT !.pc = "cascade"]
  <2>1. Becomes(a, o) /\ Writes(i, None)
    BY <1>2 DEF DeleteUnlink, Goto, Becomes, Writes
  <2>2. /\ o \in Op /\ o.kind = "delete" /\ o.pc = "cascade" /\ o.id = i
        /\ o.todo = op[a].todo /\ o.seen = op[a].seen
    BY <1>0 DEF Op, Places
  <2> HIDE DEF o, i
  <2>3. Shape(a, o) /\ ~ListLocked(o)
    BY <1>0, <2>2 DEF Shape, ListLocked
  <2>4. o.id = op[a].id
    BY <2>2 DEF i
  <2> QED BY <1>0, <2>1, <2>2, <2>3, <2>4, UnlinkBase
<1> QED BY <1>1, <1>2

\* The target of a writing agent is in its hands only.
LEMMA TargetAlone ==
    ASSUME Base, NEW a \in Agent, op[a].pc \in Writing
    PROVE  /\ TargetOf(op[a]) \in Id /\ TargetOf(op[a]) = Target(a)
           /\ InHand(op[a], TargetOf(op[a])) /\ TargetOf(op[a]) \in used
           /\ taskLock[TargetOf(op[a])] = a /\ Locked(op[a])
           /\ op[a].kind \in {"claim", "update"}
           /\ ~reused => Alone(a, TargetOf(op[a]))
<1>1. Shape(a, op[a]) /\ op[a] \in Op /\ Locked(op[a])
  BY DEF Base, Types, Shape, Locked, LockPlaces
<1>2. op[a].kind \in {"claim", "update"}
  BY <1>1 DEF Shape, Op, Kinds, Writing
<1>3. TargetOf(op[a]) \in Id /\ InHand(op[a], TargetOf(op[a]))
  BY <1>1, TargetIs DEF Locked
<1>4. TargetOf(op[a]) = Target(a) /\ TargetOf(op[a]) \in used
  BY <1>3 DEF TargetOf, Target, Base, Known, KnownOf
<1>5. \A b \in Agent : Locked(op[b]) => taskLock[TargetOf(op[b])] = b
  BY DEF Base, Locks
<1>6. ~reused => \A b \in Agent : Creating(op[b]) =>
                     \A c \in Agent \ {b} : ~InHand(op[c], op[b].id)
  BY DEF Base, Atomic, Fresh
<1>7. \A b \in Agent \ {a} : Creating(op[b]) /\ ~reused =>
                                op[b].id # TargetOf(op[a])
  BY <1>3, <1>6
<1>8. ~reused => Alone(a, TargetOf(op[a]))
  BY <1>1, <1>5, <1>7 DEF Alone
<1> QED BY <1>1, <1>2, <1>3, <1>4, <1>5, <1>8

LEMMA TruncateBase ==
    ASSUME Base, NEW a \in Agent, Truncate(a), Flags
    PROVE  Base'
<1> DEFINE o == [op[a] EXCEPT !.pc = "fill"]
<1> SUFFICES ASSUME NEW i, i = TargetOf(op[a])
             PROVE  Base'
  OBVIOUS
<1>0. /\ Shape(a, op[a]) /\ op[a] \in Op /\ op[a].pc = "truncate"
      /\ op[a].pc \in Writing
      /\ UNCHANGED <<mark, taskLock, listLock, used, edges, reused>>
  BY DEF Base, Types, Shape, Truncate, locks, Writing
<1>1. /\ i \in Id /\ i = Target(a) /\ InHand(op[a], i) /\ i \in used
      /\ taskLock[i] = a /\ op[a].kind \in {"claim", "update"}
      /\ ~reused => Alone(a, i)
  BY <1>0, TargetAlone
<1>2. /\ Writes(i, Empty)
      /\ blurred => blurred'
  BY <1>1 DEF Truncate, Writes
<1>3. ~blurred' => file[i] # None
  BY <1>1 DEF Truncate
<1>4. /\ o \in Op /\ o.kind = op[a].kind /\ o.pc = "fill" /\ o.id = op[a].id
      /\ o.todo = op[a].todo /\ o.seen = op[a].seen /\ Becomes(a, o)
  BY <1>0 DEF Op, Places, Truncate, Goto, Becomes
<1> HIDE DEF o
<1>5. TargetOf(o) = i /\ op'[a] = o
  BY <1>4 DEF TargetOf, Becomes, Base, Types
<1>6. Shape(a, o) /\ ~Creating(o) /\ ~ListLocked(o)
  <2>1. op[a].kind = "claim" =>
           /\ op[a].todo = ToWrite(a, op[a].id) /\ op[a].id \in Id
           /\ op[a].seen \in Task
    BY <1>0 DEF Shape, Writing
  <2>2. op[a].kind = "update" => op[a].todo # <<>> /\ op[a].seen \in Task
    BY <1>0 DEF Shape
  <2>3. CASE op[a].kind = "claim"
    BY <1>4, <2>1, <2>3 DEF Shape, Writing, LockPlaces, Creating, ListLocked
  <2>4. CASE op[a].kind = "update"
    BY <1>4, <2>2, <2>4 DEF Shape, Writing, LockPlaces, Creating, ListLocked
  <2> QED BY <1>1, <2>3, <2>4
<1>7. KnownOf(o) /\ \A j \in Id : InHand(o, j) => InHand(op[a], j)
  BY <1>4, <1>6 DEF Base, Known, KnownOf, InHand, Creating
<1>8. Distinct(o)
  BY <1>4 DEF Base, Edges, Distinct
<1>9. LocksFit(a, o) /\ FlagsGrow
  BY <1>0, <1>1, <1>2, <1>5, <1>6
  DEF LocksFit, FlagsGrow, Flags, Base, Types
<1>10. file' \in [Id -> Task \cup {None, Empty}] /\ file'[i] = Empty
  BY <1>1, <1>2 DEF Writes, Base, Types
<1>11. Types' /\ Locks'
  BY <1>0, <1>4, <1>6, <1>9, <1>10, TypesQuiet, LocksQuiet DEF Base, Types
<1>12. Known'
  BY <1>0, <1>1, <1>2, <1>4, <1>7, KnownWrite DEF Base
<1>13. Atomic'
  <2>1. ~reused => AtomicOf(a, op[a])'
    <3>1. ~reused => AtomicOf(a, op[a])
      BY DEF Base, Atomic
    <3>2. TargetOf(op[a])' = i
      BY <1>5 DEF TargetOf
    <3> QED BY <1>0, <1>4, <1>5, <1>10, <3>1, <3>2 DEF AtomicOf, Writing
  <2> QED
    BY <1>0, <1>1, <1>2, <1>4, <1>6, <1>7, <2>1, AtomicWrite DEF Base
<1>14. Resolved'
  <2>1. ASSUME ~blurred', ~reused, Settled(i)
        PROVE  Settled(i)'
    <3>1. file[i] = op[a].seen
      <4>1. file[i] \in {op[a].seen, None}
        BY <1>0, <2>1 DEF Base, Atomic, AtomicOf
      <4> QED BY <1>3, <2>1, <4>1
    <3>2. op[a].seen \in Task
      BY <1>0, <1>1 DEF Shape, Writing
    <3>3. op[a].seen.status = "completed"
      BY <2>1, <3>1, <3>2, NamesAssumption DEF Settled, Unresolved, Readable
    <3>4. /\ op'[a].seen.status = "completed" /\ ~Creating(op'[a])
          /\ \A b \in Agent \ {a} : op'[b] = op[b]
      BY <1>4, <1>5, <1>6, <3>3 DEF Becomes, Base, Types
    <3>5. \A b \in Agent \ {a} :
             /\ op'[b].pc = "fill" => TargetOf(op'[b]) # i
             /\ ~(Creating(op'[b]) /\ op'[b].id = i)
      BY <1>1, <2>1, <3>4 DEF Alone, Locked, LockPlaces, Writing
    <3>6. ~Unresolved(i)'
      BY <1>10 DEF Unresolved, Readable
    <3>7. \A b \in Agent :
             /\ op'[b].pc = "fill" /\ TargetOf(op'[b]) = i =>
                   op'[b].seen.status = "completed"
             /\ ~(Creating(op'[b]) /\ op'[b].id = i)
      BY <3>4, <3>5
    <3> QED
      BY <3>6, <3>7 DEF Settled, TargetOf, Creating, Unresolved, Readable
  <2> QED
    BY <1>0, <1>1, <1>2, <1>4, <1>5, <1>6, <2>1, ResolvedWrite DEF Base
<1>15. Edges'
  <2>1. \A e : KeepsEdge(op[a], e) => KeepsEdge(o, e)
    BY <1>0, <1>4, <1>5 DEF KeepsEdge
  <2> QED
    BY <1>0, <1>1, <1>2, <1>3, <1>4, <1>8, <1>9, <2>1, NamesAssumption,
       EdgesWrite DEF Base
<1> QED BY <1>11, <1>12, <1>13, <1>14, <1>15 DEF Base

\* What is written has the blockers that a had read, and those that it adds.
LEMMA WrittenIs ==
    ASSUME Base, NEW a \in Agent, op[a].pc = "fill"
    PROVE  /\ Written(a) \in Task /\ op[a].seen \in Task
           /\ Written(a).blockedBy \subseteq used
           /\ Written(a) = Patched(op[a].seen, Head(op[a].todo)[2])
           /\ Written(a).blockedBy # op[a].seen.blockedBy => WritesArrays(a)
<1> DEFINE c == Head(op[a].todo)[2]
<1>1. /\ Head(op[a].todo) = op[a].todo[1] /\ 1 \in DOMAIN op[a].todo
      /\ c \in Changes
  BY HeadIs DEF Writing
<1>2. op[a].seen \in Task
  <2>1. Shape(a, op[a]) /\ op[a].kind \in {"claim", "update"}
    BY TargetAlone DEF Base, Types, Writing
  <2> QED BY <2>1 DEF Shape, Writing
<1>3. Written(a) = Patched(op[a].seen, c)
  BY DEF Written
<1>4. /\ op[a].seen.blockedBy \subseteq used
      /\ "blockedBy" \in DOMAIN c => c.blockedBy \subseteq used
  BY <1>1, <1>2 DEF Base, Known, KnownOf
<1>5. "blockedBy" \in DOMAIN c => WritesArrays(a)
  BY <1>1 DEF WritesArrays
<1> HIDE DEF c
<1>6. /\ Written(a) \in Task
      /\ "blockedBy" \notin DOMAIN c =>
            Written(a).blockedBy = op[a].seen.blockedBy
      /\ "blockedBy" \in DOMAIN c => Written(a).blockedBy = c.blockedBy
  BY <1>1, <1>2, <1>3, PatchedIs
<1>7. Written(a).blockedBy \subseteq used
  BY <1>4, <1>6
<1> QED BY <1>2, <1>3, <1>5, <1>6, <1>7 DEF c

LEMMA FillBase ==
    ASSUME Base, NEW a \in Agent, Fill(a), Flags
    PROVE  Base'
<1> SUFFICES ASSUME NEW i, i = TargetOf(op[a]), NEW w, w = Written(a)
             PROVE  Base'
  OBVIOUS
<1>0. /\ Shape(a, op[a]) /\ op[a] \in Op /\ op[a].pc = "fill"
      /\ op[a].pc \in Writing
      /\ UNCHANGED <<mark, listLock, used, reused>>
  BY DEF Base, Types, Shape, Fill, Writing
<1>1. /\ i \in Id /\ i = Target(a) /\ InHand(op[a], i) /\ i \in used
      /\ taskLock[i] = a /\ op[a].kind \in {"claim", "update"}
      /\ ~reused => Alone(a, i)
  BY <1>0, TargetAlone
<1>2. /\ w \in Task /\ op[a].seen \in Task /\ w.blockedBy \subseteq used
      /\ w = Patched(op[a].seen, Head(op[a].todo)[2])
      /\ w.blockedBy # op[a].seen.blockedBy => WritesArrays(a)
      /\ w \notin {None, Empty}
  BY <1>0, WrittenIs, NamesAssumption
<1>3. PICK v \in {w, file[i]} : /\ Writes(i, v)
                                /\ file[i] = Empty => v = w
                                /\ file[i] # Empty => v = file[i]
  <2>1. CASE file[i] = Empty
    BY <1>1, <2>1 DEF Fill, Writes
  <2>2. CASE file[i] # Empty
    BY <1>1, <2>2 DEF Fill, Writes
  <2> QED BY <2>1, <2>2
<1>4. /\ edges' = edges \cup {<<j, i>> : j \in w.blockedBy
                                             \ op[a].seen.blockedBy}
      /\ blurred => blurred'
      /\ ~blurred' /\ op[a].seen.status = "completed" => w.status = "completed"
  BY <1>1 DEF Fill
<1>5. PICK o : /\ Becomes(a, o) /\ (o = Idle \/ UpdatesOp(a, o))
               /\ \A e \in Id \X Id : KeepsEdge(op[a], e) => KeepsEdge(o, e)
               /\ \A k \in DOMAIN o.todo :
                     o.todo[k][1] = i => "blockedBy" \notin DOMAIN o.todo[k][2]
               /\ \A j \in Id : InHand(o, j) => InHand(op[a], j)
  BY <1>0, DoneIs DEF Fill
<1>6. /\ Fits(a, o) /\ ~Locked(o) /\ ~ListLocked(o) /\ ~Creating(o)
      /\ o.pc \notin Writing /\ o.kind \in {"idle", "update"}
  <2>1. CASE o = Idle
    BY <2>1, IdlePlain, PlainFits, IdleIs DEF Fits, Writing
  <2>2. CASE UpdatesOp(a, o)
    BY <2>2, UpdatesFits DEF UpdatesOp, Fits, Writing
  <2> QED BY <1>5, <2>1, <2>2
<1>7. LocksFit(a, o) /\ FlagsGrow
  <2>1. /\ taskLock' \in [Id -> Agent \cup {None}]
        /\ \A j \in Id : taskLock'[j] # taskLock[j] => taskLock[j] = a
    BY <1>0, TargetAlone, Release DEF Fill, Done
  <2> QED
    BY <1>0, <1>4, <1>6, <2>1 DEF LocksFit, FlagsGrow, Flags, Base, Types
<1>8. /\ file' \in [Id -> Task \cup {None, Empty}] /\ file'[i] = v
      /\ \A j \in Id : j # i => file'[j] = file[j]
  <2>1. file[i] \in Task \cup {None, Empty}
    BY <1>1 DEF Base, Types
  <2>2. v \in Task \cup {None, Empty}
    BY <1>2, <1>3, <2>1
  <2> QED BY <1>1, <1>3, <2>2 DEF Writes, Base, Types
<1>9. \A e \in edges' : \/ e \in edges
                       \/ /\ e[2] = i /\ e[1] \in w.blockedBy
                          /\ WritesArrays(a) /\ e \in Id \X Id
  <2>1. w.blockedBy \subseteq Id
    BY <1>2 DEF Base, Types
  <2> QED BY <1>1, <1>2, <1>4, <2>1
<1>10. Types' /\ Locks'
  <2>1. edges' \subseteq Id \X Id
    BY <1>9 DEF Base, Types
  <2> QED
    BY <1>0, <1>5, <1>6, <1>7, <1>8, <2>1, TypesQuiet, LocksQuiet
    DEF Base, Types, Fits
<1>11. Known'
  <2>1. v \notin {None, Empty} => v.blockedBy \subseteq used
    BY <1>1, <1>2, <1>3 DEF Base, Known, Readable
  <2>2. \A e \in edges' : e \in edges \/ (e[1] \in used /\ e[2] \in used)
    BY <1>1, <1>2, <1>9
  <2> QED
    BY <1>0, <1>1, <1>3, <1>5, <1>6, <2>1, <2>2, KnownWrite DEF Base, Fits
<1>12. ~reused => file[i] \in {Empty, None} /\ v \in {w, None}
  BY <1>0, <1>3, NamesAssumption DEF Base, Atomic, AtomicOf
<1>13. op'[a] = o /\ \A b \in Agent \ {a} : op'[b] = op[b]
  BY <1>5 DEF Becomes, Base, Types
<1>14. Atomic'
  <2>1. AtomicOf(a, op[a])'
    BY <1>6, <1>13 DEF AtomicOf, Writing
  <2>2. \A e \in edges' : e \in edges \/ InHand(op[a], e[2])
    BY <1>1, <1>9
  <2> QED
    BY <1>0, <1>1, <1>3, <1>5, <1>6, <2>1, <2>2, AtomicWrite DEF Base
<1>15. Resolved'
  <2>1. ASSUME ~blurred', ~reused, Settled(i)
        PROVE  Settled(i)'
    <3>1. CASE file[i] = Empty
      <4>1. op[a].seen.status = "completed"
        BY <1>0, <2>1, <3>1 DEF Settled
      <4>2. file'[i].status = "completed" /\ file'[i] \notin {None, Empty}
        BY <1>2, <1>3, <1>4, <1>8, <2>1, <3>1, <4>1
      <4> QED BY <4>2 DEF Settled, Unresolved, Readable
    <3>2. CASE file[i] = None
      <4>1. file'[i] = None
        BY <1>3, <1>8, <3>2, NamesAssumption
      <4> QED BY <4>1, NamesAssumption DEF Settled, Unresolved, Readable
    <3> QED BY <1>12, <2>1, <3>1, <3>2
  <2> QED
    BY <1>0, <1>1, <1>3, <1>4, <1>5, <1>6, <2>1, ResolvedWrite
    DEF Base, Writing
<1>16. Edges'
  <2>1. \A b \in Agent : Distinct(op[b])'
    <3>1. Distinct(o)
      BY <1>6 DEF Fits
    <3> QED BY <1>13, <3>1 DEF Base, Edges, Distinct
  <2>2. ASSUME ~crossed', ~blurred', ~reused
        PROVE  /\ \A b \in Agent : op'[b].kind = "delete" /\ op'[b].pc = "cascade"
                                      => file'[op'[b].id] = None
               /\ \A e \in edges' : file'[e[1]] # None =>
                     /\ file'[e[2]] \notin {None, Empty} =>
                           e[1] \in file'[e[2]].blockedBy
                     /\ \A b \in Agent : KeepsEdge(op'[b], e)
    <3>1. /\ \A b \in Agent : op[b].kind = "delete" /\ op[b].pc = "cascade"
                                 => file[op[b].id] = None
          /\ \A e \in edges : file[e[1]] # None =>
                /\ Readable(e[2]) => e[1] \in file[e[2]].blockedBy
                /\ \A b \in Agent : KeepsEdge(op[b], e)
          /\ ~Crossing
      BY <1>7, <2>2 DEF Base, Edges, FlagsGrow
    <3>2. \A j \in Id : file'[j] = None <=> file[j] = None
      BY <1>2, <1>3, <1>8, <1>12, <2>2, NamesAssumption
    <3>3. ASSUME NEW b \in Agent, op'[b].kind = "delete",
                 op'[b].pc = "cascade"
          PROVE  file'[op'[b].id] = None
      <4>1. op'[b] = op[b]
        BY <1>6, <1>13, <3>3
      <4>2. op[b].id \in Id
        BY <3>3, <4>1 DEF Base, Types, Shape
      <4> QED BY <3>1, <3>2, <3>3, <4>1, <4>2
    <3>4. ASSUME NEW e \in edges', file'[e[1]] # None
          PROVE  /\ file'[e[2]] \notin {None, Empty} =>
                       e[1] \in file'[e[2]].blockedBy
                 /\ \A b \in Agent : KeepsEdge(op'[b], e)
      <4>1. e \in Id \X Id /\ e[1] \in Id /\ e[2] \in Id
        BY <1>9 DEF Base, Types
      \* An edge recorded before.
      <4>2. CASE e \in edges
        <5>1. file[e[1]] # None
          BY <3>2, <3>4, <4>1
        <5>2. \A b \in Agent : KeepsEdge(op'[b], e)
          BY <1>5, <1>13, <3>1, <4>1, <4>2, <5>1
        <5>3. CASE e[2] # i
          <6>1. file'[e[2]] = file[e[2]]
            BY <1>8, <4>1, <5>3
          <6> QED BY <3>1, <4>2, <5>1, <5>2, <6>1 DEF Readable
        <5>4. CASE e[2] = i
          <6>1. KeepsEdge(op[a], e)
            BY <3>1, <4>2, <5>1
          <6>2. e[1] \in w.blockedBy
            BY <1>0, <1>2, <5>4, <6>1 DEF KeepsEdge
          <6> QED BY <1>8, <1>12, <2>2, <5>2, <5>4, <6>2
        <5> QED BY <5>3, <5>4
      \* An edge that is recorded now.
      <4>3. CASE e \notin edges
        <5>1. e[2] = i /\ e[1] \in w.blockedBy /\ WritesArrays(a)
          BY <1>9, <4>3
        <5>2. ASSUME NEW b \in Agent
              PROVE  KeepsEdge(op'[b], e)
          <6>1. CASE b = a
            BY <1>5, <1>6, <1>13, <5>1, <6>1 DEF KeepsEdge, Writing
          <6>2. CASE b # a
            <7>1. op'[b] = op[b] /\ ~WritesArrays(b)
              BY <1>13, <3>1, <5>1, <6>2 DEF Crossing
            <7>2. \A k \in DOMAIN op[b].todo :
                     "blockedBy" \notin DOMAIN op[b].todo[k][2]
              BY <7>1 DEF WritesArrays
            <7>3. op[b].pc \in {"truncate", "fill"} => TargetOf(op[b]) # i
              BY <1>1, <2>2, <6>2 DEF Alone, Locked, LockPlaces, Writing
            <7> QED BY <5>1, <7>1, <7>2, <7>3 DEF KeepsEdge
          <6> QED BY <6>1, <6>2
        <5> QED BY <1>8, <1>12, <2>2, <5>1, <5>2
      <4> QED BY <4>2, <4>3
    <3> QED BY <3>3, <3>4
  <2>3. \A e \in edges', b \in Agent :
           KeepsEdge(op'[b], e) => KeepsEdge(op[b], e)'
    BY DEF KeepsEdge, TargetOf
  <2> QED
    BY <1>0, <1>7, <2>1, <2>2, <2>3 DEF Edges, FlagsGrow, Readable
<1> QED BY <1>10, <1>11, <1>14, <1>15, <1>16 DEF Base

-----------------------------------------------------------------------------
(* The numbering.  As long as no delete has overlapped another operation    *)
(* that depends on what identifiers are taken, one agent at most is at such *)
(* an operation.                                                            *)

Race == raced' = (raced \/ Overlap')

LEMMA OneNumbering ==
    ASSUME Types, Locks, ~Overlap, NEW a \in Agent, NEW b \in Agent,
           Numbering(a), Numbering(b)
    PROVE  a = b
<1>1. /\ op[a].kind \in {"create", "reset", "delete"}
      /\ op[b].kind \in {"create", "reset", "delete"}
  BY DEF Numbering
<1>2. CASE op[a].kind = "delete" \/ op[b].kind = "delete"
  BY <1>2 DEF Overlap
<1>3. CASE ListLocked(op[a]) /\ ListLocked(op[b])
  BY <1>3 DEF Locks
<1> QED BY <1>1, <1>2, <1>3 DEF Numbering, ListLocked

LEMMA NumberingOnly ==
    ASSUME Types, NEW a \in Agent, ~Numbering(a)
    PROVE  CoversOf(op[a])
<1>1. Shape(a, op[a]) /\ op[a] \in Op
  BY DEF Types, Shape
<1> QED
  BY <1>1 DEF CoversOf, Numbering, Shape, Op, Kinds, LockPlaces, Writing

\* A step that unlinks nothing, and leaves the mark and the identifiers.
LEMMA CoversMore ==
    ASSUME Types, Types', Covers, Race, NEW a \in Agent, NEW o, Becomes(a, o),
           UNCHANGED <<mark, used, reused>>,
           \A i \in Id : file[i] # None => file'[i] # None,
           ~raced /\ Covers => CoversOf(op[a])'
    PROVE  Covers'
<1> SUFFICES ASSUME ~raced, ~Overlap'
             PROVE  /\ ~reused /\ \A u \in used : (Marked(u) \/ Named(u))'
                    /\ \A b \in Agent : CoversOf(op[b])'
  BY DEF Covers, Race
<1>1. \A u \in used : Marked(u) => Marked(u)'
  BY DEF Marked, MarkRead
<1>2. \A u \in used : Named(u) => Named(u)'
  BY DEF Named
<1>3. \A u \in used : (Marked(u) \/ Named(u))'
  BY <1>1, <1>2 DEF Covers
<1>4. ASSUME NEW b \in Agent
      PROVE  CoversOf(op[b])'
  <2>1. CASE b = a
    BY <2>1
  <2>2. CASE b # a
    <3>1. op'[b] = op[b] /\ CoversOf(op[b])
      BY <2>2 DEF Covers, Becomes, Types
    <3>2. op[b].kind = "delete" => op[b].id \in Id
      BY DEF Types, Shape
    <3>3. MarkRead' = MarkRead
      BY DEF MarkRead
    <3> QED
      BY <1>1, <1>2, <3>1, <3>2, <3>3 DEF CoversOf, Marked
  <2> QED BY <2>1, <2>2
<1>5. ~reused
  BY DEF Covers
<1> QED BY <1>3, <1>4, <1>5

\* A step of the agent that alone depends on what identifiers are taken.
LEMMA CoversAlone ==
    ASSUME Types, Types', Locks, Covers, Race, NEW a \in Agent, NEW o,
           Becomes(a, o), Numbering(a),
           ~raced /\ Covers =>
               /\ ~reused' /\ \A u \in used' : (Marked(u) \/ Named(u))'
               /\ CoversOf(op[a])'
    PROVE  Covers'
<1> SUFFICES ASSUME ~raced, ~Overlap'
             PROVE  /\ ~reused' /\ \A u \in used' : (Marked(u) \/ Named(u))'
                    /\ \A b \in Agent : CoversOf(op[b])'
  BY DEF Covers, Race
<1>1. ASSUME NEW b \in Agent \ {a}
      PROVE  CoversOf(op[b])'
  <2>1. ~Numbering(b)
    BY OneNumbering DEF Covers
  <2>2. op'[b] = op[b]
    BY DEF Becomes, Types
  <2>3. ~Numbering(b)'
    BY <2>1, <2>2 DEF Numbering
  <2>4. CoversOf(op[b])'
    <3>1. Shape(b, op'[b]) /\ op'[b] \in Op
      BY <2>2 DEF Types, Shape
    <3> QED
      BY <2>3, <3>1
      DEF CoversOf, Numbering, Shape, Op, Kinds, LockPlaces, Writing
  <2> QED BY <2>4
<1>2. \A b \in Agent : CoversOf(op[b])'
  BY <1>1
<1> QED BY <1>2

\* A step after which a does not depend on the numbering.
Careless(o) ==
    /\ o.pc \notin {"write_mark", "fill_mark"}
    /\ o.kind = "create" => o.pc \in {"list_lock", "scan", "fill_new"}
    /\ o.kind = "delete" => o.pc = "cascade"
    /\ o.kind = "reset" => o.pc \in {"list_lock", "scan"}

LEMMA CoversQuiet ==
    ASSUME Types, Types', Covers, Race, NEW a \in Agent, NEW o, Becomes(a, o),
           UNCHANGED <<mark, used, reused>>, Careless(o),
           \A i \in Id : file[i] # None => file'[i] # None
    PROVE  Covers'
<1>1. op'[a] = o
  BY DEF Becomes, Types
<1>2. CoversOf(op[a])'
  BY <1>1 DEF Careless, CoversOf
<1> QED BY <1>2, CoversMore

LEMMA IdleCareless == Careless(Idle)
BY DEF Idle, Careless

LEMMA BeginCovers ==
    ASSUME Types, Types', Covers, Race, NEW a \in Agent, Begin(a)
    PROVE  Covers'
<1>1. CASE BeginCreate(a) \/ BeginReset(a)
  <2>1. PICK kind \in {"create", "reset"} :
           Start(a, [Idle EXCEPT !.kind = kind, !.pc = "list_lock"])
    BY <1>1 DEF BeginCreate, BeginReset
  <2> DEFINE o == [Idle EXCEPT !.kind = kind, !.pc = "list_lock"]
  <2>2. Careless(o)
    BY <2>1, IdleIs DEF Careless, Op
  <2>3. Becomes(a, o) /\ UNCHANGED <<mark, used, reused, file>>
    BY <2>1 DEF Start, Becomes
  <2> HIDE DEF o
  <2> QED BY <2>2, <2>3, CoversQuiet
<1>2. ASSUME NEW i \in Id, BeginDelete(a, i)
      PROVE  Covers'
  <2> DEFINE o == [Idle EXCEPT !.kind = "delete", !.pc = "read_mark", !.id = i]
  <2>1. o.kind = "delete" /\ o.pc = "read_mark" /\ o.id = i
    BY IdleIs DEF Op
  <2>2. Becomes(a, o) /\ UNCHANGED <<mark, used, reused, file>> /\ Readable(i)
    BY <1>2 DEF BeginDelete, Start, Becomes
  <2> HIDE DEF o
  <2>3. op'[a] = o /\ file'[i] # None
    BY <2>2 DEF Becomes, Types, Readable
  <2>4. CoversOf(op[a])'
    BY <2>1, <2>3 DEF CoversOf
  <2> QED BY <2>2, <2>4, CoversMore
<1>3. ASSUME NEW i \in Id, BeginClaim(a, i)
      PROVE  Covers'
  <2> DEFINE o == [Idle EXCEPT !.kind = "claim", !.pc = "lock", !.id = i]
  <2>1. Careless(o)
    BY IdleIs DEF Careless, Op
  <2>2. Becomes(a, o) /\ UNCHANGED <<mark, used, reused, file>>
    BY <1>3 DEF BeginClaim, Start, Becomes
  <2> HIDE DEF o
  <2> QED BY <2>1, <2>2, CoversQuiet
<1>4. ASSUME NEW t, Start(a, Updates(t))
      PROVE  Covers'
  <2>1. Careless(Updates(t))
    BY IdleIs DEF Careless, Op, Updates
  <2>2. Becomes(a, Updates(t)) /\ UNCHANGED <<mark, used, reused, file>>
    BY <1>4 DEF Start, Becomes
  <2> QED BY <2>1, <2>2, CoversQuiet
<1>5. ASSUME NEW i \in Id,
             \/ BeginWork(a, i) \/ BeginComplete(a, i)
             \/ \E j \in Id : BeginBlock(a, i, j)
      PROVE  \E t : Start(a, Updates(t))
  <2>1. CASE BeginWork(a, i)
    BY <2>1 DEF BeginWork
  <2>2. CASE BeginComplete(a, i)
    BY <2>2 DEF BeginComplete
  <2>3. CASE \E j \in Id : BeginBlock(a, i, j)
    BY <2>3 DEF BeginBlock
  <2> QED BY <1>5, <2>1, <2>2, <2>3
<1>6. CASE \E mate \in Agent : BeginUnassign(a, mate)
  <2>1. \E t : Start(a, Updates(t))
    BY <1>6 DEF BeginUnassign
  <2> QED BY <1>4, <2>1
<1> QED BY <1>1, <1>2, <1>3, <1>4, <1>5, <1>6 DEF Begin

\* Updates and claims: a file is emptied or filled, none goes.
LEMMA UpdateCovers ==
    ASSUME Base, Types', Covers, Race, NEW a \in Agent, Update(a)
    PROVE  Covers'
<1>0. Types /\ Shape(a, op[a]) /\ op[a] \in Op
  BY DEF Base, Types, Shape
<1>1. /\ UNCHANGED <<mark, used, reused>>
      /\ \A i \in Id : file[i] # None => file'[i] # None
  <2>1. UNCHANGED <<mark, used, reused>>
    BY DEF Update, Precheck, LockTask, LockFails, ClaimRead, ClaimList, Read,
           Truncate, Fill, files, history
  <2>2. CASE Truncate(a)
    BY <1>0, <2>2, NamesAssumption DEF Truncate, Types
  <2>3. CASE Fill(a)
    <3>1. op[a].pc = "fill" /\ op[a].pc \in Writing
      BY <2>3 DEF Fill, Writing
    <3>2. Written(a) # None
      BY <3>1, WrittenIs, NamesAssumption
    <3> QED BY <1>0, <2>3, <3>2 DEF Fill, Types
  <2>4. CASE ~Truncate(a) /\ ~Fill(a)
    <3>1. file' = file
      BY <2>4
      DEF Update, Precheck, LockTask, LockFails, ClaimRead, ClaimList, Read,
          files
    <3> QED BY <2>1, <3>1
  <2> QED BY <2>1, <2>2, <2>3, <2>4
<1>2. \E o : Becomes(a, o) /\ Careless(o)
  <2>1. CASE LockFails(a)
    BY <2>1, IdleCareless DEF LockFails, Becomes
  <2>2. op[a].kind \in {"claim", "update"} \/ LockFails(a)
    BY <1>0
    DEF Update, Precheck, LockTask, ClaimRead, ClaimList, Read, Truncate,
        Fill, Shape, Op, Kinds, LockPlaces, Writing
  <2>3. ASSUME op[a].kind \in {"claim", "update"},
               NEW pc \in {"lock", "claim_read", "read", "fill"},
               Becomes(a, [op[a] EXCEPT !.pc = pc])
        PROVE  \E o : Becomes(a, o) /\ Careless(o)
    <3>1. Careless([op[a] EXCEPT !.pc = pc])
      BY <1>0, <2>3 DEF Careless, Op
    <3> QED BY <2>3, <3>1
  <2>5. ASSUME op[a].kind \in {"claim", "update"}, Precheck(a)
        PROVE  \E o : Becomes(a, o) /\ Careless(o)
    <3>1. CASE Readable(Target(a))
      <4>1. Becomes(a, [op[a] EXCEPT !.pc = "lock"])
        BY <2>5, <3>1 DEF Precheck, Becomes
      <4> QED BY <2>3, <2>5, <4>1
    <3>2. CASE ~Readable(Target(a)) /\ Len(op[a].todo) = 1
      BY <2>5, <3>2, IdleCareless DEF Precheck, Becomes
    <3>3. CASE ~Readable(Target(a)) /\ Len(op[a].todo) # 1
      <4> DEFINE o == [op[a] EXCEPT !.todo = Rest(a)]
      <4>1. Becomes(a, o)
        BY <2>5, <3>3 DEF Precheck, Becomes
      <4>2. Careless(o)
        BY <1>0, <2>5 DEF Careless, Op, Precheck
      <4> QED BY <4>1, <4>2
    <3> QED BY <3>1, <3>2, <3>3
  <2>6. ASSUME op[a].kind \in {"claim", "update"}, LockTask(a)
        PROVE  \E o : Becomes(a, o) /\ Careless(o)
    <3>1. PICK pc \in {"claim_read", "read"} :
             Becomes(a, [op[a] EXCEPT !.pc = pc])
      <4>1. CASE op[a].kind = "claim"
        BY <2>6, <4>1 DEF LockTask, Goto, Becomes
      <4>2. CASE op[a].kind # "claim"
        BY <2>6, <4>2 DEF LockTask, Goto, Becomes
      <4> QED BY <4>1, <4>2
    <3> QED BY <2>3, <2>6, <3>1
  <2>7. ASSUME op[a].kind \in {"claim", "update"}, ClaimRead(a)
        PROVE  \E o : Becomes(a, o) /\ Careless(o)
    <3>1. CASE Readable(op[a].id) /\ Claimable(file[op[a].id], a)
      <4> DEFINE o == [op[a] EXCEPT !.pc = "claim_list",
                                    !.seen = file[op[a].id]]
      <4>1. Becomes(a, o)
        BY <2>7, <3>1 DEF ClaimRead, Becomes
      <4>2. Careless(o)
        BY <1>0, <2>7 DEF Careless, Op
      <4> QED BY <4>1, <4>2
    <3>2. CASE ~(Readable(op[a].id) /\ Claimable(file[op[a].id], a))
      BY <2>7, <3>2, IdleCareless DEF ClaimRead, Abandon, Becomes
    <3> QED BY <3>1, <3>2
  <2>8. ASSUME op[a].kind \in {"claim", "update"}, ClaimList(a)
        PROVE  \E o : Becomes(a, o) /\ Careless(o)
    <3>1. CASE Blockers(op[a].seen) = {}
      <4> DEFINE o == [op[a] EXCEPT !.pc = "read",
                                    !.todo = ToWrite(a, op[a].id)]
      <4>1. Becomes(a, o)
        BY <2>8, <3>1 DEF ClaimList, Becomes, ToWrite
      <4>2. Careless(o)
        BY <1>0, <2>8 DEF Careless, Op
      <4> QED BY <4>1, <4>2
    <3>2. CASE Blockers(op[a].seen) # {}
      BY <2>8, <3>2, IdleCareless DEF ClaimList, Abandon, Becomes
    <3> QED BY <3>1, <3>2
  <2>9. ASSUME op[a].pc \in Writing, Done(a)
        PROVE  \E o : Becomes(a, o) /\ Careless(o)
    <3>1. PICK o : Becomes(a, o) /\ (o = Idle \/ UpdatesOp(a, o))
      BY <2>9, DoneIs
    <3>2. Careless(o)
      BY <3>1, IdleCareless DEF UpdatesOp, Careless
    <3> QED BY <3>1, <3>2
  <2>10. ASSUME op[a].kind \in {"claim", "update"}, Read(a)
         PROVE  \E o : Becomes(a, o) /\ Careless(o)
    <3>1. CASE Readable(Target(a))
      <4> DEFINE o == [op[a] EXCEPT !.pc = "truncate",
                                    !.seen = file[Target(a)]]
      <4>1. Becomes(a, o)
        BY <2>10, <3>1 DEF Read, Becomes
      <4>2. Careless(o)
        BY <1>0, <2>10 DEF Careless, Op
      <4> QED BY <4>1, <4>2
    <3>2. CASE ~Readable(Target(a))
      BY <2>9, <2>10, <3>2 DEF Read, Writing
    <3> QED BY <3>1, <3>2
  <2>11. ASSUME op[a].kind \in {"claim", "update"}, Truncate(a)
         PROVE  \E o : Becomes(a, o) /\ Careless(o)
    <3>1. Becomes(a, [op[a] EXCEPT !.pc = "fill"])
      BY <2>11 DEF Truncate, Goto, Becomes
    <3> QED BY <2>3, <2>11, <3>1
  <2>12. CASE Fill(a)
    BY <2>9, <2>12 DEF Fill, Writing
  <2> QED
    BY <2>1, <2>2, <2>5, <2>6, <2>7, <2>8, <2>10, <2>11, <2>12 DEF Update
<1> QED BY <1>0, <1>1, <1>2, CoversQuiet

LEMMA MaxOfTwo ==
    ASSUME NEW x \in 0..MaxId, NEW y \in 0..MaxId
    PROVE  Max({x, y}) \in 0..MaxId /\ x <= Max({x, y}) /\ y <= Max({x, y})
<1> DEFINE S == {x, y}
<1>1. S \in SUBSET (0..MaxId) /\ S # {} /\ x \in S /\ y \in S
  OBVIOUS
<1> HIDE DEF S
<1>2. Max(S) \in S /\ \A z \in S : z <= Max(S)
  BY <1>1, Greatest, BoundsAssumption
<1>3. Max(S) \in 0..MaxId /\ x <= Max(S) /\ y <= Max(S)
  BY <1>1, <1>2
<1> QED BY <1>3 DEF S

\* Numbers: identifiers, names and marks.
LEMMA Numbers ==
    ASSUME Types
    PROVE  /\ MarkRead \in 0..MaxId /\ HighestFile \in 0..MaxId
           /\ used \subseteq 0..MaxId /\ \A u \in used : u > 0
           /\ \A u \in used : Named(u) => u <= HighestFile
           /\ \A a \in Agent : op[a].high \in 0..MaxId /\ op[a].id \in 0..MaxId
<1>1. MarkRead \in 0..MaxId /\ HighestFile \in 0..MaxId
  BY MarkIs, HighestIs DEF Types
<1>2. used \subseteq 0..MaxId /\ \A u \in used : u > 0 /\ u \in Nat
  BY BoundsAssumption DEF Types, Id
<1>3. ASSUME NEW u \in used, Named(u)
      PROVE  u <= HighestFile
  <2>1. PICK i \in Id : file[i] # None /\ u <= i
    BY <1>3 DEF Named
  <2>2. i <= HighestFile /\ i \in Nat
    BY <2>1, HighestIs DEF Id
  <2> QED BY <1>1, <1>2, <2>1, <2>2
<1>4. \A a \in Agent : op[a].high \in 0..MaxId /\ op[a].id \in 0..MaxId
  BY DEF Types, Op
<1> QED BY <1>1, <1>2, <1>3, <1>4

LEMMA TakeListLockCovers ==
    ASSUME Types, Types', Covers, Race, NEW a \in Agent, TakeListLock(a)
    PROVE  Covers'
<1> DEFINE o == [op[a] EXCEPT !.pc = "scan"]
<1>1. Shape(a, op[a]) /\ op[a] \in Op
  BY DEF Types, Shape
<1>2. op[a].kind \in {"create", "reset"}
  BY <1>1 DEF TakeListLock, Shape, Op, Kinds, LockPlaces, Writing
<1>3. Careless(o)
  BY <1>1, <1>2 DEF Careless, Op
<1>4. Becomes(a, o) /\ UNCHANGED <<file, mark, used, reused>>
  BY DEF TakeListLock, Goto, Becomes, files, history
<1> HIDE DEF o
<1> QED BY <1>3, <1>4, CoversQuiet

LEMMA CreateScanCovers ==
    ASSUME Types, Types', Covers, Race, NEW a \in Agent, CreateScan(a)
    PROVE  Covers'
<1>1. op[a] \in Op /\ op[a].kind = "create"
  BY DEF Types, CreateScan, At
<1>2. UNCHANGED <<file, mark, used, reused>>
  BY DEF CreateScan, files, history
<1>3. MarkRead' = MarkRead /\ \A u : Named(u)' <=> Named(u)
  BY <1>2 DEF MarkRead, Named
<1>4. CASE op' = [op EXCEPT ![a].high = HighestFile, ![a].pc = "read_mark"]
  <2> DEFINE o == [op[a] EXCEPT !.high = HighestFile, !.pc = "read_mark"]
  <2>1. Becomes(a, o)
    BY <1>4 DEF Becomes
  <2>2. o.kind = "create" /\ o.pc = "read_mark" /\ o.high = HighestFile
    BY <1>1 DEF Op
  <2> HIDE DEF o
  <2>3. op'[a] = o
    BY <2>1 DEF Becomes, Types
  <2>4. ~raced => \A u \in used : u <= HighestFile \/ Marked(u)
    BY Numbers DEF Covers
  <2>5. ~raced => CoversOf(op[a])'
    BY <1>2, <1>3, <2>2, <2>3, <2>4 DEF CoversOf, Marked
  <2> QED BY <1>2, <2>1, <2>5, CoversMore
<1>5. CASE op' = [op EXCEPT ![a].high = MarkRead, ![a].pc = "read_names"]
  <2> DEFINE o == [op[a] EXCEPT !.high = MarkRead, !.pc = "read_names"]
  <2>1. Becomes(a, o)
    BY <1>5 DEF Becomes
  <2>2. o.kind = "create" /\ o.pc = "read_names" /\ o.high = MarkRead
    BY <1>1 DEF Op
  <2> HIDE DEF o
  <2>3. op'[a] = o
    BY <2>1 DEF Becomes, Types
  <2>4. ~raced => \A u \in used : u <= MarkRead \/ Named(u)
    BY DEF Covers, Marked
  <2>5. ~raced => CoversOf(op[a])'
    BY <1>2, <1>3, <2>2, <2>3, <2>4 DEF CoversOf
  <2> QED BY <1>2, <2>1, <2>5, CoversMore
<1> QED BY <1>4, <1>5 DEF CreateScan

LEMMA CreateChooseCovers ==
    ASSUME Types, Types', Covers, Race, NEW a \in Agent, CreateChoose(a)
    PROVE  Covers'
<1> DEFINE o == [op[a] EXCEPT !.id = NextId(a), !.pc = "create"]
<1>1. op[a] \in Op /\ op[a].kind = "create"
      /\ op[a].pc \in {"read_mark", "read_names"}
  BY DEF Types, CreateChoose
<1>2. UNCHANGED <<file, mark, used, reused>> /\ Becomes(a, o)
  BY DEF CreateChoose, files, history, Becomes
<1>3. o.kind = "create" /\ o.pc = "create" /\ o.id = NextId(a)
  BY <1>1 DEF Op
<1> HIDE DEF o
<1>4. op'[a] = o
  BY <1>2 DEF Becomes, Types
<1>5. ASSUME ~raced, NEW u \in used
      PROVE  u < NextId(a)
  <2>1. u \in 0..MaxId
    BY Numbers
  <2>2. CASE op[a].pc = "read_mark"
    <3> DEFINE m == Max({op[a].high, MarkRead})
    <3>1. m \in 0..MaxId /\ op[a].high <= m /\ MarkRead <= m
      BY MaxOfTwo, Numbers
    <3>2. NextId(a) = m + 1
      BY <2>2 DEF NextId
    <3> HIDE DEF m
    <3>3. u <= op[a].high \/ u <= MarkRead
      BY <1>1, <1>5, <2>2 DEF Covers, CoversOf, Marked
    <3>4. op[a].high \in 0..MaxId /\ MarkRead \in 0..MaxId
      BY Numbers
    <3> QED BY <2>1, <3>1, <3>2, <3>3, <3>4
  <2>3. CASE op[a].pc = "read_names"
    <3> DEFINE m == Max({op[a].high, HighestFile})
    <3>1. m \in 0..MaxId /\ op[a].high <= m /\ HighestFile <= m
      BY MaxOfTwo, Numbers
    <3>2. NextId(a) = m + 1
      BY <2>3 DEF NextId
    <3> HIDE DEF m
    <3>3. u <= op[a].high \/ u <= HighestFile
      BY <1>1, <1>5, <2>3, Numbers DEF Covers, CoversOf
    <3>4. op[a].high \in 0..MaxId /\ HighestFile \in 0..MaxId
      BY Numbers
    <3> QED BY <2>1, <3>1, <3>2, <3>3, <3>4
  <2> QED BY <1>1, <2>2, <2>3
<1>6. ~raced => CoversOf(op[a])'
  BY <1>2, <1>3, <1>4, <1>5 DEF CoversOf
<1> QED BY <1>2, <1>6, CoversMore

LEMMA CreateFileCovers ==
    ASSUME Types, Types', Locks, Covers, Race, NEW a \in Agent, CreateFile(a)
    PROVE  Covers'
<1> DEFINE o == [op[a] EXCEPT !.pc = "fill_new"]
           i == op[a].id
<1>1. /\ op[a] \in Op /\ op[a].kind = "create" /\ op[a].pc = "create"
      /\ i \in Id /\ Numbering(a)
  BY DEF Types, CreateFile, At, Shape, Numbering
<1>2. /\ mark' = mark /\ used' = used \cup {i} /\ Becomes(a, o)
      /\ file' = [file EXCEPT ![i] = Empty]
      /\ reused' = (reused \/ i \in used)
  BY DEF CreateFile, Goto, Becomes
<1>3. Careless(o)
  BY <1>1 DEF Careless, Op
<1> HIDE DEF o, i
<1>4. op'[a] = o
  BY <1>2 DEF Becomes, Types
<1>5. CoversOf(op[a])'
  BY <1>3, <1>4 DEF Careless, CoversOf
<1>6. /\ file'[i] # None /\ \A j \in Id : file[j] # None => file'[j] # None
  BY <1>1, <1>2, NamesAssumption DEF Types
<1>7. ASSUME ~raced
      PROVE  i \notin used
  <2>1. \A u \in used : u < i
    BY <1>1, <1>7 DEF Covers, CoversOf, i
  <2>2. i \in Nat
    BY <1>1 DEF Id
  <2> QED BY <2>1, <2>2
<1>8. \A u \in used : /\ Marked(u) => Marked(u)'
                      /\ Named(u) => Named(u)'
  BY <1>2, <1>6 DEF Marked, MarkRead, Named
<1>9. \E j \in Id : file'[j] # None /\ i <= j
  BY <1>1, <1>6 DEF Id
<1>10. ASSUME ~raced, NEW u \in used'
       PROVE  u <= MarkRead' \/ \E j \in Id : file'[j] # None /\ u <= j
  <2>1. CASE u = i
    BY <1>9, <2>1
  <2>2. CASE u \in used
    BY <1>8, <1>10, <2>2 DEF Covers, Marked, Named
  <2> QED BY <1>2, <1>10, <2>1, <2>2
<1>11. ~raced => \A u \in used' : (Marked(u) \/ Named(u))'
  BY <1>10 DEF Marked, Named
<1>12. ~raced => ~reused'
  BY <1>2, <1>7 DEF Covers
<1> QED BY <1>1, <1>2, <1>5, <1>11, <1>12, CoversAlone

\* The steps of creating and clearing that end.
LEMMA EndCovers ==
    ASSUME Types, Types', Covers, Race, NEW a \in Agent,
           CreateFill(a) \/ ResetEnd(a) \/ Crash(a)
    PROVE  Covers'
<1>1. Becomes(a, Idle) /\ UNCHANGED <<mark, used, reused>>
  BY DEF CreateFill, ResetEnd, EndUnderListLock, Crash, Becomes, files, history
<1>2. \A i \in Id : file[i] # None => file'[i] # None
  <2>1. NewTask # None
    BY NamesAssumption DEF NewTask, Task, Status
  <2>2. CASE CreateFill(a)
    BY <2>1, <2>2 DEF CreateFill, Types
  <2>3. CASE ResetEnd(a) \/ Crash(a)
    BY <2>3 DEF ResetEnd, Crash, files
  <2> QED BY <2>2, <2>3
<1> QED BY <1>1, <1>2, IdleCareless, CoversQuiet

LEMMA ResetScanCovers ==
    ASSUME Types, Types', Covers, Race, NEW a \in Agent, ResetScan(a)
    PROVE  Covers'
<1>1. op[a] \in Op /\ op[a].kind = "reset"
  BY DEF Types, ResetScan, At
<1>2. UNCHANGED <<file, mark, used, reused>>
  BY DEF ResetScan, files, history
<1>3. MarkRead' = MarkRead
  BY <1>2 DEF MarkRead
<1>4. HighestFile \in 0..MaxId
  BY Numbers
<1>5. CASE HighestFile > 0
  <2> DEFINE o == [op[a] EXCEPT !.id = HighestFile, !.pc = "read_mark"]
  <2>1. Becomes(a, o)
    BY <1>5 DEF ResetScan, Becomes
  <2>2. o.kind = "reset" /\ o.pc = "read_mark" /\ o.id = HighestFile
    BY <1>1 DEF Op
  <2> HIDE DEF o
  <2>3. op'[a] = o
    BY <2>1 DEF Becomes, Types
  <2>4. HighestFile \in Id /\ file[HighestFile] # None
    BY <1>5, HighestIs
  <2>5. ~raced => \A u \in used : u <= HighestFile \/ Marked(u)
    BY Numbers DEF Covers
  <2>6. ~raced => CoversOf(op[a])'
    BY <1>2, <1>3, <2>2, <2>3, <2>4, <2>5 DEF CoversOf, Marked
  <2> QED BY <1>2, <2>1, <2>6, CoversMore
<1>6. CASE ~(HighestFile > 0)
  <2> DEFINE o == [op[a] EXCEPT !.id = HighestFile, !.pc = "sweep"]
  <2>1. Becomes(a, o)
    BY <1>6 DEF ResetScan, Becomes
  <2>2. o.kind = "reset" /\ o.pc = "sweep"
    BY <1>1 DEF Op
  <2> HIDE DEF o
  <2>3. op'[a] = o
    BY <2>1 DEF Becomes, Types
  <2>4. \A u \in used : ~Named(u)
    <3>1. \A u \in used : /\ Named(u) => u <= HighestFile
                          /\ u \in Nat /\ u > 0
      BY Numbers
    <3> QED BY <1>4, <1>6, <3>1
  <2>5. ~raced => \A u \in used : Marked(u)
    BY <2>4 DEF Covers
  <2>6. ~raced => CoversOf(op[a])'
    BY <1>2, <1>3, <2>2, <2>3, <2>5 DEF CoversOf, Marked
  <2> QED BY <1>2, <2>1, <2>6, CoversMore
<1> QED BY <1>5, <1>6

LEMMA ResetSweepCovers ==
    ASSUME Types, Types', Covers, Race, NEW a \in Agent, ResetSweep(a)
    PROVE  Covers'
<1> DEFINE o == [op[a] EXCEPT !.rest = {i \in Id : file[i] # None},
                              !.pc = "unlink"]
<1>1. op[a] \in Op /\ op[a].kind = "reset" /\ op[a].pc = "sweep"
  BY DEF Types, ResetSweep, At
<1>2. UNCHANGED <<file, mark, used, reused>> /\ Becomes(a, o)
  BY DEF ResetSweep, files, history, Becomes
<1>3. o.kind = "reset" /\ o.pc = "unlink"
  BY <1>1 DEF Op
<1> HIDE DEF o
<1>4. op'[a] = o /\ MarkRead' = MarkRead
  BY <1>2 DEF Becomes, Types, MarkRead
<1>5. ~raced => \A u \in used : Marked(u)
  BY <1>1 DEF Covers, CoversOf
<1>6. ~raced => CoversOf(op[a])'
  BY <1>2, <1>3, <1>4, <1>5 DEF CoversOf, Marked
<1> QED BY <1>2, <1>6, CoversMore

\* A reset unlinks files when the mark covers every identifier.
LEMMA ResetUnlinkCovers ==
    ASSUME Types, Types', Locks, Covers, Race, NEW a \in Agent, ResetUnlink(a)
    PROVE  Covers'
<1>1. /\ op[a] \in Op /\ op[a].kind = "reset" /\ op[a].pc = "unlink"
      /\ Numbering(a)
  BY DEF Types, ResetUnlink, At, Numbering
<1>2. UNCHANGED <<mark, used, reused>> /\ MarkRead' = MarkRead
  BY DEF ResetUnlink, MarkRead
<1>3. PICK i \in op[a].rest : Becomes(a, [op[a] EXCEPT !.rest = @ \ {i}])
  BY DEF ResetUnlink, Becomes
<1> DEFINE o == [op[a] EXCEPT !.rest = @ \ {i}]
<1>4. o.kind = "reset" /\ o.pc = "unlink" /\ Becomes(a, o)
  BY <1>1, <1>3 DEF Op
<1> HIDE DEF o
<1>5. op'[a] = o
  BY <1>4 DEF Becomes, Types
<1>6. ~raced => ~reused /\ \A u \in used : Marked(u)
  BY <1>1 DEF Covers, CoversOf
<1>7. ~raced => \A u \in used' : (Marked(u) \/ Named(u))'
  BY <1>2, <1>6 DEF Marked
<1>8. ~raced => CoversOf(op[a])'
  BY <1>2, <1>4, <1>5, <1>6 DEF CoversOf, Marked
<1> QED BY <1>1, <1>2, <1>4, <1>6, <1>7, <1>8, CoversAlone

\* What the agent that raises the mark is at.
LEMMA RaisingIs ==
    ASSUME Types, NEW a \in Agent, RaiseMark(a)
    PROVE  /\ op[a] \in Op /\ op[a].kind \in {"delete", "reset"}
           /\ Numbering(a) /\ op[a].id \in 0..MaxId
           /\ op[a].kind = "delete" => op[a].id \in Id
<1>1. Shape(a, op[a]) /\ op[a] \in Op
  BY DEF Types, Shape
<1>2. op[a].kind \in {"delete", "reset"}
  BY <1>1 DEF RaiseMark, ReadMark, WriteMark, FillMark, Shape, Op, Kinds,
              LockPlaces, Writing
<1> QED
  BY <1>1, <1>2
  DEF Shape, Op, Numbering, RaiseMark, ReadMark, WriteMark, FillMark

LEMMA ReadMarkCovers ==
    ASSUME Types, Types', Locks, Covers, Race, NEW a \in Agent, ReadMark(a)
    PROVE  Covers'
<1>1. /\ op[a] \in Op /\ op[a].kind \in {"delete", "reset"}
      /\ op[a].id \in 0..MaxId /\ op[a].pc = "read_mark"
  BY RaisingIs DEF RaiseMark, ReadMark
<1>2. UNCHANGED <<file, mark, used, reused>> /\ MarkRead' = MarkRead
  BY DEF ReadMark, files, history, MarkRead
<1>3. MarkRead \in 0..MaxId /\ used \subseteq 0..MaxId
  BY Numbers
<1>4. PICK pc \in {"write_mark", "unlink", "sweep"} :
         /\ Becomes(a, [op[a] EXCEPT !.pc = pc])
         /\ pc = "write_mark" => op[a].id > MarkRead
         /\ pc # "write_mark" => ~(op[a].id > MarkRead)
         /\ pc = "unlink" => op[a].kind = "delete"
         /\ pc = "sweep" => op[a].kind = "reset"
  <2>1. CASE op[a].id > MarkRead
    BY <2>1 DEF ReadMark, Goto, Becomes
  <2>2. CASE ~(op[a].id > MarkRead)
    BY <1>1, <2>2 DEF ReadMark, Goto, Becomes, AfterMark
  <2> QED BY <2>1, <2>2
<1> DEFINE o == [op[a] EXCEPT !.pc = pc]
<1>5. Becomes(a, o) /\ o.kind = op[a].kind /\ o.pc = pc /\ o.id = op[a].id
  BY <1>1, <1>4 DEF Op
<1> HIDE DEF o
<1>6. op'[a] = o
  BY <1>5 DEF Becomes, Types
<1>7. ASSUME ~raced, op[a].kind = "delete"
      PROVE  CoversOf(op[a])'
  <2>1. file[op[a].id] # None
    BY <1>1, <1>7 DEF Covers, CoversOf
  <2>2. pc = "unlink" => op[a].id <= MarkRead
    BY <1>1, <1>3, <1>4
  <2> QED
    BY <1>2, <1>4, <1>5, <1>6, <1>7, <2>1, <2>2 DEF CoversOf, Marked
<1>8. ASSUME ~raced, op[a].kind = "reset"
      PROVE  CoversOf(op[a])'
  <2>1. /\ op[a].id \in Id /\ file[op[a].id] # None
        /\ \A u \in used : u <= op[a].id \/ u <= MarkRead
    BY <1>1, <1>8 DEF Covers, CoversOf, Marked
  <2>2. pc = "sweep" => \A u \in used : u <= MarkRead
    <3> SUFFICES ASSUME pc = "sweep", NEW u \in used PROVE u <= MarkRead
      OBVIOUS
    <3>1. u \in 0..MaxId /\ ~(op[a].id > MarkRead)
      BY <1>3, <1>4
    <3> QED BY <1>1, <1>3, <2>1, <3>1
  <2> QED
    BY <1>2, <1>4, <1>5, <1>6, <1>8, <2>1, <2>2 DEF CoversOf, Marked
<1> QED BY <1>1, <1>2, <1>5, <1>7, <1>8, CoversMore

\* The torn mark is covered by the file of the identifier to be written.
LEMMA WriteMarkCovers ==
    ASSUME Types, Types', Locks, Covers, Race, NEW a \in Agent, WriteMark(a)
    PROVE  Covers'
<1> DEFINE o == [op[a] EXCEPT !.pc = "fill_mark"]
           i == op[a].id
<1>1. /\ op[a] \in Op /\ op[a].kind \in {"delete", "reset"}
      /\ i \in 0..MaxId /\ op[a].pc = "write_mark" /\ Numbering(a)
      /\ op[a].kind = "delete" => i \in Id
  BY RaisingIs DEF RaiseMark, WriteMark
<1>2. UNCHANGED <<file, used, reused>> /\ mark' = Empty /\ Becomes(a, o)
  BY DEF WriteMark, history, Goto, Becomes
<1>3. o.kind = op[a].kind /\ o.pc = "fill_mark" /\ o.id = i
  BY <1>1 DEF Op
<1>4. MarkRead \in 0..MaxId /\ used \subseteq 0..MaxId /\ MarkRead' = 0
  BY <1>2, Numbers DEF MarkRead
<1>5. ASSUME ~raced
      PROVE  /\ i \in Id /\ file[i] # None /\ i > MarkRead /\ ~reused
             /\ \A u \in used : u <= MarkRead \/ Named(u)
             /\ op[a].kind = "reset" =>
                   \A u \in used : u <= i \/ u <= MarkRead
  BY <1>1, <1>5 DEF Covers, CoversOf, Marked
<1> HIDE DEF o, i
<1>6. op'[a] = o
  BY <1>2 DEF Becomes, Types
<1>7. ASSUME ~raced, NEW u \in used
      PROVE  /\ Named(u)
             /\ op[a].kind = "reset" => u <= i
  <2>1. u \in 0..MaxId /\ MarkRead \in 0..MaxId /\ i \in 0..MaxId
    BY <1>1, <1>4
  <2>2. i > MarkRead
    BY <1>5, <1>7
  <2>3. u <= MarkRead => u <= i
    BY <2>1, <2>2
  <2> QED BY <1>5, <1>7, <2>3 DEF Named
<1>8. ~raced => \A u \in used' : (Marked(u) \/ Named(u))'
  BY <1>2, <1>7 DEF Named
<1>9. ~raced => CoversOf(op[a])'
  BY <1>1, <1>2, <1>3, <1>5, <1>6, <1>7 DEF CoversOf
<1> QED BY <1>1, <1>2, <1>5, <1>8, <1>9, CoversAlone

LEMMA FillMarkCovers ==
    ASSUME Types, Types', Locks, Covers, Race, NEW a \in Agent, FillMark(a)
    PROVE  Covers'
<1> DEFINE o == [op[a] EXCEPT !.pc = AfterMark(a)]
           i == op[a].id
<1>1. /\ op[a] \in Op /\ op[a].kind \in {"delete", "reset"}
      /\ i \in 0..MaxId /\ op[a].pc = "fill_mark" /\ Numbering(a)
  BY RaisingIs DEF RaiseMark, FillMark
<1>2. UNCHANGED <<file, used, reused>> /\ mark' = i /\ Becomes(a, o)
  BY DEF FillMark, history, Goto, Becomes
<1>3. /\ o.kind = op[a].kind /\ o.id = i
      /\ o.kind = "delete" => o.pc = "unlink"
      /\ o.kind = "reset" => o.pc = "sweep"
  BY <1>1 DEF Op, AfterMark
<1>4. used \subseteq 0..MaxId /\ \A u \in used : u > 0
  BY Numbers
<1>5. i # Empty
  BY <1>1, NamesAssumption
<1>6. MarkRead' = i
  BY <1>2, <1>5 DEF MarkRead
<1>7. ASSUME ~raced
      PROVE  /\ mark = Empty /\ ~reused
             /\ op[a].kind = "delete" => file[i] # None
             /\ \A u \in used : Marked(u) \/ Named(u)
             /\ op[a].kind = "reset" => \A u \in used : u <= i \/ Marked(u)
  BY <1>1, <1>7 DEF Covers, CoversOf
<1> HIDE DEF o, i
<1>8. ASSUME ~raced, NEW u \in used
      PROVE  ~Marked(u)
  <2>1. u \in 0..MaxId /\ u > 0
    BY <1>4
  <2> QED BY <1>7, <1>8, <2>1 DEF Marked, MarkRead
<1>9. op'[a] = o
  BY <1>2 DEF Becomes, Types
<1>10. ~raced => \A u \in used' : (Marked(u) \/ Named(u))'
  BY <1>2, <1>7, <1>8 DEF Named
<1>11. ~raced => CoversOf(op[a])'
  <2>1. i <= MarkRead'
    BY <1>1, <1>6
  <2>2. ~raced /\ op[a].kind = "reset" => \A u \in used : u <= MarkRead'
    BY <1>6, <1>7, <1>8
  <2> QED
    BY <1>1, <1>2, <1>3, <1>7, <1>9, <2>1, <2>2 DEF CoversOf, Marked
<1> QED BY <1>1, <1>2, <1>7, <1>10, <1>11, CoversAlone

\* A delete unlinks the file when the mark covers it.
LEMMA DeleteUnlinkCovers ==
    ASSUME Types, Types', Locks, Covers, Race, NEW a \in Agent, DeleteUnlink(a)
    PROVE  Covers'
<1> DEFINE i == op[a].id
<1>1. /\ op[a] \in Op /\ op[a].kind = "delete" /\ op[a].pc = "unlink"
      /\ i \in Id /\ Numbering(a)
  BY DEF Types, DeleteUnlink, At, Shape, Numbering
<1>2. UNCHANGED <<mark, used, reused>> /\ MarkRead' = MarkRead
  BY DEF DeleteUnlink, MarkRead
<1>3. \A j \in Id : j # i => file'[j] = file[j]
  BY <1>1 DEF DeleteUnlink, Types
<1>4. \E o : Becomes(a, o) /\ Careless(o)
  <2>1. CASE file[i] = None
    BY <2>1, IdleCareless DEF DeleteUnlink, Becomes
  <2>2. CASE file[i] # None
    <3>1. Becomes(a, [op[a] EXCEPT !.pc = "cascade"])
      BY <2>2 DEF DeleteUnlink, Goto, Becomes
    <3>2. Careless([op[a] EXCEPT !.pc = "cascade"])
      BY <1>1 DEF Careless, Op
    <3> QED BY <3>1, <3>2
  <2> QED BY <2>1, <2>2
<1> HIDE DEF i
<1>5. CoversOf(op[a])'
  <2>1. Careless(op'[a])
    BY <1>4 DEF Becomes, Types
  <2> QED BY <2>1 DEF Careless, CoversOf
<1>6. ASSUME ~raced, NEW u \in used
      PROVE  u <= MarkRead \/ \E j \in Id : file'[j] # None /\ u <= j
  <2>1. u \in Nat /\ i \in Nat /\ MarkRead \in Nat /\ i <= MarkRead
    BY <1>1, <1>6, Numbers DEF Covers, CoversOf, Marked, Id, i
  <2>2. CASE u <= MarkRead
    BY <2>2
  <2>3. CASE ~(u <= MarkRead)
    <3>1. PICK j \in Id : file[j] # None /\ u <= j
      BY <1>6, <2>3 DEF Covers, Marked, Named
    <3>2. j # i
      BY <2>1, <2>3, <3>1
    <3> QED BY <1>3, <3>1, <3>2
  <2> QED BY <2>2, <2>3
<1>7. ~raced => \A u \in used' : (Marked(u) \/ Named(u))'
  BY <1>2, <1>6 DEF Marked, Named
<1>8. ~raced => ~reused
  BY DEF Covers
<1> QED BY <1>1, <1>2, <1>4, <1>5, <1>7, <1>8, CoversAlone

LEMMA DeleteCascadeCovers ==
    ASSUME Types, Types', Covers, Race, NEW a \in Agent, DeleteCascade(a)
    PROVE  Covers'
<1>1. UNCHANGED <<file, mark, used, reused>>
  BY DEF DeleteCascade, files, history
<1>2. \E o : Becomes(a, o) /\ (o = Idle \/ \E t : o = Updates(t))
  <2> DEFINE S == {i \in Listed : op[a].id \in file[i].blocks
                                  \/ op[a].id \in file[i].blockedBy}
  <2>1. CASE S = {}
    BY <2>1 DEF DeleteCascade, Becomes
  <2>2. CASE S # {}
    BY <2>2 DEF DeleteCascade, Becomes
  <2> QED BY <2>1, <2>2
<1>3. \A t : Careless(Updates(t))
  BY IdleIs DEF Careless, Updates, Op
<1> QED BY <1>1, <1>2, <1>3, IdleCareless, CoversQuiet

-----------------------------------------------------------------------------
(* The invariant. *)

LEMMA InitIInv == Init => IInv
<1> SUFFICES ASSUME Init PROVE IInv
  OBVIOUS
<1>1. PICK n \in 0..2 :
         /\ used = 1..n \cap Id
         /\ file = [i \in Id |-> IF i \in used THEN NewTask ELSE None]
  BY DEF Init
<1>2. NewTask \in Task /\ NewTask.blockedBy = {}
  BY DEF NewTask, Task, Status
<1>3. \A i \in Id : /\ i \in used => file[i] = NewTask
                    /\ i \notin used => file[i] = None
  BY <1>1
<1>4. /\ op = [a \in Agent |-> Idle] /\ mark = 0 /\ edges = {}
      /\ taskLock = [i \in Id |-> None] /\ listLock = None
      /\ ~reused /\ ~crossed
  BY DEF Init
<1>5. \A a \in Agent : op[a] = Idle
  BY <1>4
<1>6. DOMAIN Idle.todo = {}
  BY IdleIs
<1>7. \A i : ~InHand(Idle, i)
  BY <1>6, IdleIs DEF InHand
<1>8. Types
  <2>1. file \in [Id -> Task \cup {None, Empty}]
    BY <1>1, <1>2
  <2>2. mark \in 0..MaxId
    BY <1>4, BoundsAssumption
  <2>3. \A a \in Agent : Shape(a, op[a])
    BY <1>5, IdlePlain DEF PlainOp
  <2> QED BY <1>1, <1>4, <2>1, <2>2, <2>3, IdleIs DEF Types
<1>9. Locks
  BY <1>5, IdlePlain DEF Locks
<1>10. Known
  <2>1. KnownOf(Idle)
    BY <1>6, <1>7, IdleIs, NamesAssumption DEF KnownOf
  <2> QED BY <1>2, <1>3, <1>4, <1>5, <2>1 DEF Known, Readable
<1>11. Covers
  <2>1. \A a \in Agent : ~Numbering(a) /\ CoversOf(op[a])
    BY <1>5, IdleIs DEF Numbering, CoversOf
  <2>2. \A u \in used : Named(u)
    <3> SUFFICES ASSUME NEW u \in used PROVE Named(u)
      OBVIOUS
    <3>1. u \in Id /\ u <= u
      BY <1>1 DEF Id
    <3> QED BY <1>2, <1>3, <3>1, NamesAssumption DEF Named
  <2> QED BY <1>4, <2>1, <2>2 DEF Covers, Overlap
<1>12. Atomic
  BY <1>5, IdleIs DEF Atomic, Fresh, Creating, AtomicOf
<1>13. Resolved
  BY <1>5, IdleIs DEF Resolved
<1>14. Edges
  <2>1. \A a \in Agent : DOMAIN op[a].todo = {} /\ op[a].kind = "idle"
    BY <1>5, <1>6, IdleIs
  <2> QED
    BY <1>4, <2>1 DEF Edges, Distinct, Crossing, WritesArrays
<1> QED BY <1>8, <1>9, <1>10, <1>11, <1>12, <1>13, <1>14 DEF IInv

LEMMA StepBase ==
    ASSUME Base, NEW a \in Agent, Step(a), Flags
    PROVE  Base'
<1>1. CASE Begin(a)          BY <1>1, BeginBase
<1>2. CASE TakeListLock(a)   BY <1>2, TakeListLockBase
<1>3. CASE Create(a)
  BY <1>3, CreateScanBase, CreateChooseBase, CreateFileBase, CreateFillBase
  DEF Create
<1>4. CASE Reset(a)
  BY <1>4, ResetScanBase, ResetSweepBase, ResetUnlinkBase, ResetEndBase
  DEF Reset
<1>5. CASE RaiseMark(a)      BY <1>5, RaiseMarkBase
<1>6. CASE Delete(a)
  BY <1>6, DeleteUnlinkBase, DeleteCascadeBase DEF Delete
<1>7. CASE Update(a)
  BY <1>7, PrecheckBase, LockTaskBase, LockFailsBase, ClaimReadBase,
     ClaimListBase, ReadBase, TruncateBase, FillBase DEF Update
<1>8. CASE Crash(a)          BY <1>8, CrashBase
<1> QED BY <1>1, <1>2, <1>3, <1>4, <1>5, <1>6, <1>7, <1>8 DEF Step

LEMMA StepCovers ==
    ASSUME Base, Base', Covers, NEW a \in Agent, Step(a), Race
    PROVE  Covers'
<1>0. Types /\ Types' /\ Locks
  BY DEF Base
<1>1. CASE Begin(a)          BY <1>0, <1>1, BeginCovers
<1>2. CASE TakeListLock(a)   BY <1>0, <1>2, TakeListLockCovers
<1>3. CASE CreateScan(a) \/ CreateChoose(a) \/ CreateFile(a)
  BY <1>0, <1>3, CreateScanCovers, CreateChooseCovers, CreateFileCovers
<1>4. CASE ResetScan(a) \/ ResetSweep(a) \/ ResetUnlink(a)
  BY <1>0, <1>4, ResetScanCovers, ResetSweepCovers, ResetUnlinkCovers
<1>5. CASE RaiseMark(a)
  BY <1>0, <1>5, ReadMarkCovers, WriteMarkCovers, FillMarkCovers DEF RaiseMark
<1>6. CASE Delete(a)
  BY <1>0, <1>6, DeleteUnlinkCovers, DeleteCascadeCovers DEF Delete
<1>7. CASE Update(a)         BY <1>0, <1>7, UpdateCovers
<1>8. CASE CreateFill(a) \/ ResetEnd(a) \/ Crash(a)
  BY <1>0, <1>8, EndCovers
<1> QED
  BY <1>1, <1>2, <1>3, <1>4, <1>5, <1>6, <1>7, <1>8 DEF Step, Create, Reset

LEMMA NextIInv == IInv /\ [Next]_vars => IInv'
<1> SUFFICES ASSUME IInv, [Next]_vars PROVE IInv'
  OBVIOUS
<1>1. Base /\ Covers
  BY DEF IInv, Base
<1>2. CASE Next
  <2>1. PICK a \in Agent : Step(a)
    BY <1>2 DEF Next
  <2>2. Flags /\ Race
    BY <1>2 DEF Next, Flags, Race
  <2>3. Base'
    BY <1>1, <2>1, <2>2, StepBase
  <2>4. Covers'
    BY <1>1, <2>1, <2>2, <2>3, StepCovers
  <2> QED BY <2>3, <2>4 DEF IInv, Base
<1>3. CASE UNCHANGED vars
  <2>1. Types' /\ Locks'
    BY <1>3
    DEF IInv, vars, Types, Locks, Shape, Locked, ListLocked, TargetOf
  <2>2. Known'
    BY <1>3 DEF IInv, vars, Known, KnownOf, InHand, Readable
  <2>3. Covers'
    BY <1>3 DEF IInv, vars, Covers, CoversOf, Marked, MarkRead, Named,
                Overlap, Numbering
  <2>4. Atomic'
    BY <1>3 DEF IInv, vars, Atomic, Fresh, AtomicOf, Creating, InHand, TargetOf
  <2>5. Resolved'
    BY <1>3 DEF IInv, vars, Resolved, Settled, Unresolved, Readable, Creating,
                TargetOf
  <2>6. Edges'
    BY <1>3 DEF IInv, vars, Edges, Distinct, Crossing, WritesArrays, KeepsEdge,
                TargetOf, Readable
  <2> QED BY <2>1, <2>2, <2>3, <2>4, <2>5, <2>6 DEF IInv
<1> QED BY <1>2, <1>3

\* The inductive invariant of the board holds in every reachable state.
THEOREM Invariance == Spec => []IInv
BY InitIInv, NextIInv, PTL DEF Spec

\* Files hold tasks, locks are held by agents, and every operation has the
\* fields of its kind (TaskBoard!TypeOK).
THEOREM TypeCorrect == Spec => []TypeOK
<1>1. IInv => TypeOK
  BY DEF IInv, Types, TypeOK, Op
<1> QED BY <1>1, Invariance, PTL

\* As long as no delete overlaps another operation on the numbering, createTask
\* never gives an identifier twice, whatever crashes (TaskBoard!IdsNeverReused).
THEOREM IdsNeverReusedCorrect == Spec => []IdsNeverReused
<1>1. IInv => IdsNeverReused
  BY DEF IInv, Covers, IdsNeverReused
<1> QED BY <1>1, Invariance, PTL

\* updateTask and claimTask write what they have read, with their changes: in
\* between nobody else has written the task (TaskBoard!UpdateAtomic).
THEOREM UpdateAtomicCorrect == Spec => []UpdateAtomic
<1>1. IInv => UpdateAtomic
  BY DEF IInv, Atomic, AtomicOf, UpdateAtomic, Target, TargetOf
<1> QED BY <1>1, Invariance, PTL

\* A claim is written only when the blockers it has read are still resolved
\* (TaskBoard!BlockersHonoured).
THEOREM BlockersHonouredCorrect == Spec => []BlockersHonoured
<1>1. IInv => BlockersHonoured
  BY DEF IInv, Resolved, Settled, BlockersHonoured, Writing
<1> QED BY <1>1, Invariance, PTL

\* A dependency recorded by blockTask stays in blockedBy of the blocked task,
\* unless agents write arrays at once (TaskBoard!EdgeKept).
THEOREM EdgeKeptCorrect == Spec => []EdgeKept
<1>1. IInv => EdgeKept
  BY DEF IInv, Edges, EdgeKept
<1> QED BY <1>1, Invariance, PTL

\* No claim takes a task from another agent (TaskBoard!NoTheft).
THEOREM NoTheftCorrect == Spec => NoTheft
<1>1. IInv => [\A a \in Agent :
                  op[a].kind = "claim" /\ Truncate(a) /\ ~reused =>
                      \/ file[op[a].id] = None
                      \/ file[op[a].id].owner \in {None, a}]_vars
  <2> SUFFICES ASSUME IInv, NEW a \in Agent,
                      op[a].kind = "claim", Truncate(a), ~reused
               PROVE  \/ file[op[a].id] = None
                      \/ file[op[a].id].owner \in {None, a}
    OBVIOUS
  <2>1. AtomicOf(a, op[a]) /\ op[a].pc = "truncate"
    BY DEF IInv, Atomic, Truncate
  <2> QED BY <2>1 DEF AtomicOf, TargetOf, Writing
<1> QED BY <1>1, Invariance, PTL DEF NoTheft
=============================================================================
