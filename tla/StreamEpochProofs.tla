------------------------- MODULE StreamEpochProofs -------------------------
(***************************************************************************)
(* Proofs about StreamEpoch, for any number of partitions, records,        *)
(* threads, epochs, sessions and puts given up.                            *)
(***************************************************************************)
EXTENDS StreamEpoch, FiniteSetTheorems, TLAPS

\* Quotient and remainder.
LEMMA Division ==
  ASSUME NEW x \in Nat, NEW m \in Nat \ {0}
  PROVE  /\ x \div m \in Nat /\ x % m \in 0..(m - 1)
         /\ x = m * (x \div m) + (x % m)
BY Z3

\* Full units leave nothing.
LEMMA Multiple ==
  ASSUME NEW q \in Nat, NEW m \in Nat \ {0}
  PROVE  (m * q) % m = 0
<1>1. PICK y \in Nat : y = m * q
  <2>1. m * q \in Nat  BY Z3
  <2> QED  BY <2>1
<1>2. PICK a \in Nat, b \in 0..(m - 1) : y = m * a + b /\ b = y % m
  BY Division
<1>3. m * (q - a) = b
  <2>1. m * (q - a) = m * q - m * a  BY SMT
  <2>2. m * q = m * a + b  BY <1>1, <1>2
  <2>3. m * a \in Int  BY Z3
  <2> QED  BY <1>2, <2>1, <2>2, <2>3
<1>4. q - a <= 0
  <2>1. SUFFICES ASSUME q - a >= 1 PROVE FALSE  OBVIOUS
  <2>2. m * (q - a) >= m  BY <2>1, Z3
  <2> QED  BY <1>3, <2>2
<1>5. q - a >= 0
  <2>1. SUFFICES ASSUME q - a <= -1 PROVE FALSE  OBVIOUS
  <2>2. m * (q - a) <= -m  BY <2>1, Z3
  <2> QED  BY <1>3, <2>2
<1>6. b = 0
  <2>1. q - a = 0  BY <1>4, <1>5
  <2> QED  BY <1>3, <2>1
<1> QED  BY <1>1, <1>2, <1>6

\* What is left of x after the full units before it.
LEMMA Remainder ==
  ASSUME NEW x \in Nat, NEW m \in Nat \ {0}
  PROVE  \E r \in 0..(m - 1) : r <= x /\ (x - r) % m = 0
<1>1. PICK q \in Nat, r \in 0..(m - 1) : x = m * q + r
  <2>1. /\ x \div m \in Nat /\ x % m \in 0..(m - 1)
        /\ x = m * (x \div m) + (x % m)
    BY Division
  <2> QED  BY <2>1, Zenon
<1>2. x - r = m * q /\ r <= x
  <2>1. m * q \in Nat  BY Z3
  <2> QED  BY <1>1, <2>1
<1>3. (x - r) % m = 0
  BY <1>2, Multiple
<1> QED  BY <1>2, <1>3

\* The start of the unit that holds o.
LEMMA UnitStart ==
  ASSUME NEW c \in Nat, NEW o \in Nat, c <= o, NEW m \in Nat \ {0}
  PROVE  \E s \in c..o : (s - c) % m = 0 /\ o < s + m
<1>1. PICK r \in 0..(m - 1) : r <= o - c /\ ((o - c) - r) % m = 0
  <2>1. o - c \in Nat  OBVIOUS
  <2> QED  BY <2>1, Remainder
<1>2. o - r \in c..o /\ o < (o - r) + m  BY <1>1
<1>3. (o - r) - c = (o - c) - r  BY <1>1
<1> QED  BY <1>1, <1>2, <1>3

USE ConfigAssumption, BoundsAssumption

\* plan_work leaves no record out.
LEMMA UnitsCover ==
  ASSUME NEW p \in Partitions, NEW c \in Nat, NEW h \in Nat, NEW o \in c..(h - 1)
  PROVE  \E u \in UnitsOf(p, c, h) : u.part = p /\ o \in RecordsOf(u)
<1>1. PICK s \in c..o : (s - c) % PerUnit = 0 /\ o < s + PerUnit
  <2>1. o \in Nat /\ c <= o /\ PerUnit \in Nat \ {0}  OBVIOUS
  <2> QED  BY <2>1, UnitStart, Zenon
<1> DEFINE u == [part |-> p, start |-> s, end |-> Smaller(s + PerUnit, h)]
<1>2. s \in c..(h - 1)  OBVIOUS
<1>3. u \in UnitsOf(p, c, h)
  BY <1>1, <1>2 DEF UnitsOf
<1>4. o \in RecordsOf(u)
  BY <1>1 DEF RecordsOf, Smaller
<1> QED  BY <1>3, <1>4

LEMMA UnitsTyped ==
  ASSUME NEW p \in Partitions, NEW c \in Nat, NEW h \in Nat
  PROVE  /\ UnitsOf(p, c, h) \in SUBSET Unit
         /\ \A u \in UnitsOf(p, c, h) : u.part = p /\ u.start < u.end /\ u.end <= h
         /\ UnitsOf(p, c, h) = {} => h <= c
<1>1. ASSUME NEW u \in UnitsOf(p, c, h)
      PROVE  u \in Unit /\ u.part = p /\ u.start < u.end /\ u.end <= h
  <2>1. PICK s \in c..(h - 1) :
          u = [part |-> p, start |-> s, end |-> Smaller(s + PerUnit, h)]
    BY DEF UnitsOf
  <2>2. Smaller(s + PerUnit, h) \in Nat /\ s < Smaller(s + PerUnit, h) /\ Smaller(s + PerUnit, h) <= h
    BY DEF Smaller
  <2> QED  BY <2>1, <2>2 DEF Unit
<1>2. ASSUME UnitsOf(p, c, h) = {} PROVE h <= c
  BY <1>2, UnitsCover
<1> QED  BY <1>1, <1>2
----------------------------------------------------------------------------
\* Facts of typing that several actions use.
LEMMA Small ==
  /\ 0 \in Partitions
  /\ 0 \in 0..Larger(MaxWorkers, NLocal)
  /\ NoUnit \in Unit
  /\ AllGone \in [Threads -> [pc : {"pop", "process", "advance", "gone"}, unit : Unit]]
  /\ \A a, b \in Int : Larger(a, b) \in {a, b} /\ Larger(a, b) >= a /\ Larger(a, b) >= b
BY DEF Partitions, NoUnit, Unit, AllGone, Larger

LEMMA ReadsTyped ==
  ASSUME TypeOK, NEW p \in Partitions
  PROVE  Reads(p) \subseteq Nat /\ \A read \in Reads(p) : read = 0 \/ read = store[p]
BY DEF TypeOK, Reads

LEMMA WorkersTyped ==
  ASSUME NEW b \in Nat
  PROVE  Larger(SizeWorkers(b), NLocal) \in 0..Larger(MaxWorkers, NLocal)
<1>1. SizeWorkers(b) \in 0..MaxWorkers
  <2>1. PICK n \in Int : n = (b + RecordsPerWorker - 1) \div RecordsPerWorker
    OBVIOUS
  <2>2. Smaller(Larger(n, MinWorkers), MaxWorkers) \in 0..MaxWorkers
    BY DEF Smaller, Larger
  <2> QED  BY <2>1, <2>2 DEF SizeWorkers
<1> QED  BY <1>1 DEF Larger

LEMMA EpochTyped ==
  ASSUME TypeOK, NEW e \in 1..MaxEpochs, BeginEpoch(e),
         UNCHANGED <<late, unanswered, session, seen>>,
         store' \in [Partitions -> Nat], log' = log, UNCHANGED scope
  PROVE  TypeOK'
<1>1. epoch' \in 0..MaxEpochs /\ workers' \in 0..Larger(MaxWorkers, NLocal)
  BY Small DEF BeginEpoch
<1>2. prog' \in [Partitions -> Nat] /\ begun' \in [Partitions -> Nat]
  BY DEF TypeOK, BeginEpoch
<1>3. units' \in SUBSET Unit /\ lag' \in Nat /\ records' \in Int /\ planned' \in Nat
  BY DEF BeginEpoch
<1>4. pc' = "measure" /\ part' \in Partitions
  BY Small DEF BeginEpoch
<1> QED  BY <1>1, <1>2, <1>3, <1>4 DEF TypeOK, scope

LEMMA RestTyped ==
  ASSUME TypeOK, NEW how \in Resting, Rest(how), UNCHANGED <<log, session, seen>>,
         store' \in [Partitions -> Nat], late' \in SUBSET (Partitions \X Nat),
         unanswered' \in 0..MaxUnanswered
  PROVE  TypeOK'
<1>1. epoch' \in 0..MaxEpochs /\ workers' \in 0..Larger(MaxWorkers, NLocal)
  BY Small DEF Rest
<1>2. prog' \in [Partitions -> Nat] /\ begun' \in [Partitions -> Nat]
  BY DEF Rest
<1>3. thread' \in [Threads -> [pc : {"pop", "process", "advance", "gone"}, unit : Unit]]
  BY Small DEF Rest
<1>4. units' \in SUBSET Unit /\ lag' \in Nat /\ records' \in Int /\ planned' \in Nat
  BY DEF Rest
<1>5. pc' \in Resting /\ part' \in Partitions /\ panicked' \in BOOLEAN
  BY Small DEF Rest
<1>6. /\ log' \in [Partitions -> Nat] /\ session' \in 0..MaxSessions
      /\ seen' \in [Partitions -> SUBSET Nat]
  BY DEF TypeOK
<1> QED  BY <1>1, <1>2, <1>3, <1>4, <1>5, <1>6 DEF TypeOK

LEMMA NextPartitionTyped ==
  ASSUME TypeOK, NEW then, NextPartition(then)
  PROVE  part' \in Partitions /\ (pc' = pc \/ pc' = then)
<1>1. part \in 0..(PartitionCount - 1)  BY DEF TypeOK, Partitions
<1>2. CASE part' = part + 1 /\ part + 1 < PartitionCount /\ UNCHANGED pc
  BY <1>1, <1>2 DEF Partitions
<1>3. CASE part' = 0 /\ pc' = then
  BY <1>3, Small
<1> QED  BY <1>2, <1>3 DEF NextPartition

LEMMA CommittedTyped ==
  ASSUME TypeOK, Committed, UNCHANGED <<log, late, unanswered, session, seen>>,
         store' \in [Partitions -> Nat]
  PROVE  TypeOK'
<1>1. CASE part + 1 < PartitionCount /\ part' = part + 1 /\ pc' = "commit"
           /\ UNCHANGED <<epoch, locals, scope>>
  <2>1. part' \in Partitions  BY <1>1 DEF TypeOK, Partitions
  <2> QED  BY <1>1, <2>1 DEF TypeOK, locals, scope
<1>2. CASE epoch < MaxEpochs /\ BeginEpoch(epoch + 1) /\ UNCHANGED scope
  <2>1. epoch + 1 \in 1..MaxEpochs  BY <1>2 DEF TypeOK
  <2> QED  BY <1>2, <2>1, EpochTyped
<1>3. CASE Rest("exhausted")
  <2>1. late' \in SUBSET (Partitions \X Nat) /\ unanswered' \in 0..MaxUnanswered
    BY DEF TypeOK
  <2>2. "exhausted" \in Resting  BY DEF Resting
  <2> QED  BY <1>3, <2>1, <2>2, RestTyped
<1> QED  BY <1>1, <1>2, <1>3 DEF Committed

LEMMA TypeNext ==
  ASSUME TypeOK, [Next]_vars
  PROVE  TypeOK'
<1>1. ASSUME NEW p \in Partitions, Push(p) PROVE TypeOK'
  BY <1>1 DEF TypeOK, Push, locals, scope
<1>2. ASSUME NEW x \in late, ApplyLate(x) PROVE TypeOK'
  <2>1. x[1] \in Partitions /\ x[2] \in Nat  BY DEF TypeOK
  <2>2. store' \in [Partitions -> Nat]  BY <1>2, <2>1 DEF TypeOK, ApplyLate
  <2>3. late' \in SUBSET (Partitions \X Nat)  BY <1>2 DEF TypeOK, ApplyLate
  <2> QED  BY <1>2, <2>2, <2>3 DEF TypeOK, ApplyLate, locals, scope
<1>3. CASE StartSession
  <2>1. session' \in 0..MaxSessions  BY <1>3 DEF TypeOK, StartSession
  <2> QED  BY <1>3, <2>1, Small DEF TypeOK, StartSession, BeginEpoch, external, scope
<1>4. CASE Measure
  <2>1. \A read \in Reads(part) : Larger(log[part] - read, 0) \in Nat
    BY Small, ReadsTyped DEF TypeOK
  <2>2. lag' \in Nat  BY <1>4, <2>1 DEF TypeOK, Measure
  <2>3. part' \in Partitions /\ pc' \in {pc, "size"}
    BY <1>4, NextPartitionTyped DEF Measure
  <2> QED  BY <1>4, <2>2, <2>3 DEF TypeOK, Measure, external, scope
<1>5. CASE Size
  <2>1. workers' \in 0..Larger(MaxWorkers, NLocal)
    BY <1>5, WorkersTyped DEF TypeOK, Size
  <2> QED  BY <1>5, <2>1 DEF TypeOK, Size, external, scope
<1>6. CASE Plan
  <2>1. \A read \in Reads(part) : Larger(log[part] - read, 0) \in Nat
    BY Small, ReadsTyped DEF TypeOK
  <2>2. \A read \in Reads(part) : UnitsOf(part, read, log[part]) \in SUBSET Unit
    BY ReadsTyped, UnitsTyped DEF TypeOK
  <2>3. planned' \in Nat /\ units' \in SUBSET Unit
    BY <1>6, <2>1, <2>2 DEF TypeOK, Plan
  <2>4. part' \in Partitions /\ pc' \in {pc, "caught_up", "progress"}
    BY <1>6, NextPartitionTyped DEF Plan
  <2> QED  BY <1>6, <2>3, <2>4 DEF TypeOK, Plan, external, scope, Resting
<1>7. CASE InitProgress
  <2>1. prog' \in [Partitions -> Nat]
    BY <1>7, ReadsTyped DEF TypeOK, InitProgress
  <2>2. part' \in Partitions /\ pc' \in {pc, "spawn"}
    BY <1>7, NextPartitionTyped DEF InitProgress
  <2> QED  BY <1>7, <2>1, <2>2 DEF TypeOK, InitProgress, external, scope
<1>8. CASE Spawn
  <2>1. thread' \in [Threads -> [pc : {"pop", "process", "advance", "gone"}, unit : Unit]]
    BY <1>8, Small DEF Spawn
  <2> QED  BY <1>8, <2>1 DEF TypeOK, Spawn, external, locals
<1>9. ASSUME NEW t \in Threads, Work(t) PROVE TypeOK'
  <2> DEFINE u == thread[t].unit
  <2>0. u \in Unit /\ u.part \in Partitions /\ u.start \in Nat /\ u.end \in Nat
    BY DEF TypeOK, Unit
  <2>1. CASE Pop(t)
    BY <2>1 DEF TypeOK, Pop, external
  <2>2. CASE FindEmpty(t)
    BY <2>2 DEF TypeOK, FindEmpty, external, locals
  <2>3. CASE ProcessUnit(t)
    <3>1. RecordsOf(u) \in SUBSET Nat  BY <2>0 DEF RecordsOf
    <3>2. seen' \in [Partitions -> SUBSET Nat]
      BY <2>0, <2>3, <3>1 DEF TypeOK, ProcessUnit
    <3>3. records' \in Int
      BY <2>0, <2>3 DEF TypeOK, ProcessUnit
    <3> QED  BY <2>3, <3>2, <3>3 DEF TypeOK, ProcessUnit, external
  <2>4. CASE Panic(t)
    BY <2>4, Small DEF TypeOK, Panic, external, locals
  <2>5. CASE Advance(t)
    <3>1. prog' \in [Partitions -> Nat]
      BY <2>0, <2>5 DEF TypeOK, Advance, Larger
    <3> QED  BY <2>5, <3>1, Small DEF TypeOK, Advance, external
  <2> QED  BY <1>9, <2>1, <2>2, <2>3, <2>4, <2>5 DEF Work
<1>10. CASE Join
  BY <1>10 DEF TypeOK, Join, external, locals, scope
<1>11. CASE UNCHANGED <<external, session, seen>> /\ Rest("failed")
  BY <1>11, RestTyped DEF TypeOK, external, Resting
<1>12. CASE SkipCommit
  BY <1>12, CommittedTyped DEF TypeOK, SkipCommit, external
<1>13. CASE DecideCommit
  BY <1>13 DEF TypeOK, DecideCommit, external, locals, scope
<1>14. CASE PutCommitted
  <2>1. store' \in [Partitions -> Nat]  BY <1>14 DEF TypeOK, PutCommitted
  <2> QED  BY <1>14, <2>1, CommittedTyped DEF PutCommitted
<1>15. CASE PutUnanswered
  <2>1. late' \in SUBSET (Partitions \X Nat) /\ unanswered' \in 0..MaxUnanswered
    BY <1>15 DEF TypeOK, PutUnanswered
  <2> QED  BY <1>15, <2>1, RestTyped DEF TypeOK, PutUnanswered, Resting
<1>16. CASE UNCHANGED vars
  BY <1>16 DEF TypeOK, vars, external, locals, scope
<1> QED
  BY <1>1, <1>2, <1>3, <1>4, <1>5, <1>6, <1>7, <1>8, <1>9, <1>10, <1>11, <1>12,
     <1>13, <1>14, <1>15, <1>16
  DEF Next, Driver, JoinPanicked, PutRefused, Crash

LEMMA TypeInit ==
  ASSUME Init PROVE TypeOK
<1>1. /\ epoch \in 0..MaxEpochs /\ workers \in 0..Larger(MaxWorkers, NLocal)
      /\ session \in 0..MaxSessions /\ unanswered \in 0..MaxUnanswered
  BY Small DEF Init
<1>2. thread \in [Threads -> [pc : {"pop", "process", "advance", "gone"}, unit : Unit]]
  BY Small DEF Init
<1>3. /\ log \in [Partitions -> Nat] /\ store \in [Partitions -> Nat]
      /\ prog \in [Partitions -> Nat] /\ begun \in [Partitions -> Nat]
      /\ seen \in [Partitions -> SUBSET Nat]
  BY DEF Init
<1>4. pc \in Resting /\ part \in Partitions /\ panicked \in BOOLEAN
  BY Small DEF Init, Resting
<1>5. units \in SUBSET Unit /\ lag \in Nat /\ records \in Int /\ planned \in Nat
      /\ late \in SUBSET (Partitions \X Nat)
  BY DEF Init
<1> QED  BY <1>1, <1>2, <1>3, <1>4, <1>5 DEF TypeOK

\* The variables keep their types: cursors stay within their loops, and the
\* number of workers within what is configured, whatever the lag.
THEOREM TypeCorrect == Spec => []TypeOK
BY TypeInit, TypeNext, PTL DEF Spec
----------------------------------------------------------------------------
(***************************************************************************)
(* At-least-once delivery.  CommittedProcessed is not inductive: an offset *)
(* is stored from prog, which follows the last unit of a partition that is *)
(* finished, while earlier ones may not be.  Until the threads are joined, *)
(* a record below prog has been processed or is in an outstanding unit;    *)
(* when they are joined, nothing is outstanding, unless there were no      *)
(* threads, and then prog is what was read.                                *)
(***************************************************************************)
Done(p, n) == 0..(n - 1) \subseteq seen[p]

Outstanding(u) ==
  u \in units \/ \E t \in Threads : thread[t].pc = "process" /\ thread[t].unit = u

Held(u) == Outstanding(u) \/ \E t \in Threads : thread[t].pc = "advance" /\ thread[t].unit = u

Accounted(p, n) ==
  \A o \in 0..(n - 1) :
    o \in seen[p] \/ \E u \in Unit : Outstanding(u) /\ u.part = p /\ o \in RecordsOf(u)

ThreadsInv ==
  /\ pc # "join" => ~panicked /\ \A t \in Threads : thread[t].pc = "gone"
  /\ \A t \in Threads : thread[t].pc # "gone" => t <= workers
  /\ pc = "join" /\ ~panicked =>
       \A t \in Threads : t <= workers /\ thread[t].pc = "gone" => units = {}

UnitsInv ==
  pc \notin {"commit", "put"} /\ ~panicked =>
    \A u \in Unit : Held(u) => Accounted(u.part, u.end)

ProgInv ==
  /\ pc # "join" \/ workers = 0 => \A p \in Partitions : Done(p, prog[p])
  /\ ~panicked => \A p \in Partitions : Accounted(p, prog[p])

StoreInv == CommittedProcessed /\ \A x \in late : Done(x[1], x[2])

FoundInv ==
  /\ \A p \in Partitions : begun[p] <= log[p]
  /\ pc = "plan" /\ units = {} =>
       \A p \in Partitions : p < part => Done(p, begun[p])
  /\ pc = "size" => part = 0
  /\ CaughtUp

IInv == TypeOK /\ ThreadsInv /\ UnitsInv /\ ProgInv /\ StoreInv /\ FoundInv
----------------------------------------------------------------------------
\* An epoch that begins and a session that ends leave nothing behind.
LEMMA FreshThreads ==
  ASSUME TypeOK, ThreadsInv, pc # "join", \E e \in Nat : BeginEpoch(e), UNCHANGED scope
  PROVE  ThreadsInv'
BY DEF ThreadsInv, BeginEpoch, scope

LEMMA RestThreads ==
  ASSUME NEW how \in Resting, Rest(how)
  PROVE  ThreadsInv'
BY DEF ThreadsInv, Rest, AllGone, Resting

LEMMA CommittedThreads ==
  ASSUME TypeOK, ThreadsInv, pc \in {"commit", "put"}, Committed
  PROVE  ThreadsInv'
<1>1. CASE pc' = "commit" /\ UNCHANGED <<epoch, locals, scope>>
  BY <1>1 DEF ThreadsInv, locals, scope
<1>2. CASE BeginEpoch(epoch + 1) /\ UNCHANGED scope
  <2>1. epoch + 1 \in Nat  BY DEF TypeOK
  <2> QED  BY <1>2, <2>1, FreshThreads
<1>3. CASE Rest("exhausted")
  BY <1>3, RestThreads DEF Resting
<1> QED  BY <1>1, <1>2, <1>3 DEF Committed

LEMMA ThreadsNext ==
  ASSUME TypeOK, ThreadsInv, [Next]_vars
  PROVE  ThreadsInv'
<1>1. CASE UNCHANGED <<pc, thread, panicked, workers, units>>
  BY <1>1 DEF ThreadsInv
<1>2. ASSUME NEW p \in Partitions, Push(p) PROVE ThreadsInv'
  BY <1>1, <1>2 DEF Push, locals, scope
<1>3. ASSUME NEW x \in late, ApplyLate(x) PROVE ThreadsInv'
  BY <1>1, <1>3 DEF ApplyLate, locals, scope
<1>4. CASE StartSession
  BY <1>4, FreshThreads DEF StartSession, Resting
<1>5. CASE Measure
  BY <1>5 DEF ThreadsInv, Measure, NextPartition, scope
<1>6. CASE Size
  BY <1>6 DEF ThreadsInv, Size, scope
<1>7. CASE Plan
  BY <1>7 DEF ThreadsInv, Plan, NextPartition, scope
<1>8. CASE InitProgress
  BY <1>8 DEF ThreadsInv, InitProgress, NextPartition, scope
<1>9. CASE Spawn
  BY <1>9 DEF ThreadsInv, Spawn, locals
<1>10. ASSUME NEW t \in Threads, Work(t) PROVE ThreadsInv'
  <2>0. pc = "join" /\ t <= workers /\ thread[t].pc # "gone"
    BY <1>10 DEF ThreadsInv, Work, Pop, FindEmpty, ProcessUnit, Panic, Advance
  <2>1. CASE Pop(t)
    BY <2>0, <2>1 DEF TypeOK, ThreadsInv, Pop
  <2>2. CASE FindEmpty(t)
    BY <2>0, <2>2 DEF TypeOK, ThreadsInv, FindEmpty, locals
  <2>3. CASE ProcessUnit(t)
    BY <2>0, <2>3 DEF TypeOK, ThreadsInv, ProcessUnit
  <2>4. CASE Panic(t)
    BY <2>0, <2>4 DEF TypeOK, ThreadsInv, Panic, locals
  <2>5. CASE Advance(t)
    BY <2>0, <2>5 DEF TypeOK, ThreadsInv, Advance
  <2> QED  BY <1>10, <2>1, <2>2, <2>3, <2>4, <2>5 DEF Work
<1>11. CASE Join
  BY <1>11 DEF ThreadsInv, Join, locals, scope
<1>12. CASE Rest("failed")
  BY <1>12, RestThreads DEF Resting
<1>13. CASE SkipCommit
  BY <1>13, CommittedThreads DEF SkipCommit
<1>14. CASE DecideCommit
  BY <1>14 DEF ThreadsInv, DecideCommit, locals, scope
<1>15. CASE PutCommitted
  BY <1>15, CommittedThreads DEF PutCommitted
<1>16. CASE UNCHANGED vars
  BY <1>1, <1>16 DEF vars, locals, scope
<1> QED
  BY <1>2, <1>3, <1>4, <1>5, <1>6, <1>7, <1>8, <1>9, <1>10, <1>11, <1>12, <1>13,
     <1>14, <1>15, <1>16
  DEF Next, Driver, JoinPanicked, PutRefused, PutUnanswered, Crash
----------------------------------------------------------------------------
\* What has been processed stays so.
LEMMA SeenGrows ==
  ASSUME TypeOK, [Next]_vars
  PROVE  \A p \in Partitions : seen[p] \subseteq seen'[p]
<1>1. ASSUME NEW t \in Threads, Work(t) PROVE \A p \in Partitions : seen[p] \subseteq seen'[p]
  BY <1>1 DEF TypeOK, Work, Pop, FindEmpty, ProcessUnit, Panic, Advance
<1>2. CASE UNCHANGED seen
  BY <1>2
<1> QED
  BY <1>1, <1>2
  DEF Next, Driver, Push, ApplyLate, StartSession, Measure, Size, Plan, InitProgress,
      Spawn, Join, JoinPanicked, SkipCommit, DecideCommit, PutCommitted, PutRefused,
      PutUnanswered, Crash, vars

LEMMA DoneKept ==
  ASSUME TypeOK, [Next]_vars, NEW p \in Partitions, NEW n \in Nat, Done(p, n)
  PROVE  Done(p, n)'
BY SeenGrows DEF Done

\* A record stays accounted for as long as no outstanding unit is dropped
\* unprocessed.
LEMMA AccountedKept ==
  ASSUME TypeOK, [Next]_vars, NEW p \in Partitions, NEW n \in Nat, Accounted(p, n),
         \A u \in Unit : Outstanding(u) => Outstanding(u)' \/ RecordsOf(u) \subseteq seen'[u.part]
  PROVE  Accounted(p, n)'
<1>1. SUFFICES ASSUME NEW o \in 0..(n - 1)
               PROVE  o \in seen'[p] \/ \E u \in Unit : Outstanding(u)' /\ u.part = p /\ o \in RecordsOf(u)
  BY DEF Accounted, RecordsOf
<1>2. CASE o \in seen[p]
  BY <1>2, SeenGrows
<1>3. CASE \E u \in Unit : Outstanding(u) /\ u.part = p /\ o \in RecordsOf(u)
  BY <1>3
<1> QED  BY <1>2, <1>3 DEF Accounted

LEMMA DoneAccounted ==
  ASSUME NEW p \in Partitions, NEW n \in Nat, Done(p, n)
  PROVE  Accounted(p, n)
BY DEF Done, Accounted
----------------------------------------------------------------------------
\* A thread's step, as long as none has panicked: units are handed on, and
\* processed before they are dropped.
LEMMA WorkHandsOn ==
  ASSUME TypeOK, NEW t \in Threads, Work(t), ~panicked', NEW u \in Unit
  PROVE  /\ Outstanding(u) => Outstanding(u)' \/ RecordsOf(u) \subseteq seen'[u.part]
         /\ Held(u)' => Held(u)
<1>0. thread[t].unit \in Unit /\ u.part \in Partitions
  BY DEF TypeOK, Unit
<1>1. CASE Pop(t)
  <2>1. PICK v \in units : /\ units' = units \ {v}
                          /\ thread' = [thread EXCEPT ![t] = [pc |-> "process", unit |-> v]]
    BY <1>1 DEF Pop
  <2>2. thread[t].pc = "pop"  BY <1>1 DEF Pop
  <2>3. /\ thread'[t].pc = "process" /\ thread'[t].unit = v
        /\ \A s \in Threads : s # t => thread'[s] = thread[s]
    BY <2>1 DEF TypeOK
  <2> QED  BY <2>1, <2>2, <2>3 DEF Outstanding, Held
<1>2. CASE FindEmpty(t)
  <2>1. \A s \in Threads :
          /\ thread'[s].pc = thread[s].pc \/ (s = t /\ thread[s].pc = "pop" /\ thread'[s].pc = "gone")
          /\ thread'[s].unit = thread[s].unit
    BY <1>2 DEF TypeOK, FindEmpty
  <2>2. units' = units  BY <1>2 DEF FindEmpty, locals
  <2> QED  BY <2>1, <2>2 DEF Outstanding, Held
<1>3. CASE ProcessUnit(t)
  <2>1. /\ thread[t].pc = "process" /\ thread'[t].pc = "advance"
        /\ thread'[t].unit = thread[t].unit
        /\ \A s \in Threads : s # t => thread'[s] = thread[s]
    BY <1>3 DEF TypeOK, ProcessUnit
  <2>2. units' = units  BY <1>3 DEF ProcessUnit
  <2>3. thread[t].unit = u => RecordsOf(u) \subseteq seen'[u.part]
    BY <1>0, <1>3 DEF TypeOK, ProcessUnit
  <2> QED  BY <2>1, <2>2, <2>3 DEF Outstanding, Held
<1>4. CASE Panic(t)
  BY <1>4 DEF Panic
<1>5. CASE Advance(t)
  <2>1. /\ thread[t].pc = "advance" /\ thread'[t].pc = "pop"
        /\ \A s \in Threads : s # t => thread'[s] = thread[s]
    BY <1>5 DEF TypeOK, Advance
  <2>2. units' = units  BY <1>5 DEF Advance
  <2> QED  BY <2>1, <2>2 DEF Outstanding, Held
<1> QED  BY <1>1, <1>2, <1>3, <1>4, <1>5 DEF Work

\* What plan_work adds is covered down to what is committed.
LEMMA PlanAccounts ==
  ASSUME TypeOK, StoreInv, Plan, NEW u \in Unit, u \in units', u \notin units
  PROVE  Accounted(u.part, u.end)'
<1>1. PICK read \in Reads(part) : units' = units \cup UnitsOf(part, read, log[part])
  BY DEF Plan
<1>2. /\ part \in Partitions /\ read \in Nat /\ log[part] \in Nat
      /\ read = 0 \/ read = store[part]
  BY ReadsTyped DEF TypeOK
<1>3. u.part = part /\ u.end <= log[part] /\ u.end \in Nat
  BY <1>1, <1>2, UnitsTyped DEF Unit
<1>4. \A o \in 0..(read - 1) : o \in seen[part]
  BY <1>2 DEF StoreInv, CommittedProcessed
<1>5. seen' = seen  BY DEF Plan
<1>6. SUFFICES ASSUME NEW o \in 0..(u.end - 1)
               PROVE  o \in seen'[part] \/ \E v \in Unit : Outstanding(v)' /\ v.part = part /\ o \in RecordsOf(v)
  BY <1>3 DEF Accounted, RecordsOf
<1>7. CASE o < read
  BY <1>2, <1>3, <1>4, <1>5, <1>7
<1>8. CASE o >= read
  <2>1. o \in read..(log[part] - 1)  BY <1>2, <1>3, <1>8
  <2>2. PICK v \in UnitsOf(part, read, log[part]) : v.part = part /\ o \in RecordsOf(v)
    BY <1>2, <2>1, UnitsCover
  <2>3. v \in Unit /\ v \in units'  BY <1>1, <1>2, UnitsTyped
  <2> QED  BY <2>2, <2>3 DEF Outstanding
<1> QED  BY <1>2, <1>3, <1>7, <1>8

LEMMA UnitsNext ==
  ASSUME TypeOK, ThreadsInv, ThreadsInv', StoreInv, UnitsInv, [Next]_vars
  PROVE  UnitsInv'
<1>0. \A u \in Unit : u.part \in Partitions /\ u.end \in Nat
  BY DEF Unit
<1>1. CASE /\ UNCHANGED <<units, thread, panicked, seen>>
           /\ pc' \in {"commit", "put"} \/ pc \notin {"commit", "put"}
  BY <1>1 DEF UnitsInv, Held, Outstanding, Accounted
<1>2. CASE units' = {} /\ pc' # "join"
  BY <1>2 DEF ThreadsInv, UnitsInv, Held, Outstanding
<1>3. CASE Plan
  <2>1. /\ units \subseteq units' /\ seen' = seen /\ thread' = thread
        /\ panicked' = panicked /\ pc = "plan"
    BY <1>3 DEF Plan, scope
  <2>2. \A u \in Unit : Outstanding(u) => Outstanding(u)'
    BY <2>1 DEF Outstanding
  <2>3. ASSUME NEW u \in Unit, u \in units, ~panicked PROVE Accounted(u.part, u.end)'
    <3>1. Accounted(u.part, u.end)  BY <2>1, <2>3 DEF UnitsInv, Held, Outstanding
    <3> QED  BY <1>0, <2>2, <3>1, AccountedKept
  <2>4. ASSUME NEW u \in Unit, Held(u)' PROVE u \in units'
    BY <2>1, <2>4 DEF Held, Outstanding, ThreadsInv
  <2> QED  BY <1>3, <2>1, <2>3, <2>4, PlanAccounts DEF UnitsInv
<1>4. CASE Spawn
  <2>1. /\ units' = units /\ pc = "spawn" /\ panicked' = panicked
        /\ \A s \in Threads : thread'[s].pc \in {"pop", "gone"} /\ thread[s].pc = "gone"
    BY <1>4 DEF Spawn, locals, ThreadsInv
  <2>2. \A u \in Unit : (Outstanding(u) => Outstanding(u)') /\ (Held(u)' => Held(u))
    BY <2>1 DEF Outstanding, Held
  <2> QED  BY <1>0, <2>1, <2>2, AccountedKept DEF UnitsInv
<1>5. ASSUME NEW t \in Threads, Work(t) PROVE UnitsInv'
  <2>1. pc = "join" /\ (panicked => panicked')
    BY <1>5 DEF ThreadsInv, Work, Pop, FindEmpty, ProcessUnit, Panic, Advance
  <2>2. SUFFICES ASSUME ~panicked', NEW u \in Unit, Held(u)'
                 PROVE  Accounted(u.part, u.end)'
    BY DEF UnitsInv
  <2>3. Held(u)  BY <1>5, <2>2, WorkHandsOn
  <2>4. Accounted(u.part, u.end)  BY <2>1, <2>2, <2>3 DEF UnitsInv
  <2>5. \A v \in Unit : Outstanding(v) => Outstanding(v)' \/ RecordsOf(v) \subseteq seen'[v.part]
    BY <1>5, <2>2, WorkHandsOn
  <2> QED  BY <1>0, <2>4, <2>5, AccountedKept
<1>6. ASSUME Committed, pc \in {"commit", "put"}, UNCHANGED seen PROVE UnitsInv'
  <2>1. CASE pc' = "commit"
    BY <2>1 DEF UnitsInv
  <2>2. CASE units' = {} /\ pc' # "join"
    BY <1>2, <2>2
  <2> QED  BY <1>6, <2>1, <2>2 DEF Committed, BeginEpoch, Rest
<1>7. CASE Rest("failed")
  BY <1>2, <1>7 DEF Rest
<1>8. CASE StartSession
  BY <1>2, <1>8 DEF StartSession, BeginEpoch
<1>9. CASE Measure \/ Size \/ InitProgress \/ Join \/ DecideCommit
  BY <1>1, <1>9 DEF Measure, Size, InitProgress, Join, DecideCommit, NextPartition, scope, locals
<1>10. CASE UNCHANGED <<pc, locals, scope, seen>>
  BY <1>1, <1>10 DEF UnitsInv, locals, scope
<1> QED
  BY <1>3, <1>4, <1>5, <1>6, <1>7, <1>8, <1>9, <1>10
  DEF Next, Driver, Push, ApplyLate, SkipCommit, PutCommitted, JoinPanicked, PutRefused,
      PutUnanswered, Crash, vars
----------------------------------------------------------------------------
LEMMA AllDone ==
  ASSUME \A p \in Partitions : Done(p, prog[p])'
  PROVE  ProgInv'
BY DEF ProgInv, Done, Accounted

\* Nothing is outstanding when the threads are joined.
LEMMA JoinDone ==
  ASSUME TypeOK, ThreadsInv, ProgInv, Join
  PROVE  \A p \in Partitions : Done(p, prog[p])
<1>1. CASE workers = 0
  BY <1>1 DEF ProgInv
<1>2. CASE workers # 0
  <2>1. 1 \in Threads /\ 1 <= workers
    BY <1>2 DEF TypeOK, Threads, Larger
  <2>2. units = {} /\ ~panicked /\ \A t \in Threads : thread[t].pc = "gone"
    BY <2>1 DEF ThreadsInv, Join
  <2>3. \A u : ~Outstanding(u)
    BY <2>2 DEF Outstanding
  <2> QED  BY <2>2, <2>3 DEF ProgInv, Accounted, Done
<1> QED  BY <1>1, <1>2

LEMMA ProgNext ==
  ASSUME TypeOK, ThreadsInv, UnitsInv, ProgInv, StoreInv, [Next]_vars
  PROVE  ProgInv'
<1>0. \A p \in Partitions : prog[p] \in Nat
  BY DEF TypeOK
<1>1. CASE UNCHANGED prog /\ pc # "join"
  <2>1. \A p \in Partitions : Done(p, prog[p])  BY <1>1 DEF ProgInv
  <2>2. \A p \in Partitions : Done(p, prog[p])'
    BY <1>0, <1>1, <2>1, SeenGrows DEF Done
  <2> QED  BY <2>2, AllDone
<1>2. CASE prog' = [p \in Partitions |-> 0]
  <2>1. \A p \in Partitions : Done(p, prog[p])'  BY <1>2 DEF Done
  <2> QED  BY <2>1, AllDone
<1>3. CASE InitProgress
  <2>1. PICK read \in Reads(part) : prog' = [prog EXCEPT ![part] = read]
    BY <1>3 DEF InitProgress
  <2>2. /\ part \in Partitions /\ read \in Nat /\ (read = 0 \/ read = store[part])
        /\ seen' = seen /\ pc = "progress"
    BY <1>3, ReadsTyped DEF TypeOK, InitProgress
  <2>3. Done(part, read)  BY <2>2 DEF Done, StoreInv, CommittedProcessed
  <2>4. \A p \in Partitions : Done(p, prog[p])  BY <2>2 DEF ProgInv
  <2>5. \A p \in Partitions : Done(p, prog[p])'
    BY <2>1, <2>2, <2>3, <2>4 DEF TypeOK, Done
  <2> QED  BY <2>5, AllDone
<1>4. ASSUME NEW t \in Threads, Work(t) PROVE ProgInv'
  <2>1. /\ pc = "join" /\ pc' = pc /\ workers' = workers /\ workers # 0
        /\ (panicked => panicked')
    <3>1. thread[t].pc # "gone" /\ UNCHANGED <<pc, workers>> /\ (panicked => panicked')
      BY <1>4 DEF Work, Pop, FindEmpty, ProcessUnit, Panic, Advance, locals
    <3>2. pc = "join" /\ t <= workers  BY <3>1 DEF ThreadsInv
    <3>3. t >= 1 /\ t \in Int /\ workers \in Int  BY DEF TypeOK, Threads, Larger
    <3> QED  BY <3>1, <3>2, <3>3
  <2>2. SUFFICES ASSUME ~panicked', NEW p \in Partitions PROVE Accounted(p, prog[p])'
    BY <2>1 DEF ProgInv
  <2>3. \A u \in Unit : Outstanding(u) => Outstanding(u)' \/ RecordsOf(u) \subseteq seen'[u.part]
    BY <1>4, <2>2, WorkHandsOn
  <2>4. \A n \in Nat : Accounted(p, n) => Accounted(p, n)'
    BY <2>3, AccountedKept
  <2>5. prog'[p] = prog[p] \/ Accounted(p, prog'[p])
    <3>1. CASE Advance(t)
      <4> DEFINE u == thread[t].unit
      <4>1. u \in Unit /\ u.part \in Partitions /\ u.end \in Nat
        BY DEF TypeOK, Unit
      <4>2. Held(u)  BY <3>1 DEF Advance, Held
      <4>3. Accounted(u.part, u.end)  BY <2>1, <2>2, <4>1, <4>2 DEF UnitsInv
      <4>4. prog' = [prog EXCEPT ![u.part] = Larger(@, u.end)]  BY <3>1 DEF Advance
      <4> HIDE DEF u
      <4>5. prog'[p] = prog[p] \/ (p = u.part /\ prog'[p] = u.end)
        BY <4>1, <4>4 DEF TypeOK, Larger
      <4> QED  BY <4>3, <4>5
    <3>2. CASE ~Advance(t)
      BY <1>4, <3>2 DEF Work, Pop, FindEmpty, ProcessUnit, Panic, locals
    <3> QED  BY <3>1, <3>2
  <2>6. prog'[p] \in Nat  BY TypeNext DEF TypeOK
  <2>7. Accounted(p, prog[p])  BY <2>1, <2>2 DEF ProgInv
  <2>8. Accounted(p, prog'[p])  BY <2>5, <2>7
  <2>9. PICK n \in Nat : n = prog'[p]  BY <2>6
  <2>10. Accounted(p, n)'  BY <2>4, <2>8, <2>9
  <2> QED  BY <2>9, <2>10 DEF Accounted
<1>5. CASE Join
  <2>1. \A p \in Partitions : Done(p, prog[p])  BY <1>5, JoinDone
  <2>2. prog' = prog /\ seen' = seen  BY <1>5 DEF Join, locals
  <2> QED  BY <2>1, <2>2, AllDone DEF Done
<1>6. CASE UNCHANGED <<pc, locals, scope, seen>>
  BY <1>6 DEF ProgInv, Done, Accounted, Outstanding, locals, scope
<1>7. ASSUME Committed, pc \in {"commit", "put"} PROVE ProgInv'
  BY <1>1, <1>2, <1>7 DEF Committed, BeginEpoch, Rest, locals
<1>8. CASE Rest("failed") \/ StartSession
  BY <1>2, <1>8 DEF Rest, StartSession, BeginEpoch
<1>9. CASE Measure \/ Size \/ Plan \/ Spawn \/ DecideCommit
  BY <1>1, <1>9 DEF Measure, Size, Plan, Spawn, DecideCommit, locals
<1> QED
  BY <1>3, <1>4, <1>5, <1>6, <1>7, <1>8, <1>9
  DEF Next, Driver, Push, ApplyLate, SkipCommit, PutCommitted, JoinPanicked, PutRefused,
      PutUnanswered, Crash, vars
----------------------------------------------------------------------------
LEMMA StoreNext ==
  ASSUME TypeOK, ProgInv, StoreInv, [Next]_vars
  PROVE  StoreInv'
<1>0. /\ \A p \in Partitions : store[p] \in Nat /\ prog[p] \in Nat
      /\ \A x \in late : x[1] \in Partitions /\ x[2] \in Nat
      /\ part \in Partitions
  BY DEF TypeOK
<1>1. /\ \A p \in Partitions : Done(p, store[p])'  \/ store'[p] # store[p]
      /\ \A x \in late : 0..(x[2] - 1) \subseteq seen'[x[1]]
  BY <1>0, SeenGrows DEF StoreInv, CommittedProcessed, Done
<1>2. CASE UNCHANGED <<store, late>>
  BY <1>1, <1>2 DEF StoreInv, CommittedProcessed, Done
<1>3. ASSUME NEW x \in late, ApplyLate(x) PROVE StoreInv'
  <2>1. /\ late' \subseteq late /\ store' = [store EXCEPT ![x[1]] = x[2]]
    BY <1>3 DEF ApplyLate
  <2>2. \A p \in Partitions : 0..(store'[p] - 1) \subseteq seen'[p]
    <3>1. /\ x[1] \in Partitions /\ store'[x[1]] = x[2]
          /\ \A p \in Partitions : p # x[1] => store'[p] = store[p]
      BY <1>0, <2>1 DEF TypeOK
    <3>2. 0..(x[2] - 1) \subseteq seen'[x[1]]  BY <1>1
    <3>3. \A p \in Partitions : p # x[1] => 0..(store'[p] - 1) \subseteq seen'[p]
      BY <1>1, <3>1 DEF Done
    <3> QED  BY <3>1, <3>2, <3>3
  <2> QED  BY <1>1, <2>1, <2>2 DEF StoreInv, CommittedProcessed, Done
<1>4. CASE PutCommitted
  <2>1. Done(part, prog[part])  BY <1>0, <1>4 DEF PutCommitted, ProgInv
  <2>2. seen' = seen /\ late' = late /\ store' = [store EXCEPT ![part] = prog[part]]
    BY <1>4 DEF PutCommitted
  <2> QED  BY <1>0, <2>1, <2>2 DEF TypeOK, StoreInv, CommittedProcessed, Done
<1>5. CASE PutUnanswered
  <2>1. Done(part, prog[part])  BY <1>0, <1>5 DEF PutUnanswered, ProgInv
  <2>2. seen' = seen /\ store' = store /\ late' = late \cup {<<part, prog[part]>>}
    BY <1>5 DEF PutUnanswered
  <2> QED  BY <2>1, <2>2 DEF StoreInv, CommittedProcessed, Done
<1>6. ASSUME NEW t \in Threads, Work(t) PROVE StoreInv'
  BY <1>2, <1>6 DEF Work, Pop, FindEmpty, ProcessUnit, Panic, Advance, external
<1> QED
  BY <1>2, <1>3, <1>4, <1>5, <1>6
  DEF Next, Driver, Push, StartSession, Measure, Size, Plan, InitProgress, Spawn, Join,
      JoinPanicked, SkipCommit, DecideCommit, PutRefused, Crash, vars, external
----------------------------------------------------------------------------
\* A partition without units has been read as committed to its end.
LEMMA PlannedNothing ==
  ASSUME TypeOK, StoreInv, FoundInv, Plan, units' = {},
         NEW p \in Partitions, p <= part
  PROVE  Done(p, begun[p])'
<1>1. PICK read \in Reads(part) : units' = units \cup UnitsOf(part, read, log[part])
  BY DEF Plan
<1>2. /\ part \in Partitions /\ read \in Nat /\ (read = 0 \/ read = store[part])
      /\ \A q \in Partitions : log[q] \in Nat /\ begun[q] \in Nat /\ begun[q] <= log[q]
      /\ p \in Int /\ part \in Int
  <2>1. part \in Partitions  BY DEF TypeOK
  <2>2. read \in Nat /\ (read = 0 \/ read = store[part])  BY <2>1, ReadsTyped
  <2>3. \A q \in Partitions : log[q] \in Nat /\ begun[q] \in Nat /\ begun[q] <= log[q]
    BY DEF TypeOK, FoundInv
  <2>4. p \in Int /\ part \in Int  BY <2>1 DEF Partitions
  <2> QED  BY <2>1, <2>2, <2>3, <2>4
<1>3. units = {} /\ UnitsOf(part, read, log[part]) = {}  BY <1>1
<1>4. log[part] <= read  BY <1>2, <1>3, UnitsTyped
<1>5. Done(part, begun[part])
  BY <1>2, <1>4 DEF Done, StoreInv, CommittedProcessed
<1>6. p # part => Done(p, begun[p])
  BY <1>2, <1>3 DEF FoundInv, Plan
<1>7. begun' = begun /\ seen' = seen  BY DEF Plan
<1> QED  BY <1>5, <1>6, <1>7 DEF Done

LEMMA FoundNext ==
  ASSUME TypeOK, ThreadsInv, StoreInv, FoundInv, [Next]_vars
  PROVE  FoundInv'
<1>0. \A p \in Partitions : log[p] \in Nat /\ begun[p] \in Nat /\ begun[p] <= log[p]
  BY DEF TypeOK, FoundInv
<1>1. CASE UNCHANGED <<log, begun>> /\ pc' \notin {"size", "plan", "caught_up"}
  BY <1>0, <1>1 DEF FoundInv, CaughtUp
<1>2. CASE UNCHANGED <<pc, part, units, begun, seen>> /\ \A p \in Partitions : log'[p] >= log[p]
  <2>1. \A p \in Partitions : begun'[p] <= log'[p]
    BY <1>0, <1>2, TypeNext DEF TypeOK
  <2> QED  BY <1>2, <2>1 DEF FoundInv, CaughtUp, Done
<1>3. ASSUME NEW e, BeginEpoch(e), UNCHANGED log PROVE FoundInv'
  BY <1>0, <1>3 DEF FoundInv, CaughtUp, BeginEpoch
<1>4. ASSUME Rest("failed") \/ Rest("exhausted"), UNCHANGED log PROVE FoundInv'
  BY <1>0, <1>4 DEF FoundInv, CaughtUp, Rest
<1>5. ASSUME NEW p \in Partitions, Push(p) PROVE FoundInv'
  <2>1. \A q \in Partitions : log'[q] >= log[q]  BY <1>0, <1>5 DEF TypeOK, Push
  <2> QED  BY <1>2, <1>5, <2>1 DEF Push, locals
<1>6. CASE UNCHANGED <<pc, part, units, begun, seen, log>>
  BY <1>0, <1>2, <1>6
<1>7. CASE Size
  <2>1. /\ log' = log /\ begun' = begun /\ part' = part /\ part = 0 /\ pc' = "plan"
    BY <1>7 DEF Size, FoundInv, external
  <2>2. \A p \in Partitions : ~(p < 0)  BY DEF Partitions
  <2> QED  BY <1>0, <2>1, <2>2 DEF FoundInv, CaughtUp
<1>8. CASE Plan
  <2>1. begun' = begun /\ log' = log /\ seen' = seen
    BY <1>8 DEF Plan, external
  <2>2. part \in 0..(PartitionCount - 1)  BY DEF TypeOK, Partitions
  <2>3. CASE part + 1 < PartitionCount /\ part' = part + 1 /\ pc' = "plan"
    <3>1. ASSUME units' = {}, NEW p \in Partitions, p < part'
          PROVE  Done(p, begun[p])'
      <4>1. p <= part  BY <2>2, <2>3, <3>1 DEF Partitions
      <4> QED  BY <1>8, <3>1, <4>1, PlannedNothing
    <3> QED  BY <1>0, <2>1, <2>3, <3>1 DEF FoundInv, CaughtUp
  <2>4. CASE part + 1 >= PartitionCount /\ units' = {} /\ pc' = "caught_up"
    <3>1. \A p \in Partitions : Done(p, begun[p])'
      <4>1. \A p \in Partitions : p <= part  BY <2>2, <2>4 DEF Partitions
      <4> QED  BY <1>8, <2>4, <4>1, PlannedNothing
    <3> QED  BY <1>0, <2>1, <2>4, <3>1 DEF FoundInv, CaughtUp, Done
  <2>5. CASE pc' = "progress"
    BY <1>1, <2>1, <2>5
  <2> QED  BY <1>8, <2>2, <2>3, <2>4, <2>5 DEF Plan, NextPartition
<1>9. ASSUME NEW t \in Threads, Work(t) PROVE FoundInv'
  <2>1. pc = "join"
    BY <1>9 DEF ThreadsInv, Work, Pop, FindEmpty, ProcessUnit, Panic, Advance
  <2>2. UNCHANGED <<pc, log, begun>>
    BY <1>9 DEF Work, Pop, FindEmpty, ProcessUnit, Panic, Advance, external, locals
  <2> QED  BY <1>1, <2>1, <2>2
<1>10. CASE Measure
  <2>1. log' = log /\ begun' = begun /\ pc = "measure"
    BY <1>10 DEF Measure, external
  <2>2. pc' = "measure" \/ (pc' = "size" /\ part' = 0)
    BY <1>10, <2>1 DEF Measure, NextPartition
  <2> QED  BY <1>0, <2>1, <2>2 DEF FoundInv, CaughtUp
<1>11. CASE InitProgress \/ Spawn \/ Join \/ DecideCommit
  <2>1. UNCHANGED <<log, begun>>
    BY <1>11 DEF InitProgress, Spawn, Join, DecideCommit, external, locals
  <2>2. pc' \notin {"size", "plan", "caught_up"}
    BY <1>11 DEF InitProgress, Spawn, Join, DecideCommit, NextPartition
  <2> QED  BY <1>1, <2>1, <2>2
<1>12. ASSUME Committed, UNCHANGED log PROVE FoundInv'
  <2>1. CASE pc' = "commit" /\ UNCHANGED locals
    BY <1>1, <1>12, <2>1 DEF locals
  <2> QED  BY <1>3, <1>4, <1>12, <2>1 DEF Committed
<1>13. CASE StartSession
  BY <1>3, <1>13 DEF StartSession, external
<1> QED
  BY <1>4, <1>5, <1>6, <1>7, <1>8, <1>9, <1>10, <1>11, <1>12, <1>13
  DEF Next, Driver, ApplyLate, SkipCommit, PutCommitted, JoinPanicked, PutRefused,
      PutUnanswered, Crash, vars, external, locals
----------------------------------------------------------------------------
\* The inductive invariant.
THEOREM Inductive == Spec => []IInv
<1>1. Init => IInv
  <2> SUFFICES ASSUME Init PROVE IInv  OBVIOUS
  <2>1. TypeOK  BY TypeInit
  <2>2. ThreadsInv  BY DEF Init, ThreadsInv, AllGone
  <2>3. UnitsInv  BY DEF Init, UnitsInv, Held, Outstanding, AllGone
  <2>4. ProgInv  BY DEF Init, ProgInv, Done, Accounted
  <2>5. StoreInv  BY DEF Init, StoreInv, CommittedProcessed
  <2>6. FoundInv  BY DEF Init, FoundInv, CaughtUp
  <2> QED  BY <2>1, <2>2, <2>3, <2>4, <2>5, <2>6 DEF IInv
<1>2. IInv /\ [Next]_vars => IInv'
  <2> SUFFICES ASSUME IInv, [Next]_vars PROVE IInv'  OBVIOUS
  <2>1. TypeOK'  BY TypeNext DEF IInv
  <2>2. ThreadsInv'  BY ThreadsNext DEF IInv
  <2>3. UnitsInv'  BY <2>2, UnitsNext DEF IInv
  <2>4. ProgInv'  BY ProgNext DEF IInv
  <2>5. StoreInv'  BY StoreNext DEF IInv
  <2>6. FoundInv'  BY FoundNext DEF IInv
  <2> QED  BY <2>1, <2>2, <2>3, <2>4, <2>5, <2>6 DEF IInv
<1> QED  BY <1>1, <1>2, PTL DEF Spec

\* At-least-once: whatever crashes, panics, fails to read an offset, or is
\* applied late, a stored offset has only processed records below it.
THEOREM AtLeastOnce == Spec => []CommittedProcessed
<1>1. IInv => CommittedProcessed  BY DEF IInv, StoreInv
<1> QED  BY <1>1, Inductive, PTL

\* A session that reports it has caught up has seen every record processed
\* that its last epoch began with.
THEOREM CaughtUpCorrect == Spec => []CaughtUp
<1>1. IInv => CaughtUp  BY DEF IInv, FoundInv
<1> QED  BY <1>1, Inductive, PTL
----------------------------------------------------------------------------
(***************************************************************************)
(* What an epoch does.  EpochComplete and NeverBack are not inductive:     *)
(* whether an offset is stored, and which, is decided from what the reads  *)
(* gave, any of which may have failed and given 0.                         *)
(*   LogInv: no offset anywhere is beyond the log.                         *)
(*   StoredInv: while every put has been answered, an epoch finds no       *)
(*     offset beyond the log it began with, until it stores its own.       *)
(*   PlanInv: the loops over the partitions start and end where they do,   *)
(*     so the units of a partition are planned once.                       *)
(*   ReachInv: a partition's stored offset is up to the log the epoch      *)
(*     began with and it has no units, or prog is there, or a thread that  *)
(*     still holds a unit, or will pop it, takes prog there.               *)
(*   OnceInv: no record is in two units, and no unit with two threads.     *)
(*   ExactInv: the records counted and those still outstanding are the     *)
(*     records planned.                                                    *)
(***************************************************************************)
\* A step other than Plan gives nobody a unit that was not held.
LEMMA HeldShrinks ==
  ASSUME TypeOK, ThreadsInv, [Next]_vars, ~Plan, NEW u \in Unit, Held(u)'
  PROVE  Held(u)
<1>1. CASE UNCHANGED <<units, thread>>
  BY <1>1 DEF Held, Outstanding
<1>2. ASSUME units' = {}, \A t \in Threads : thread'[t].pc = "gone" PROVE FALSE
  BY <1>2 DEF Held, Outstanding
<1>3. ASSUME NEW t \in Threads, Work(t) PROVE Held(u)
  <2>1. CASE Panic(t)
    <3>1. /\ units' = units /\ thread'[t].pc = "gone"
          /\ \A s \in Threads : s # t => thread'[s] = thread[s]
      BY <2>1 DEF TypeOK, Panic, locals
    <3> QED  BY <3>1 DEF Held, Outstanding
  <2>2. CASE ~Panic(t) /\ ~panicked'
    BY <1>3, <2>2, WorkHandsOn
  <2>3. CASE ~Panic(t) /\ panicked'
    <3>1. CASE Pop(t)
      <4>1. PICK v \in units : /\ units' = units \ {v}
                              /\ thread' = [thread EXCEPT ![t] = [pc |-> "process", unit |-> v]]
        BY <3>1 DEF Pop
      <4>2. /\ thread'[t].pc = "process" /\ thread'[t].unit = v
            /\ \A s \in Threads : s # t => thread'[s] = thread[s]
        BY <4>1 DEF TypeOK
      <4> QED  BY <4>1, <4>2 DEF Outstanding, Held
    <3>2. CASE FindEmpty(t)
      <4>1. /\ thread'[t].pc = "gone"
            /\ \A s \in Threads : s # t => thread'[s] = thread[s]
        BY <3>2 DEF TypeOK, FindEmpty
      <4> QED  BY <3>2, <4>1 DEF FindEmpty, locals, Outstanding, Held
    <3>3. CASE ProcessUnit(t)
      <4>1. /\ thread[t].pc = "process" /\ thread'[t].pc = "advance"
            /\ thread'[t].unit = thread[t].unit
            /\ \A s \in Threads : s # t => thread'[s] = thread[s]
        BY <3>3 DEF TypeOK, ProcessUnit
      <4> QED  BY <3>3, <4>1 DEF ProcessUnit, Outstanding, Held
    <3>4. CASE Advance(t)
      <4>1. /\ thread'[t].pc = "pop"
            /\ \A s \in Threads : s # t => thread'[s] = thread[s]
        BY <3>4 DEF TypeOK, Advance
      <4> QED  BY <3>4, <4>1 DEF Advance, Outstanding, Held
    <3> QED  BY <1>3, <2>3, <3>1, <3>2, <3>3, <3>4 DEF Work
  <2> QED  BY <2>1, <2>2, <2>3
<1>4. ASSUME NEW how, Rest(how) PROVE Held(u)
  BY <1>2, <1>4 DEF Rest, AllGone
<1>5. ASSUME pc # "join", NEW e, BeginEpoch(e), UNCHANGED scope PROVE Held(u)
  BY <1>2, <1>5 DEF BeginEpoch, scope, ThreadsInv
<1>6. ASSUME Committed, pc # "join" PROVE Held(u)
  BY <1>1, <1>4, <1>5, <1>6 DEF Committed, locals, scope
<1>7. CASE Spawn
  BY <1>7 DEF Spawn, locals, Held, Outstanding
<1>8. CASE StartSession
  BY <1>5, <1>8 DEF StartSession, Resting
<1>9. CASE SkipCommit \/ PutCommitted
  BY <1>6, <1>9 DEF SkipCommit, PutCommitted
<1>10. CASE JoinPanicked \/ PutRefused \/ PutUnanswered \/ Crash
  BY <1>4, <1>10 DEF JoinPanicked, PutRefused, PutUnanswered, Crash
<1> QED
  BY <1>1, <1>3, <1>7, <1>8, <1>9, <1>10
  DEF Next, Driver, Push, ApplyLate, Measure, Size, InitProgress, Join, DecideCommit, vars,
      locals, scope

\* What plan_work adds is held, and nothing else is new.
LEMMA PlanHolds ==
  ASSUME TypeOK, ThreadsInv, Plan
  PROVE  \E read \in Reads(part) :
           /\ units' = units \cup UnitsOf(part, read, log[part])
           /\ planned' = planned + Larger(log[part] - read, 0)
           /\ \A u \in Unit : Held(u)' <=> Held(u) \/ u \in UnitsOf(part, read, log[part])
           /\ \A u \in Unit : Held(u)' <=> u \in units'
           /\ \A u \in Unit : Held(u) <=> u \in units
<1>1. PICK read \in Reads(part) :
        /\ units' = units \cup UnitsOf(part, read, log[part])
        /\ planned' = planned + Larger(log[part] - read, 0)
  BY DEF Plan
<1>2. thread' = thread /\ \A t \in Threads : thread[t].pc = "gone"
  BY DEF Plan, scope, ThreadsInv
<1> QED  BY <1>1, <1>2 DEF Held, Outstanding

LEMMA LargerIs ==
  ASSUME NEW a \in Int, NEW b \in Int
  PROVE  Larger(a, b) \in {a, b} /\ Larger(a, b) >= a /\ Larger(a, b) >= b
BY DEF Larger
----------------------------------------------------------------------------
LogInv ==
  /\ \A p \in Partitions : store[p] <= log[p] /\ prog[p] <= log[p]
  /\ \A x \in late : x[2] <= log[x[1]]
  /\ \A u \in Unit : Held(u) => u.end <= log[u.part]

LEMMA LogGrows ==
  ASSUME TypeOK, [Next]_vars, NEW p \in Partitions
  PROVE  log[p] \in Nat /\ log'[p] \in Nat /\ log'[p] >= log[p]
<1>1. log[p] \in Nat  BY DEF TypeOK
<1>2. ASSUME NEW q \in Partitions, Push(q) PROVE log'[p] \in Nat /\ log'[p] >= log[p]
  BY <1>1, <1>2 DEF TypeOK, Push
<1>3. CASE UNCHANGED log
  BY <1>1, <1>3
<1>4. ASSUME NEW t \in Threads, Work(t) PROVE UNCHANGED log
  BY <1>4 DEF Work, Pop, FindEmpty, ProcessUnit, Panic, Advance, external
<1> QED
  BY <1>1, <1>2, <1>3, <1>4
  DEF Next, Driver, ApplyLate, StartSession, Measure, Size, Plan, InitProgress, Spawn, Join,
      JoinPanicked, SkipCommit, DecideCommit, PutCommitted, PutRefused, PutUnanswered, Crash,
      vars, external

LEMMA HeldInLog ==
  ASSUME TypeOK, ThreadsInv, LogInv, [Next]_vars, NEW u \in Unit, Held(u)'
  PROVE  u.end <= log'[u.part]
<1>0. u.end \in Nat /\ u.part \in Partitions  BY DEF Unit
<1>1. Held(u) => u.end <= log'[u.part]
  <2>1. log[u.part] \in Nat /\ log'[u.part] \in Nat /\ log'[u.part] >= log[u.part]
    BY <1>0, LogGrows
  <2> QED  BY <1>0, <2>1 DEF LogInv
<1>2. CASE ~Plan  BY <1>1, <1>2, HeldShrinks
<1>3. CASE Plan
  <2>1. PICK read \in Reads(part) :
          \A v \in Unit : Held(v)' <=> Held(v) \/ v \in UnitsOf(part, read, log[part])
    BY <1>3, PlanHolds
  <2>2. part \in Partitions /\ read \in Nat /\ log[part] \in Nat
    BY ReadsTyped DEF TypeOK
  <2>3. u \in UnitsOf(part, read, log[part]) => u.part = part /\ u.end <= log[part]
    BY <2>2, UnitsTyped
  <2>4. log' = log  BY <1>3 DEF Plan, external
  <2> QED  BY <1>1, <2>1, <2>3, <2>4
<1> QED  BY <1>2, <1>3

LEMMA ProgInLog ==
  ASSUME TypeOK, LogInv, [Next]_vars, NEW p \in Partitions
  PROVE  prog'[p] <= log'[p]
<1>0. /\ prog[p] \in Nat /\ store[p] \in Nat /\ prog[p] <= log[p] /\ store[p] <= log[p]
      /\ log[p] \in Nat /\ log'[p] \in Nat /\ log'[p] >= log[p]
  BY LogGrows DEF TypeOK, LogInv
<1>1. CASE UNCHANGED prog
  BY <1>0, <1>1
<1>2. CASE prog' = [q \in Partitions |-> 0]
  BY <1>0, <1>2
<1>3. CASE InitProgress
  <2>1. PICK read \in Reads(part) : prog' = [prog EXCEPT ![part] = read]
    BY <1>3 DEF InitProgress
  <2>2. part \in Partitions /\ (read = 0 \/ read = store[part])
    BY ReadsTyped DEF TypeOK
  <2>3. prog'[p] \in {prog[p], 0, store[p]}
    BY <2>1, <2>2 DEF TypeOK
  <2> QED  BY <1>0, <2>3
<1>4. ASSUME NEW t \in Threads, Work(t) PROVE prog'[p] <= log'[p]
  <2>1. CASE Advance(t)
    <3> DEFINE u == thread[t].unit
    <3>1. u \in Unit /\ u.part \in Partitions /\ u.end \in Nat
      BY DEF TypeOK, Unit
    <3>2. Held(u)  BY <2>1 DEF Advance, Held
    <3>3. prog' = [prog EXCEPT ![u.part] = Larger(@, u.end)]  BY <2>1 DEF Advance
    <3>4. u.end <= log[u.part]  BY <3>1, <3>2 DEF LogInv
    <3> HIDE DEF u
    <3>5. prog'[p] = prog[p] \/ (u.part = p /\ prog'[p] = u.end)
      BY <3>1, <3>3, LargerIs DEF TypeOK
    <3> QED  BY <1>0, <3>1, <3>4, <3>5
  <2>2. CASE ~Advance(t)
    BY <1>1, <1>4, <2>2 DEF Work, Pop, FindEmpty, ProcessUnit, Panic, locals
  <2> QED  BY <2>1, <2>2
<1>5. ASSUME Committed PROVE prog'[p] <= log'[p]
  BY <1>1, <1>2, <1>5 DEF Committed, BeginEpoch, Rest, locals
<1>6. CASE StartSession \/ JoinPanicked \/ PutRefused \/ PutUnanswered \/ Crash
  BY <1>2, <1>6 DEF StartSession, BeginEpoch, JoinPanicked, PutRefused, PutUnanswered, Crash, Rest
<1> QED
  BY <1>1, <1>3, <1>4, <1>5, <1>6
  DEF Next, Driver, Push, ApplyLate, Measure, Size, Plan, Spawn, Join,
      SkipCommit, DecideCommit, PutCommitted, vars, external, locals

LEMMA LogNext ==
  ASSUME TypeOK, ThreadsInv, LogInv, [Next]_vars
  PROVE  LogInv'
<1>0. \A p \in Partitions :
        /\ prog[p] \in Nat /\ store[p] \in Nat /\ prog[p] <= log[p] /\ store[p] <= log[p]
        /\ log[p] \in Nat /\ log'[p] \in Nat /\ log'[p] >= log[p]
  BY LogGrows DEF TypeOK, LogInv
<1>1. \A u \in Unit : Held(u)' => u.end <= log'[u.part]  BY HeldInLog
<1>2. \A p \in Partitions : prog'[p] <= log'[p]  BY ProgInLog
<1>3. \A x \in late : x[1] \in Partitions /\ x[2] \in Nat /\ x[2] <= log'[x[1]]
  <2>1. ASSUME NEW x \in late PROVE x[1] \in Partitions /\ x[2] \in Nat /\ x[2] <= log[x[1]]
    BY DEF TypeOK, LogInv
  <2> QED  BY <1>0, <2>1
<1>4. part \in Partitions  BY DEF TypeOK
<1>5. CASE UNCHANGED <<store, late>>
  BY <1>0, <1>1, <1>2, <1>3, <1>5 DEF LogInv
<1>6. ASSUME NEW x \in late, ApplyLate(x) PROVE LogInv'
  <2>1. late' \subseteq late /\ store' = [store EXCEPT ![x[1]] = x[2]]
    BY <1>6 DEF ApplyLate
  <2>2. \A p \in Partitions : store'[p] = store[p] \/ (x[1] = p /\ store'[p] = x[2])
    BY <1>3, <2>1 DEF TypeOK
  <2>3. \A p \in Partitions : store'[p] <= log'[p]
    BY <1>0, <1>3, <2>2
  <2> QED  BY <1>1, <1>2, <1>3, <2>1, <2>3 DEF LogInv
<1>7. CASE PutCommitted
  <2>1. late' = late /\ store' = [store EXCEPT ![part] = prog[part]]
    BY <1>7 DEF PutCommitted
  <2>2. \A p \in Partitions : store'[p] \in {store[p], prog[p]}
    BY <1>4, <2>1 DEF TypeOK
  <2>3. \A p \in Partitions : store'[p] <= log'[p]
    BY <1>0, <2>2
  <2> QED  BY <1>1, <1>2, <1>3, <2>1, <2>3 DEF LogInv
<1>8. CASE PutUnanswered
  <2>1. store' = store /\ late' = late \cup {<<part, prog[part]>>}
    BY <1>8 DEF PutUnanswered
  <2>2. prog[part] <= log'[part]  BY <1>0, <1>4
  <2> QED  BY <1>0, <1>1, <1>2, <1>3, <2>1, <2>2 DEF LogInv
<1>9. ASSUME NEW t \in Threads, Work(t) PROVE LogInv'
  BY <1>5, <1>9 DEF Work, Pop, FindEmpty, ProcessUnit, Panic, Advance, external
<1> QED
  BY <1>5, <1>6, <1>7, <1>8, <1>9
  DEF Next, Driver, Push, StartSession, Measure, Size, Plan, InitProgress, Spawn, Join,
      JoinPanicked, SkipCommit, DecideCommit, PutRefused, Crash, vars, external
----------------------------------------------------------------------------
StoredInv ==
  unanswered = 0 =>
    /\ late = {}
    /\ pc \notin Resting =>
         \A p \in Partitions : (pc \in {"commit", "put"} => p >= part) => store[p] <= begun[p]

\* prog holds what InitProgress read, or the 0 it started from.
AsRead(p) == prog[p] \in {0, store[p]}

PlanInv ==
  /\ pc \in {"measure", "size"} => units = {} /\ records = 0 /\ planned = 0
  /\ pc = "plan" => records = 0 /\ \A u \in units : u.part < part
  /\ pc \in {"measure", "size", "plan"} => \A p \in Partitions : prog[p] = 0
  /\ pc = "progress" => \A p \in Partitions : p >= part => prog[p] = 0
  /\ pc = "put" => prog[part] > 0
  /\ pc \in {"spawn", "join"} => part = 0

\* The fields a session's thread has to itself are changed by its own steps.
LEMMA WorkAtJoin ==
  ASSUME TypeOK, ThreadsInv, NEW t \in Threads, Work(t)
  PROVE  /\ pc = "join" /\ workers > 0
         /\ UNCHANGED <<external, pc, part, session, epoch, lag, workers, begun, planned>>
<1>1. thread[t].pc # "gone"
  BY DEF Work, Pop, FindEmpty, ProcessUnit, Panic, Advance
<1>2. pc = "join" /\ t <= workers  BY <1>1 DEF ThreadsInv
<1>3. t >= 1 /\ t \in Int /\ workers \in Int  BY DEF TypeOK, Threads, Larger
<1>4. UNCHANGED <<external, pc, part, session, epoch, lag, workers, begun, planned>>
  BY DEF Work, Pop, FindEmpty, ProcessUnit, Panic, Advance, locals, external
<1> QED  BY <1>2, <1>3, <1>4

LEMMA PlanNext ==
  ASSUME TypeOK, ThreadsInv, FoundInv, PlanInv, [Next]_vars
  PROVE  PlanInv'
<1>0. part \in Int /\ \A p \in Partitions : p \in Int /\ ~(p < 0)
  BY DEF TypeOK, Partitions
<1>1. CASE UNCHANGED <<pc, part, units, records, planned, prog>>
  BY <1>1 DEF PlanInv
<1>2. ASSUME NEW e, BeginEpoch(e) PROVE PlanInv'
  BY <1>2 DEF BeginEpoch, PlanInv
<1>3. ASSUME NEW how \in Resting, Rest(how) PROVE PlanInv'
  BY <1>3 DEF Rest, Resting, PlanInv
<1>4. CASE Measure
  <2>1. UNCHANGED <<units, records, planned, prog>> /\ pc = "measure"
    BY <1>4 DEF Measure
  <2>2. pc' \in {"measure", "size"}
    BY <1>4, <2>1 DEF Measure, NextPartition
  <2> QED  BY <2>1, <2>2 DEF PlanInv
<1>5. CASE Size
  BY <1>5 DEF Size, PlanInv
<1>6. CASE Plan
  <2>1. PICK read \in Reads(part) : units' = units \cup UnitsOf(part, read, log[part])
    BY <1>6 DEF Plan
  <2>2. \A u \in UnitsOf(part, read, log[part]) : u.part = part
    <3>1. part \in Partitions /\ read \in Nat /\ log[part] \in Nat
      BY ReadsTyped DEF TypeOK
    <3> QED  BY <3>1, UnitsTyped
  <2>3. \A u \in units : u.part < part /\ u.part \in Int
    BY <1>6 DEF PlanInv, Plan, TypeOK, Unit, Partitions
  <2>4. \A u \in units' : u.part < part + 1
    BY <1>0, <2>1, <2>2, <2>3
  <2>5. UNCHANGED <<records, prog>> /\ records = 0 /\ \A p \in Partitions : prog[p] = 0
    BY <1>6 DEF PlanInv, Plan
  <2>6. (pc' = "plan" /\ part' = part + 1) \/ pc' \in {"caught_up", "progress"}
    BY <1>6 DEF Plan, NextPartition
  <2> QED  BY <2>4, <2>5, <2>6 DEF PlanInv
<1>7. CASE InitProgress
  <2>1. PICK read \in Reads(part) : prog' = [prog EXCEPT ![part] = read]
    BY <1>7 DEF InitProgress
  <2>2. \A p \in Partitions : p >= part /\ p # part => prog'[p] = 0
    BY <1>7, <2>1 DEF PlanInv, TypeOK, InitProgress
  <2>3. CASE pc' = "progress" /\ part' = part + 1
    BY <1>0, <2>2, <2>3 DEF PlanInv
  <2>4. CASE pc' = "spawn" /\ part' = 0
    BY <2>4 DEF PlanInv
  <2> QED  BY <1>7, <2>3, <2>4 DEF InitProgress, NextPartition
<1>8. CASE Spawn
  BY <1>8 DEF Spawn, PlanInv, locals
<1>9. ASSUME NEW t \in Threads, Work(t) PROVE PlanInv'
  BY <1>9, WorkAtJoin DEF PlanInv
<1>10. CASE Join
  BY <1>10 DEF Join, PlanInv
<1>11. ASSUME Committed, pc \in {"commit", "put"} PROVE PlanInv'
  <2>1. CASE pc' = "commit"
    BY <2>1 DEF PlanInv
  <2> QED  BY <1>2, <1>3, <1>11, <2>1 DEF Committed, Resting
<1>12. CASE DecideCommit
  <2>1. PICK read \in Reads(part) : prog[part] > read
    BY <1>12 DEF DecideCommit
  <2>2. read \in Nat /\ prog[part] \in Nat  BY ReadsTyped DEF TypeOK
  <2>3. prog' = prog /\ part' = part /\ pc' = "put"
    BY <1>12 DEF DecideCommit, locals
  <2> QED  BY <2>1, <2>2, <2>3 DEF PlanInv
<1>13. CASE Rest("failed")
  BY <1>3, <1>13 DEF Resting
<1>14. CASE StartSession
  BY <1>2, <1>14 DEF StartSession
<1> QED
  BY <1>1, <1>4, <1>5, <1>6, <1>7, <1>8, <1>9, <1>10, <1>11, <1>12, <1>13, <1>14
  DEF Next, Driver, Push, ApplyLate, SkipCommit, PutCommitted, JoinPanicked, PutRefused,
      PutUnanswered, Crash, vars, locals
----------------------------------------------------------------------------
LEMMA UnansweredGrows ==
  ASSUME TypeOK, ThreadsInv, [Next]_vars, unanswered' = 0
  PROVE  unanswered = 0 /\ (late = {} => late' = {})
<1>0. unanswered \in Nat  BY DEF TypeOK
<1>1. CASE UNCHANGED <<late, unanswered>>
  BY <1>1
<1>2. ASSUME NEW x \in late, ApplyLate(x) PROVE unanswered' = unanswered /\ late # {}
  BY <1>2 DEF ApplyLate
<1>3. CASE PutUnanswered
  BY <1>0, <1>3 DEF PutUnanswered
<1>4. ASSUME NEW t \in Threads, Work(t) PROVE UNCHANGED <<late, unanswered>>
  BY <1>4, WorkAtJoin DEF external
<1> QED
  BY <1>1, <1>2, <1>3, <1>4
  DEF Next, Driver, Push, StartSession, Measure, Size, Plan, InitProgress, Spawn, Join,
      JoinPanicked, SkipCommit, DecideCommit, PutCommitted, PutRefused, Crash, vars, external

LEMMA StoredNext ==
  ASSUME TypeOK, ThreadsInv, LogInv, PlanInv, StoredInv, [Next]_vars
  PROVE  StoredInv'
<1> SUFFICES ASSUME unanswered' = 0 PROVE StoredInv'
  BY DEF StoredInv
<1>0. /\ unanswered = 0 /\ late = {} /\ late' = {}
      /\ part \in Partitions /\ part \in Int /\ \A p \in Partitions : p \in Int /\ p >= 0
  <2>1. unanswered = 0 /\ late = {} /\ late' = {}
    BY UnansweredGrows DEF StoredInv
  <2>2. part \in Partitions  BY DEF TypeOK
  <2> QED  BY <2>1, <2>2 DEF Partitions
<1>1. CASE UNCHANGED <<pc, part, store, begun>>
  BY <1>0, <1>1 DEF StoredInv
<1>2. CASE pc' \in Resting
  BY <1>0, <1>2 DEF StoredInv
<1>3. ASSUME NEW e, BeginEpoch(e), UNCHANGED <<store, log>> PROVE StoredInv'
  BY <1>0, <1>3 DEF StoredInv, BeginEpoch, LogInv
<1>4. CASE UNCHANGED <<store, begun>> /\ pc \notin Resting \cup {"commit", "put"}
  BY <1>0, <1>4 DEF StoredInv
<1>5. CASE /\ UNCHANGED <<store, begun>> /\ part' \in {part, part + 1}
           /\ pc \in {"commit", "put"} /\ pc' \in {"commit", "put"}
  BY <1>0, <1>5 DEF StoredInv, Resting
<1>6. CASE SkipCommit
  <2>1. UNCHANGED <<store, log>> /\ pc = "commit" /\ Committed
    BY <1>6 DEF SkipCommit, external
  <2>2. CASE part' = part + 1 /\ pc' = "commit" /\ UNCHANGED locals
    BY <1>5, <2>1, <2>2 DEF locals
  <2>3. CASE BeginEpoch(epoch + 1)
    BY <1>3, <2>1, <2>3
  <2>4. CASE Rest("exhausted")
    BY <1>2, <2>4 DEF Rest, Resting
  <2> QED  BY <2>1, <2>2, <2>3, <2>4 DEF Committed
<1>7. CASE PutCommitted
  <2>1. /\ UNCHANGED log /\ pc = "put" /\ Committed
        /\ store' = [store EXCEPT ![part] = prog[part]]
    BY <1>7 DEF PutCommitted
  <2>2. CASE part' = part + 1 /\ pc' = "commit" /\ UNCHANGED locals
    <3>1. \A p \in Partitions : p >= part + 1 => store'[p] = store[p] /\ store[p] <= begun[p]
      BY <1>0, <2>1 DEF TypeOK, StoredInv, Resting
    <3>2. begun' = begun  BY <2>2 DEF locals
    <3> QED  BY <1>0, <2>2, <3>1, <3>2 DEF StoredInv
  <2>3. CASE BeginEpoch(epoch + 1)
    <3>1. \A p \in Partitions : store'[p] <= log[p]
      BY <1>0, <2>1 DEF TypeOK, LogInv
    <3> QED  BY <1>0, <2>1, <2>3, <3>1 DEF StoredInv, BeginEpoch
  <2>4. CASE Rest("exhausted")
    BY <1>2, <2>4 DEF Rest, Resting
  <2> QED  BY <2>1, <2>2, <2>3, <2>4 DEF Committed
<1>8. CASE Rest("failed")
  BY <1>2, <1>8 DEF Rest, Resting
<1>9. CASE StartSession
  BY <1>3, <1>9 DEF StartSession, external
<1>10. CASE Measure \/ Size \/ Plan \/ InitProgress \/ Spawn \/ Join
  BY <1>4, <1>10 DEF Measure, Size, Plan, InitProgress, Spawn, Join, external, locals, Resting
<1>11. CASE DecideCommit
  BY <1>5, <1>11 DEF DecideCommit, external, locals
<1>12. ASSUME NEW t \in Threads, Work(t) PROVE StoredInv'
  BY <1>1, <1>12, WorkAtJoin DEF external
<1>13. ASSUME NEW x \in late, ApplyLate(x) PROVE FALSE
  BY <1>0, <1>13
<1> QED
  BY <1>1, <1>6, <1>7, <1>8, <1>9, <1>10, <1>11, <1>12, <1>13
  DEF Next, Driver, Push, JoinPanicked, PutRefused, PutUnanswered, Crash, vars, external, locals
----------------------------------------------------------------------------
Reached(p) ==
  \/ store[p] >= begun[p] /\ AsRead(p) /\ \A u \in Unit : u.part = p => ~Held(u)
  \/ prog[p] >= begun[p]
  \/ \E u \in Unit : Held(u) /\ u.part = p /\ u.end >= begun[p]

\* What Reached comes to when no unit is held any more.
Carried(p) == prog[p] >= begun[p] \/ (store[p] >= begun[p] /\ AsRead(p))

ReachInv ==
  unanswered = 0 =>
    /\ pc = "plan" => \A p \in Partitions : p < part => Reached(p)
    /\ pc \in {"progress", "spawn", "join"} /\ ~panicked => \A p \in Partitions : Reached(p)
    /\ pc \in {"progress", "spawn"} => \A p \in Partitions : AsRead(p)
    /\ pc \in {"join", "commit", "put"} /\ workers = 0 =>
         \A p \in Partitions : pc = "join" \/ p >= part => AsRead(p)
    /\ pc \in {"commit", "put"} /\ workers > 0 =>
         \A p \in Partitions : p >= part => Carried(p)
    /\ CommitsWhatItFound

\* In a step that takes no unit away and changes neither begun nor store,
\* what was reached stays so.
LEMMA ReachedKept ==
  ASSUME TypeOK, ThreadsInv, [Next]_vars, ~Plan, NEW p \in Partitions, Reached(p),
         UNCHANGED <<store, begun>>, prog'[p] = prog[p],
         \A u \in Unit : Held(u) => Held(u)'
  PROVE  Reached(p)'
<1>1. \A u \in Unit : Held(u)' => Held(u)  BY HeldShrinks
<1> QED  BY <1>1 DEF Reached, AsRead

LEMMA PlanReaches ==
  ASSUME TypeOK, ThreadsInv, FoundInv, PlanInv, ReachInv, Plan, unanswered = 0,
         NEW p \in Partitions, p <= part
  PROVE  Reached(p)'
<1>1. PICK read \in Reads(part) :
        /\ units' = units \cup UnitsOf(part, read, log[part])
        /\ \A u \in Unit : Held(u)' <=> Held(u) \/ u \in UnitsOf(part, read, log[part])
        /\ \A u \in Unit : Held(u) <=> u \in units
  BY PlanHolds
<1>2. /\ part \in Partitions /\ read \in Nat /\ (read = 0 \/ read = store[part])
      /\ log[part] \in Nat /\ begun[part] \in Nat /\ begun[part] <= log[part]
      /\ store[part] \in Nat /\ p \in Int /\ part \in Int
  <2>1. part \in Partitions  BY DEF TypeOK
  <2>2. read \in Nat /\ (read = 0 \/ read = store[part])  BY <2>1, ReadsTyped
  <2>3. p \in Int /\ part \in Int  BY <2>1 DEF Partitions
  <2> QED  BY <2>1, <2>2, <2>3 DEF TypeOK, FoundInv
<1>3. UNCHANGED <<store, begun, prog>> /\ prog[p] = 0 /\ prog[part] = 0
  BY <1>2 DEF Plan, external, PlanInv
<1>4. CASE p < part
  <2>1. Reached(p)  BY <1>4 DEF ReachInv, Plan
  <2>2. \A u \in UnitsOf(part, read, log[part]) : u.part # p
    BY <1>2, <1>4, UnitsTyped
  <2> QED  BY <1>1, <1>3, <2>1, <2>2 DEF Reached, AsRead
<1>5. CASE p = part /\ UnitsOf(part, read, log[part]) = {}
  <2>1. log[part] <= read  BY <1>2, <1>5, UnitsTyped
  <2>2. CASE read = 0
    <3>1. prog'[p] >= begun'[p]  BY <1>2, <1>3, <1>5, <2>1, <2>2
    <3> QED  BY <3>1 DEF Reached
  <2>3. CASE read = store[part]
    <3>1. store'[p] >= begun'[p] /\ prog'[p] \in {0, store'[p]}
      BY <1>2, <1>3, <1>5, <2>1, <2>3
    <3>2. \A u \in Unit : u.part = p => ~Held(u)'
      <4>1. \A u \in units : u.part # part
        BY <1>2 DEF PlanInv, Plan
      <4> QED  BY <1>1, <1>5, <4>1
    <3> QED  BY <3>1, <3>2 DEF Reached, AsRead
  <2> QED  BY <1>2, <2>2, <2>3
<1>6. CASE p = part /\ UnitsOf(part, read, log[part]) # {}
  <2>1. PICK v \in UnitsOf(part, read, log[part]) : TRUE  BY <1>6
  <2>2. v \in Unit /\ v.start < v.end /\ v.end <= log[part]  BY <1>2, UnitsTyped
  <2>3. PICK s \in read..(log[part] - 1) : TRUE
    BY <2>1 DEF UnitsOf
  <2>4. log[part] - 1 \in read..(log[part] - 1)  BY <1>2, <2>3
  <2>5. PICK u \in UnitsOf(part, read, log[part]) : log[part] - 1 \in RecordsOf(u)
    BY <1>2, <2>4, UnitsCover
  <2>6. u \in Unit /\ u.part = part  BY <1>2, UnitsTyped
  <2>7. u.end >= begun[part]  BY <1>2, <2>5, <2>6 DEF RecordsOf, Unit
  <2>8. Held(u)'  BY <1>1, <2>5, <2>6
  <2> QED  BY <1>3, <1>6, <2>6, <2>7, <2>8 DEF Reached
<1> QED  BY <1>2, <1>4, <1>5, <1>6

\* A thread's step: the unit advanced over is now in prog.
LEMMA WorkReaches ==
  ASSUME TypeOK, ThreadsInv, [Next]_vars, NEW t \in Threads, Work(t), ~panicked',
         NEW p \in Partitions, Reached(p)
  PROVE  Reached(p)'
<1>0. UNCHANGED <<store, begun>> /\ pc = "join"
  BY WorkAtJoin DEF external
<1>1. ~Plan  BY <1>0 DEF Plan
<1>2. \A u \in Unit : Held(u)' => Held(u)  BY <1>1, HeldShrinks
<1>3. CASE ~Advance(t)
  <2>1. prog' = prog
    BY <1>3 DEF Work, Pop, FindEmpty, ProcessUnit, Panic, locals
  <2>2. \A u \in Unit : Held(u) => Held(u)'
    <3>1. CASE Pop(t)
      <4>1. PICK v \in units : /\ units' = units \ {v}
                              /\ thread' = [thread EXCEPT ![t] = [pc |-> "process", unit |-> v]]
        BY <3>1 DEF Pop
      <4>2. thread[t].pc = "pop"  BY <3>1 DEF Pop
      <4>3. /\ thread'[t].pc = "process" /\ thread'[t].unit = v
            /\ \A s \in Threads : s # t => thread'[s] = thread[s]
        BY <4>1 DEF TypeOK
      <4> QED  BY <4>1, <4>2, <4>3 DEF Outstanding, Held
    <3>2. CASE FindEmpty(t)
      <4>1. /\ thread[t].pc = "pop" /\ thread'[t].pc = "gone"
            /\ \A s \in Threads : s # t => thread'[s] = thread[s]
        BY <3>2 DEF TypeOK, FindEmpty
      <4> QED  BY <3>2, <4>1 DEF FindEmpty, locals, Outstanding, Held
    <3>3. CASE ProcessUnit(t)
      <4>1. /\ thread[t].pc = "process" /\ thread'[t].pc = "advance"
            /\ thread'[t].unit = thread[t].unit
            /\ \A s \in Threads : s # t => thread'[s] = thread[s]
        BY <3>3 DEF TypeOK, ProcessUnit
      <4> QED  BY <3>3, <4>1 DEF ProcessUnit, Outstanding, Held
    <3>4. CASE Panic(t)
      BY <3>4 DEF Panic
    <3> QED  BY <1>3, <3>1, <3>2, <3>3, <3>4 DEF Work
  <2> QED  BY <1>0, <1>1, <2>1, <2>2, ReachedKept
<1>4. CASE Advance(t)
  <2> DEFINE u == thread[t].unit
  <2>1. u \in Unit /\ u.part \in Partitions /\ u.end \in Nat
    BY DEF TypeOK, Unit
  <2>2. Held(u)  BY <1>4 DEF Advance, Held
  <2>3. prog' = [prog EXCEPT ![u.part] = Larger(@, u.end)]  BY <1>4 DEF Advance
  <2>4. \A v \in Unit : Held(v) => Held(v)' \/ v = u
    <3>1. /\ thread'[t].pc = "pop"
          /\ \A s \in Threads : s # t => thread'[s] = thread[s]
      BY <1>4 DEF TypeOK, Advance
    <3> QED  BY <1>4, <3>1 DEF Advance, Held, Outstanding
  <2> HIDE DEF u
  <2>5. /\ prog[p] \in Nat /\ begun[p] \in Nat /\ prog'[p] \in Nat
    BY TypeNext DEF TypeOK
  <2>6. CASE u.part # p
    <3>1. prog'[p] = prog[p]  BY <2>1, <2>3, <2>6 DEF TypeOK
    <3>2. CASE store[p] >= begun[p] /\ AsRead(p) /\ \A v \in Unit : v.part = p => ~Held(v)
      BY <1>0, <1>2, <3>1, <3>2 DEF Reached, AsRead
    <3>3. CASE prog[p] >= begun[p]
      BY <1>0, <3>1, <3>3 DEF Reached
    <3>4. CASE \E v \in Unit : Held(v) /\ v.part = p /\ v.end >= begun[p]
      BY <1>0, <2>4, <2>6, <3>4 DEF Reached
    <3> QED  BY <3>2, <3>3, <3>4 DEF Reached
  <2>7. CASE u.part = p
    <3>1. prog'[p] >= prog[p] /\ prog'[p] >= u.end
      BY <2>1, <2>3, <2>5, <2>7, LargerIs DEF TypeOK
    <3>2. CASE prog[p] >= begun[p]
      <4>1. prog'[p] >= begun'[p]  BY <1>0, <2>5, <3>1, <3>2
      <4> QED  BY <4>1 DEF Reached
    <3>3. CASE \E v \in Unit : Held(v) /\ v.part = p /\ v.end >= begun[p]
      <4>1. PICK v \in Unit : Held(v) /\ v.part = p /\ v.end >= begun[p]  BY <3>3
      <4>2. CASE v = u
        <5>1. prog'[p] >= begun'[p]  BY <1>0, <2>1, <2>5, <3>1, <4>1, <4>2
        <5> QED  BY <5>1 DEF Reached
      <4>3. CASE v # u
        BY <1>0, <2>4, <4>1, <4>3 DEF Reached
      <4> QED  BY <4>2, <4>3
    <3>4. ~ \A v \in Unit : v.part = p => ~Held(v)  BY <2>1, <2>2, <2>7
    <3>5. \/ prog[p] >= begun[p]
          \/ \E v \in Unit : Held(v) /\ v.part = p /\ v.end >= begun[p]
      BY <3>4 DEF Reached
    <3> QED  BY <3>2, <3>3, <3>5
  <2> QED  BY <2>6, <2>7
<1> QED  BY <1>3, <1>4

LEMMA JoinReaches ==
  ASSUME TypeOK, ThreadsInv, Join, workers > 0, NEW p \in Partitions, Reached(p)
  PROVE  Carried(p)
<1>1. 1 \in Threads /\ 1 <= workers
  BY DEF TypeOK, Threads, Larger
<1>2. units = {} /\ \A t \in Threads : thread[t].pc = "gone"
  BY <1>1 DEF ThreadsInv, Join
<1>3. \A u \in Unit : ~Held(u)  BY <1>2 DEF Held, Outstanding
<1> QED  BY <1>3 DEF Reached, Carried
----------------------------------------------------------------------------
\* A partition is committed: its offset is stored if it is ahead of the one
\* read, and then it is not behind the one stored.
LEMMA PutNotBack ==
  ASSUME TypeOK, PlanInv, StoredInv, ReachInv, unanswered = 0, pc = "put"
  PROVE  prog[part] >= store[part]
<1>1. /\ part \in Partitions /\ prog[part] \in Nat /\ store[part] \in Nat
      /\ begun[part] \in Nat /\ part \in Int
  BY DEF TypeOK, Partitions
<1>2. prog[part] > 0  BY DEF PlanInv
<1>3. store[part] <= begun[part]  BY <1>1 DEF StoredInv, Resting
<1>4. AsRead(part) \/ Carried(part)
  BY <1>1 DEF ReachInv, TypeOK
<1> QED  BY <1>1, <1>2, <1>3, <1>4 DEF AsRead, Carried

LEMMA CommittedReaches ==
  ASSUME TypeOK, ReachInv, Committed, unanswered = 0, pc \in {"commit", "put"},
         \A p \in Partitions : p # part => store'[p] = store[p],
         workers > 0 => store'[part] >= begun[part]
  PROVE  ReachInv'
<1>0. part \in Int /\ \A p \in Partitions : p \in Int /\ p >= 0
  BY DEF TypeOK, Partitions
<1>1. CASE part' = part + 1 /\ pc' = "commit" /\ UNCHANGED locals
  <2>1. UNCHANGED <<prog, begun, workers>>  BY <1>1 DEF locals
  <2>2. \A p \in Partitions : p >= part' => p >= part /\ store'[p] = store[p]
    BY <1>0, <1>1
  <2>3. workers' = 0 => \A p \in Partitions : p >= part' => AsRead(p)'
    BY <2>1, <2>2 DEF ReachInv, AsRead
  <2>4. workers' > 0 => \A p \in Partitions : p >= part' => Carried(p)'
    BY <2>1, <2>2 DEF ReachInv, AsRead, Carried
  <2>5. workers > 0 => \A p \in 0..part : store'[p] >= begun[p]
    <3>1. \A p \in 0..part : p = part \/ p \in 0..(part - 1)
      BY <1>0
    <3>2. \A p \in 0..part : p \in Partitions
      BY DEF TypeOK, Partitions
    <3>3. workers > 0 => \A p \in 0..(part - 1) : store[p] >= begun[p]
      BY DEF ReachInv, CommitsWhatItFound
    <3> QED  BY <3>1, <3>2, <3>3
  <2>6. CommitsWhatItFound'
    BY <1>0, <1>1, <2>1, <2>5 DEF CommitsWhatItFound
  <2> QED  BY <1>1, <2>3, <2>4, <2>6 DEF ReachInv
<1>2. CASE BeginEpoch(epoch + 1)
  BY <1>2 DEF BeginEpoch, ReachInv, CommitsWhatItFound
<1>3. CASE Rest("exhausted")
  BY <1>3 DEF Rest, ReachInv, CommitsWhatItFound
<1> QED  BY <1>1, <1>2, <1>3 DEF Committed

LEMMA ReachNext ==
  ASSUME TypeOK, ThreadsInv, FoundInv, LogInv, PlanInv, StoredInv, ReachInv, [Next]_vars
  PROVE  ReachInv'
<1> SUFFICES ASSUME unanswered' = 0 PROVE ReachInv'
  BY DEF ReachInv
<1>0. /\ unanswered = 0 /\ late = {}
      /\ part \in Partitions /\ part \in Int
      /\ \A p \in Partitions : p \in Int /\ p >= 0 /\ p < PartitionCount
      /\ workers \in Nat
  <2>1. unanswered = 0 /\ late = {}  BY UnansweredGrows DEF StoredInv
  <2>2. part \in Partitions /\ workers \in Nat  BY DEF TypeOK
  <2> QED  BY <2>1, <2>2 DEF Partitions
<1>1. CASE UNCHANGED <<pc, part, store, begun, prog, units, thread, panicked, workers>>
  BY <1>0, <1>1 DEF ReachInv, Reached, Carried, AsRead, Held, Outstanding, CommitsWhatItFound
<1>2. CASE pc' \in Resting \cup {"measure", "size"}
  BY <1>2 DEF ReachInv, CommitsWhatItFound, Resting
<1>3. CASE Size
  BY <1>0, <1>3 DEF Size, FoundInv, ReachInv, CommitsWhatItFound
<1>4. CASE Plan
  <2>1. \A p \in Partitions : p <= part => Reached(p)'
    BY <1>0, <1>4, PlanReaches
  <2>2. \A p \in Partitions : AsRead(p)'
    BY <1>4 DEF Plan, PlanInv, AsRead
  <2>3. CASE pc' = "plan" /\ part' = part + 1
    BY <1>0, <2>1, <2>3 DEF ReachInv, CommitsWhatItFound
  <2>4. CASE pc' = "caught_up"
    BY <1>2, <2>4 DEF Resting
  <2>5. CASE pc' = "progress" /\ part + 1 >= PartitionCount
    <3>1. \A p \in Partitions : p <= part  BY <1>0, <2>5
    <3> QED  BY <2>1, <2>2, <2>5, <3>1 DEF ReachInv, CommitsWhatItFound
  <2> QED  BY <1>0, <1>4, <2>3, <2>4, <2>5 DEF Plan, NextPartition
<1>5. CASE InitProgress
  <2>1. PICK read \in Reads(part) : prog' = [prog EXCEPT ![part] = read]
    BY <1>5 DEF InitProgress
  <2>2. read \in Nat /\ (read = 0 \/ read = store[part])  BY <1>0, ReadsTyped
  <2>3. /\ UNCHANGED <<store, begun, units, thread, panicked, workers>> /\ pc = "progress"
        /\ prog[part] = 0 /\ prog'[part] = read
        /\ \A p \in Partitions : p # part => prog'[p] = prog[p]
        /\ \A p \in Partitions : begun[p] \in Nat
    BY <1>0, <1>5, <2>1 DEF InitProgress, PlanInv, TypeOK, external, scope
  <2>4. \A p \in Partitions : AsRead(p)'
    BY <1>0, <2>2, <2>3 DEF ReachInv, AsRead
  <2>5. ASSUME ~panicked, NEW p \in Partitions PROVE Reached(p)'
    <3>1. Reached(p)  BY <1>0, <2>3, <2>5 DEF ReachInv
    <3>2. \A u : Held(u)' <=> Held(u)  BY <2>3 DEF Held, Outstanding
    <3>3. prog[p] >= begun[p] => prog'[p] >= begun[p]
      BY <2>2, <2>3
    <3> QED  BY <2>3, <2>4, <3>1, <3>2, <3>3 DEF Reached
  <2>6. pc' \in {"progress", "spawn"}
    BY <1>5 DEF InitProgress, NextPartition
  <2> QED  BY <2>3, <2>4, <2>5, <2>6 DEF ReachInv, CommitsWhatItFound
<1>6. CASE Spawn
  <2>1. /\ UNCHANGED <<store, begun, prog, units, panicked, workers>>
        /\ pc = "spawn" /\ pc' = "join"
        /\ \A s \in Threads : thread'[s].pc \in {"pop", "gone"} /\ thread[s].pc = "gone"
    BY <1>6 DEF Spawn, external, locals, ThreadsInv
  <2>2. \A u : Held(u)' <=> Held(u)  BY <2>1 DEF Held, Outstanding
  <2>3. \A p \in Partitions : AsRead(p)'
    BY <1>0, <2>1 DEF ReachInv, AsRead
  <2>4. ASSUME ~panicked, NEW p \in Partitions PROVE Reached(p)'
    BY <1>0, <2>1, <2>2, <2>3, <2>4 DEF ReachInv, Reached, AsRead
  <2> QED  BY <2>1, <2>3, <2>4 DEF ReachInv, CommitsWhatItFound
<1>7. ASSUME NEW t \in Threads, Work(t) PROVE ReachInv'
  <2>1. /\ pc = "join" /\ pc' = "join" /\ workers' = workers /\ workers > 0
    BY <1>7, WorkAtJoin
  <2>2. panicked => panicked'
    BY <1>7 DEF Work, Pop, FindEmpty, ProcessUnit, Panic, Advance
  <2>3. ASSUME ~panicked', NEW p \in Partitions PROVE Reached(p)'
    <3>1. Reached(p)  BY <1>0, <2>1, <2>2, <2>3 DEF ReachInv
    <3> QED  BY <1>7, <2>3, <3>1, WorkReaches
  <2> QED  BY <1>0, <2>1, <2>3 DEF ReachInv, CommitsWhatItFound
<1>8. CASE Join
  <2>1. /\ UNCHANGED <<store, begun, prog, workers, part>> /\ pc = "join" /\ pc' = "commit"
        /\ ~panicked /\ part = 0
    BY <1>8 DEF Join, external, locals, PlanInv
  <2>2. workers > 0 => \A p \in Partitions : Carried(p)
    BY <1>0, <1>8, <2>1, JoinReaches DEF ReachInv
  <2>3. workers = 0 => \A p \in Partitions : AsRead(p)
    BY <1>0, <2>1 DEF ReachInv
  <2>4. CommitsWhatItFound'
    BY <2>1 DEF CommitsWhatItFound
  <2>5. /\ workers' > 0 => \A p \in Partitions : Carried(p)'
        /\ workers' = 0 => \A p \in Partitions : AsRead(p)'
    BY <2>1, <2>2, <2>3 DEF Carried, AsRead
  <2> QED  BY <2>1, <2>4, <2>5 DEF ReachInv
<1>9. CASE SkipCommit
  <2>1. PICK read \in Reads(part) : prog[part] <= read
    BY <1>9 DEF SkipCommit
  <2>2. /\ read \in Nat /\ (read = 0 \/ read = store[part]) /\ store[part] \in Nat
        /\ prog[part] \in Nat /\ begun[part] \in Nat
    BY <1>0, ReadsTyped DEF TypeOK
  <2>3. store' = store /\ pc = "commit"  BY <1>9 DEF SkipCommit, external
  <2>4. workers > 0 => Carried(part)
    BY <1>0, <2>3 DEF ReachInv
  <2>5. workers > 0 => store'[part] >= begun[part]
    BY <2>1, <2>2, <2>3, <2>4 DEF Carried
  <2> QED  BY <1>0, <1>9, <2>3, <2>5, CommittedReaches DEF SkipCommit
<1>10. CASE DecideCommit
  BY <1>0, <1>10 DEF DecideCommit, ReachInv, CommitsWhatItFound, Carried, AsRead, external, locals
<1>11. CASE PutCommitted
  <2>1. pc = "put" /\ store' = [store EXCEPT ![part] = prog[part]]
    BY <1>11 DEF PutCommitted
  <2>2. /\ store'[part] = prog[part]
        /\ \A p \in Partitions : p # part => store'[p] = store[p]
        /\ store[part] \in Nat /\ prog[part] \in Nat /\ begun[part] \in Nat
    BY <1>0, <2>1 DEF TypeOK
  <2>3. workers > 0 => Carried(part)
    BY <1>0, <2>1 DEF ReachInv
  <2>4. prog[part] >= store[part]  BY <1>0, <2>1, PutNotBack
  <2>5. workers > 0 => store'[part] >= begun[part]
    BY <2>2, <2>3, <2>4 DEF Carried
  <2> QED  BY <1>0, <1>11, <2>1, <2>2, <2>5, CommittedReaches DEF PutCommitted
<1>12. CASE Rest("failed")
  BY <1>2, <1>12 DEF Rest, Resting
<1>13. CASE StartSession
  BY <1>2, <1>13 DEF StartSession, BeginEpoch
<1>14. CASE Measure
  BY <1>2, <1>14 DEF Measure, NextPartition
<1>15. ASSUME NEW x \in late, ApplyLate(x) PROVE FALSE
  BY <1>0, <1>15
<1> QED
  BY <1>1, <1>3, <1>4, <1>5, <1>6, <1>7, <1>8, <1>9, <1>10, <1>11, <1>12, <1>13, <1>14, <1>15
  DEF Next, Driver, Push, JoinPanicked, PutRefused, PutUnanswered, Crash, vars, external, locals,
      scope
----------------------------------------------------------------------------
\* Two multiples of m are m apart.
LEMMA Apart ==
  ASSUME NEW m \in Nat \ {0}, NEW a \in Nat, NEW b \in Nat, a % m = 0, b % m = 0, a < b
  PROVE  a + m <= b
<1>1. PICK q \in Nat : a = m * q
  <2>1. a = m * (a \div m) + (a % m) /\ a \div m \in Nat  BY Division
  <2>2. m * (a \div m) \in Int  BY <2>1, Z3
  <2>3. a = m * (a \div m)  BY <2>1, <2>2
  <2> QED  BY <2>1, <2>3, Zenon
<1>0. PICK r \in Nat : b = m * r
  <2>1. b = m * (b \div m) + (b % m) /\ b \div m \in Nat  BY Division
  <2>2. m * (b \div m) \in Int  BY <2>1, Z3
  <2>3. b = m * (b \div m)  BY <2>1, <2>2
  <2> QED  BY <2>1, <2>3, Zenon
<1>2. b - a = m * (r - q)
  <2>1. m * (r - q) = m * r - m * q  BY SMT
  <2> QED  BY <1>0, <1>1, <2>1
<1>3. r - q >= 1
  <2>1. SUFFICES ASSUME r - q <= 0 PROVE FALSE  OBVIOUS
  <2>2. m * (r - q) <= 0  BY <2>1, Z3
  <2> QED  BY <1>2, <2>2
<1>4. m * (r - q) >= m  BY <1>3, Z3
<1> QED  BY <1>2, <1>4

\* plan_work plans no record twice.
LEMMA UnitsDisjoint ==
  ASSUME NEW p \in Partitions, NEW c \in Nat, NEW h \in Nat,
         NEW u \in UnitsOf(p, c, h), NEW v \in UnitsOf(p, c, h), u # v
  PROVE  u.end <= v.start \/ v.end <= u.start
<1>1. PICK s \in c..(h - 1) :
        (s - c) % PerUnit = 0 /\ u = [part |-> p, start |-> s, end |-> Smaller(s + PerUnit, h)]
  BY DEF UnitsOf
<1>2. PICK z \in c..(h - 1) :
        (z - c) % PerUnit = 0 /\ v = [part |-> p, start |-> z, end |-> Smaller(z + PerUnit, h)]
  BY DEF UnitsOf
<1>3. \A n \in Nat : Smaller(n + PerUnit, h) <= n + PerUnit
  BY DEF Smaller
<1>4. CASE s < z
  <2>1. (s - c) + PerUnit <= z - c
    <3>1. s - c \in Nat /\ z - c \in Nat /\ s - c < z - c  BY <1>4
    <3> QED  BY <1>1, <1>2, <3>1, Apart
  <2>2. s + PerUnit <= z  BY <2>1
  <2>3. s \in Nat /\ Smaller(s + PerUnit, h) \in Int  BY DEF Smaller
  <2> QED  BY <1>1, <1>2, <1>3, <2>2, <2>3
<1>5. CASE z < s
  <2>1. (z - c) + PerUnit <= s - c
    <3>1. s - c \in Nat /\ z - c \in Nat /\ z - c < s - c  BY <1>5
    <3> QED  BY <1>1, <1>2, <3>1, Apart
  <2>2. z + PerUnit <= s  BY <2>1
  <2>3. z \in Nat /\ Smaller(z + PerUnit, h) \in Int  BY DEF Smaller
  <2> QED  BY <1>1, <1>2, <1>3, <2>2, <2>3
<1>6. s # z  BY <1>1, <1>2
<1> QED  BY <1>4, <1>5, <1>6

\* The records of a set of units, each with its partition.
LoadOf(S) == {r \in Partitions \X Nat : \E u \in S : u.part = r[1] /\ r[2] \in RecordsOf(u)}

Block(p, a, b) == {p} \X (a..(b - 1))

LEMMA BlockSize ==
  ASSUME NEW p, NEW a \in Nat, NEW b \in Nat
  PROVE  IsFiniteSet(Block(p, a, b)) /\ Cardinality(Block(p, a, b)) = Larger(b - a, 0)
<1>1. IsFiniteSet({p}) /\ Cardinality({p}) = 1  BY FS_Singleton
<1>2. /\ IsFiniteSet(a..(b - 1))
      /\ Cardinality(a..(b - 1)) = IF a > b - 1 THEN 0 ELSE (b - 1) - a + 1
  BY FS_Interval
<1>3. Cardinality(a..(b - 1)) = Larger(b - a, 0)
  BY <1>2 DEF Larger
<1>4. Larger(b - a, 0) \in Nat  BY DEF Larger
<1>5. Cardinality({p} \X (a..(b - 1))) = 1 * Larger(b - a, 0)
  BY <1>1, <1>2, <1>3, FS_Product
<1>6. IsFiniteSet({p} \X (a..(b - 1)))
  BY <1>1, <1>2, FS_Product
<1> QED  BY <1>4, <1>5, <1>6 DEF Block

\* plan_work plans just the records from the offset read to the log's end.
LEMMA UnitsLoad ==
  ASSUME NEW p \in Partitions, NEW c \in Nat, NEW h \in Nat
  PROVE  LoadOf(UnitsOf(p, c, h)) = Block(p, c, h)
<1>1. ASSUME NEW r \in LoadOf(UnitsOf(p, c, h)) PROVE r \in Block(p, c, h)
  <2>1. PICK u \in UnitsOf(p, c, h) : u.part = r[1] /\ r[2] \in RecordsOf(u)
    BY DEF LoadOf
  <2>2. PICK s \in c..(h - 1) : u = [part |-> p, start |-> s, end |-> Smaller(s + PerUnit, h)]
    BY <2>1 DEF UnitsOf
  <2>3. r[1] = p /\ r[2] \in c..(h - 1)
    BY <2>1, <2>2 DEF RecordsOf, Smaller
  <2>4. r \in Partitions \X Nat  BY DEF LoadOf
  <2> QED  BY <2>3, <2>4 DEF Block
<1>2. ASSUME NEW r \in Block(p, c, h) PROVE r \in LoadOf(UnitsOf(p, c, h))
  <2>1. r = <<p, r[2]>> /\ r[1] = p /\ r[2] \in c..(h - 1)  BY DEF Block
  <2>2. \E u \in UnitsOf(p, c, h) : u.part = p /\ r[2] \in RecordsOf(u)
    BY <2>1, UnitsCover
  <2>3. r[2] \in Nat  BY <2>1
  <2>4. r \in Partitions \X Nat  BY <2>1, <2>3
  <2> QED  BY <2>1, <2>2, <2>4 DEF LoadOf
<1> QED  BY <1>1, <1>2

LEMMA UnitLoad ==
  ASSUME NEW u \in Unit
  PROVE  LoadOf({u}) = Block(u.part, u.start, u.end)
<1>0. u.part \in Partitions /\ u.start \in Nat /\ u.end \in Nat  BY DEF Unit
<1>1. ASSUME NEW r \in LoadOf({u}) PROVE r \in Block(u.part, u.start, u.end)
  <2>1. r[1] = u.part /\ r[2] \in u.start..(u.end - 1) /\ r \in Partitions \X Nat
    BY DEF LoadOf, RecordsOf
  <2> QED  BY <2>1 DEF Block
<1>2. ASSUME NEW r \in Block(u.part, u.start, u.end) PROVE r \in LoadOf({u})
  <2>1. r = <<u.part, r[2]>> /\ r[1] = u.part /\ r[2] \in u.start..(u.end - 1)  BY DEF Block
  <2>2. r[2] \in Nat  BY <1>0, <2>1
  <2>3. r \in Partitions \X Nat  BY <1>0, <2>1, <2>2
  <2> QED  BY <2>1, <2>3 DEF LoadOf, RecordsOf
<1> QED  BY <1>1, <1>2
----------------------------------------------------------------------------
Outstandings == {u \in Unit : Outstanding(u)}

OnceInv ==
  /\ \A u, v \in Unit : Outstanding(u) /\ Outstanding(v) /\ u # v /\ u.part = v.part =>
       u.end <= v.start \/ v.end <= u.start
  /\ \A u \in Unit : Outstanding(u) => u.start < u.end
  /\ \A t \in Threads : thread[t].pc = "process" => thread[t].unit \notin units
  /\ \A t, s \in Threads :
       thread[t].pc = "process" /\ thread[s].pc = "process" /\ t # s =>
         thread[t].unit # thread[s].unit

ExactInv ==
  /\ pc \notin Resting \cup {"commit", "put"} /\ ~panicked =>
       /\ IsFiniteSet(LoadOf(Outstandings))
       /\ records + Cardinality(LoadOf(Outstandings)) = planned
  /\ EpochExact

LEMMA OnceKept ==
  ASSUME OnceInv, UNCHANGED thread, units' \subseteq units
  PROVE  OnceInv'
BY DEF OnceInv, Outstanding

LEMMA OnceEmpty ==
  ASSUME units' = {}, \A t \in Threads : thread'[t].pc = "gone"
  PROVE  OnceInv'
BY DEF OnceInv, Outstanding

LEMMA OnceNext ==
  ASSUME TypeOK, ThreadsInv, PlanInv, OnceInv, [Next]_vars
  PROVE  OnceInv'
<1>1. CASE UNCHANGED <<thread, units>>
  BY <1>1, OnceKept
<1>2. CASE Plan
  <2>1. PICK read \in Reads(part) :
          /\ units' = units \cup UnitsOf(part, read, log[part])
          /\ \A u \in Unit : Held(u)' <=> u \in units'
    BY <1>2, PlanHolds
  <2>2. part \in Partitions /\ read \in Nat /\ log[part] \in Nat
    BY ReadsTyped DEF TypeOK
  <2> DEFINE new == UnitsOf(part, read, log[part])
  <2>3. /\ \A u \in new : u.part = part /\ u.start < u.end
        /\ \A u, v \in new : u # v => u.end <= v.start \/ v.end <= u.start
    BY <2>2, UnitsTyped, UnitsDisjoint
  <2>4. \A u \in units : u.part # part
    <3>1. \A u \in units : u.part < part  BY <1>2 DEF PlanInv, Plan
    <3>2. part \in Int  BY <2>2 DEF Partitions
    <3> QED  BY <3>1, <3>2
  <2> HIDE DEF new
  <2>5. thread' = thread /\ \A t \in Threads : thread[t].pc = "gone"
    BY <1>2 DEF Plan, scope, ThreadsInv
  <2>6. \A u : Outstanding(u)' <=> Outstanding(u) \/ u \in new
    BY <2>1, <2>5 DEF Outstanding, new
  <2>7. \A u : Outstanding(u) => u \in units
    BY <2>5 DEF Outstanding
  <2> QED  BY <2>3, <2>4, <2>5, <2>6, <2>7 DEF OnceInv
<1>3. CASE Spawn
  BY <1>3 DEF Spawn, locals, OnceInv, Outstanding
<1>4. ASSUME NEW t \in Threads, Work(t) PROVE OnceInv'
  <2>1. CASE Pop(t)
    <3>1. PICK v \in units : /\ units' = units \ {v}
                            /\ thread' = [thread EXCEPT ![t] = [pc |-> "process", unit |-> v]]
      BY <2>1 DEF Pop
    <3>2. /\ thread[t].pc = "pop" /\ thread'[t].pc = "process" /\ thread'[t].unit = v
          /\ \A s \in Threads : s # t => thread'[s] = thread[s]
      BY <2>1, <3>1 DEF TypeOK, Pop
    <3>3. \A u : Outstanding(u)' <=> Outstanding(u)
      BY <3>1, <3>2 DEF Outstanding
    <3>4. /\ \A s \in Threads : thread'[s].pc = "process" => thread'[s].unit \notin units'
          /\ \A r, s \in Threads :
               thread'[r].pc = "process" /\ thread'[s].pc = "process" /\ r # s =>
                 thread'[r].unit # thread'[s].unit
      BY <3>1, <3>2 DEF OnceInv
    <3> QED  BY <3>3, <3>4 DEF OnceInv
  <2>2. CASE ~Pop(t)
    <3>1. /\ units' = units /\ thread'[t].pc # "process"
          /\ \A s \in Threads : s # t => thread'[s] = thread[s]
      BY <1>4, <2>2 DEF TypeOK, Work, FindEmpty, ProcessUnit, Panic, Advance, locals
    <3>2. \A u : Outstanding(u)' => Outstanding(u)
      BY <3>1 DEF Outstanding
    <3> QED  BY <3>1, <3>2 DEF OnceInv
  <2> QED  BY <2>1, <2>2
<1>5. ASSUME NEW how, Rest(how) PROVE OnceInv'
  BY <1>5, OnceEmpty DEF Rest, AllGone
<1>6. ASSUME pc # "join", NEW e, BeginEpoch(e), UNCHANGED scope PROVE OnceInv'
  BY <1>6, OnceEmpty DEF BeginEpoch, scope, ThreadsInv
<1>7. ASSUME Committed, pc # "join" PROVE OnceInv'
  BY <1>1, <1>5, <1>6, <1>7 DEF Committed, locals, scope
<1>8. CASE StartSession
  BY <1>6, <1>8 DEF StartSession, Resting
<1>9. CASE SkipCommit \/ PutCommitted
  BY <1>7, <1>9 DEF SkipCommit, PutCommitted
<1>10. CASE JoinPanicked \/ PutRefused \/ PutUnanswered \/ Crash
  BY <1>5, <1>10 DEF JoinPanicked, PutRefused, PutUnanswered, Crash
<1> QED
  BY <1>1, <1>2, <1>3, <1>4, <1>8, <1>9, <1>10
  DEF Next, Driver, Push, ApplyLate, Measure, Size, InitProgress, Join, DecideCommit, vars,
      locals, scope
----------------------------------------------------------------------------
\* Nothing outstanding is no records.
LEMMA NoLoad ==
  IsFiniteSet(LoadOf({})) /\ Cardinality(LoadOf({})) = 0
<1>1. LoadOf({}) = {}  BY DEF LoadOf
<1> QED  BY <1>1, FS_EmptySet

\* The records planned for one partition come on top.
LEMMA PlanExact ==
  ASSUME TypeOK, ThreadsInv, PlanInv, ExactInv, Plan, ~panicked
  PROVE  /\ IsFiniteSet(LoadOf(Outstandings'))
         /\ records' + Cardinality(LoadOf(Outstandings')) = planned'
<1>1. PICK read \in Reads(part) :
        /\ units' = units \cup UnitsOf(part, read, log[part])
        /\ planned' = planned + Larger(log[part] - read, 0)
  BY PlanHolds
<1>2. part \in Partitions /\ read \in Nat /\ log[part] \in Nat /\ part \in Int
  <2>1. part \in Partitions /\ log[part] \in Nat  BY DEF TypeOK
  <2>2. read \in Nat  BY <2>1, ReadsTyped
  <2> QED  BY <2>1, <2>2 DEF Partitions
<1> DEFINE new == UnitsOf(part, read, log[part])
           old == LoadOf(Outstandings)
           add == Block(part, read, log[part])
<1>3. thread' = thread /\ \A t \in Threads : thread[t].pc = "gone"
  BY DEF Plan, scope, ThreadsInv
<1>4. Outstandings = units /\ Outstandings' = units \cup new
  <2>1. new \in SUBSET Unit  BY <1>2, UnitsTyped
  <2>2. units \in SUBSET Unit  BY DEF TypeOK
  <2> QED  BY <1>1, <1>3, <2>1, <2>2 DEF Outstandings, Outstanding
<1>5. LoadOf(Outstandings') = old \cup LoadOf(new)
  BY <1>4 DEF LoadOf
<1>6. LoadOf(new) = add  BY <1>2, UnitsLoad
<1>7. old \cap add = {}
  <2>1. \A r \in add : r[1] = part  BY DEF Block
  <2>2. \A u \in units : u.part < part  BY DEF PlanInv, Plan
  <2>3. \A r \in old : r[1] # part  BY <1>2, <1>4, <2>2 DEF LoadOf
  <2> QED  BY <2>1, <2>3
<1>8. IsFiniteSet(old) /\ records + Cardinality(old) = planned
  BY DEF ExactInv, Plan, Resting
<1>9. IsFiniteSet(add) /\ Cardinality(add) = Larger(log[part] - read, 0)
  BY <1>2, BlockSize
<1> HIDE DEF new, old, add
<1>10. /\ IsFiniteSet(old \cup add)
       /\ Cardinality(old \cup add) = Cardinality(old) + Cardinality(add) - Cardinality(old \cap add)
  BY <1>8, <1>9, FS_Union
<1>11. Cardinality(old \cap add) = 0  BY <1>7, FS_EmptySet
<1>12. Cardinality(old) \in Nat /\ Cardinality(add) \in Nat
  BY <1>8, <1>9, FS_CardinalityType
<1>13. Cardinality(old \cup add) = Cardinality(old) + Cardinality(add)
  BY <1>10, <1>11, <1>12
<1>14. records' = records /\ records \in Int /\ planned \in Nat
  BY DEF Plan, TypeOK
<1>15. records' + (Cardinality(old) + Cardinality(add)) = planned'
  BY <1>1, <1>8, <1>9, <1>12, <1>14
<1> QED  BY <1>5, <1>6, <1>10, <1>13, <1>15

\* A unit processed is counted and no longer outstanding.
LEMMA ProcessExact ==
  ASSUME TypeOK, ThreadsInv, OnceInv, ExactInv, NEW t \in Threads, ProcessUnit(t), ~panicked
  PROVE  /\ IsFiniteSet(LoadOf(Outstandings'))
         /\ records' + Cardinality(LoadOf(Outstandings')) = planned'
<1> DEFINE u == thread[t].unit
           old == LoadOf(Outstandings)
           gone == Block(u.part, u.start, u.end)
<1>1. /\ thread[t].pc = "process" /\ thread'[t].pc = "advance" /\ units' = units
      /\ \A s \in Threads : s # t => thread'[s] = thread[s]
      /\ records' = records + (u.end - u.start) /\ planned' = planned
  BY DEF TypeOK, ProcessUnit
<1>2. u \in Unit /\ u.start \in Nat /\ u.end \in Nat /\ u.part \in Partitions
  BY DEF TypeOK, Unit
<1>3. Outstanding(u) /\ u.start < u.end  BY <1>1, <1>2 DEF Outstanding, OnceInv
<1>4. pc = "join"  BY <1>1 DEF ThreadsInv
<1>5. IsFiniteSet(old) /\ records + Cardinality(old) = planned
  BY <1>4 DEF ExactInv, Resting
<1> HIDE DEF u
<1>6. \A v : Outstanding(v)' <=> Outstanding(v) /\ v # u
  BY <1>1, <1>3 DEF Outstanding, OnceInv, u
<1>7. Outstandings' = Outstandings \ {u} /\ u \in Outstandings
  BY <1>2, <1>3, <1>6 DEF Outstandings
<1>8. gone = LoadOf({u})  BY <1>2, UnitLoad
<1>9. LoadOf(Outstandings') = old \ gone
  <2>1. LoadOf(Outstandings') \cup gone = old
    BY <1>7, <1>8 DEF LoadOf
  <2>2. ASSUME NEW r \in LoadOf(Outstandings'), r \in gone PROVE FALSE
    <3>1. PICK v \in Outstandings : v # u /\ v.part = r[1] /\ r[2] \in RecordsOf(v)
      BY <1>7, <2>2 DEF LoadOf
    <3>2. r[1] = u.part /\ r[2] \in RecordsOf(u)
      BY <1>8, <2>2 DEF LoadOf
    <3>3. v \in Unit /\ Outstanding(v) /\ v.start \in Nat /\ v.end \in Nat
      BY DEF Outstandings, Unit
    <3>4. v.end <= u.start \/ u.end <= v.start
      BY <1>2, <1>3, <3>1, <3>2, <3>3 DEF OnceInv
    <3> QED  BY <1>2, <3>1, <3>2, <3>3, <3>4 DEF RecordsOf
  <2> QED  BY <2>1, <2>2
<1>10. gone \subseteq old  BY <1>7, <1>8 DEF LoadOf
<1>11. IsFiniteSet(gone) /\ Cardinality(gone) = u.end - u.start
  <2>1. Larger(u.end - u.start, 0) = u.end - u.start  BY <1>2, <1>3 DEF Larger
  <2> QED  BY <1>2, <2>1, BlockSize
<1> HIDE DEF old, gone
<1>12. old \cap gone = gone  BY <1>10
<1>13. /\ IsFiniteSet(old \ gone)
       /\ Cardinality(old \ gone) = Cardinality(old) - Cardinality(old \cap gone)
  BY <1>5, FS_Difference
<1>14. Cardinality(old) \in Nat  BY <1>5, FS_CardinalityType
<1>15. records \in Int /\ planned \in Nat  BY DEF TypeOK
<1>16. records' + Cardinality(old \ gone) = planned'
  <2>1. PICK k \in Nat : k = u.end - u.start  BY <1>2, <1>3
  <2>2. PICK n \in Nat : n = Cardinality(old)  BY <1>14
  <2>3. Cardinality(old \ gone) = n - k  BY <1>11, <1>12, <1>13, <2>1, <2>2
  <2>4. records' = records + k /\ planned' = planned /\ records + n = planned
    BY <1>1, <1>5, <2>1, <2>2 DEF u
  <2> QED  BY <1>15, <2>3, <2>4
<1> QED  BY <1>9, <1>13, <1>16
----------------------------------------------------------------------------
\* A step that neither plans nor processes.
LEMMA ExactKept ==
  ASSUME ExactInv, UNCHANGED <<records, planned, panicked>>,
         pc \notin Resting \cup {"commit", "put"}, pc' \notin {"commit", "put"}, \A u : Outstanding(u)' <=> Outstanding(u)
  PROVE  ExactInv'
<1>1. Outstandings' = Outstandings  BY DEF Outstandings
<1>2. LoadOf(Outstandings)' = LoadOf(Outstandings)  BY <1>1 DEF LoadOf
<1> QED  BY <1>2 DEF ExactInv, EpochExact

\* The scope is over: every unit has been processed, if there were threads.
LEMMA JoinExact ==
  ASSUME TypeOK, ThreadsInv, ExactInv, Join
  PROVE  ExactInv'
<1>1. SUFFICES ASSUME workers > 0 PROVE records = planned
  BY DEF Join, locals, ExactInv, EpochExact
<1>2. 1 \in Threads /\ 1 <= workers
  BY <1>1 DEF TypeOK, Threads, Larger
<1>3. units = {} /\ \A t \in Threads : thread[t].pc = "gone"
  BY <1>2 DEF ThreadsInv, Join
<1>4. Outstandings = {}  BY <1>3 DEF Outstandings, Outstanding
<1>5. records + Cardinality(LoadOf({})) = planned
  BY <1>4 DEF ExactInv, Join, Resting
<1>6. records \in Int /\ planned \in Nat  BY DEF TypeOK
<1> QED  BY <1>5, <1>6, NoLoad

LEMMA ExactNext ==
  ASSUME TypeOK, ThreadsInv, PlanInv, OnceInv, ExactInv, [Next]_vars
  PROVE  ExactInv'
<1>1. CASE UNCHANGED <<pc, workers, units, thread, panicked, records, planned>>
  <2>1. Outstandings' = Outstandings  BY <1>1 DEF Outstandings, Outstanding
  <2>2. LoadOf(Outstandings)' = LoadOf(Outstandings)  BY <2>1 DEF LoadOf
  <2> QED  BY <1>1, <2>2 DEF ExactInv, EpochExact
<1>2. CASE pc' \in Resting
  BY <1>2 DEF ExactInv, EpochExact, Resting
<1>3. ASSUME pc # "join", NEW e, BeginEpoch(e), UNCHANGED scope PROVE ExactInv'
  <2>1. Outstandings' = {}
    BY <1>3 DEF BeginEpoch, scope, ThreadsInv, Outstandings, Outstanding
  <2>2. LoadOf(Outstandings)' = LoadOf({})  BY <2>1 DEF LoadOf
  <2>3. records' = 0 /\ planned' = 0 /\ pc' = "measure"  BY <1>3 DEF BeginEpoch
  <2> QED  BY <2>2, <2>3, NoLoad DEF ExactInv, EpochExact
<1>4. CASE Measure \/ Size \/ InitProgress
  <2>1. UNCHANGED <<records, planned, panicked, units, thread>>
    BY <1>4 DEF Measure, Size, InitProgress, scope
  <2>2. /\ pc \notin Resting \cup {"commit", "put"}
        /\ pc' \notin {"commit", "put"}
    BY <1>4 DEF Measure, Size, InitProgress, NextPartition, Resting
  <2>3. \A u : Outstanding(u)' <=> Outstanding(u)  BY <2>1 DEF Outstanding
  <2> QED  BY <2>1, <2>2, <2>3, ExactKept
<1>5. CASE Plan
  <2>1. panicked' = panicked  BY <1>5 DEF Plan, scope
  <2>2. pc' \notin {"commit", "put"}
    BY <1>5 DEF Plan, NextPartition
  <2>3. ~panicked =>
          /\ IsFiniteSet(LoadOf(Outstandings'))
          /\ records' + Cardinality(LoadOf(Outstandings')) = planned'
    BY <1>5, PlanExact
  <2>4. LoadOf(Outstandings)' = LoadOf(Outstandings')  BY DEF LoadOf
  <2> QED  BY <2>1, <2>2, <2>3, <2>4 DEF ExactInv, EpochExact
<1>6. CASE Spawn
  <2>1. \A u : Outstanding(u)' <=> Outstanding(u)
    BY <1>6 DEF Spawn, locals, ThreadsInv, Outstanding
  <2> QED  BY <1>6, <2>1, ExactKept DEF Spawn, locals, Resting
<1>7. ASSUME NEW t \in Threads, Work(t) PROVE ExactInv'
  <2>1. pc = "join" /\ pc' = pc  BY <1>7, WorkAtJoin
  <2>2. CASE ProcessUnit(t)
    <3>1. LoadOf(Outstandings)' = LoadOf(Outstandings')  BY DEF LoadOf
    <3>2. panicked' = panicked  BY <2>2 DEF ProcessUnit
    <3> QED  BY <2>1, <2>2, <3>1, <3>2, ProcessExact DEF ExactInv, EpochExact
  <2>3. CASE Panic(t)
    BY <2>1, <2>3 DEF Panic, ExactInv, EpochExact
  <2>4. CASE Pop(t)
    <3>1. PICK v \in units : /\ units' = units \ {v}
                            /\ thread' = [thread EXCEPT ![t] = [pc |-> "process", unit |-> v]]
      BY <2>4 DEF Pop
    <3>2. /\ thread[t].pc = "pop" /\ thread'[t].pc = "process" /\ thread'[t].unit = v
          /\ \A s \in Threads : s # t => thread'[s] = thread[s]
      BY <2>4, <3>1 DEF TypeOK, Pop
    <3>3. \A u : Outstanding(u)' <=> Outstanding(u)
      BY <3>1, <3>2 DEF Outstanding
    <3> QED  BY <2>1, <2>4, <3>3, ExactKept DEF Pop, Resting
  <2>5. CASE FindEmpty(t) \/ Advance(t)
    <3>1. /\ units' = units /\ thread[t].pc # "process" /\ thread'[t].pc # "process"
          /\ \A s \in Threads : s # t => thread'[s] = thread[s]
      BY <2>5 DEF TypeOK, FindEmpty, Advance, locals
    <3>2. \A u : Outstanding(u)' <=> Outstanding(u)
      BY <3>1 DEF Outstanding
    <3>3. UNCHANGED <<records, planned, panicked>>
      BY <2>5 DEF FindEmpty, Advance, locals
    <3> QED  BY <2>1, <3>2, <3>3, ExactKept DEF Resting
  <2> QED  BY <1>7, <2>2, <2>3, <2>4, <2>5 DEF Work
<1>8. ASSUME UNCHANGED <<workers, records, planned>>,
             pc \in {"commit", "put"}, pc' \in {"commit", "put"}
      PROVE  ExactInv'
  BY <1>8 DEF ExactInv, EpochExact
<1>9. ASSUME Committed, pc \in {"commit", "put"} PROVE ExactInv'
  <2>1. CASE Rest("exhausted")
    BY <1>2, <2>1 DEF Rest, Resting
  <2> QED  BY <1>3, <1>8, <1>9, <2>1 DEF Committed, locals
<1>10. CASE StartSession
  BY <1>3, <1>10 DEF StartSession, Resting
<1>11. CASE SkipCommit \/ PutCommitted
  BY <1>9, <1>11 DEF SkipCommit, PutCommitted
<1>12. CASE JoinPanicked \/ PutRefused \/ PutUnanswered \/ Crash
  BY <1>2, <1>12 DEF JoinPanicked, PutRefused, PutUnanswered, Crash, Rest, Resting
<1>13. CASE DecideCommit
  BY <1>8, <1>13 DEF DecideCommit, locals
<1> QED
  BY <1>1, <1>4, <1>5, <1>6, <1>7, <1>10, <1>11, <1>12, <1>13, JoinExact
  DEF Next, Driver, Push, ApplyLate, vars, locals, scope
----------------------------------------------------------------------------
EpochInv == LogInv /\ StoredInv /\ PlanInv /\ ReachInv /\ OnceInv /\ ExactInv

\* The strengthening of what an epoch does, and what its reads leave open.
THEOREM EpochInductive == Spec => []EpochInv
<1>1. Init => EpochInv
  <2> SUFFICES ASSUME Init PROVE EpochInv  OBVIOUS
  <2>1. /\ \A p \in Partitions : log[p] = 0 /\ store[p] = 0 /\ prog[p] = 0
        /\ \A u : ~Held(u) /\ ~Outstanding(u)
        /\ units = {} /\ late = {} /\ pc = "new" /\ part = 0 /\ records = 0 /\ planned = 0
        /\ \A t \in Threads : thread[t].pc = "gone"
    BY DEF Init, Held, Outstanding, AllGone
  <2>2. LogInv  BY <2>1 DEF LogInv
  <2>3. StoredInv  BY <2>1 DEF StoredInv, Resting
  <2>4. PlanInv  BY <2>1 DEF PlanInv
  <2>5. ReachInv  BY <2>1 DEF ReachInv, CommitsWhatItFound
  <2>6. OnceInv  BY <2>1 DEF OnceInv
  <2>7. ExactInv  BY <2>1 DEF ExactInv, EpochExact, Resting
  <2> QED  BY <2>2, <2>3, <2>4, <2>5, <2>6, <2>7 DEF EpochInv
<1>2. IInv /\ EpochInv /\ [Next]_vars => EpochInv'
  <2> SUFFICES ASSUME IInv, EpochInv, [Next]_vars PROVE EpochInv'  OBVIOUS
  <2>1. TypeOK /\ ThreadsInv /\ FoundInv  BY DEF IInv
  <2>2. LogInv /\ StoredInv /\ PlanInv /\ ReachInv /\ OnceInv /\ ExactInv
    BY DEF EpochInv
  <2> QED
    BY <2>1, <2>2, LogNext, StoredNext, PlanNext, ReachNext, OnceNext, ExactNext DEF EpochInv
<1> QED  BY <1>1, <1>2, Inductive, PTL DEF Spec

\* An epoch with threads counts every planned record once before it
\* commits, and leaves no partition's offset behind the log it found.
THEOREM EpochsComplete == Spec => []EpochComplete
<1>1. IInv /\ EpochInv => EpochComplete
  <2> SUFFICES ASSUME IInv, EpochInv PROVE EpochComplete  OBVIOUS
  <2>1. EpochExact  BY DEF EpochInv, ExactInv
  <2>2. CommitsWhatItFound
    BY DEF EpochInv, ReachInv, CommitsWhatItFound
  <2> QED  BY <2>1, <2>2 DEF EpochComplete
<1> QED  BY <1>1, Inductive, EpochInductive, PTL

\* The stored offset of a partition goes back in no step, as long as every
\* put was answered: neither a read that failed nor the order in which the
\* threads finish makes run_epoch store less than is there.
THEOREM OffsetsAdvance == Spec => NeverBack
<1>1. IInv /\ EpochInv /\ [Next]_vars =>
        [unanswered = 0 => \A p \in Partitions : store'[p] >= store[p]]_store
  <2> SUFFICES ASSUME IInv, EpochInv, Next, store' # store, unanswered = 0
               PROVE  \A p \in Partitions : store'[p] >= store[p]
    BY DEF vars, external
  <2>1. TypeOK /\ ThreadsInv  BY DEF IInv
  <2>2. PlanInv /\ StoredInv /\ ReachInv  BY DEF EpochInv
  <2>3. late = {}  BY <2>2 DEF StoredInv
  <2>4. PutCommitted
    <3>1. ASSUME NEW t \in Threads, Work(t) PROVE UNCHANGED store
      BY <2>1, <3>1, WorkAtJoin DEF external
    <3> QED
      BY <2>3, <3>1
      DEF Next, Driver, Push, ApplyLate, StartSession, Measure, Size, Plan, InitProgress, Spawn,
          Join, JoinPanicked, SkipCommit, DecideCommit, PutRefused, PutUnanswered, Crash, external
  <2>5. store' = [store EXCEPT ![part] = prog[part]] /\ pc = "put"
    BY <2>4 DEF PutCommitted
  <2>6. prog[part] >= store[part]  BY <2>1, <2>2, <2>5, PutNotBack
  <2>7. store \in [Partitions -> Nat]  BY <2>1 DEF TypeOK
  <2> QED  BY <2>5, <2>6, <2>7
<1> QED  BY <1>1, Inductive, EpochInductive, PTL DEF Spec, NeverBack
============================================================================
