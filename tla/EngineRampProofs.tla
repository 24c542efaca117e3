-------------------------- MODULE EngineRampProofs --------------------------
(***************************************************************************)
(* Theorems about EngineRamp, for every number of tasks and threads: its   *)
(* types, and that it implements TaskPool.                                 *)
(***************************************************************************)
EXTENDS EngineRamp, FiniteSetTheorems, TLAPS

Past == {t \in Threads : thread[t].pc \in {"push", "ended"}}

ThreadRecords == [pc : {"claim", "run", "push", "ended"}, task : Nat, part : SUBSET Tasks]

\* TypeOK, with the threads that have gone past the last task counted.
TypeInv ==
  /\ next \in Nat
  /\ next <= NTasks + Cardinality(Past)
  /\ thread \in [Threads -> ThreadRecords]
  /\ results \in [Tasks -> Nat]
  /\ scope \in {"open", "closed"}

\* A thread holds claimed tasks only, and is not yet counting the one it runs.
ClaimsHeld ==
  \A t \in Threads :
    /\ \A x \in thread[t].part : x < next
    /\ thread[t].pc = "run" => /\ thread[t].task < next /\ thread[t].task \in Tasks
                               /\ thread[t].task \notin thread[t].part

\* A claimed task is with one thread, or in the results, there once.
HeldOnce ==
  /\ \A t, u \in Threads : t # u => Holds(t) \cap Holds(u) = {}
  /\ \A x \in Tasks :
       results[x] = IF x < next /\ \A t \in Threads : x \notin Holds(t) THEN 1 ELSE 0

\* Who has gone past the last task has seen the counter there.
PastTheLast ==
  /\ \A t \in Past : next >= NTasks
  /\ scope = "closed" => \A t \in Threads : thread[t].pc = "ended"

Inv == TypeInv /\ ClaimsHeld /\ HeldOnce /\ PastTheLast

LEMMA InitInv == Init => Inv
<1> SUFFICES ASSUME Init PROVE Inv
  OBVIOUS
<1> USE DEF Init
<1>1. Past = {} /\ Cardinality(Past) = 0
  BY FS_EmptySet DEF Past
<1>2. TypeInv
  BY <1>1, NTasksAssumption DEF TypeInv, ThreadRecords
<1>3. \A t \in Threads : Holds(t) = {}
  BY DEF Holds
<1>4. ClaimsHeld /\ HeldOnce /\ PastTheLast
  BY <1>1, <1>3, ThreadsAssumption DEF ClaimsHeld, HeldOnce, PastTheLast, Tasks
<1>5. QED
  BY <1>2, <1>4 DEF Inv

\* One thread goes on: who is past the last task afterwards.
LEMMA PastGrows ==
  ASSUME Inv, NEW t \in Threads, thread[t].pc \notin {"push", "ended"},
         NEW r \in ThreadRecords, thread' = [thread EXCEPT ![t] = r]
  PROVE  /\ r.pc \in {"push", "ended"} => Cardinality(Past') = Cardinality(Past) + 1
         /\ r.pc \notin {"push", "ended"} => Past' = Past
<1> USE DEF Inv, TypeInv, Past
<1>1. IsFiniteSet(Past) /\ t \notin Past
  BY ThreadsAssumption, FS_Subset
<1>2. CASE r.pc \in {"push", "ended"}
  <2>1. Past' = Past \cup {t}
    BY <1>2
  <2> HIDE DEF Past
  <2>2. Cardinality(Past') = Cardinality(Past) + 1
    BY <1>1, <2>1, FS_AddElement
  <2>3. QED
    BY <1>2, <2>2
<1>3. CASE r.pc \notin {"push", "ended"}
  BY <1>1, <1>3
<1>4. QED
  BY <1>2, <1>3

LEMMA PastCounted == IsFiniteSet(Past) /\ Cardinality(Past) \in Nat
BY ThreadsAssumption, FS_Subset, FS_CardinalityType DEF Past

LEMMA ClaimInv ==
  ASSUME Inv, NEW t \in Threads, Claim(t)
  PROVE  Inv'
<1> DEFINE r == [thread[t] EXCEPT !.pc = IF next < NTasks THEN "run" ELSE "push", !.task = next]
<1>0. thread[t] \in ThreadRecords /\ next \in Nat /\ next' = next + 1 /\ scope' = scope
  BY DEF Inv, TypeInv, Claim
<1>1. /\ r \in ThreadRecords /\ thread' = [thread EXCEPT ![t] = r]
      /\ r.task = next /\ r.part = thread[t].part
      /\ r.pc = IF next < NTasks THEN "run" ELSE "push"
  BY <1>0 DEF Claim, ThreadRecords, Inv, TypeInv
<1> HIDE DEF r
<1>2. thread[t].pc = "claim"
  BY DEF Claim
<1>3. /\ thread' \in [Threads -> ThreadRecords] /\ thread'[t] = r
      /\ \A u \in Threads \ {t} : thread'[u] = thread[u]
  BY <1>1 DEF Inv, TypeInv
<1>4. /\ r.pc = "push" => Cardinality(Past') = Cardinality(Past) + 1
      /\ r.pc = "run" => Past' = Past
  BY <1>1, <1>2, PastGrows
<1>5. TypeInv'
  <2>1. next' <= NTasks + Cardinality(Past')
    <3>1. CASE next < NTasks
      BY <1>0, <1>1, <1>4, <3>1, PastCounted, NTasksAssumption
    <3>2. CASE next >= NTasks
      BY <1>0, <1>1, <1>4, <3>2, PastCounted, NTasksAssumption DEF Inv, TypeInv
    <3>3. QED
      BY <1>0, <3>1, <3>2, NTasksAssumption
  <2>2. QED
    BY <1>0, <1>3, <2>1 DEF TypeInv, Inv, Claim
<1>6. \A u \in Threads : \A x \in thread[u].part : x \in Tasks /\ x < next
  BY DEF Inv, ClaimsHeld, TypeInv, ThreadRecords
<1>7. ClaimsHeld'
  <2>1. ASSUME NEW u \in Threads
        PROVE  /\ \A x \in thread'[u].part : x < next'
               /\ thread'[u].pc = "run" =>
                    /\ thread'[u].task < next' /\ thread'[u].task \in Tasks
                    /\ thread'[u].task \notin thread'[u].part
    <3>1. CASE u = t
      <4>1. r.pc = "run" => next \in Tasks
        BY <1>0, <1>1, NTasksAssumption DEF Tasks
      <4>2. \A x \in r.part : x \in Int /\ x < next
        BY <1>1, <1>6 DEF Tasks
      <4>3. QED
        BY <1>0, <1>1, <1>3, <3>1, <4>1, <4>2
    <3>2. CASE u # t
      <4>1. thread'[u] = thread[u] /\ thread[u].task \in Nat
        BY <1>3, <3>2 DEF Inv, TypeInv, ThreadRecords
      <4>2. \A x \in thread[u].part : x \in Int /\ x < next
        BY <1>6 DEF Tasks
      <4>3. QED
        BY <1>0, <4>1, <4>2 DEF Inv, ClaimsHeld
    <3>3. QED
      BY <3>1, <3>2
  <2>2. QED
    BY <2>1 DEF ClaimsHeld
<1>8. /\ Holds(t)' = Holds(t) \cup (IF next < NTasks THEN {next} ELSE {})
      /\ \A u \in Threads \ {t} : Holds(u)' = Holds(u)
  <2>1. Holds(t) = thread[t].part
    BY <1>2 DEF Holds
  <2>2. QED
    BY <1>1, <1>3, <2>1 DEF Holds
<1>9. \A u \in Threads : \A x \in Holds(u) : x < next
  BY <1>6 DEF Holds, Inv, ClaimsHeld
<1>10. HeldOnce'
  <2>1. \A u, v \in Threads : u # v => Holds(u)' \cap Holds(v)' = {}
    <3>1. ASSUME NEW u \in Threads \ {t} PROVE Holds(t)' \cap Holds(u) = {}
      <4>1. Holds(t) \cap Holds(u) = {}
        BY DEF Inv, HeldOnce
      <4>2. next \notin Holds(u)
        BY <1>0, <1>9
      <4>3. QED
        BY <1>8, <4>1, <4>2
    <3>2. QED
      BY <1>8, <3>1 DEF Inv, HeldOnce
  <2>2. ASSUME NEW x \in Tasks
        PROVE  results'[x] = IF x < next' /\ \A u \in Threads : x \notin Holds(u)' THEN 1 ELSE 0
    <3>1. results'[x] = results[x]
      BY DEF Claim
    <3>2. results[x] = IF x < next /\ \A u \in Threads : x \notin Holds(u) THEN 1 ELSE 0
      BY DEF Inv, HeldOnce
    <3>3. x \in Int /\ x < NTasks
      BY NTasksAssumption DEF Tasks
    <3>4. CASE x = next
      <4>1. x \in Holds(t)' /\ ~(x < next)
        BY <1>0, <1>8, <3>3, <3>4
      <4>2. QED
        BY <3>1, <3>2, <4>1
    <3>5. CASE x # next
      <4>1. x < next' <=> x < next
        BY <1>0, <3>3, <3>5
      <4>2. \A u \in Threads : x \in Holds(u)' <=> x \in Holds(u)
        BY <1>8, <3>5
      <4>3. QED
        BY <3>1, <3>2, <4>1, <4>2
    <3>6. QED
      BY <3>4, <3>5
  <2>3. QED
    BY <2>1, <2>2 DEF HeldOnce
<1>11. PastTheLast'
  <2>1. \A u \in Past' : next' >= NTasks
    BY <1>0, <1>1, <1>3, NTasksAssumption DEF Past, Inv, PastTheLast
  <2>2. scope' # "closed"
    BY <1>0, <1>2 DEF Inv, PastTheLast
  <2>3. QED
    BY <2>1, <2>2 DEF PastTheLast
<1>12. QED
  BY <1>5, <1>7, <1>10, <1>11 DEF Inv

LEMMA RunTaskInv ==
  ASSUME Inv, NEW t \in Threads, RunTask(t)
  PROVE  Inv' /\ \A u \in Threads : Holds(u)' = Holds(u)
<1> DEFINE r == [thread[t] EXCEPT !.pc = "claim", !.part = thread[t].part \cup {thread[t].task}]
<1>0. /\ thread[t] \in ThreadRecords /\ thread[t].pc = "run" /\ thread[t].task \in Tasks
      /\ thread[t].task < next
      /\ next' = next /\ results' = results /\ scope' = scope
  BY DEF Inv, TypeInv, RunTask, ClaimsHeld
<1>1. /\ r \in ThreadRecords /\ thread' = [thread EXCEPT ![t] = r]
      /\ r.part = thread[t].part \cup {thread[t].task} /\ r.pc = "claim"
  BY <1>0 DEF RunTask, ThreadRecords, Inv, TypeInv
<1> HIDE DEF r
<1>2. /\ thread' \in [Threads -> ThreadRecords] /\ thread'[t] = r
      /\ \A u \in Threads \ {t} : thread'[u] = thread[u]
  BY <1>1 DEF Inv, TypeInv
<1>3. Past' = Past
  BY <1>0, <1>1, PastGrows
<1>4. TypeInv'
  BY <1>0, <1>2, <1>3 DEF Inv, TypeInv
<1>5. ClaimsHeld'
  BY <1>0, <1>1, <1>2 DEF Inv, ClaimsHeld
<1>6. \A u \in Threads : Holds(u)' = Holds(u)
  <2>1. Holds(t)' = Holds(t)
    BY <1>0, <1>1, <1>2 DEF Holds
  <2>2. QED
    BY <1>2, <2>1 DEF Holds
<1>7. HeldOnce' /\ PastTheLast'
  BY <1>0, <1>2, <1>3, <1>6 DEF Inv, HeldOnce, PastTheLast
<1>8. QED
  BY <1>4, <1>5, <1>6, <1>7 DEF Inv

LEMMA PushInv ==
  ASSUME Inv, NEW t \in Threads, Push(t)
  PROVE  /\ Inv'
         /\ Holds(t) = thread[t].part /\ Holds(t)' = {}
         /\ \A u \in Threads \ {t} : Holds(u)' = Holds(u)
<1> DEFINE r == [thread[t] EXCEPT !.pc = "ended"]
<1>0. /\ thread[t] \in ThreadRecords /\ thread[t].pc = "push"
      /\ next' = next /\ scope' = scope /\ results \in [Tasks -> Nat]
      /\ results' = [x \in Tasks |-> results[x] + IF x \in thread[t].part THEN 1 ELSE 0]
  BY DEF Inv, TypeInv, Push
<1>1. /\ r \in ThreadRecords /\ thread' = [thread EXCEPT ![t] = r]
      /\ r.part = thread[t].part /\ r.pc = "ended"
  BY <1>0 DEF Push, ThreadRecords, Inv, TypeInv
<1> HIDE DEF r
<1>2. /\ thread' \in [Threads -> ThreadRecords] /\ thread'[t] = r
      /\ \A u \in Threads \ {t} : thread'[u] = thread[u]
  BY <1>1 DEF Inv, TypeInv
<1>3. Past' = Past
  BY <1>0, <1>1, <1>2 DEF Past
<1>4. TypeInv'
  <2>1. results' \in [Tasks -> Nat]
    BY <1>0
  <2>2. QED
    BY <1>0, <1>2, <1>3, <2>1 DEF Inv, TypeInv
<1>5. ClaimsHeld'
  BY <1>0, <1>1, <1>2 DEF Inv, ClaimsHeld
<1>6. /\ Holds(t) = thread[t].part /\ Holds(t)' = {}
      /\ \A u \in Threads \ {t} : Holds(u)' = Holds(u)
  BY <1>0, <1>1, <1>2 DEF Holds
<1>7. HeldOnce'
  <2>1. \A u, v \in Threads : u # v => Holds(u)' \cap Holds(v)' = {}
    BY <1>6 DEF Inv, HeldOnce
  <2>2. ASSUME NEW x \in Tasks
        PROVE  results'[x] = IF x < next' /\ \A u \in Threads : x \notin Holds(u)' THEN 1 ELSE 0
    <3>1. results[x] = IF x < next /\ \A u \in Threads : x \notin Holds(u) THEN 1 ELSE 0
      BY DEF Inv, HeldOnce
    <3>2. CASE x \in thread[t].part
      <4>1. x < next
        BY <3>2 DEF Inv, ClaimsHeld
      <4>2. \A u \in Threads \ {t} : x \notin Holds(u)
        BY <1>6, <3>2 DEF Inv, HeldOnce
      <4>3. results'[x] = 1
        BY <1>0, <1>6, <3>1, <3>2
      <4>4. QED
        BY <1>0, <1>6, <4>1, <4>2, <4>3
    <3>3. CASE x \notin thread[t].part
      <4>1. results'[x] = results[x]
        BY <1>0, <3>3
      <4>2. \A u \in Threads : x \in Holds(u)' <=> x \in Holds(u)
        BY <1>6, <3>3
      <4>3. QED
        BY <1>0, <3>1, <4>1, <4>2
    <3>4. QED
      BY <3>2, <3>3
  <2>3. QED
    BY <2>1, <2>2 DEF HeldOnce
<1>8. PastTheLast'
  BY <1>0, <1>2, <1>3 DEF Inv, PastTheLast
<1>9. QED
  BY <1>4, <1>5, <1>6, <1>7, <1>8 DEF Inv

LEMMA CloseScopeInv ==
  ASSUME Inv, CloseScope
  PROVE  Inv'
BY DEF Inv, CloseScope, TypeInv, ClaimsHeld, HeldOnce, PastTheLast, Past, Holds

LEMMA StutterInv ==
  ASSUME Inv, UNCHANGED vars
  PROVE  Inv'
BY DEF Inv, vars, TypeInv, ClaimsHeld, HeldOnce, PastTheLast, Past, Holds

LEMMA NextInv == Inv /\ [Next]_vars => Inv'
BY ClaimInv, RunTaskInv, PushInv, CloseScopeInv, StutterInv DEF Next

LEMMA InvInvariant == Spec => []Inv
BY InitInv, NextInv, PTL DEF Spec

\* The values of the variables; the counter goes at most as far past the last task as
\* there are threads.
THEOREM TypeCorrect == Spec => []TypeOK
<1>1. Inv => TypeOK
  <2>1. Cardinality(Past) <= Cardinality(Threads) /\ Cardinality(Threads) \in Nat
    BY ThreadsAssumption, FS_Subset, FS_CardinalityType DEF Past
  <2>2. QED
    BY <2>1, PastCounted, NTasksAssumption DEF Inv, TypeInv, TypeOK, ThreadRecords
<1>2. QED
  BY <1>1, InvInvariant, PTL

-----------------------------------------------------------------------------
(* The refinement.                                                         *)

Unclaimed == {x \in Tasks : x >= next}
Held == UNION {Holds(t) : t \in Threads}

LEMMA HeldMember == \A x : x \in Held <=> \E t \in Threads : x \in Holds(t)
BY DEF Held

LEMMA InitPool == Init => Pool!Init
<1> SUFFICES ASSUME Init PROVE Pool!Init
  OBVIOUS
<1>1. \A t \in Threads : Holds(t) = {}
  BY DEF Init, Holds
<1>2. {x \in Tasks : x >= next} = Tasks
  BY NTasksAssumption DEF Init, Tasks
<1>3. QED
  BY <1>1, <1>2 DEF Init, Pool!Init

\* A claim below ntasks takes that task; one past it takes nothing.
LEMMA ClaimPool ==
  ASSUME Inv, NEW t \in Threads, Claim(t)
  PROVE  [Pool!Next]_(Pool!vars)
<1>0. /\ thread[t] \in ThreadRecords /\ thread[t].pc = "claim" /\ next \in Nat
      /\ next' = next + 1 /\ results' = results /\ scope' = scope
      /\ scope # "closed"
      /\ thread' = [thread EXCEPT ![t] = [thread[t] EXCEPT
           !.pc = IF next < NTasks THEN "run" ELSE "push", !.task = next]]
  BY DEF Inv, TypeInv, Claim, PastTheLast
<1>1. /\ Holds(t)' = Holds(t) \cup (IF next < NTasks THEN {next} ELSE {})
      /\ \A u \in Threads \ {t} : Holds(u)' = Holds(u)
  BY <1>0 DEF Holds, ThreadRecords, Inv, TypeInv
<1>2. CASE next < NTasks
  <2>1. next \in Tasks /\ next \in Unclaimed
    BY <1>0, <1>2, NTasksAssumption DEF Tasks, Unclaimed
  <2>2. Unclaimed' = Unclaimed \ {next}
    BY <1>0, NTasksAssumption DEF Unclaimed, Tasks
  <2>3. Held' = Held \cup {next}
    BY <1>1, <1>2 DEF Held
  <2>4. PICK x \in Tasks : x = next
    BY <2>1
  <2>5. Pool!Take(x)
    BY <1>0, <2>1, <2>2, <2>3, <2>4 DEF Pool!Take, Unclaimed, Held
  <2>6. QED
    BY <1>0, <2>5 DEF Pool!Next
<1>3. CASE ~(next < NTasks)
  <2>1. Unclaimed' = Unclaimed
    BY <1>0, <1>3, NTasksAssumption DEF Unclaimed, Tasks
  <2>2. Held' = Held
    BY <1>1, <1>3 DEF Held
  <2>3. QED
    BY <1>0, <2>1, <2>2 DEF Pool!vars, Unclaimed, Held
<1>4. QED
  BY <1>2, <1>3

LEMMA PushPool ==
  ASSUME Inv, NEW t \in Threads, Push(t)
  PROVE  Pool!Next
<1>0. /\ thread[t].pc = "push" /\ thread[t].part \in SUBSET Tasks /\ scope # "closed"
      /\ next' = next /\ scope' = scope
      /\ results' = [x \in Tasks |-> results[x] + IF x \in thread[t].part THEN 1 ELSE 0]
  BY DEF Inv, TypeInv, Push, PastTheLast, ThreadRecords
<1>1. /\ Holds(t) = thread[t].part /\ Holds(t)' = {}
      /\ \A u \in Threads \ {t} : Holds(u)' = Holds(u)
  BY PushInv
<1>2. \A u \in Threads \ {t} : Holds(u) \cap Holds(t) = {}
  BY DEF Inv, HeldOnce
<1>3. Held' = Held \ thread[t].part /\ thread[t].part \subseteq Held
  BY <1>1, <1>2 DEF Held
<1>4. Pool!Merge(thread[t].part)
  BY <1>0, <1>3 DEF Pool!Merge, Held
<1>5. QED
  BY <1>0, <1>4 DEF Pool!Next

LEMMA CloseScopePool ==
  ASSUME Inv, CloseScope
  PROVE  Pool!Next
<1>1. \A t \in Threads : t \in Past /\ Holds(t) = {}
  BY DEF CloseScope, Past, Holds
<1>2. PICK t \in Threads : TRUE
  BY ThreadsAssumption
<1>3. next >= NTasks /\ next \in Nat
  BY <1>1, <1>2 DEF Inv, PastTheLast, TypeInv
<1>4. \A x \in Tasks : results[x] = 1
  <2>1. \A x \in Tasks : x < next
    BY <1>3, NTasksAssumption DEF Tasks
  <2>2. QED
    BY <1>1, <2>1 DEF Inv, HeldOnce
<1>5. \A t_1 \in Threads : Holds(t_1)' = Holds(t_1)
  BY DEF CloseScope, Holds
<1>6. Held' = Held
  BY <1>5 DEF Held
<1>7. Pool!Answer
  BY <1>4, <1>6 DEF Pool!Answer, CloseScope, Held
<1>8. QED
  BY <1>7 DEF Pool!Next, CloseScope

LEMMA NextPool == Inv /\ [Next]_vars => [Pool!Next]_(Pool!vars)
<1> SUFFICES ASSUME Inv, [Next]_vars PROVE [Pool!Next]_(Pool!vars)
  OBVIOUS
<1>1. ASSUME NEW t \in Threads, RunTask(t) PROVE UNCHANGED Pool!vars
  <2>1. \A u \in Threads : Holds(u)' = Holds(u)
    BY <1>1, RunTaskInv
  <2>2. Held' = Held
    BY <2>1 DEF Held
  <2>3. QED
    BY <1>1, <2>2 DEF Pool!vars, RunTask, Held
<1>2. CASE UNCHANGED vars
  BY <1>2 DEF vars, Pool!vars, Holds
<1>3. QED
  BY <1>1, <1>2, ClaimPool, PushPool, CloseScopePool DEF Next

\* The engine's scheduler implements TaskPool.
THEOREM EngineImplementsPool == Spec => PoolSpec
<1>1. Inv /\ [Next]_vars => [Pool!Next]_(Pool!vars)
  BY NextPool
<1>2. QED
  BY <1>1, InitPool, InvInvariant, PTL DEF Spec, PoolSpec, Pool!Spec

=============================================================================
