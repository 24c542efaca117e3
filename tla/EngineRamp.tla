----------------------------- MODULE EngineRamp -----------------------------
(***************************************************************************)
(* The scheduler of blitz-engine: run_ramped's threads claim tasks from an *)
(* atomic counter.  Local threads start at once, ramp workers after their  *)
(* resume delay, which here may be any time; each ends when its claim is   *)
(* past the last task, and the scope waits for all of them.                *)
(***************************************************************************)
EXTENDS Integers, FiniteSets

CONSTANTS
  NTasks,    \* ntasks
  Threads    \* local threads and ramp workers

ASSUME NTasksAssumption == NTasks \in Nat
ASSUME ThreadsAssumption == IsFiniteSet(Threads) /\ Threads # {}

VARIABLES
  next,      \* the atomic counter
  thread,    \* pc, the claimed task and the tasks in the thread's partial result
  results,   \* how often each task is in the partial results handed in
  scope      \* run_ramped: "open" until all threads have ended, then "closed"

vars == <<next, thread, results, scope>>

Tasks == 0..(NTasks - 1)

Init ==
  /\ next = 0
  /\ thread = [t \in Threads |-> [pc |-> "claim", task |-> 0, part |-> {}]]
  /\ results = [x \in Tasks |-> 0]
  /\ scope = "open"

\* fetch_add.  Variant: a read and a write, the write lost to another thread's.
ClaimRacy(t) ==
  /\ thread[t].pc = "claim"
  /\ thread' = [thread EXCEPT ![t].pc = IF next < NTasks THEN "run" ELSE "push", ![t].task = next]
  /\ next' \in {next, next + 1}
  /\ UNCHANGED <<results, scope>>
Claim(t) ==
  /\ thread[t].pc = "claim"
  /\ thread' = [thread EXCEPT ![t].pc = IF next < NTasks THEN "run" ELSE "push", ![t].task = next]
  /\ next' = next + 1
  /\ UNCHANGED <<results, scope>>

RunTask(t) ==
  /\ thread[t].pc = "run"
  /\ thread' = [thread EXCEPT ![t].pc = "claim", ![t].part = @ \cup {thread[t].task}]
  /\ UNCHANGED <<next, results, scope>>

\* The thread pushes its partial result, which is merged with the others later.
Push(t) ==
  /\ thread[t].pc = "push"
  /\ results' = [x \in Tasks |-> results[x] + IF x \in thread[t].part THEN 1 ELSE 0]
  /\ thread' = [thread EXCEPT ![t].pc = "ended"]
  /\ UNCHANGED <<next, scope>>

CloseScope ==
  /\ scope = "open"
  /\ \A t \in Threads : thread[t].pc = "ended"
  /\ scope' = "closed"
  /\ UNCHANGED <<next, thread, results>>

Next == CloseScope \/ \E t \in Threads : Claim(t) \/ RunTask(t) \/ Push(t)

Spec == Init /\ [][Next]_vars

-----------------------------------------------------------------------------
(* Properties.                                                              *)

\* The values the variables take.  A counter in a usize cannot wrap: each thread goes
\* past the last task once.
TypeOK ==
  /\ next \in 0..(NTasks + Cardinality(Threads))
  /\ thread \in [Threads -> [pc : {"claim", "run", "push", "ended"}, task : Nat,
                             part : SUBSET Tasks]]
  /\ results \in [Tasks -> Nat]
  /\ scope \in {"open", "closed"}

\* The tasks a thread has claimed and not handed in.
Holds(t) ==
  IF thread[t].pc = "ended" THEN {}
  ELSE IF thread[t].pc = "run" THEN thread[t].part \cup {thread[t].task}
  ELSE thread[t].part

\* run_ramped keeps the promise of TaskPool: each task counts once in the answer,
\* whichever threads come late.
Pool == INSTANCE TaskPool WITH
  todo <- {x \in Tasks : x >= next},
  taken <- UNION {Holds(t) : t \in Threads},
  counted <- results,
  outcome <- IF scope = "closed" THEN "answered" ELSE "running"
PoolSpec == Pool!Spec

=============================================================================
