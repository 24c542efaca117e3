---------------------------- MODULE StreamEpoch ----------------------------
(***************************************************************************)
(* Epoch streaming of blitz-stream: run_until_caught_up, run_epoch with    *)
(* its worker threads, InMemorySource, size_workers, and an OffsetStore    *)
(* that is MetaOffsetStore: keys in the replicated catalog, behind a       *)
(* client with timeouts.  MemoryOffsetStore is the case in which no read   *)
(* fails and every put is committed.                                       *)
(*                                                                         *)
(* A session is one run of a program that calls run_until_caught_up on a   *)
(* stream.  It may crash or give up at any step; the log and the offsets   *)
(* outlive it, and another session may follow.  A record is its offset in  *)
(* its partition.  Workers pop units from the end of a vector; as the      *)
(* source says, either order is fine, and the queue is a set here.         *)
(***************************************************************************)
EXTENDS Integers, Functions

CONSTANTS
  PartitionCount,                          \* InMemorySource
  RecordsPerWorker, MinWorkers, MaxWorkers, PerUnit,     \* SizerConfig
  NLocal,                                  \* n_local
  MaxEpochs,                               \* max_epochs
  MaxRecords, MaxSessions, MaxUnanswered   \* bounds of the model

\* size_workers clamps between MinWorkers and MaxWorkers, and clamp panics
\* unless they are in order; it and plan_work raise the two divisors to 1.
ASSUME ConfigAssumption ==
  /\ PartitionCount \in Nat \ {0}
  /\ RecordsPerWorker \in Nat \ {0} /\ PerUnit \in Nat \ {0}
  /\ MinWorkers \in Nat /\ MaxWorkers \in Nat /\ MinWorkers <= MaxWorkers
  /\ NLocal \in Nat /\ MaxEpochs \in Nat \ {0}
ASSUME BoundsAssumption ==
  MaxRecords \in Nat /\ MaxSessions \in Nat /\ MaxUnanswered \in Nat

VARIABLES
  log,          \* the number of records of each partition
  store,        \* the offset stored for each partition; absent reads as 0
  late,         \* puts nobody waits for, which may be applied at any time
  pc, part,     \* the session's thread, and its partition in a loop
  session, epoch, lag, workers, units, prog, records,
  thread, panicked,                 \* the threads of the scope
  seen, begun, planned, unanswered  \* history

external == <<log, store, late, unanswered>>
locals == <<lag, workers, units, prog, records, begun, planned>>
scope == <<thread, panicked>>
vars == <<external, pc, part, session, epoch, locals, scope, seen>>

Larger(a, b) == IF a > b THEN a ELSE b
Smaller(a, b) == IF a < b THEN a ELSE b

Partitions == 0..(PartitionCount - 1)
Threads == 1..Larger(MaxWorkers, NLocal)
Unit == [part : Partitions, start : Nat, end : Nat]
NoUnit == [part |-> 0, start |-> 0, end |-> 0]
Resting == {"new", "caught_up", "exhausted", "failed"}

\* size_workers
SizeWorkers(backlog) ==
  LET n == (backlog + RecordsPerWorker - 1) \div RecordsPerWorker
  IN  IF backlog = 0 THEN 0 ELSE Smaller(Larger(n, MinWorkers), MaxWorkers)

\* Variant: full units only.
FullUnitsOf(p, committed, high) ==
  {[part |-> p, start |-> s, end |-> s + PerUnit] :
     s \in {o \in committed..(high - PerUnit) : (o - committed) % PerUnit = 0}}
\* plan_work on one partition: the records from committed up to high, cut
\* into units of PerUnit records.
UnitsOf(p, committed, high) ==
  {[part |-> p, start |-> s, end |-> Smaller(s + PerUnit, high)] :
     s \in {o \in committed..(high - 1) : (o - committed) % PerUnit = 0}}

RecordsOf(u) == u.start..(u.end - 1)

\* offsets.get(..).unwrap_or(0): a read that fails counts as 0.
Reads(p) == {store[p], 0}

AllGone == [t \in Threads |-> [pc |-> "gone", unit |-> NoUnit]]

Init ==
  /\ log = [p \in Partitions |-> 0]
  /\ store = [p \in Partitions |-> 0]
  /\ late = {} /\ unanswered = 0
  /\ pc = "new" /\ part = 0
  /\ session = 0 /\ epoch = 0
  /\ lag = 0 /\ workers = 0 /\ units = {} /\ records = 0 /\ planned = 0
  /\ prog = [p \in Partitions |-> 0]
  /\ begun = [p \in Partitions |-> 0]
  /\ thread = AllGone /\ panicked = FALSE
  /\ seen = [p \in Partitions |-> {}]
----------------------------------------------------------------------------
\* A bound of the model on the records of all partitions.
Room == FoldFunction(+, 0, log) < MaxRecords

\* Another thread, or another program, appends a record.
Push(p) ==
  /\ Room
  /\ log' = [log EXCEPT ![p] = @ + 1]
  /\ UNCHANGED <<store, late, unanswered, pc, part, session, epoch, locals, scope, seen>>

\* A put whose client has timed out reaches the catalog after all.
ApplyLate(x) ==
  /\ late' = late \ {x}
  /\ store' = [store EXCEPT ![x[1]] = x[2]]
  /\ UNCHANGED <<log, unanswered, pc, part, session, epoch, locals, scope, seen>>
----------------------------------------------------------------------------
\* The entry of run_epoch number e.
BeginEpoch(e) ==
  /\ pc' = "measure" /\ part' = 0 /\ epoch' = e
  /\ lag' = 0 /\ workers' = 0 /\ units' = {} /\ records' = 0 /\ planned' = 0
  /\ prog' = [p \in Partitions |-> 0]
  /\ begun' = log

\* The loop over the partitions goes on, or control goes to the next part.
NextPartition(then) ==
  IF part + 1 < PartitionCount
    THEN part' = part + 1 /\ UNCHANGED pc
    ELSE part' = 0 /\ pc' = then

\* run_until_caught_up ends, in any of its ways, and its locals with it.
Rest(how) ==
  /\ pc' = how /\ part' = 0 /\ epoch' = 0
  /\ lag' = 0 /\ workers' = 0 /\ units' = {} /\ records' = 0 /\ planned' = 0
  /\ prog' = [p \in Partitions |-> 0]
  /\ begun' = [p \in Partitions |-> 0]
  /\ thread' = AllGone /\ panicked' = FALSE

StartSession ==
  /\ pc \in Resting
  /\ session < MaxSessions
  /\ session' = session + 1
  /\ BeginEpoch(1)
  /\ UNCHANGED <<external, scope, seen>>

Measure ==
  /\ pc = "measure"
  /\ \E read \in Reads(part) : lag' = lag + Larger(log[part] - read, 0)
  /\ NextPartition("size")
  /\ UNCHANGED <<external, session, epoch, workers, units, prog, records, begun, planned, scope, seen>>

\* From here on the lag is only reported.
Size ==
  /\ pc = "size"
  /\ workers' = Larger(SizeWorkers(lag), NLocal)
  /\ lag' = 0
  /\ pc' = "plan"
  /\ UNCHANGED <<external, part, session, epoch, units, prog, records, begun, planned, scope, seen>>

\* The offset is read before the log is locked; what other threads do in
\* between is as if done before or after both.  The lag may have been 0
\* when it was measured, and there may be units all the same.
Plan ==
  /\ pc = "plan"
  /\ \E read \in Reads(part) :
       /\ units' = units \cup UnitsOf(part, read, log[part])
       /\ planned' = planned + Larger(log[part] - read, 0)
  /\ NextPartition(IF units' = {} THEN "caught_up" ELSE "progress")
  /\ UNCHANGED <<external, session, epoch, lag, workers, prog, records, begun, scope, seen>>

InitProgress ==
  /\ pc = "progress"
  /\ \E read \in Reads(part) : prog' = [prog EXCEPT ![part] = read]
  /\ NextPartition("spawn")
  /\ UNCHANGED <<external, session, epoch, lag, workers, units, records, begun, planned, scope, seen>>

Spawn ==
  /\ pc = "spawn"
  /\ thread' = [t \in Threads |->
                  [pc |-> IF t <= workers THEN "pop" ELSE "gone", unit |-> NoUnit]]
  /\ pc' = "join"
  /\ UNCHANGED <<external, part, session, epoch, locals, panicked, seen>>
----------------------------------------------------------------------------
\* The threads of the scope.
Pop(t) ==
  /\ thread[t].pc = "pop"
  /\ \E u \in units :
       /\ units' = units \ {u}
       /\ thread' = [thread EXCEPT ![t] = [pc |-> "process", unit |-> u]]
  /\ UNCHANGED <<external, pc, part, session, epoch, lag, workers, prog, records, begun, planned, panicked, seen>>

FindEmpty(t) ==
  /\ thread[t].pc = "pop"
  /\ units = {}
  /\ thread' = [thread EXCEPT ![t].pc = "gone"]
  /\ UNCHANGED <<external, pc, part, session, epoch, locals, panicked, seen>>

ProcessUnit(t) ==
  LET u == thread[t].unit IN
  /\ thread[t].pc = "process"
  /\ seen' = [seen EXCEPT ![u.part] = @ \cup RecordsOf(u)]
  /\ records' = records + (u.end - u.start)
  /\ thread' = [thread EXCEPT ![t].pc = "advance"]
  /\ UNCHANGED <<external, pc, part, session, epoch, lag, workers, units, prog, begun, planned, panicked>>

\* Variant: threads whose panic nobody looks at.
PanicUnnoticed(t) ==
  /\ thread[t].pc = "process"
  /\ thread' = [thread EXCEPT ![t] = [pc |-> "gone", unit |-> NoUnit]]
  /\ UNCHANGED <<external, pc, part, session, epoch, locals, panicked, seen>>
\* The caller's process panics; where panics unwind, only this thread ends.
Panic(t) ==
  /\ thread[t].pc = "process"
  /\ panicked' = TRUE
  /\ thread' = [thread EXCEPT ![t] = [pc |-> "gone", unit |-> NoUnit]]
  /\ UNCHANGED <<external, pc, part, session, epoch, locals, seen>>

\* Variant: the offset of the unit that was finished last.
AdvanceToLast(t) ==
  LET u == thread[t].unit IN
  /\ thread[t].pc = "advance"
  /\ prog' = [prog EXCEPT ![u.part] = u.end]
  /\ thread' = [thread EXCEPT ![t] = [pc |-> "pop", unit |-> NoUnit]]
  /\ UNCHANGED <<external, pc, part, session, epoch, lag, workers, units, records, begun, planned, panicked, seen>>
Advance(t) ==
  LET u == thread[t].unit IN
  /\ thread[t].pc = "advance"
  /\ prog' = [prog EXCEPT ![u.part] = Larger(@, u.end)]
  /\ thread' = [thread EXCEPT ![t] = [pc |-> "pop", unit |-> NoUnit]]
  /\ UNCHANGED <<external, pc, part, session, epoch, lag, workers, units, records, begun, planned, panicked, seen>>

Work(t) == Pop(t) \/ FindEmpty(t) \/ ProcessUnit(t) \/ Panic(t) \/ Advance(t)
----------------------------------------------------------------------------
\* Variant: the queue must have been drained.
JoinDrained ==
  /\ pc = "join"
  /\ units = {}
  /\ \A t \in Threads : thread[t].pc = "gone"
  /\ ~panicked
  /\ pc' = "commit"
  /\ UNCHANGED <<external, part, session, epoch, locals, scope, seen>>
\* The scope joins every thread, and panics if one of them did.
Join ==
  /\ pc = "join"
  /\ \A t \in Threads : thread[t].pc = "gone"
  /\ ~panicked
  /\ pc' = "commit"
  /\ UNCHANGED <<external, part, session, epoch, locals, scope, seen>>

JoinPanicked ==
  /\ pc = "join"
  /\ \A t \in Threads : thread[t].pc = "gone"
  /\ panicked
  /\ Rest("failed")
  /\ UNCHANGED <<external, session, seen>>

\* On to the next partition, the next epoch, or the end of the session.
Committed ==
  \/ /\ part + 1 < PartitionCount
     /\ part' = part + 1 /\ pc' = "commit"
     /\ UNCHANGED <<epoch, locals, scope>>
  \/ /\ part + 1 = PartitionCount
     /\ epoch < MaxEpochs
     /\ BeginEpoch(epoch + 1)
     /\ UNCHANGED scope
  \/ /\ part + 1 = PartitionCount
     /\ epoch = MaxEpochs
     /\ Rest("exhausted")

SkipCommit ==
  /\ pc = "commit"
  /\ \E read \in Reads(part) : prog[part] <= read
  /\ Committed
  /\ UNCHANGED <<external, session, seen>>

\* Variant: the offset reached is stored without a look at the old one.
DecideAlways ==
  /\ pc = "commit"
  /\ pc' = "put"
  /\ UNCHANGED <<external, part, session, epoch, locals, scope, seen>>
DecideCommit ==
  /\ pc = "commit"
  /\ \E read \in Reads(part) : prog[part] > read
  /\ pc' = "put"
  /\ UNCHANGED <<external, part, session, epoch, locals, scope, seen>>

PutCommitted ==
  /\ pc = "put"
  /\ store' = [store EXCEPT ![part] = prog[part]]
  /\ Committed
  /\ UNCHANGED <<log, late, unanswered, session, seen>>

\* NotLeader, Fenced, NoQuorum, or no connection: run_epoch returns the error.  A put that found
\* no quorum stays in the leader's log and may be applied with a later one: to the offsets that
\* is a put like those of PutUnanswered.
PutRefused ==
  /\ pc = "put"
  /\ Rest("failed")
  /\ UNCHANGED <<external, session, seen>>

\* The client gives up reading the answer, or the program dies before it.
PutUnanswered ==
  /\ pc = "put"
  /\ unanswered < MaxUnanswered
  /\ unanswered' = unanswered + 1
  /\ late' = late \cup {<<part, prog[part]>>}
  /\ Rest("failed")
  /\ UNCHANGED <<log, store, session, seen>>

\* The program dies (a panic where panics abort, a kill).
Crash ==
  /\ pc \notin Resting
  /\ Rest("failed")
  /\ UNCHANGED <<external, session, seen>>
----------------------------------------------------------------------------
Driver ==
  \/ Measure \/ Size \/ Plan \/ InitProgress \/ Spawn
  \/ Join \/ JoinPanicked
  \/ SkipCommit \/ DecideCommit
  \/ PutCommitted \/ PutRefused \/ PutUnanswered

Next ==
  \/ \E p \in Partitions : Push(p)
  \/ \E x \in late : ApplyLate(x)
  \/ StartSession
  \/ Driver
  \/ \E t \in Threads : Work(t)
  \/ Crash

Spec == Init /\ [][Next]_vars

\* Threads are scheduled, and every request is answered or times out.
FairSpec ==
  /\ Spec
  /\ WF_vars(Driver)
  /\ \A t \in Threads : WF_vars(Work(t))
----------------------------------------------------------------------------
\* The types.
TypeOK ==
  /\ log \in [Partitions -> Nat]
  /\ store \in [Partitions -> Nat]
  /\ late \in SUBSET (Partitions \X Nat) /\ unanswered \in 0..MaxUnanswered
  /\ pc \in Resting \cup {"measure", "size", "plan", "progress", "spawn", "join", "commit", "put"}
  /\ part \in Partitions
  /\ session \in 0..MaxSessions /\ epoch \in 0..MaxEpochs
  /\ lag \in Nat /\ workers \in 0..Larger(MaxWorkers, NLocal)
  /\ units \in SUBSET Unit
  /\ prog \in [Partitions -> Nat] /\ begun \in [Partitions -> Nat]
  /\ records \in Int /\ planned \in Nat
  /\ thread \in [Threads -> [pc : {"pop", "process", "advance", "gone"}, unit : Unit]]
  /\ panicked \in BOOLEAN
  /\ seen \in [Partitions -> SUBSET Nat]

\* At-least-once: a record below the stored offset has been processed,
\* whatever crashed, whoever processed which unit first, and even when a put
\* that had been given up is applied (run_epoch commits after its scope).
CommittedProcessed ==
  \A p \in Partitions : 0..(store[p] - 1) \subseteq seen[p]

\* Once per epoch: when an epoch commits, its threads have processed each
\* planned record exactly once, unless it had no threads at all.
EpochExact ==
  pc \in {"commit", "put"} /\ workers > 0 => records = planned

\* A session that ends because there is nothing left to do has seen
\* processed every record that was in the log when its last epoch began.
CaughtUp ==
  pc = "caught_up" => \A p \in Partitions : 0..(begun[p] - 1) \subseteq seen[p]

\* An epoch that had a thread has, for the partitions it has been through,
\* stored an offset not below the log it found (as long as every put was
\* answered): the epochs of a session make progress.
CommitsWhatItFound ==
  pc \in {"commit", "put"} /\ workers > 0 /\ unanswered = 0 =>
    \A p \in 0..(part - 1) : store[p] >= begun[p]

\* An epoch does what it planned, once, and stores what it found.
EpochComplete == EpochExact /\ CommitsWhatItFound

\* As long as every put was answered, no stored offset goes back, although
\* reads that fail count as offset 0.
NeverBack ==
  [][unanswered = 0 => \A p \in Partitions : store'[p] >= store[p]]_store

\* run_until_caught_up returns: the threads empty the queue and go, and
\* the scope's join does not wait for ever.
SessionEnds == pc \notin Resting ~> pc \in Resting
=============================================================================
