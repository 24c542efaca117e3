# A verification project for alpheidae

alpheidae is a small analytic database in Rust: a columnar file format with
pruning, vectorised kernels, a SQL engine, an elastic executor that ramps from
threads to processes and microVMs, Iceberg tables over an object store, epoch
streaming, and a replicated catalog service with its own Raft.  This directory
holds TLA+ models of its parts, the TLC configurations that check them on small
instances, and proofs, checked by TLAPS, of what holds on instances of any size.

Paths below are relative to `src/crates/` unless they begin with `src/`.

## 1. Inventory

### Replicated catalog (blitz-meta: `lib.rs`, `raft.rs`)

* State.  Per node, behind the mutex `raft`: term, vote, role, log, commit
  index, last applied, peers; behind the mutex `state`: the fencing epoch,
  `is_leader`, the key-value map, the catalog log, `alive`.
* Threads.  One ticker (elections, heartbeats), one thread per connection, which
  runs `leader_propose` when the request is a PUT.
* Interactions.  TCP requests between nodes (0xA1 vote, 0xA2 append, OP_REPL),
  from clients (PUT, GET, STATUS), from an operator (PROMOTE, ADD_PEER,
  REMOVE_PEER, SNAPSHOT).  Every wait for a peer has a timeout, and the sender
  goes on while the peer may still handle the request.
* Hard.  Except in the vote and append handlers the two locks are taken one after
  the other, so other threads run between the halves of an operation; the term, the log and
  the epoch a message carries are read at different moments; two replication
  paths (AppendEntries and OP_REPL) count for one quorum under two different
  fences (term and epoch).
* Correct when: one leader for a term; one vote per node and term; entries come
  from elected leaders and have one identity; logs hold index i at position i; a
  leader's log changes by its own proposals only; epochs fence; what is
  answered "committed" is on a majority; each committed entry is applied once;
  every PUT taken on is answered.

### Catalog durability and membership (blitz-meta `persist.rs`, `lib.rs`)

`raft.bin` and `catalog.bin`, each written to a temporary file and renamed, and read
when a node with a data directory starts.  Hard: they are written one after the other,
after the answer to a call has been decided, next to other calls and to what other leaders put
into the log and the catalog; a write may fail, which is only printed; ADD_PEER and REMOVE_PEER
go through the log while a thread activates a peer that was added earlier and takes it
out again.  Correct when both files can always be loaded, what was applied and saved is still there
after a restart, no saved term is led in again, no saved vote is taken back, and no peer
counts twice.

### Ramped executor (blitz-exec `lib.rs`)

A queue of morsels; local threads that leave when they find it empty; worker
processes on TCP connections, each served by a thread of its own; a merged result and
a count of finished morsels; and a coordinator that joins its local threads, waits
for the count to reach the total and unblocks its acceptor by connecting to it.
Hard: a worker's death at any point of a request/answer exchange, workers that join
when the work is over, the return of a morsel when nobody is left to take it.
Correct when every morsel counts exactly once in the result and the coordinator
ends.

### SQL engine (blitz-plan, blitz-engine)

A statement is parsed and bound to tables, its predicates pushed into the scans, data files
pruned by the bounds in the manifests, and the join's strategy chosen from estimates; the
engine then runs one or two ramps of threads, which start at different times and claim
morsels from an atomic counter, scan row groups, fill an exchange for a shuffle join, and
hand in partial results that are merged, sorted and cut.  Correct when each task runs once,
its partial result is merged once, and the answer is the one asked for, on
whatever schedule and after whatever pruning.

### Column files (blitz-format)

Row groups of columns in pages; delta, zigzag and varint coding of integers, dictionaries of
strings, LZ4 blocks, a footer with minimum and maximum of pages and row groups, by which
a reader skips them.  Correct when what is read is what was written, at the ends
of the range of integers too, and skipping loses no row.

### Block engine (blitz-core, blitz-cluster, blitz-sql, blitz-exec)

Tables of blocks in memory, which are reclustered along a Z-order curve of the columns that
statements filter on; zone maps; vectorised kernels; a small SQL dialect with CTEs and
subqueries; morsels that run locally or on workers, which have the table or are sent
the columns.  Correct when a statement is read as it was written, rows survive a
reclustering, pruning loses none, and the fast paths equal their definitions.

### Epoch streaming (blitz-stream)

Partition logs; committed offsets in the catalog, behind a client whose reads fail and
whose puts time out; an epoch that plans units of work per partition, runs them on
threads that take them from one queue, and commits offsets partition by partition; a
sizer that picks the number of workers from the lag.  Hard: units that finish out of
order; a panic, a crash or a failed put between processing and the last commit; puts
applied late; records pushed while an epoch is planned; the sink of `stream_demo`, written after the
commit.  Correct when every record below a committed offset was processed (and is in
the sink), an epoch processes what it planned, and no offset goes back.

### Iceberg tables (blitz-iceberg, blitz-avro) and the programs that write them

Table metadata in JSON, manifest lists and manifests in Avro containers, the pointer to the
current metadata in the catalog; a demo that creates tables and publishes them, and a
streaming sink that appends a snapshot per epoch.  Files are written in place, while others
read; a program may die at any write and be run again.  Correct when a published
pointer leads to a complete table, every snapshot scans to the files appended under
it, and containers read back, those of other engines too.

### Query daemon and microVMs (blitz-boot)

A control process per microVM and a daemon that takes queries on concurrent
connections and spawns microVMs for them.  Hard: concurrent queries use the
same socket paths and process slots.  Correct when a query gets only its own
answers.

### Left out

`blitz-iceberg/src/avro.rs` and `json.rs` are not declared as modules by its `lib.rs` and so
are not part of any program.  The object store (blitz-store) is called by functions that only
tests call.  Parquet conversion translates to a library's types.  The catalog server's
`main` and the deployment scripts only call the parts above.

`PROJECT.json` lists the same components with their status, and under `hazards`
every place where this code can go wrong in a way a test would hardly reach, with
the property that covers it or the reason why none does yet.

## 2. Plan

In the order of importance; each step has its TLC runs before its proofs.

| # | Modules | What they model | Abstract specification, theorems |
|---|---------|-----------------|----------------------------------|
| 1 | `MetaRaft`, `MCMetaRaft`, `MetaRaftProofs` | the replicated catalog with a fixed membership, in memory (done) | types, one leader a term, log positions, epoch fence, the identity and origin of entries, one history under the first leader (done) |
| 2 | `TaskPool`, `RampExec`, `RampExecProofs`, `EngineRamp`, `EngineRampProofs` | the executor's morsel queue with local threads and dying workers; the engine's task counter (done) | both implement `TaskPool`: each task counted once; conservation of morsels (done) |
| 3 | `StreamEpoch`, `StreamEpochProofs` | planning, processing, offset commits with failing requests and crashes, the sizer (done) | at-least-once delivery (done) |
| 4 | `MetaDurable`, `MetaDurableProofs` | what `persist_now` saves, or fails to save, and what a restart finds, next to calls, other leaders' requests and membership changes (done) | files load, what was applied and saved stays, saved terms and votes bind, peers are not doubled (done) |
| 5 | `Words`, `ZoneMaps`, `Lz4`, `ColumnFile`, `SqlFront`, `TablePlan`, `Warehouse`, `TableFiles`, `EngineQuery`, `EngineQueryProofs` | a query from text to answer (done) | answers against a definition over the rows (checked); a plan's file pruning loses nothing and a shuffle's exchange holds every row once (proved) |
| 6 | `Kernels`, `BlockSql`, `LiquidTable`, `LiquidTableProofs` | the block engine, reclustering between statements (done) | answers against a definition over the rows (checked); reclustering keeps the rows and sorts them, pruning is sound (proved) |
| 7 | `AvroValues`, `Avro`, `Iceberg`, `IcebergTables`, `IcebergTablesProofs` | tables written and published next to readers and crashes, the sink (done) | what was published or appended scans to what it was; finished files are not written again (proved) |
| 8 | | the safety invariants of steps 1 to 4 that were only model-checked | all of them are proved (done) |

Modules to be proved about hold no RECURSIVE operator; their constants carry named
assumptions.

## 3. MetaRaft: the replicated catalog

### State and actions

`MetaRaft` models `MetaNode` as `MetaNode::start` runs it: a fixed membership and
no data directory, so that `persist_now` does nothing.  The variables are the fields of
`RaftNode` (`currentTerm` ... `lastApplied`), those of `NodeState` (`epoch`,
`isLeader`, `map`, `catLog`, `alive`), the threads (`tick`, `put`, `appliers`)
and the requests under way (`rpcs`).  `cast` and `elected` are history variables:
the votes ever given, and the terms and nodes for which `become_leader` ran.

An action is what one thread does in one critical section, with its thread-local
work.

| Code | Actions |
|------|---------|
| `tick`: start_election | `StartElection` |
| `tick`: the vote round, one peer at a time | `BeginBallot`, `AskVote`, `TallyVotes`, `PublishWin` |
| `tick`: heartbeats | `SeeLeader`, `SendHeartbeats` |
| `handle` 0xA1, `handle_request_vote` | `HandleRequestVote` |
| `handle` 0xA2, `handle_append_entries`, then `apply_committed` | `HandleAppendEntries`, `TakeCommitted`, `ApplyCommitted` |
| `handle` OP_REPL | `HandleRepl` |
| `handle` OP_PUT, `leader_propose` | `ReceivePut`, `ProposeEntry`, `CaptureView`, `SendAppend`, `SendRepl`, `CommitEntry`, `TakeOwn`, `ApplyOwn` |
| `handle` OP_PROMOTE | `Promote` |
| `kill` | `Kill` |

In the 0xA1 and 0xA2 arms the catalog side steps down (`is_leader = false`) under the
lock `state`, taken while `raft` is still held; the model does both in one step.

Requests are a set: handled in any order, at any later time, or never.  A caller
may go on at once, since each wait ends by a timeout (100 ms for a vote or an append,
200 ms for OP_REPL); an answer that comes after that finds nobody waiting and is
dropped, but what the request did to its receiver stays.  No request is handled
twice, because each has a connection of its own and is read once.

Abstractions.  A client's value is the identity of its PUT.  The catalog log
`catLog` is a set of entries, so an entry applied by two paths counts once; `TakenOnce`
looks at double application within `apply_committed` instead.  `kill` sets
`alive` only, as in the code: the ticker and the Raft handlers of a killed node go
on, and so they do in the model.  Election timers are not modelled: they may run
out at any time.  GET and STATUS read; the client functions call and forward.

Bounds, all constants used in guards: `Contenders` (whose timer may run out),
`MaxTerm`, `MaxBallots`, `MaxBeats`, `MaxInFlight`, and the finite sets
`Puts`, `Keys`, `Epochs`, `Victims`.

### Properties and runs

`MCMetaRaft` adds a symmetry set: permutations of the PUTs, and of the nodes
that are alike in `Contenders` and `Victims`.  Deadlock checking is off
because every bounded behaviour comes to an end.

| Run | Instance | Checks | Shows |
|-----|----------|--------|-------|
| `elect` | 3 nodes, 2 contend, 2 terms, 1 PUT | `ElectionSafety`, `VoteStability`, `LeaderAppendOnly` | votes that arrive after their ballot, requests carrying a later term than their ballot; a PUT that runs across a change of leader: its requests go out in the term that deposed it |
| `deposed` | 2 nodes, 2 terms, 2 PUTs at once | `TypeOK`, `EntryIdentity`, `Origins`, `IndexIsPosition`, `TakenOnce` | two nodes that depose each other with PUTs under way; truncated logs, threads applying side by side |
| `reign` | 3 nodes, 1 leader, 2 PUTs in turn | `OneHistory`, `AckedOnMajority` | lost and late requests of one leader; a failed PUT followed by one that commits over it |
| `answered` | 2 nodes, both contend, 2 terms, a promotion to epoch 2, a kill, a heartbeat, 1 PUT | `EpochFence`, `PutAnswered` | promotions and kills next to elections and a PUT; a PUT taken on is answered, whatever the peer does |

`Origins` is `EntryProvenance` (an entry was appended by the node elected in its term) and
`EpochOrigin` (an epoch comes from an election or a promotion); `OneHistory` is `FollowerPrefix`
(followers hold prefixes of the leader's log) and `CatalogFollowsLog` (the leader's catalog
is its committed log).  `VoteOnce` is a part of the invariant that proves
`ElectionSafety`.

Why the instances are enough.  Two terms are the least in which one leader
deposes another, and three nodes the least in which a majority is not everybody.
Conflicting entries in a log need two leaders with a PUT each; with two nodes
(`deposed`) TLC exhausts it, with three nodes it does not, so the properties of
logs that conflict matter most where they are proved; every safety property of the table is.

Fairness.  `FairSpec` assumes weak fairness of each PUT's handler thread and of
nothing else: not of the network, the peers or the ticker.  The code justifies it:
every wait in `leader_propose` is for a lock held for a bounded time or for
a peer with a timeout.

### Properties the code does not have

`MetaRaft` states three more, which documents promise and the code breaks.  No run lists
them; add the named invariant to the configuration and TLC finds the behaviour.

* `StaleLeadersCannotCommit` (in `MCMetaRaft_elect.cfg`).  `lib.rs:7` and
  `ARCHITECTURE.md:139-141` promise that a stale leader cannot commit.  A peer's OP_REPL
  answer counts towards the quorum and is fenced only by the epoch the peer has heard of; a peer
  that voted for the new leader has not heard of its epoch, and the old leader, which
  has not heard of the new term, answers its client 1.  The new leader does not have the
  entry.
* `CommitsOnMajority` (in `MCMetaRaft_reign.cfg`).  `lib.rs:4` says writes commit on majority.
  The leader sets its commit index to the last entry that got a quorum and applies all below
  it; an earlier entry whose own proposal failed is then applied although followers that
  answered by OP_REPL alone do not have it.
* `PromotedCommits` (in `MCMetaRaft_reign.cfg` with `Puts = {p1}`, `Epochs = {2}`,
  `Victims = {n1}`).  `ARCHITECTURE.md:140-142` describes a failover by promotion.
  OP_PROMOTE changes the catalog side only; the node's Raft role stays Follower,
  and `leader_propose` refuses its PUTs.

A follower's commit index is no safer: a heartbeat of any leader moves it up to the length of the
follower's own log (`raft.rs:332`), over entries which that leader never had, and the follower applies them.
No property of the runs speaks of a follower's commit index for this reason.

Nor is there progress to state: only a Follower starts an election (`lib.rs:215`), so that
after a split vote both Candidates ask again in the same term for ever, and a killed
leader keeps its ticker, its heartbeats and its Raft handlers (`lib.rs:295`), so that nobody takes
over from it.

### Proofs

TLAPS proves the following for all values of the constants allowed by the
assumptions of `MetaRaft` (a finite set of nodes, `NoNode` and `NoPut` outside
their sets, natural epochs and bounds).

* `MetaRaftProofs`: `TypeCorrect`.  `TypeOK` is not inductive: that `Head` of a
  thread's pending entries is an entry, and that the entry it sends is one,
  depends on where the thread is.  `ThreadInv` says what each kind of thread knows
  of its locals, and `TypeInv == TypeOK /\ ThreadInv` is kept by every action (one
  lemma for each group of actions).
  Then `VotesOnce`, `ElectionsSafe` (`ElectionSafety`) and `VotesStable` (`VoteStability`).
  The invariant `ElectionInv` follows a vote from its casting to the leader it elects:
  `VotesStand` (a vote is its voter's vote until the voter leaves the term),
  `CandidatesVote` (a Candidate has voted for itself), `BallotsCount` (what a ballot
  has counted are votes of the term it noted, and that is the node's term
  as long as it is a Candidate, although the requests it sends may carry a
  later one), `ElectedBacked` (a majority stands behind every leader).
  `QuorumsIntersect` then gives a common voter, and `VoteOnce` one leader.
* The second third of `MetaRaftProofs`, over all terms, leaders and calls at the same time:
  * `IndexesArePositions` (`IndexIsPosition`), from `IndexInv`: positions are indexes in
    logs, and a request's entry is the one after its previous index;
    `LeadersAppendOnly` and `EpochsFence`, action properties shown step by step
    from `TypeInv`.
  * `EntriesUnique` (`EntryIdentity`).  Logs alone are not inductive, since a late request may
    bring an entry back after it was truncated.  `CallsInv` says what a handler holds of its
    entry before and after it was appended; `CopiesInv` that every entry in a log, a request, a
    pending list or a catalog is the one its PUT's handler still holds.  `ProposalsInv` then
    tells the handlers' entries apart: each was appended by the node elected in its term, which `ElectionSafety`
    makes one node, and a leader's log does not get shorter, so no index is given twice.
  * `CatalogsHoldProposals` (`CatalogProvenance`, which no run lists) and `TermsAndEpochsGiven` (`Origins`), from
    `ProposalsInv` and its counterpart for epochs: terms and epochs that threads carry after they
    have given up the lock are ones that somebody was elected or promoted for.
  * `IndexesTakenOnce` (`TakenOnce`), from `TakenInv`: what any thread of a node has taken to
    apply is at most `lastApplied`, and what it takes next is above.
* The last third of `MetaRaftProofs`, as long as no second election is held (`FirstReign`, which the properties themselves
  say; what a second leader may do to them is shown above):
  * `FollowersHoldPrefixes` (`FollowerPrefix`).  `RouteInv` says who sends to whom, so that no request
    reaches the leader itself; `ReignInv` that the leader keeps the lead, that every log is a prefix of its own,
    and that every entry ever appended is still in it.
  * `AnsweredOnMajority` (`AckedOnMajority`), from `AckInv`: a successful answer comes from a node that holds
    the entry, a node is counted once and the leader not among its peers, and a call beyond its
    count has a majority of holders, which logs and catalogs never take back.
  * `HistoryIsOne` (`OneHistory`), from `CatalogInv`, for one PUT at a time: the leader's catalog is its
    log up to `lastApplied`, but for the entries that the one call under way has taken.

With them every safety invariant and action property of the table is proved for any numbers of nodes,
terms and PUTs.  Only model-checked: `PutAnswered`, which
is a liveness property under fairness and so out of the prover's reach, like
ENABLED, induction over data and whatever uses RECURSIVE operators.

Not modelled in this part: membership changes, snapshots and persistence
(`MetaDurable`), GET, STATUS and the client functions.

## 4. TaskPool, RampExec, EngineRamp: the two ramped schedulers

`blitz-exec` and `blitz-engine` each have a `run_ramped` in which threads that start
at different times share the tasks of one query.  `TaskPool` says what both promise:
tasks are taken, given back or merged, and an answer has every task once.  It makes no
promise that an answer comes.  `RampExec` and `EngineRamp` are the two schedulers, and
`PoolSpec` in each is `TaskPool` under a refinement mapping: `todo` is the queue (or the
tasks the counter has not reached), `taken` is what threads hold, `counted` is the
result.

### RampExec

| Code (blitz-exec `lib.rs`) | State and actions |
|------|---------|
| `Shared` | `queue`, `result`, `morselsDone`, `doneLocal` |
| local threads: `pop`, `exec_morsel`, `finish` | `local`; `PopMorsel`, `FindEmpty`, `MergeLocal`, `CountLocal` |
| `run_ramped`: join, wait, unblock, join the acceptor | `coord`; `JoinLocals`, `SeeAllDone`, `Unblock`, `Return` |
| acceptor thread | `acceptor`, `joined`; `CheckAccepting`, `Accept`, `AcceptNothing`, `JoinServers` |
| `serve_worker`, a thread a connection | `server`; `Greet`, `ReceiveNext`, `SendMorsel`, `ReceivePartial`, `ReturnMorsel`, `MergePartial`, `CountPartial`, `HangUp`, `Panic` |
| `worker_main` in each worker | `worker`; `Connect`, `ReadQuery`, `AskNext`, `ReadAnswer`, `SendPartial`, `FindClosed`, `Die` |
| the two directions of a connection | `toServer`, `toWorker` |

`finish` is two steps, since the result is merged under its lock and the counter
incremented after it was released.  The last morsel of a local thread is merged with all its
others when it finds the queue empty.

Abstractions.  A morsel stands for its partial result, and `result` says how often
it was merged, so that the algebra of `Partial` does not matter.  The queue is a
set: it is LIFO in the code, and which morsel is popped changes nothing here.  A
message is one element of a channel, although its bytes are written one by one: a
worker that dies in the middle of a partial result is one whose partial result has not
been sent.  A worker's death closes its connection, so reads and writes on it fail in the
end; until then a write may succeed.  A host that vanishes without closing
its connections is outside the model.  A panic ends the process (the release
profile) or the thread only (other builds), so `Panic` allows both.  Nobody sends the shuffle
messages.  What a morsel is, and ORDER BY and LIMIT, is `LiquidTable` (section 8).

| Run | Instance | Checks | Shows |
|-----|----------|--------|-------|
| `ramp` | 2 morsels, 2 local threads, 2 workers of which 1 may die, 2 expected | `OnePlace`, `PoolSpec`, `QueryReturns`, `WorkersReleased` | every interleaving of pops, merges, counts, a death, a return and panics; the unblocking connection taking a worker's place |
| `engine_pool` | 4 tasks, 3 threads | `PoolSpec` | late threads, claims past the last task |

Two local threads and two workers are the least with which a morsel can be popped
by one of a kind while another of the same kind holds one and another is given back.
With the unblocking connection there are three peers for two expected workers, so any
of them may be the one that is not accepted.  The instance is exhausted, and its safety
properties are also proved for any number of morsels, threads and workers, all of them
mortal.

`QueryReturns` excepts a `Stranded` morsel, one with a panicked thread or one returned
after the local threads have left, since the code does hang then (see below);
nothing else may hang it.

Fairness.  `FairSpec` assumes weak fairness of each thread of the coordinator and of each
living worker, since the only waits are for locks held for a bounded time, for
messages, and short sleeps.  It does not assume that a worker ever connects (`Connect`)
or dies (`Die`).

### EngineRamp

`next` is the atomic counter, `thread` what each thread has claimed and accumulated,
`results` the partial results handed in.  `Claim` is the `fetch_add`, `RunTask` the task
function, `Push` the push of the thread's partial result, `CloseScope` the end of
`thread::scope`.  A ramp worker's delay is any time: its first claim may come last.
A query with no thread at all is excluded (`ThreadsAssumption`): the engine's
callers pass at least one local thread.

### Properties the code does not have

`ARCHITECTURE.md:34` has the morsel of a dead worker returned to the queue.  `RampExec` states two
consequences that fail; with `Locals = {l1}`, `Workers = {w1}` and `Expected = 1` in
`MCRampExec_ramp.cfg` TLC finds both.

* `QueuedMorselsTaken`.  A returned morsel is taken again: local threads have left when they found
  the queue empty, and the other workers may have been dismissed.  Then nobody
  takes it and the coordinator waits for ever.
* `WorkerDeathSurvived`.  A death does not take the morsel with it: when the worker dies between its
  request and the answer, the write of the answer is unwrapped after the morsel was popped.

### Proofs

* `EngineRampProofs`: `TypeCorrect`, which bounds the counter by the tasks plus the
  threads that have gone past the last one, and `EngineImplementsPool`.  The
  invariant: a claimed task is with one thread or once in the results (`HeldOnce`),
  threads hold tasks below the counter only (`ClaimsHeld`), and who has gone past
  the last task has seen the counter there (`PastTheLast`), so that when all
  threads have ended every task was claimed.
* `RampExecProofs`: `TypeCorrect`, `MorselsInOnePlace`, `RampImplementsPool`.  `OnePlace` is not
  inductive.  `Serving` ties a connection thread's place to its morsel;
  `Exchanges` describes the conversation on a connection, so that the partial result
  that arrives is that of the morsel which was sent; `Course` says who is still at
  work in each phase of the coordinator; and `Places` adds to `OnePlace` that
  `morselsDone` is the number of morsels that are counted, a thread owning its morsels
  until it has counted them.  When the coordinator sees the total, all are counted,
  hence merged, hence an answer has each once.  Each action is an instance of five
  lemmas on what one holder's step does to the places (`AllKept`, `TakePlaces`,
  `MergePlaces`, `CountPlaces`, `ReturnPlaces`).

`QueryReturns` and `WorkersReleased` are liveness properties and stay with TLC.

## 5. StreamEpoch: epoch streaming

### State and actions

`log` is the length of each partition, a record being its offset; `store` the
offsets in the catalog; `late` the puts whose client has given up.  `pc`, `part`,
`lag` ... `records` are the locals of `run_epoch` and `run_until_caught_up`, and `thread`
and `panicked` the threads of its scope.  `seen` (what has been processed, ever),
`begun` (the log when the epoch began), `planned` and `unanswered` are history.

| Code | Actions |
|------|---------|
| `run_until_caught_up`, the entry of `run_epoch` | `StartSession`, `BeginEpoch`, `Rest` |
| the lag, partition by partition; `size_workers` | `Measure`, `Size` |
| `plan_work` | `Plan` with `UnitsOf` |
| the initial progress; the scope | `InitProgress`, `Spawn`, `Join`, `JoinPanicked` |
| a worker thread | `Pop`, `FindEmpty`, `ProcessUnit`, `Advance`, `Panic` |
| the commit loop | `SkipCommit`, `DecideCommit`, `PutCommitted`, `PutRefused`, `PutUnanswered` |
| `InMemorySource::push`; the catalog; a crash | `Push`; `ApplyLate`; `Crash` |

The offset store is `MetaOffsetStore`.  `get` returns nothing both for an absent key
and for a failed request, and `unwrap_or(0)` makes it 0 (`Reads`), at each of the
places that read it.  `put` waits two seconds for an answer, while the catalog
goes on with the request: it may be applied at once, later or never (`late`).  The
model takes the catalog for one register per key, as `MetaOffsetStore` does.
`MemoryOffsetStore` is the special case without failures.  The delays of the
ramped workers are no more than late first pops.  The third read of an offset, after
a put, only fills the report and is left out, like the times.

One session runs at a time.  Two programs that drive one stream at once are not modelled:
nothing in the code does so, and nothing would prevent it.

### Properties and run

| Run | Instance | Checks |
|-----|----------|--------|
| `stream` | 2 partitions, 3 records in all, units of 2, up to 2 workers, 2 epochs, 3 sessions, 2 puts unanswered | all of the below |

* `CommittedProcessed`: no stored offset has an unprocessed record below it, though units
  finish in any order, threads panic, and a put may be applied a session late.
* `EpochComplete`: when an epoch commits, its threads have processed each planned record
  once, or there were none (`EpochExact`); and with a thread, it stores offsets not below
  the log it found (`CommitsWhatItFound`), so that the epochs of a session make progress.
* `CaughtUp`: a session that ends for want of work has seen processed all that its last
  epoch began with.
* `NeverBack`: while every put is answered, stored offsets do not go back, although
  failed reads count as 0: the guard of the commit and the fact that planning
  always goes up to the end of the log are both needed.  A late put does move an offset back.
* `SessionEnds`: a session always ends, also one with units and no worker.

Three records are a full unit and a short one in one partition with nothing or one record
in the other, and with a put in between a unit that starts at 1.  `NLocal` is 0, so that an
epoch whose lag was 0 when measured has no worker.  Two unanswered puts and three
sessions let an older put be applied after a younger one.  With 4 records the instance
has a million states and shows the same.

Fairness.  `FairSpec` assumes that the session's thread and its worker threads are
scheduled; every request ends with an answer or a timeout.  It assumes neither pushes, nor new
sessions, nor late puts, nor crashes.

### Proofs

`StreamEpochProofs` proves `TypeCorrect`, `AtLeastOnce` (`CommittedProcessed`),
`CaughtUpCorrect` (`CaughtUp`), `EpochsComplete` (`EpochComplete`) and `OffsetsAdvance` (`NeverBack`)
from `ConfigAssumption`: the partitions, the two divisors and
`max_epochs` are positive and `min_workers` is at most `max_workers`.  `CommittedProcessed` is
not inductive: `prog` follows the highest finished unit while lower ones are
outstanding.  The invariant says that a record below `prog`, or below the end of a unit
that is held, has been processed or is in an outstanding unit (`UnitsInv`, `ProgInv`), unless
a thread has panicked, when the session will fail; that a worker which has gone leaves an
empty queue behind (`ThreadsInv`), so that after the join nothing is outstanding unless there were no
workers, and then `prog` is what was read; and that late puts too lie below what is processed
(`StoreInv`).  `FoundInv` adds what an empty plan says of the partitions passed so far.
That the units of a plan cover every record between the committed offset and the
end of the log is `UnitsCover`, which rests on lemmas about division.

`EpochComplete` and `NeverBack` need a second layer, `EpochInv`, on top of the first.
`OnceInv`: units that are queued or in a thread's hands do not overlap and no thread has another's.
`ExactInv`: the records counted so far and those of the outstanding units, as a set of partitions
and offsets, add up to what was planned, which is a step from one cardinality to another for each unit that is
processed.  `LogInv` bounds what is stored, planned and sent late by the log.  `StoredInv`: while every
put is answered, a partition that is not committed yet has no offset stored beyond the log the epoch found.
`PlanInv` and `ReachInv` follow `prog` from the failed or successful reads to the commit: before the join a
partition is up to date, or a unit that reaches the end of the log is still held, so the
commit stores nothing lower than what is there.  `SessionEnds` is a liveness property and stays with TLC.

## 6. MetaDurable: one node over crashes

### State and actions

`MetaDurable` is one node started with a data directory.  `raft` and `cat` are its two locked
structures, `tick` its ticker, `call` the handler threads of clients' calls and of other nodes' requests,
`join` the activation thread an ADD_PEER leaves behind, `disk` the files.  `saves` and `kept` are
history: what each `raft.bin` said of term and vote, and the entries of keys that a thread
took, applied and saved.

| Code (blitz-meta) | Actions |
|------|---------|
| `tick`: start_election, become_leader, then `is_leader` and `epoch` under the other lock | `StartElection`, `BecomeLeader`, `PublishElection` |
| `handle` 0xA1, 0xA2, OP_REPL | `HandleRequestVote`, `HandleAppendEntries`, `HandleRepl`, `EndRequest` |
| `handle` (OP_PUT, OP_ADD_PEER, OP_REMOVE_PEER) | `Enter`, `Answer` |
| `leader_propose` | `AppendEntry`, `NoQuorum`, `CommitEntry` |
| `apply_committed` with `apply_config_entry` | `TakeApplicable`, `ApplyPut`, `ApplyAddPeer`, `ApplyRemovePeer` |
| `persist_now`, `save_raft`, `save_catalog`, `atomic_write` | `BeginSave`, `SaveFile`, `SaveFails`, `NextFile` |
| `activate_new_peers`, `install_snapshot_on` | `ActivatePeer`, `InstallFails`, `InstallHangs` |
| the end of the process; `start_inner` with `load_raft`, `load_catalog` | `Crash`, `Restart` |

The other nodes are what arrives from them: votes that make a majority, acknowledgements that make one or
do not, and requests.  A request comes in any of the terms given, with an entry of another leader behind any
index and with any commit index, so that it may truncate the node's log or put an entry into its
catalog that its log never gets (`lib.rs:777`).  That is more than the other nodes send: a request may also
carry the term the node itself leads in, which in the code happens only after restarts that forgot votes.  An
entry of the node's own that a later leader sends back is one of the `Others`.

`persist_now` writes both files in turn and drops each error after printing it (`lib.rs:200-205`):
after `SaveFails` the old file stays, the next one is written, and the call is answered all the same.  A file is absent,
partly written or whole: `atomic_write` fills a temporary file (`Created`), which nobody loads and the model
therefore leaves out, and renames it (`Renamed`).  The bytes of an image are not modelled, but which fields it holds is
(`RaftImage`, `CatImage`): `load_raft` makes every node a Follower, and takes the peers of the environment when
the saved list is empty.

A snapshot that the node sends is never installed.  Its log ends with the entry that adds the peer, and for such
an entry `apply_snapshot` locks `raft` again while the `for` still holds it (`lib.rs:498`).  A
joiner in the same process hangs, and the activation thread with it (`InstallHangs`); any other does
not answer in time and is taken out again (`InstallFails`).

Left out: a snapshot that this node itself receives, after which it holds the lock `raft` for ever; OP_PROMOTE
and `kill`, which no program uses with a node that has a data directory.

### Properties and runs

| Run | Instance | Checks |
|-----|----------|--------|
| `durable` | a PUT and an ADD_PEER, both in flight; one request of another node: a vote, a heartbeat, or a PUT, ADD_PEER or REMOVE_PEER by AppendEntries or OP_REPL; 2 terms, 1 failed save, 2 crashes | `FilesLoad`, `AppliedSurvives`, `ReignsOnce`, `VoteKept`, `PeersOnce` |
| `forgotten` | 2 PUTs of one key, both in flight, 2 crashes | `AnsweredSurvives`: violated |

* `FilesLoad`: whenever the process ends, each file is absent or can be loaded.
* `AppliedSurvives`: what a thread has taken to apply, be it its own entry or another leader's, is in the catalog that a
  restart loads, or a value that was put in after it, once the thread's own save of `catalog.bin` has
  succeeded.  No other thread, no OP_REPL, no truncation of the log and no failed save that follows takes it
  away.  So an answered PUT is durable if the thread that answered it was the one that took it and its save did not
  fail; the run `forgotten` shows what happens when another took it.
* `ReignsOnce`: a term that a `raft.bin` was saved in is not led in again by a later life, whatever saves have failed
  since.  A term whose save failed may be led in again, although calls were answered in it (below).
* `VoteKept`: the same for votes: in no later life is the node in an earlier term than any it saved,
  nor does it vote for somebody else in the same term.
* `PeersOnce`: additions, activations, rollbacks and removals, its own and those that another leader sends, list no peer
  twice, and a leader's `next_index` keeps its length.

Two calls next to each other and a request are the least in which one thread takes the entry of another or of another
leader, and in which one node is added by two ways at the same time; the activation goes on while the other
threads run.  The request, the failed save and the crashes come at any step, and the second and the third life load
what the earlier ones left.  The bounds `MaxTerm`, `MaxIndex`, `MaxCrashes`, `MaxFailures`, `MaxInFlight` and the
sets of calls and requests are arbitrary in the proofs.  A run comes to an end when all calls are answered,
so deadlock is not checked.

### Finding

`forgotten`.  `persist.rs:7-8` says a restart retains the catalog pointer.  `apply_committed` takes
the committed entries under one lock, which moves `last_applied` past them, and
applies them one by one under another (`lib.rs:309`).  Of two PUTs at the same time the first takes both
entries; the second finds nothing to apply, saves a `last_applied` that covers its entry
next to a catalog without it, and answers.  If the node dies before the first has saved, the
restarted node never applies the entry again.

### Proofs

`MetaDurableProofs` proves, for any number of calls and requests, all in flight, and of failed saves, crashes, terms, indexes and
keys: `TypesHold` (`TypeOK`), `FilesAlwaysLoad` (`FilesLoad`), `AppliedKept` (`AppliedSurvives`), `TermsNotReused`
(`ReignsOnce`), `SavedVotesBind` (`VoteKept`) and `NoPeerTwice` (`PeersOnce`).  None of them is inductive.  `IInv` adds:

* `SavesInv`: every saved term and vote binds (`Binds`) both what would be loaded now and what runs now, and a node that
  stands or leads does so in a later term than any that a former life saved.  A failed save changes nothing that is on the
  disk, and a successful one only replaces a state by a later one of a node that was bound by the former
  (`TermsStay`).
* `TookInv`: an entry that a thread has taken is still to be applied or is held by the node's catalog, and a thread
  that saves has none left to apply; `CatalogGrows` and `HoldsInserted` say that no step of the running node takes away what its
  catalog holds.
* `KeptInv`: the running catalog holds whatever the saved one holds, and the saved one all of `kept`.  Hence a
  later save, by whichever thread, cannot lose what an earlier one kept.
* `DownInv`, that no thread outlives its process; `DiskOK`, that a file which is there is whole and of the right type; `PeersInv`,
  that the lists of peers in memory and in the file have no peer twice; `FileInv`, at which file a saving thread is.

`Steps` splits `Next` into the groups of steps that the lemmas use, and `FileSaved` and `NothingSaved` say what the
files and the history are after each of them.

### What else the model shows

An answer does not wait for a successful save.  After an error that was only printed, the answered entry, the term it
was made in and the vote behind that term may be missing from the disk, and a restarted node may
lead in the term again and give the same index to another entry, while `persist.rs:7-8` promises that a restart retains
the "Raft identity".  Votes, terms and entries that the node takes as a follower are not saved at all until one of its own calls is, so that a
restarted node may vote twice in a term, and what it has acknowledged is lost with it.

`catalog.bin` may hold what `raft.bin` lacks: an entry that came by OP_REPL only, or one whose `save_raft`
failed.  The raft log may lose an answered entry when a later leader truncates it; the catalog keeps its value.
Threads that have taken different entries of one key may apply them in either order, so that the older value may be the
one that stays; `Holds` speaks of the order in the catalog.

The activation thread's copy of the node has no data directory, so that an activated peer is in no file until the next PUT.  A
REMOVE_PEER that overtakes an activation is undone by it.  A node whose last peer was removed gets the peers of its
environment back when it starts.

## 7. A query from text to answer

### Modules

| Module | Models |
|--------|--------|
| `Words` | integers of `W` bits that wrap |
| `ZoneMaps` | comparisons and the one test by minimum and maximum that four crates repeat |
| `Lz4` | `compress`, with its hash table and its rules for the end of a block, and `decompress` |
| `ColumnFile` | `Writer` and `Reader`: pages, dictionaries, the footer, pruning, `eval_pred`, `gather` |
| `SqlFront` | `parse` of blitz-plan over tokens |
| `TablePlan` | `plan`: binding, pushdown, selectivity, file pruning, the choice of the join |
| `Warehouse` | `i64_bounds` and `DataFile` of the demo: what a manifest says of a data file |
| `TableFiles` | `write_data_file` of the demo: a table's files as the engine opens them |
| `EngineQuery` | `execute` and its threads |

All but `EngineQuery` are operators: a file is the sequence of words that `Writer` writes, and `Reader`
reads that sequence, with the positions of the footer, so that what one side writes and the other
expects is in the model.  How a text is parsed (`StatementOf`) and what a reader gives of a file (`OpenFile`, `Panics`,
`RowsWhere`, `Cells`) are parameters of `EngineQuery`, since parser and codecs are recursive and proofs need only
what assumptions say of them; the run gives it `SqlFront`'s `Parse` and `ColumnFile`'s operators.  `EngineQuery` is the state machine: `PlanQuery` parses, plans and lists
the morsels; `Claim` takes a morsel and scans, joins or aggregates it; `Flush` puts rows
into one partition of the exchange of a shuffle join, under its lock; `HandIn` gives a thread's partial
result; `EndRamp` is the end of the scope of threads; `Merge` the final aggregate, sort and limit.  A
query ends as answered, rejected or panicked.  The claim and the scan of a
morsel are one step, because files are only read; `EngineRamp` has the steps of a claim.

### Run

`query`: two tables (three files with two row groups, two pages and an empty file; a table with duplicate
keys and strings), integers of 5 bits with values at both ends, pages of 2 rows, two threads
that are alike, two partitions, and 54 statements of five kinds: scans over every operator, aggregates,
joins of both strategies, statements that are refused and statements that panic.  The sizes are those
of the code scaled down, so that a page, a row group, a nibble of LZ4 and the hash table overflow; the
bound for broadcasting lies between the sizes of the tables.  Every state has a way
on (`Rest` at the end), so that a check for deadlock shows that no schedule stops a query.

* `AnswerExact`: rows and counters of an answer are those of a definition over the rows as they
  were written, whatever was pruned, whichever strategy, on whatever schedule.
* `ExchangeComplete`: when the second ramp begins, the exchange holds every selected row
  of both sides once.
* `PrunedFilesHoldNothing`: a file left out holds no row that the predicates select.
* `FailsOnlyInvalid`: the planner refuses only what cannot be planned; the engine panics only on
  three kinds of statement (below).

A join whose ON names one source on both sides is planned as a join of that source with itself;
`AnswerExact` says nothing of it (`Sided`).

### What else the model shows

Tokens after a complete statement are ignored: in `FROM t AS x WHERE ...`, where an alias is
written without AS only, the WHERE is silently dropped.  A position in ORDER BY is not checked against the
list and panics, as do predicates that compare a column with a literal of another type or strings by a
range, and a plain column next to an aggregate without GROUP BY.  GROUP BY without an aggregate
is ignored, an aggregate over no rows has no row, and of two sources with the same table name or alias the first one wins.

### Proofs

`EngineQueryProofs` proves `PrunedFilesAreUseless` (`PrunedFilesHoldNothing`) for all tables, statements, numbers
of files and estimates, also for mistyped predicates, which the property itself leaves out.  The property relates
what the planner kept to rows that it never reads; the way from one to the other is:

* `BoundScan`, kept by every pass of the planner (`PushPredKeeps`, `BindJoinKeeps`, `BindItemKeeps`,
  `BindGroupKeeps`, together `BindKeeps`): a scan has the fields and all the files of its table, and each of its
  predicates is one of the statement's, bound to a field that exists and with that field's id, through whichever alias or
  unqualified name it was found (`ResolvedAt`).  `BindAllKeeps` carries this through the passes, which are
  a recursive function over the statement's parts, by the least part at which it would fail.
* `OnlyKeeps`: `retain` keeps every file that no predicate prunes, so that a file left out was pruned by one.
* `FilePrunesSoundly`: the bounds under a field's id are those of the column at that field's place, since ids
  are unique; they enclose its values (`Enclosed`), and the test on them is sound.

`ExchangeHoldsAll` states `ExchangeComplete`, for all numbers of threads, partitions, files and row groups, and whatever
the plan pruned.  It follows from `RowsAreSomewhere`, the invariant of the first ramp (`ShuffleInv`): what the claimed tasks found of a side
is, row for row, what is in its exchange buffers and in the pockets of the threads, which are the entries that a
thread has yet to flush (`AllHeld` in `MapState`).  Without the pockets it would not be inductive: between its claim and
its last lock a thread holds rows that are in no buffer.  Where rows are and how often is said without counting: two
families of lists have the same rows (`Same`) if there is a bijection between their places under which rows agree, so that a
step composes bijections (`SameTrans`, `SameParts`, `SameMove`) and only the last lemma counts (`SameOccurrences`).

* The steps: a claim puts what its morsel holds into empty pockets, each row into the one of its key (`MapClaim`, `BucketsSame`);
  a flush moves a pocket to the end of a buffer (`MapFlush`); a thread that hands in has empty pockets (`MapHandIn`), so that
  when all have ended every task was claimed and the buffers hold it all (`MapEnd`).
* What tasks find is what is selected (`FoundSame`): the morsels are the row groups of the files that the plan kept, each once
  (`MorselsOnce`); predicates in turn over sorted selections keep the rows that pass all of them (`SelectRight`,
  `OnlyAscends`); and rows of a pruned file pass none, by the first part (`ReadyScan` holds `NothingLost`).

The assumptions are named in `EngineQuery`: field ids are unique, a file's columns are the table's and of one length,
Int64 values are words of W bits (`TablesAssumption`); the lists of a parsed statement are sequences and its Int64
literals integers (`StatementsAssumption`); and, for the exchange, a reader of a file covers its rows by row groups, selects the rows
whose values satisfy a comparison, in order, or panics, and gathers the cells of a selection (`ReadersAssumption`).  The last one is
the contract of `ColumnFile`, where the codecs and their recursion are: TLC evaluates it in `query` for
`ColumnFile`'s operators, every file, row group, predicate and selection there, and the other two as well.

`AnswerExact` and `FailsOnlyInvalid` stay with TLC.  The first is about folds over rows and sums over sets of rows, which
would be induction over data.  The second is not a fact of all statements: if an alias is another source's table name, the
planner takes the first source that is called so, and may refuse what the second one has; `query` asks no such
statement.

## 8. The block engine

`Kernels` has the operators of blitz-core and blitz-exec on one block (`FilterI64`, `SumI64`, `GroupAgg`,
`ExecMorsel`, `MergePartial`, `ApplyOrderLimit`) and the messages in which a query, a block's
columns and a partial result go to a worker and back, word by word.  `BlockSql` is `parse` of
blitz-sql over tokens, and `resolve_table_source`.  `LiquidTable` is the state machine: `RecordPredicate` counts
the columns of predicates, `Recluster` sorts the table along the curve and rebuilds
blocks and zones, `Ask` parses a statement and prunes, `RunMorsel` executes one block, here, on a worker
that has the table or on one that is sent its columns, and `Answer` sorts and cuts.  How a text is
understood is a parameter of the module, `Understood`, since the parser is recursive and what is proved does
not depend on it; the run gives it `BlockSql`'s `Understand`.  The queue is the set of its blocks, of
which the last is always taken.

`blocks` starts from tables whose values reach both ends of 4-bit integers and whose keys tie, with blocks of
3 rows, 3-bit curve keys (32 in the code), a flat table of 4 group keys of which 2 are
sampled (4096 and 1024), two SIMD lanes, and two levels of nesting (32).

* `Reclustered`: after any number of reclusterings, by any columns and whatever order among ties, the
  table has the rows it was made of (`RowsKept`), and where the values fit the scale no row is
  stored behind one that it precedes on the curve (`AlongTheCurve`).
* `PrunedBlocksHoldNothing`: a block left out holds no row that the filter lets through, although rows
  have moved since the table was made.
* `ReadAsWritten`: a plain statement, with its clauses in one fixed order, is run as it was written.
* `ResultExact`: the result is that of a definition over all rows, whoever ran which morsel.

What else the model shows.  The tokenizer drops parentheses, so that WITH is always refused, although
`blitz-sql/src/lib.rs:60` promises it, and `FROM (SELECT ...)` reads a table called SELECT.  The
groups of an ORDER BY are collected into a hash map again, so that the order is lost; `ResultExact`
compares sets of groups.  A range that overflows makes the scale of a column useless, and
`AlongTheCurve` excepts it; rows and zones stay right.  The doubles of the scale are taken as exact.
The shuffle messages are sent by nobody, and the Float64, Date and Decimal arms cannot be reached, since
zone maps accept integers only.

### Proofs

`LiquidTableProofs` proves the zone-map test for all integers, operators and literals: it is sound
(`SkippedHoldsNothing`) and as sharp as two bounds can be (`ReadMayHoldSomething`).  It then proves, for all
tables, statements, block sizes, key widths and any number of reclusterings:

* `PrunedBlocksAreUseless`: `PrunedBlocksHoldNothing`.
* `ReclusteringSorts`: `Reclustered`, both halves.

Neither property is inductive: each relates the blocks to rows or zones that they are not made of any more.  `TableInv`
says where the blocks come from: they are the `Chunks` of a rearrangement of the loaded rows, and the zones are built
from them; a running query's filter names a column, an operator and a word.  From it follow: the
chunks read back as the rows they were cut from (`ReadBack`), so that reclustering, which reads them all, rearranges
the same rows again; a rearrangement has the same bag of rows (`SameBag`); and the zone of a block
encloses its values (`ZoneEncloses`).  For the curve, `Spread` is increasing (the highest bit that differs
decides), so is the scaling of values that fit the keys (`NormIncreases`), hence the position of a row that is behind
another in no column and before it in one is smaller (`CurveIncreases`), and a sorted
table has none the wrong way round (`SortedAlong`).  `AlongTheCurve` is then kept by every other step, together with the fact that predicates are
recorded for columns of the table (`CurveInv`).

What a recursive function such as `Spread` or the library's `FlattenSeq` computes is proved from the least argument
at which it would go wrong (`LeastNat`, from the well-foundedness of the naturals), because the library's
induction theorems cannot be instantiated with an operator.

The assumptions are those of the code: a table has rows, all with the same columns, at least one
(`TablesAssumption`: reclustering a table without blocks panics at `blocks[0]`); a statement that is understood
filters by a column that exists, an operator and a word (`StatementsAssumption`: the zone map of another column
panics); keys are narrower than the words of a column (`KeysAssumption`: 32 of 64 bits).  TLC evaluates all of
them in `blocks`.  `ReadAsWritten` and `ResultExact` are about the parser and about sums over folds; they stay
with TLC.

## 9. Iceberg tables

`Avro` models blitz-avro: schemas, `encode` and `decode`, varints on bytes of `ByteBits` bits, and containers,
also with several blocks and negative counts, as other engines write them; `AvroValues` has the values and how a
field is found in one.  `Iceberg` models what
the metadata, the manifest lists and the manifests hold and how `plan_files` reads them back, through the
same schemas.  What the bytes of a container are is a parameter of it (`AvroHeader`, `AvroBlock`, `AvroRead`), since the codec
is recursive and the proofs do not depend on it; the run gives it `Avro`'s `Header`, `Block` and `ReadContainer`.  `IcebergTables` is three programs over a file system in which a file is created empty and
grows part by part (`Write`, `WritePart`):

* iceberg_demo: `WriteDataFile`, `CreateTable`, `WriteManifest`, `WriteManifestList`, `AppendFiles`, then
  `CommitPointer` for each table, next to readers (`Ask`, `ReadMeta`, `ReadList`, `ReadManifest`)
  that are other clients of the catalog;
* stream_demo: `StartSink`, `Push`, `RunEpoch`, `SinkUnit`, `WriteManifest`, `WriteManifestList`, `SinkAppend`;
* a container written by `write_container` or by another engine and read back (`WriteSample`).

`Crash` ends a program at any write, and every I/O error is one; it may be run again, which removes the
files first.  The catalog, the stream and its offsets live in the process.  `run_epoch` is
`StreamEpoch`'s, in one step, with its units in any order.

`tables` has two tables, two readers, two partitions with units of 2 and 4 records, 9-bit words of 3-bit
bytes and two runs of a program.  It is exhausted, and checked for deadlock.

* `ContainersReadBack`: a finished container reads as the schema and the rows it was written from.
* `PublishedTables`: a pointer in the catalog leads to a complete table (`PointersComplete`), and a
  reader finds exactly its data files, with their counts and bounds (`ReadersExact`), unless the program was run
  again meanwhile.
* `SnapshotsScan`: whenever the sink's program ends, every complete version has the snapshots of the epochs up to
  it, and each scans to the files that its epoch listed.
* `SinkFaithful`: a unit's rows are in the file listed for it, within the bounds listed, if its epoch had one
  unit of each partition.
* `WrittenOnce`: no run changes a metadata file, a manifest or a list that it has finished.

What else the model shows.  The manifest list of an append names the new manifest only, and
`plan_files` reads the current snapshot: earlier appends vanish from scans.  With several units of one partition in an
epoch the later file replaces the earlier, and is listed twice with different bounds (in the demo
an epoch has up to three units a partition, since 40 records make a unit).  The sink is written after the
offsets are committed: in memory, so nothing remembers the lost records as delivered.  A second run of
the program writes the same names, so that a reader with an older pointer may find a missing,
a partial or an empty file; a container of which only the header was written reads as one without
rows.  The sink's table never gets a pointer in the catalog, and a pointer that cannot be committed is only
reported.

There is no liveness property among them: these programs are sequences of
steps that end, and a check for deadlock with `Rest` at the end shows that they do not stop earlier.

### Proofs

`IcebergTablesProofs` proves, for all tables, readers, partitions, numbers of epochs, records and runs:

* `TablesArePublished` (`PublishedTables`), `EverySnapshotScans` (`SnapshotsScan`), `SinkIsFaithful` (`SinkFaithful`);
* `FilesWrittenOnce` (`WrittenOnce`), for every step.

Each relates what was promised at one time, a pointer, a snapshot, an entry, to files that were written long
before and must still be what they were, in spite of crashes at any write.  The invariant
`IInv` (`IcebergInvariant`) therefore follows every file from its creation.  A file with given contents is
`Whole`, or it is the one being written and the rest is on its way (`Coming`); `Will` is either, and of a metadata file that a
program may have left behind, `Begun` says that it is empty or right.  Then:

* `BuildInv`: at each stage of iceberg_demo the tables before the current one will be whole, and of the current one the
  files that the stage has passed; `CatalogInv`: a pointer is there only once nothing is being written any more;
* `ReaderInv`: what a reader holds between its steps is what the published table has, although
  the program may have ended since;
* `SinkInv`: every epoch that was recorded has its manifest, its list and, if its units have files of their own, its data
  files whole; the epoch under way has those of its stages; every version has been begun with the table of that version;
* `BuildFresh`, `SinkFresh`: what a stage is about to write is not there yet.

It rests on lemmas of two kinds.  What is written is read back: metadata (`MetadataReadBack`), the entries of a manifest with
their bounds, paired again by field (`EntryReadBack`, `FilesReadBack`), the manifest list (`ListReadBack`), and so a whole append
(`ScanReadBack`).  And a step keeps what it does not touch: a part that is written (`PartKeeps`), a
file that is created (`WriteEffect`), a crash (`CrashKeeps`), for which the paths of different files must differ
(`PathsDiffer`, `PathsSame`).  `SinkEntryIs` and `ColumnBounds` are about the rows: a column lies between
the least and the greatest of its values, which the manifest lists.

The assumptions are those of `IcebergTables`, and TLC evaluates them in `tables`: field ids are unique and a file has the columns
of its table (`TablesAssumption`); the manifests and lists that the programs may append read back as the rows
they were written from (`ContainersAssumption`), which is where the codec comes in; keys and values of the stream are longs,
and `de_long` inverts `ser_long` (`StreamAssumption`).  The last two are about recursion and
folds over bytes, so that they cannot be proved here.  For the same reason `ContainersReadBack` stays with TLC.

With this, the safety properties that are only model-checked in the whole project are `AnswerExact` and
`FailsOnlyInvalid` (section 7), `ReadAsWritten` and `ResultExact` (section 8) and `ContainersReadBack`: they are about
parsers, codecs and folds over rows.  The liveness properties are the others.

## 10. Not modelled

* The query daemon and microVM control (blitz-boot): what concurrent queries share, links, sockets and
  Firecracker processes, is the host's.  `spawn_firecracker` and `run_query` work in one directory without a
  lock, so queries at the same time remove each other's files (`blitz_queryd.rs:285`).
* The object store, `read_metadata_from_store`, `write_metadata_to_store` and `open_warehouse`, which
  only tests call; `blitz-iceberg/src/avro.rs` and `json.rs`, which nothing compiles; Parquet conversion.
* A data file that cannot be opened: blitz-engine skips it without a word (`lib.rs:386`, `lib.rs:399`), and the answer is then
  silently short.  The files of `EngineQuery` open, and `AnswerExact` is about them.
* Containers cut in the middle of a block, at which blitz-avro panics (`lib.rs:374`); the metadata map of a container's
  header (`lib.rs:345-367`: its bytes, negative counts, unknown codecs), of which the model has the schema and the codec, and the
  sync markers, which the reader skips.
* Errors of `remove_dir_all`, which the two demos ignore (`stream_demo.rs:236`, `iceberg_demo.rs:128`): the model
  takes the directory for empty when a program begins.
* The Float64, Date and Decimal kernels and the shuffle messages, which cannot be reached or are sent by nobody.
* `explain`, `clustering_quality`, timings, reports; GET, STATUS and client functions; the catalog
  server's `main`, multi_node_demo and deployment.
* Several nodes that crash and restart together: votes and acknowledgements given since the last own call are in no file, so
  that neither one leader a term nor a majority of holders survives a restart (section 6).
