------------------------------ MODULE MetaRaft ------------------------------
(***************************************************************************)
(* The replicated catalog service of blitz-meta, as it runs with a fixed   *)
(* membership and no data directory: MetaNode::start, whose persist_now is *)
(* a no-op.  Each node keeps its Raft state behind one mutex and its       *)
(* catalog state behind another.  Three kinds of threads of a node take    *)
(* them in turn: the ticker (elections and heartbeats), one thread for     *)
(* each request it receives, and, for a client PUT, that thread running    *)
(* leader_propose.  An action of this module is what a thread does within  *)
(* one critical section, together with its thread-local work; the vote and *)
(* append handlers take the second mutex while they hold the first.        *)
(*                                                                         *)
(* A request travels on a connection of its own.  A request in rpcs may be *)
(* handled at any later time or never, also after its caller has given up  *)
(* on it: the caller's wait ends with the answer or with a 100 or 200 ms   *)
(* timeout, so in the model the caller's next step is enabled at once, and *)
(* an answer counts only while its caller still waits for it.              *)
(***************************************************************************)
EXTENDS Integers, Sequences, FiniteSets

CONSTANTS
  Nodes,        \* the nodes' addresses; peers of a node are all the others
  NoNode,       \* voted_for: None
  Puts,         \* the PUT calls of clients; a call's identity is the value it puts
  NoPut,        \* a key absent from the map; the caller of a heartbeat
  Keys,         \* catalog keys
  Epochs,       \* epochs an operator may promote a node to
  Victims,      \* nodes that may be killed
  Contenders,   \* bound: the nodes whose election timer may run out
  MaxTerm,      \* bound: no election starts beyond this term
  MaxBallots,   \* bound: rounds of vote requests of one node
  MaxBeats,     \* bound: rounds of heartbeats of one node
  MaxInFlight   \* bound: PUT calls under way at the same time

ASSUME NodesAssumption == IsFiniteSet(Nodes) /\ NoNode \notin Nodes
ASSUME PutsAssumption  == NoPut \notin Puts
ASSUME EpochsAssumption == Epochs \subseteq Nat
ASSUME VictimsAssumption == Victims \subseteq Nodes
ASSUME BoundsAssumption ==
  /\ Contenders \subseteq Nodes
  /\ MaxTerm \in Nat /\ MaxBallots \in Nat /\ MaxBeats \in Nat /\ MaxInFlight \in Nat

VARIABLES
  \* RaftNode, behind the mutex `raft`
  currentTerm, votedFor, role, log, commitIndex, lastApplied,
  \* NodeState, behind the mutex `state`
  epoch, isLeader, map, catLog, alive,
  \* threads and network
  tick,         \* the ticker of each node
  put,          \* the handler thread of each PUT call, and its answer
  rpcs,         \* requests between nodes, sent and not yet handled
  appliers,     \* AppendEntries handlers that have released `raft` and go on to apply
  \* history
  cast,         \* the votes given, <<term, voter, candidate>>
  elected       \* the <<term, node>> pairs for which become_leader has run

raftVars  == <<currentTerm, votedFor, role, log, commitIndex, lastApplied>>
stateVars == <<epoch, isLeader, map, catLog, alive>>
history == <<cast, elected>>
vars == <<raftVars, stateVars, tick, put, rpcs, appliers, history>>

Majority == Cardinality(Nodes) \div 2 + 1

Peers(n) == Nodes \ {n}

LogEntry == [term: Nat, index: Nat, key: Keys, val: Puts]
CatalogEntry == [epoch: Nat, index: Nat, key: Keys, val: Puts]

\* Variant: indexes counted from zero.
LastIndexZeroBased(l) == Len(l) - 1
LastIndex(l) == IF l = <<>> THEN 0 ELSE l[Len(l)].index
LastTerm(l)  == IF l = <<>> THEN 0 ELSE l[Len(l)].term

\* A ticker between two ticks, after that many rounds of votes and heartbeats.
IdleTicker(ballots, beats) ==
  [pc |-> "idle", ballots |-> ballots, beats |-> beats,
   term |-> 0, todo |-> {}, peer |-> NoNode, votes |-> {}]

\* A PUT call before it is sent; the last four fields are locals of leader_propose.
UnsentPut ==
  [pc |-> "unsent", node |-> NoNode, entry |-> <<>>, result |-> "none",
   view |-> [term |-> 0, epoch |-> 0], todo |-> {}, peer |-> NoNode,
   acks |-> {}, pending |-> <<>>]

\* The ticker of n after a tick.
Rested(n) == IdleTicker(tick[n].ballots, tick[n].beats)

Init ==
  /\ currentTerm = [n \in Nodes |-> 0]
  /\ votedFor = [n \in Nodes |-> NoNode]
  /\ role = [n \in Nodes |-> "Follower"]
  /\ log = [n \in Nodes |-> <<>>]
  /\ commitIndex = [n \in Nodes |-> 0]
  /\ lastApplied = [n \in Nodes |-> 0]
  /\ epoch = [n \in Nodes |-> 1]
  /\ isLeader = [n \in Nodes |-> FALSE]
  /\ map = [n \in Nodes |-> [k \in Keys |-> NoPut]]
  /\ catLog = [n \in Nodes |-> {}]
  /\ alive = [n \in Nodes |-> TRUE]
  /\ tick = [n \in Nodes |-> IdleTicker(0, 0)]
  /\ put = [t \in Puts |-> UnsentPut]
  /\ rpcs = {}
  /\ appliers = {}
  /\ cast = {}
  /\ elected = {}

-----------------------------------------------------------------------------
(* The ticker: MetaNode::tick.  Its successive reads of the role are guards. *)

\* A Follower whose election timer has run out.  Timers are not modelled: they
\* may run out at any time.
StartElection(n) ==
  /\ n \in Contenders
  /\ tick[n].pc = "idle"
  /\ role[n] = "Follower"
  /\ currentTerm[n] < MaxTerm
  /\ role' = [role EXCEPT ![n] = "Candidate"]
  /\ currentTerm' = [currentTerm EXCEPT ![n] = @ + 1]
  /\ votedFor' = [votedFor EXCEPT ![n] = n]
  /\ cast' = cast \cup {<<currentTerm[n] + 1, n, n>>}
  /\ UNCHANGED <<log, commitIndex, lastApplied, stateVars, tick, put, rpcs, appliers, elected>>

\* A Candidate, in this tick or a later one of the same term, notes its term and
\* counts its own vote.  (The code reads the role once more before it notes the
\* term; a node deposed in between asks for votes it cannot use, as it also does
\* when deposed later.)
BeginBallot(n) ==
  /\ tick[n].pc = "idle"
  /\ role[n] = "Candidate"
  /\ tick[n].ballots < MaxBallots
  /\ tick' = [tick EXCEPT ![n].pc = "ballot", ![n].ballots = @ + 1,
                          ![n].term = currentTerm[n], ![n].todo = Peers(n),
                          ![n].votes = {n}]
  /\ UNCHANGED <<raftVars, stateVars, put, rpcs, appliers, history>>

\* The next peer is asked with the term and the log of this moment, not with
\* those of BeginBallot.
AskVote(n, p) ==
  /\ tick[n].pc = "ballot"
  /\ p \in tick[n].todo
  /\ tick' = [tick EXCEPT ![n].todo = @ \ {p}, ![n].peer = p]
  /\ rpcs' = rpcs \cup
       {[type |-> "RequestVote", from |-> n, to |-> p, round |-> tick[n].ballots,
         term |-> currentTerm[n], lastIndex |-> LastIndex(log[n]),
         lastTerm |-> LastTerm(log[n])]}
  /\ UNCHANGED <<raftVars, stateVars, put, appliers, history>>

\* All peers asked: become leader if the votes suffice and the node still is a
\* Candidate.  The term then read under the same lock is what PublishWin uses.
TallyVotes(n) ==
  /\ tick[n].pc = "ballot"
  /\ tick[n].todo = {}
  /\ IF Cardinality(tick[n].votes) >= Majority /\ role[n] = "Candidate"
       THEN /\ role' = [role EXCEPT ![n] = "Leader"]
            /\ elected' = elected \cup {<<currentTerm[n], n>>}
            /\ tick' = [tick EXCEPT ![n] =
                 [Rested(n) EXCEPT !.pc = "won", !.term = currentTerm[n]]]
       ELSE /\ tick' = [tick EXCEPT ![n] = Rested(n)]
            /\ UNCHANGED <<role, elected>>
  /\ UNCHANGED <<currentTerm, votedFor, log, commitIndex, lastApplied,
                 stateVars, put, rpcs, appliers, cast>>

\* The catalog side learns of the election, under the other lock.
PublishWin(n) ==
  /\ tick[n].pc = "won"
  /\ isLeader' = [isLeader EXCEPT ![n] = TRUE]
  /\ epoch' = [epoch EXCEPT ![n] = tick[n].term]
  /\ tick' = [tick EXCEPT ![n] = Rested(n)]
  /\ UNCHANGED <<raftVars, map, catLog, alive, put, rpcs, appliers, history>>

\* The heartbeat timer of a Leader has run out ...
SeeLeader(n) ==
  /\ tick[n].pc = "idle"
  /\ role[n] = "Leader"
  /\ tick[n].beats < MaxBeats
  /\ tick' = [tick EXCEPT ![n].pc = "beat", ![n].beats = @ + 1]
  /\ UNCHANGED <<raftVars, stateVars, put, rpcs, appliers, history>>

\* ... and what it sends is read afterwards, whatever the role has become.  A
\* heartbeat has no entries and prev_log_index 0.  Its answers are not used, so
\* all of them are sent at once.
SendHeartbeats(n) ==
  /\ tick[n].pc = "beat"
  /\ rpcs' = rpcs \cup
       {[type |-> "AppendEntries", by |-> NoPut, from |-> n, to |-> p,
         round |-> tick[n].beats, term |-> currentTerm[n], prevIndex |-> 0,
         prevTerm |-> 0, entries |-> <<>>, commit |-> commitIndex[n]] : p \in Peers(n)}
  /\ tick' = [tick EXCEPT ![n] = Rested(n)]
  /\ UNCHANGED <<raftVars, stateVars, put, appliers, history>>

-----------------------------------------------------------------------------
(* Requests between nodes: the 0xA1, 0xA2 and OP_REPL arms of               *)
(* MetaNode::handle.  alive guards only the last.                           *)

\* The candidate's log is at least as up to date as that of n.
UpToDate(m, n) ==
  \/ m.lastTerm > LastTerm(log[n])
  \/ m.lastTerm = LastTerm(log[n]) /\ m.lastIndex >= LastIndex(log[n])

\* A request of a later term moves n to that term, as a Follower without a vote.
AdoptedTerm(m, n) == IF m.term > currentTerm[n] THEN m.term ELSE currentTerm[n]
\* Variant: the vote forgotten also on a request of the same term.
AdoptedVoteSameTerm(m, n) == IF m.term >= currentTerm[n] THEN NoNode ELSE votedFor[n]
AdoptedVote(m, n) == IF m.term > currentTerm[n] THEN NoNode ELSE votedFor[n]

\* Variant: an earlier vote of the same term not looked at.
GrantsAnyCandidate(m, n) == m.term >= currentTerm[n] /\ UpToDate(m, n)
Grants(m, n) ==
  /\ m.term >= currentTerm[n]
  /\ AdoptedVote(m, n) \in {NoNode, m.from}
  /\ UpToDate(m, n)

\* The ticker that sent m still waits for its answer.
AwaitsVote(m) ==
  /\ tick[m.from].pc = "ballot"
  /\ tick[m.from].peer = m.to
  /\ tick[m.from].ballots = m.round

HandleRequestVote(m) ==
  /\ m \in rpcs
  /\ m.type = "RequestVote"
  /\ LET n == m.to IN
     /\ currentTerm' = [currentTerm EXCEPT ![n] = AdoptedTerm(m, n)]
     /\ votedFor' = [votedFor EXCEPT ![n] =
          IF Grants(m, n) THEN m.from ELSE AdoptedVote(m, n)]
     /\ role' = [role EXCEPT ![n] = IF m.term > currentTerm[n] THEN "Follower" ELSE @]
     /\ isLeader' = [isLeader EXCEPT ![n] = @ /\ role'[n] # "Follower"]
     /\ cast' = IF Grants(m, n) THEN cast \cup {<<m.term, n, m.from>>} ELSE cast
     /\ tick' = IF Grants(m, n) /\ AwaitsVote(m) /\ m.term = tick[m.from].term
                  THEN [tick EXCEPT ![m.from].votes = @ \cup {n}]
                  ELSE tick
  /\ rpcs' = rpcs \ {m}
  /\ UNCHANGED <<log, commitIndex, lastApplied, epoch, map, catLog, alive,
                 put, appliers, elected>>

\* Variant: a log that is too short for the entry before not refused.
PrevLogOkTooShort(m, l) ==
  m.prevIndex \in 1..Len(l) => l[m.prevIndex].term = m.prevTerm
PrevLogOk(m, l) ==
  \/ m.prevIndex = 0
  \/ m.prevIndex <= Len(l) /\ l[m.prevIndex].term = m.prevTerm

\* The log after the entries of m, of which there is one or none: an entry of
\* another term at its place is cut off with everything after it.
MergedLog(m, l) ==
  IF m.entries = <<>> THEN l
  ELSE LET i == m.prevIndex + 1
           e == m.entries[1] IN
       IF i > Len(l) THEN Append(l, e)
       ELSE IF l[i].term = e.term THEN l
       ELSE Append(SubSeq(l, 1, i - 1), e)

AdvancedCommit(m, c, l) ==
  IF m.commit <= c THEN c
  ELSE IF m.commit < LastIndex(l) THEN m.commit ELSE LastIndex(l)

\* A request of the current or a later term makes n a Follower, also a leader.
AdoptedRole(m, n) == IF m.term >= currentTerm[n] THEN "Follower" ELSE role[n]

\* Variant: whatever its term.
AcceptsEntriesAnyTerm(m, n) == PrevLogOk(m, log[n])
AcceptsEntries(m, n) == m.term >= currentTerm[n] /\ PrevLogOk(m, log[n])

HandleAppendEntries(m) ==
  /\ m \in rpcs
  /\ m.type = "AppendEntries"
  /\ LET n == m.to IN
     /\ currentTerm' = [currentTerm EXCEPT ![n] = AdoptedTerm(m, n)]
     /\ votedFor' = [votedFor EXCEPT ![n] = AdoptedVote(m, n)]
     /\ role' = [role EXCEPT ![n] = AdoptedRole(m, n)]
     /\ log' = [log EXCEPT ![n] = IF AcceptsEntries(m, n) THEN MergedLog(m, @) ELSE @]
     /\ commitIndex' = [commitIndex EXCEPT ![n] =
          IF AcceptsEntries(m, n) THEN AdvancedCommit(m, @, log'[n]) ELSE @]
     /\ isLeader' = [isLeader EXCEPT ![n] = @ /\ role'[n] # "Follower"]
     /\ appliers' = appliers \cup
          {[by |-> m.by, from |-> m.from, to |-> n, round |-> m.round,
            term |-> AdoptedTerm(m, n), success |-> AcceptsEntries(m, n),
            taken |-> FALSE, pending |-> <<>>]}
  /\ rpcs' = rpcs \ {m}
  /\ UNCHANGED <<lastApplied, epoch, map, catLog, alive, tick, put, history>>

\* take_applicable: the entries it returns, which it looks up by index (see
\* IndexIsPosition), and the new last_applied, which goes past missing ones.
Applicable(n) ==
  SubSeq(log[n], lastApplied[n] + 1,
         IF commitIndex[n] < Len(log[n]) THEN commitIndex[n] ELSE Len(log[n]))
\* Variant: last_applied not moved.
AppliedUpToStuck(n) == lastApplied[n]
AppliedUpTo(n) == IF lastApplied[n] < commitIndex[n] THEN commitIndex[n] ELSE lastApplied[n]

\* One pass of the loop of apply_committed: an entry enters the catalog.
ApplyEntry(n, e) ==
  /\ map' = [map EXCEPT ![n][e.key] = e.val]
  /\ catLog' = [catLog EXCEPT ![n] = @ \cup
       {[epoch |-> e.term, index |-> e.index, key |-> e.key, val |-> e.val]}]

\* The answer to an AppendEntries reaches the PUT handler that waits for it.
\* Variant: any answer counts.
AnswerAppendAny(a) ==
  put' = IF a.by # NoPut /\ put[a.by].pc = "append" /\ put[a.by].peer = a.to
           THEN [put EXCEPT ![a.by].acks = @ \cup {a.to}]
           ELSE put
AnswerAppend(a) ==
  put' = IF /\ a.by # NoPut
            /\ put[a.by].pc = "append" /\ put[a.by].peer = a.to
            /\ a.success /\ a.term = put[a.by].view.term
           THEN [put EXCEPT ![a.by].acks = @ \cup {a.to}]
           ELSE put

\* The handler takes what is committed, then applies it entry by entry, then
\* answers.
TakeCommitted(a) ==
  /\ a \in appliers
  /\ ~a.taken
  /\ lastApplied' = [lastApplied EXCEPT ![a.to] = AppliedUpTo(a.to)]
  /\ IF Applicable(a.to) = <<>>
       THEN appliers' = appliers \ {a} /\ AnswerAppend(a)
       ELSE /\ appliers' = (appliers \ {a}) \cup
                 {[a EXCEPT !.taken = TRUE, !.pending = Applicable(a.to)]}
            /\ UNCHANGED put
  /\ UNCHANGED <<currentTerm, votedFor, role, log, commitIndex, stateVars,
                 tick, rpcs, history>>

ApplyCommitted(a) ==
  /\ a \in appliers
  /\ a.taken
  /\ ApplyEntry(a.to, Head(a.pending))
  /\ IF Len(a.pending) = 1
       THEN appliers' = appliers \ {a} /\ AnswerAppend(a)
       ELSE /\ appliers' = (appliers \ {a}) \cup {[a EXCEPT !.pending = Tail(@)]}
            /\ UNCHANGED put
  /\ UNCHANGED <<raftVars, epoch, isLeader, alive, tick, rpcs, history>>

\* Variant: the epoch not looked at.
AcceptsReplUnfenced(m, n) == alive[n]
AcceptsRepl(m, n) == alive[n] /\ m.epoch >= epoch[n]

\* OP_REPL: fenced by the epoch, and applied at once, committed or not.
HandleRepl(m) ==
  /\ m \in rpcs
  /\ m.type = "Repl"
  /\ LET n == m.to
         e == m.entry
         ok == AcceptsRepl(m, n) IN
     /\ IF ok
          THEN /\ epoch' = [epoch EXCEPT ![n] = m.epoch]
               /\ isLeader' = [isLeader EXCEPT ![n] = FALSE]
               /\ map' = [map EXCEPT ![n][e.key] = e.val]
               /\ catLog' = [catLog EXCEPT ![n] = @ \cup
                    {[epoch |-> m.epoch, index |-> e.index, key |-> e.key, val |-> e.val]}]
          ELSE UNCHANGED <<epoch, isLeader, map, catLog>>
     /\ put' = IF ok /\ put[m.by].pc = "repl" /\ put[m.by].peer = n
                 THEN [put EXCEPT ![m.by].acks = @ \cup {n}]
                 ELSE put
  /\ rpcs' = rpcs \ {m}
  /\ UNCHANGED <<raftVars, alive, tick, appliers, history>>

-----------------------------------------------------------------------------
(* A client's PUT: the OP_PUT arm of MetaNode::handle and leader_propose.   *)

\* The handler thread answers and ends.
Answer(t, result) ==
  put' = [put EXCEPT ![t] = [UnsentPut EXCEPT
            !.pc = "done", !.node = put[t].node, !.entry = put[t].entry, !.result = result]]

InFlight == {t \in Puts : put[t].pc \notin {"unsent", "done"}}

\* A dead node closes the connection, a node that does not lead says so.
ReceivePut(t, n, k) ==
  /\ put[t].pc = "unsent"
  /\ Cardinality(InFlight) < MaxInFlight
  /\ IF alive[n] /\ isLeader[n]
       THEN put' = [put EXCEPT ![t].pc = "propose", ![t].node = n,
              ![t].entry = <<[term |-> 0, index |-> 0, key |-> k, val |-> t]>>]
       ELSE put' = [put EXCEPT ![t].pc = "done", ![t].node = n,
              ![t].result = IF alive[n] THEN "not_leader" ELSE "unreachable"]
  /\ UNCHANGED <<raftVars, stateVars, tick, rpcs, appliers, history>>

Entry(t) == put[t].entry[1]

\* append_entry, if the Raft side agrees that the node leads.
\* Variant: appended whatever the role.
ProposeEntryAnyRole(t) ==
  LET n == put[t].node
      e == [Entry(t) EXCEPT !.term = currentTerm[n], !.index = LastIndex(log[n]) + 1] IN
  /\ put[t].pc = "propose"
  /\ log' = [log EXCEPT ![n] = Append(@, e)]
  /\ put' = [put EXCEPT ![t].pc = "capture", ![t].entry = <<e>>]
  /\ UNCHANGED <<currentTerm, votedFor, role, commitIndex, lastApplied,
                 stateVars, tick, rpcs, appliers, history>>
\* Variant: the next index taken from the commit index.
ProposeEntryAfterCommit(t) ==
  LET n == put[t].node
      e == [Entry(t) EXCEPT !.term = currentTerm[n], !.index = commitIndex[n] + 1] IN
  /\ put[t].pc = "propose"
  /\ IF role[n] = "Leader"
       THEN /\ log' = [log EXCEPT ![n] = Append(@, e)]
            /\ put' = [put EXCEPT ![t].pc = "capture", ![t].entry = <<e>>]
       ELSE Answer(t, "not_leader") /\ UNCHANGED log
  /\ UNCHANGED <<currentTerm, votedFor, role, commitIndex, lastApplied,
                 stateVars, tick, rpcs, appliers, history>>
ProposeEntry(t) ==
  LET n == put[t].node
      e == [Entry(t) EXCEPT !.term = currentTerm[n], !.index = LastIndex(log[n]) + 1] IN
  /\ put[t].pc = "propose"
  /\ IF role[n] = "Leader"
       THEN /\ log' = [log EXCEPT ![n] = Append(@, e)]
            /\ put' = [put EXCEPT ![t].pc = "capture", ![t].entry = <<e>>]
       ELSE Answer(t, "not_leader") /\ UNCHANGED log
  /\ UNCHANGED <<currentTerm, votedFor, role, commitIndex, lastApplied,
                 stateVars, tick, rpcs, appliers, history>>

\* The peers, the term and the epoch the replication works with.
CaptureView(t) ==
  LET n == put[t].node IN
  /\ put[t].pc = "capture"
  /\ put' = [put EXCEPT ![t].pc = "next", ![t].todo = Peers(n),
                        ![t].view = [term |-> currentTerm[n], epoch |-> epoch[n]]]
  /\ UNCHANGED <<raftVars, stateVars, tick, rpcs, appliers, history>>

\* Variant: every entry sent as the first of the log.
PrevIndexNone(t) == 0
PrevIndex(t) == Entry(t).index - 1

\* The next peer: AppendEntries with the term, commit index and log of now ...
SendAppend(t, p) ==
  LET n == put[t].node
      prev == PrevIndex(t) IN
  /\ put[t].pc \in {"next", "repl"}
  /\ p \in put[t].todo
  /\ rpcs' = rpcs \cup
       {[type |-> "AppendEntries", by |-> t, from |-> n, to |-> p, round |-> 0,
         term |-> currentTerm[n], prevIndex |-> prev,
         prevTerm |-> IF prev \in 1..Len(log[n]) THEN log[n][prev].term ELSE 0,
         entries |-> put[t].entry, commit |-> commitIndex[n]]}
  /\ put' = [put EXCEPT ![t].pc = "append", ![t].peer = p, ![t].todo = @ \ {p}]
  /\ UNCHANGED <<raftVars, stateVars, tick, appliers, history>>

\* ... and, answered or not, OP_REPL with the epoch captured before.
\* Variant: not before the peer has acknowledged the AppendEntries.
SendReplAcknowledged(t) ==
  /\ put[t].pc = "append"
  /\ put[t].peer \in put[t].acks
  /\ rpcs' = rpcs \cup
       {[type |-> "Repl", by |-> t, to |-> put[t].peer,
         epoch |-> put[t].view.epoch, entry |-> Entry(t)]}
  /\ put' = [put EXCEPT ![t].pc = "repl"]
  /\ UNCHANGED <<raftVars, stateVars, tick, appliers, history>>
SendRepl(t) ==
  /\ put[t].pc = "append"
  /\ rpcs' = rpcs \cup
       {[type |-> "Repl", by |-> t, to |-> put[t].peer,
         epoch |-> put[t].view.epoch, entry |-> Entry(t)]}
  /\ put' = [put EXCEPT ![t].pc = "repl"]
  /\ UNCHANGED <<raftVars, stateVars, tick, appliers, history>>

\* All peers tried: give up without a majority or without the lead, else move the
\* commit index to the entry.
CommitEntry(t) ==
  LET n == put[t].node IN
  /\ put[t].pc \in {"next", "repl"}
  /\ put[t].todo = {}
  /\ IF Cardinality(put[t].acks) + 1 < Majority
       THEN Answer(t, "fenced") /\ UNCHANGED commitIndex
     ELSE IF role[n] # "Leader"
       THEN Answer(t, "not_leader") /\ UNCHANGED commitIndex
     ELSE /\ commitIndex' = [commitIndex EXCEPT ![n] = Entry(t).index]
          /\ put' = [put EXCEPT ![t].pc = "take", ![t].peer = NoNode, ![t].acks = {}]
  /\ UNCHANGED <<currentTerm, votedFor, role, log, lastApplied,
                 stateVars, tick, rpcs, appliers, history>>

\* apply_committed of the leader, then the answer.
TakeOwn(t) ==
  LET n == put[t].node IN
  /\ put[t].pc = "take"
  /\ lastApplied' = [lastApplied EXCEPT ![n] = AppliedUpTo(n)]
  /\ IF Applicable(n) = <<>>
       THEN Answer(t, "committed")
       ELSE put' = [put EXCEPT ![t].pc = "apply", ![t].pending = Applicable(n)]
  /\ UNCHANGED <<currentTerm, votedFor, role, log, commitIndex,
                 stateVars, tick, rpcs, appliers, history>>

ApplyOwn(t) ==
  /\ put[t].pc = "apply"
  /\ ApplyEntry(put[t].node, Head(put[t].pending))
  /\ IF Len(put[t].pending) = 1
       THEN Answer(t, "committed")
       ELSE put' = [put EXCEPT ![t].pending = Tail(@)]
  /\ UNCHANGED <<raftVars, epoch, isLeader, alive, tick, rpcs, appliers, history>>

-----------------------------------------------------------------------------
(* The operator.                                                            *)

\* OP_PROMOTE touches the catalog state only: the Raft role stays what it is.
Promote(n, e) ==
  /\ alive[n]
  /\ e > epoch[n]
  /\ epoch' = [epoch EXCEPT ![n] = e]
  /\ isLeader' = [isLeader EXCEPT ![n] = TRUE]
  /\ UNCHANGED <<raftVars, map, catLog, alive, tick, put, rpcs, appliers, history>>

\* MetaNode::kill: the threads go on.
Kill(n) ==
  /\ alive[n]
  /\ alive' = [alive EXCEPT ![n] = FALSE]
  /\ UNCHANGED <<raftVars, epoch, isLeader, map, catLog, tick, put, rpcs, appliers, history>>

-----------------------------------------------------------------------------
Ticker(n) ==
  \/ StartElection(n) \/ BeginBallot(n) \/ TallyVotes(n) \/ PublishWin(n)
  \/ SeeLeader(n) \/ SendHeartbeats(n)
  \/ \E p \in Nodes : AskVote(n, p)

Handler ==
  \/ \E m \in rpcs : HandleRequestVote(m) \/ HandleAppendEntries(m) \/ HandleRepl(m)
  \/ \E a \in appliers : TakeCommitted(a) \/ ApplyCommitted(a)

PutHandler(t) ==
  \/ ProposeEntry(t) \/ CaptureView(t) \/ SendRepl(t) \/ CommitEntry(t)
  \/ TakeOwn(t) \/ ApplyOwn(t)
  \/ \E p \in Nodes : SendAppend(t, p)

Next ==
  \/ \E n \in Nodes : Ticker(n)
  \/ Handler
  \/ \E t \in Puts : PutHandler(t)
  \/ \E t \in Puts, n \in Nodes, k \in Keys : ReceivePut(t, n, k)
  \/ \E n \in Nodes, e \in Epochs : Promote(n, e)
  \/ \E n \in Victims : Kill(n)

Spec == Init /\ [][Next]_vars

-----------------------------------------------------------------------------
(* Properties.                                                              *)

NodeOrNone == Nodes \cup {NoNode}

Ticks ==
  [pc : {"idle", "ballot", "won", "beat"}, ballots : Nat, beats : Nat, term : Nat,
   todo : SUBSET Nodes, peer : NodeOrNone, votes : SUBSET Nodes]

PutPcs ==
  {"unsent", "propose", "capture", "next", "append", "repl", "take", "apply", "done"}

PutThreads ==
  [pc : PutPcs, node : NodeOrNone, entry : Seq(LogEntry),
   result : {"none", "committed", "not_leader", "fenced", "unreachable"},
   view : [term : Nat, epoch : Nat], todo : SUBSET Nodes, peer : NodeOrNone,
   acks : SUBSET Nodes, pending : Seq(LogEntry)]

VoteRequests ==
  [type : {"RequestVote"}, from : Nodes, to : Nodes, round : Nat, term : Nat,
   lastIndex : Nat, lastTerm : Nat]

AppendRequests ==
  [type : {"AppendEntries"}, by : Puts \cup {NoPut}, from : Nodes, to : Nodes,
   round : Nat, term : Nat, prevIndex : Nat, prevTerm : Nat,
   entries : Seq(LogEntry), commit : Nat]

ReplRequests == [type : {"Repl"}, by : Puts, to : Nodes, epoch : Nat, entry : LogEntry]

Appliers ==
  [by : Puts \cup {NoPut}, from : Nodes, to : Nodes, round : Nat, term : Nat,
   success : BOOLEAN, taken : BOOLEAN, pending : Seq(LogEntry)]

\* The values the variables take.
TypeOK ==
  /\ currentTerm \in [Nodes -> Nat]
  /\ votedFor \in [Nodes -> NodeOrNone]
  /\ role \in [Nodes -> {"Follower", "Candidate", "Leader"}]
  /\ log \in [Nodes -> Seq(LogEntry)]
  /\ commitIndex \in [Nodes -> Nat]
  /\ lastApplied \in [Nodes -> Nat]
  /\ epoch \in [Nodes -> Nat]
  /\ isLeader \in [Nodes -> BOOLEAN]
  /\ map \in [Nodes -> [Keys -> Puts \cup {NoPut}]]
  /\ catLog \in [Nodes -> SUBSET CatalogEntry]
  /\ alive \in [Nodes -> BOOLEAN]
  /\ tick \in [Nodes -> Ticks]
  /\ put \in [Puts -> PutThreads]
  /\ rpcs \subseteq VoteRequests \cup AppendRequests \cup ReplRequests
  /\ appliers \subseteq Appliers
  /\ cast \subseteq Nat \X Nodes \X Nodes
  /\ elected \subseteq Nat \X Nodes

\* At most one node ever becomes leader in a term (handle_request_vote and the
\* vote count of tick), although vote requests carry a term read after the
\* ballot's own and are handled at any later time.
ElectionSafety == \A x, y \in elected : x[1] = y[1] => x[2] = y[2]

\* A node votes for one candidate in a term at most, itself included.
VoteOnce == \A x, y \in cast : x[1] = y[1] /\ x[2] = y[2] => x[3] = y[3]

\* A node's term never decreases and within a term its vote, once cast, stays
\* (start_election, handle_request_vote, handle_append_entries).
VoteStability ==
  [][\A n \in Nodes :
       /\ currentTerm'[n] >= currentTerm[n]
       /\ currentTerm'[n] = currentTerm[n] /\ votedFor[n] # NoNode
            => votedFor'[n] = votedFor[n]]_vars

\* Whatever leader_propose appends under a term was appended by the node elected
\* in that term, wherever the entry has been copied to since.
EntryProvenance ==
  \A n \in Nodes : \A i \in 1..Len(log[n]) :
    <<log[n][i].term, put[log[n][i].val].node>> \in elected

\* An index and a term name one entry, in all logs, requests and PUT handlers: no
\* two handlers of append_entry ever give different entries the same identity.
EntryIdentity ==
  LET entries == (UNION {{log[n][i] : i \in 1..Len(log[n])} : n \in Nodes})
                 \cup {Entry(t) : t \in {u \in Puts : /\ put[u].entry # <<>>
                                                      /\ Entry(u).index # 0}}
  IN \A d, e \in entries : d.index = e.index /\ d.term = e.term => d = e

\* Every log holds at position i the entry of index i: handle_append_entries
\* works with positions, take_applicable and leader_propose with the index field.
IndexIsPosition == \A n \in Nodes : \A i \in 1..Len(log[n]) : log[n][i].index = i

\* A node that stays leader only ever adds to its log what it proposes itself, one
\* entry at a time and in its own term: the AppendEntries of a deposed leader, sent
\* on in the term that deposed it, may end the lead but not slip in an entry.
LeaderAppendOnly ==
  [][\A n \in Nodes :
       role[n] = "Leader" /\ role'[n] = "Leader" /\ log'[n] # log[n] =>
         \E t \in Puts :
           /\ put[t].pc = "propose" /\ put[t].node = n
           /\ log'[n] = Append(log[n], Entry(t)')
           /\ Entry(t)'.term = currentTerm[n]]_vars

\* No node fences with an epoch that nobody was elected or promoted for: epochs
\* only spread from PublishWin and OP_PROMOTE through OP_REPL.
EpochOrigin ==
  LET given == {1} \cup Epochs \cup {x[1] : x \in elected} IN
  /\ \A n \in Nodes : epoch[n] \in given
  /\ \A m \in rpcs : m.type = "Repl" => m.epoch \in given

\* Terms and epochs are not made up on the way: what a log or a fence names, some
\* node was elected or promoted for, although leader_propose reads both after it has
\* given up the lock it checked its role under.
Origins == EntryProvenance /\ EpochOrigin

\* An index is applied by at most one of the threads that run apply_committed on a
\* node at the same time, and is marked applied while it still is pending.
TakenOnce ==
  LET indexes(s) == {s[i].index : i \in 1..Len(s)}
      own(n) == {t \in Puts : put[t].node = n} IN
  /\ \A a \in appliers : indexes(a.pending) \subseteq 1..lastApplied[a.to]
  /\ \A t \in Puts : put[t].pc = "apply" =>
       indexes(put[t].pending) \subseteq 1..lastApplied[put[t].node]
  /\ \A a, b \in appliers : a # b /\ a.to = b.to =>
       indexes(a.pending) \cap indexes(b.pending) = {}
  /\ \A n \in Nodes : \A t, u \in own(n) : t # u =>
       indexes(put[t].pending) \cap indexes(put[u].pending) = {}
  /\ \A a \in appliers : \A t \in own(a.to) :
       indexes(a.pending) \cap indexes(put[t].pending) = {}

\* The epoch a node fences with goes down only where the node publishes an election
\* of its own, which sets it to the term (tick): neither a promotion nor a late
\* OP_REPL of an earlier leader takes it back.
EpochFence ==
  [][\A n \in Nodes : epoch'[n] < epoch[n] =>
       tick[n].pc = "won" /\ tick'[n].pc = "idle" /\ epoch'[n] = tick[n].term]_vars

\* The calls answered 1, with their entries.
Committed == {t \in Puts : put[t].result = "committed"}
InLog(n, e) == \E i \in 1..Len(log[n]) : log[n][i] = e
InCatalog(n, e) == \E c \in catLog[n] : c.index = e.index /\ c.val = e.val

FirstReign == \A n \in Nodes : currentTerm[n] <= 1

\* Under the first leader, every log is a prefix of its log: late and lost
\* AppendEntries never leave a gap or an entry out of order.
FollowerPrefix ==
  FirstReign =>
    \A x \in elected, n \in Nodes :
      /\ Len(log[n]) <= Len(log[x[2]])
      /\ SubSeq(log[x[2]], 1, Len(log[n])) = log[n]

\* Under the first leader, a PUT answered 1 is held by a majority, in the Raft log
\* or in the catalog: no peer is counted for an answer it did not give.
AckedOnMajority ==
  FirstReign =>
    \A t \in Committed :
      Cardinality({n \in Nodes : InLog(n, Entry(t)) \/ InCatalog(n, Entry(t))}) >= Majority

\* Under the first leader and with one PUT at a time, between the calls the
\* leader's catalog holds for each key the last committed entry of its log: the
\* failed calls whose entries a later commit takes along included.
CatalogFollowsLog ==
  FirstReign /\ MaxInFlight = 1 /\ InFlight = {} =>
    \A x \in elected, k \in Keys :
      LET n == x[2]
          puts == {i \in 1..Len(log[n]) : i <= commitIndex[n] /\ log[n][i].key = k} IN
      map[n][k] = IF puts = {} THEN NoPut
                  ELSE log[n][CHOOSE i \in puts : \A j \in puts : j <= i].val

\* Under the first leader there is one history, in the logs and in the catalog.
OneHistory == FollowerPrefix /\ CatalogFollowsLog

\* ARCHITECTURE.md:139-141, lib.rs:7: "stale leaders cannot commit".  An entry of a
\* PUT answered 1 is in the log of every leader of a later term.
StaleLeadersCannotCommit ==
  \A t \in Committed, n \in Nodes :
    role[n] = "Leader" /\ currentTerm[n] > Entry(t).term => InLog(n, Entry(t))

\* lib.rs:4: "leader appends to the Raft log, replicates, commits on majority".
\* What a leader has applied as committed is held by a majority.
CommitsOnMajority ==
  \A n \in Nodes : \A i \in 1..Len(log[n]) :
    role[n] = "Leader" /\ i <= lastApplied[n] =>
      Cardinality({p \in Nodes : InLog(p, log[n][i]) \/ InCatalog(p, log[n][i])}) >= Majority

\* ARCHITECTURE.md:140-142: the demo "kills the leader mid-session, promotes a
\* follower to epoch 2, and shows reads and commits continuing".  While no second
\* election is held, a PUT that a node has taken on as leader is not refused for
\* want of the lead.
PromotedCommits ==
  FirstReign => \A t \in Puts : put[t].result = "not_leader" => put[t].entry = <<>>

FairSpec == Spec /\ \A t \in Puts : WF_vars(PutHandler(t))

\* Every PUT a node takes on is answered, whatever its peers do: each wait of
\* leader_propose ends by its timeout.
PutAnswered == \A t \in Puts : put[t].pc = "propose" ~> put[t].pc = "done"

=============================================================================
