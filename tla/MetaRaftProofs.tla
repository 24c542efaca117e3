--------------------------- MODULE MetaRaftProofs ---------------------------
(***************************************************************************)
(* Theorems about MetaRaft for every set of nodes, calls, keys and epochs  *)
(* and every value of the bounds.                                          *)
(***************************************************************************)
EXTENDS MetaRaft, FiniteSetTheorems, SequenceTheorems, TLAPS

USE NodesAssumption, PutsAssumption, EpochsAssumption, VictimsAssumption,
    BoundsAssumption

-----------------------------------------------------------------------------
(* Type correctness.  It is inductive together with what a handler thread  *)
(* knows of its own locals at each point of its program.                   *)

Working == {"propose", "capture", "next", "append", "repl", "take", "apply"}

\* A thread that works on an entry has it, one that has appended it knows its
\* index, one that awaits a peer knows which, and one that applies has something
\* left to apply.
ThreadInv ==
  /\ \A a \in appliers : a.taken => a.pending # <<>>
  /\ \A t \in Puts :
       /\ put[t].pc \in Working => put[t].node \in Nodes /\ put[t].entry # <<>>
       /\ put[t].pc \in Working \ {"propose"} => Entry(t).index > 0
       /\ put[t].pc = "append" => put[t].peer \in Nodes
       /\ put[t].pc = "apply" => put[t].pending # <<>>

TypeInv == TypeOK /\ ThreadInv

LEMMA LastOfLog ==
  ASSUME NEW l \in Seq(LogEntry)
  PROVE  LastIndex(l) \in Nat /\ LastTerm(l) \in Nat
<1>1. CASE l = <<>>
  BY <1>1 DEF LastIndex, LastTerm
<1>2. CASE l # <<>>
  <2>1. l[Len(l)] \in LogEntry
    BY <1>2
  <2>2. QED
    BY <1>2, <2>1 DEF LastIndex, LastTerm, LogEntry
<1>3. QED
  BY <1>1, <1>2

\* What an accepted AppendEntries leaves as log is a log.
LEMMA MergedLogType ==
  ASSUME NEW m \in AppendRequests, NEW l \in Seq(LogEntry), PrevLogOk(m, l)
  PROVE  MergedLog(m, l) \in Seq(LogEntry)
<1>1. m.prevIndex \in 0..Len(l)
  BY DEF AppendRequests, PrevLogOk
<1>2. SubSeq(l, 1, m.prevIndex) \in Seq(LogEntry)
  BY <1>1, SubSeqProperties
<1>3. CASE m.entries = <<>>
  BY <1>3 DEF MergedLog
<1>4. CASE m.entries # <<>>
  <2>1. m.entries[1] \in LogEntry
    BY <1>4 DEF AppendRequests
  <2>2. m.prevIndex + 1 - 1 = m.prevIndex
    BY <1>1
  <2>3. QED
    BY <1>2, <1>4, <2>1, <2>2 DEF MergedLog
<1>5. QED
  BY <1>3, <1>4

\* take_applicable returns entries of the log.
LEMMA ApplicableType ==
  ASSUME TypeOK, NEW n \in Nodes
  PROVE  Applicable(n) \in Seq(LogEntry) /\ AppliedUpTo(n) \in Nat
<1>1. /\ log[n] \in Seq(LogEntry)
      /\ lastApplied[n] \in Nat /\ commitIndex[n] \in Nat /\ Len(log[n]) \in Nat
  BY DEF TypeOK
<1>2. AppliedUpTo(n) \in Nat
  BY <1>1 DEF AppliedUpTo
<1> DEFINE hi == IF commitIndex[n] < Len(log[n]) THEN commitIndex[n] ELSE Len(log[n])
<1>3. hi \in Int /\ hi <= Len(log[n]) /\ lastApplied[n] + 1 \in 1..(lastApplied[n] + 1)
  BY <1>1
<1>4. \A i \in (lastApplied[n] + 1)..hi : log[n][i] \in LogEntry
  BY <1>1, <1>3
<1>5. SubSeq(log[n], lastApplied[n] + 1, hi) \in Seq(LogEntry)
  BY <1>1, <1>3, <1>4, SubSeqProperties
<1>6. QED
  BY <1>2, <1>5 DEF Applicable

LEMMA InitTypeInv == Init => TypeInv
BY DEF Init, TypeInv, TypeOK, ThreadInv, Ticks, PutThreads, PutPcs, IdleTicker,
       UnsentPut, NodeOrNone, Working

LEMMA RestedType == ASSUME TypeOK, NEW n \in Nodes PROVE Rested(n) \in Ticks
<1>1. tick[n] \in Ticks
  BY DEF TypeOK
<1>2. QED
  BY <1>1 DEF Rested, IdleTicker, Ticks, NodeOrNone

\* The ticker writes neither logs nor the handler threads.
LEMMA TickerTypeInv ==
  ASSUME TypeInv, NEW n \in Nodes, Ticker(n)
  PROVE  TypeInv'
<1>1. /\ tick[n] \in Ticks /\ tick \in [Nodes -> Ticks]
      /\ currentTerm[n] \in Nat /\ log[n] \in Seq(LogEntry) /\ commitIndex[n] \in Nat
      /\ Rested(n) \in Ticks
  BY RestedType DEF TypeInv, TypeOK
<1> USE DEF TypeInv, raftVars, stateVars, history
<1>2. CASE StartElection(n)
  BY <1>1, <1>2 DEF StartElection, TypeOK, ThreadInv, Entry, NodeOrNone
<1>3. CASE BeginBallot(n)
  <2>0. tick[n].ballots + 1 \in Nat /\ Peers(n) \in SUBSET Nodes /\ {n} \in SUBSET Nodes
    BY <1>1 DEF Ticks, Peers
  <2>1. [tick[n] EXCEPT !.pc = "ballot", !.ballots = tick[n].ballots + 1, !.term = currentTerm[n],
           !.todo = Peers(n), !.votes = {n}] \in Ticks
    BY <1>1, <2>0 DEF Ticks
  <2>2. tick' \in [Nodes -> Ticks]
    BY <1>1, <1>3, <2>1 DEF BeginBallot
  <2>3. QED
    BY <1>3, <2>2 DEF BeginBallot, TypeOK, ThreadInv, Entry
<1>4. CASE TallyVotes(n)
  <2>1. [Rested(n) EXCEPT !.pc = "won", !.term = currentTerm[n]] \in Ticks
    BY <1>1 DEF Ticks
  <2>2. tick' \in [Nodes -> Ticks]
    BY <1>1, <1>4, <2>1 DEF TallyVotes
  <2>3. role' \in [Nodes -> {"Follower", "Candidate", "Leader"}]
    <3>1. role' = role \/ role' = [role EXCEPT ![n] = "Leader"]
      BY <1>4 DEF TallyVotes
    <3>2. QED
      BY <3>1 DEF TypeOK
  <2>4. elected' \subseteq Nat \X Nodes
    <3>1. elected' = elected \/ elected' = elected \cup {<<currentTerm[n], n>>}
      BY <1>4 DEF TallyVotes
    <3>2. elected \subseteq Nat \X Nodes /\ <<currentTerm[n], n>> \in Nat \X Nodes
      BY <1>1 DEF TypeOK
    <3>3. QED
      BY <3>1, <3>2
  <2>5. QED
    BY <1>4, <2>2, <2>3, <2>4 DEF TallyVotes, TypeOK, ThreadInv, Entry
<1>5. CASE PublishWin(n)
  <2>1. tick[n].term \in Nat
    BY <1>1 DEF Ticks
  <2>2. tick' \in [Nodes -> Ticks]
    BY <1>1, <1>5 DEF PublishWin
  <2>3. QED
    BY <1>5, <2>1, <2>2 DEF PublishWin, TypeOK, ThreadInv, Entry
<1>6. CASE SeeLeader(n)
  <2>0. tick[n].beats + 1 \in Nat
    BY <1>1 DEF Ticks
  <2>1. [tick[n] EXCEPT !.pc = "beat", !.beats = tick[n].beats + 1] \in Ticks
    BY <1>1, <2>0 DEF Ticks
  <2>2. tick' \in [Nodes -> Ticks]
    BY <1>1, <1>6, <2>1 DEF SeeLeader
  <2>3. QED
    BY <1>6, <2>2 DEF SeeLeader, TypeOK, ThreadInv, Entry
<1>7. CASE SendHeartbeats(n)
  <2>1. tick[n].beats \in Nat
    BY <1>1 DEF Ticks
  <2>2. rpcs' \subseteq VoteRequests \cup AppendRequests \cup ReplRequests
    <3>1. \A p \in Nodes :
            [type |-> "AppendEntries", by |-> NoPut, from |-> n, to |-> p,
             round |-> tick[n].beats, term |-> currentTerm[n], prevIndex |-> 0,
             prevTerm |-> 0, entries |-> <<>>, commit |-> commitIndex[n]] \in AppendRequests
      BY <1>1, <2>1 DEF AppendRequests
    <3>2. rpcs \subseteq VoteRequests \cup AppendRequests \cup ReplRequests
      BY DEF TypeOK
    <3>3. QED
      BY <1>7, <3>1, <3>2 DEF SendHeartbeats, Peers
  <2>3. tick' \in [Nodes -> Ticks]
    BY <1>1, <1>7 DEF SendHeartbeats
  <2>4. QED
    BY <1>7, <2>2, <2>3 DEF SendHeartbeats, TypeOK, ThreadInv, Entry
<1>8. ASSUME NEW p \in Nodes, AskVote(n, p)
      PROVE  TypeInv'
  <2>1. /\ tick[n].ballots \in Nat
        /\ LastIndex(log[n]) \in Nat /\ LastTerm(log[n]) \in Nat
    BY <1>1, LastOfLog DEF Ticks
  <2>2. rpcs' \subseteq VoteRequests \cup AppendRequests \cup ReplRequests
    <3> DEFINE m == [type |-> "RequestVote", from |-> n, to |-> p, round |-> tick[n].ballots,
                     term |-> currentTerm[n], lastIndex |-> LastIndex(log[n]),
                     lastTerm |-> LastTerm(log[n])]
    <3>1. m \in VoteRequests
      BY <1>1, <1>8, <2>1 DEF VoteRequests
    <3>2. rpcs' = rpcs \cup {m}
      BY <1>8 DEF AskVote
    <3> HIDE DEF m
    <3>3. QED
      BY <3>1, <3>2 DEF TypeOK
  <2>3. [tick[n] EXCEPT !.todo = tick[n].todo \ {p}, !.peer = p] \in Ticks
    BY <1>1 DEF Ticks, NodeOrNone
  <2>4. tick' \in [Nodes -> Ticks]
    BY <1>1, <1>8, <2>3 DEF AskVote
  <2>5. QED
    BY <1>8, <2>2, <2>4 DEF AskVote, TypeOK, ThreadInv, Entry
<1>9. QED
  BY <1>2, <1>3, <1>4, <1>5, <1>6, <1>7, <1>8 DEF Ticker

\* The kinds of requests, told apart by their type.
LEMMA RequestKinds ==
  ASSUME TypeOK, NEW m \in rpcs
  PROVE  /\ m.type = "RequestVote" => m \in VoteRequests
         /\ m.type = "AppendEntries" => m \in AppendRequests
         /\ m.type = "Repl" => m \in ReplRequests
BY DEF TypeOK, VoteRequests, AppendRequests, ReplRequests

LEMMA RequestVoteTypeInv ==
  ASSUME TypeInv, NEW m \in rpcs, HandleRequestVote(m)
  PROVE  TypeInv'
<1> USE DEF TypeInv
<1>1. m \in VoteRequests
  BY RequestKinds DEF HandleRequestVote
<1>2. m.to \in Nodes /\ m.from \in Nodes /\ m.term \in Nat
  BY <1>1 DEF VoteRequests
<1>3. currentTerm' \in [Nodes -> Nat]
  BY <1>2 DEF HandleRequestVote, AdoptedTerm, TypeOK
<1>4. votedFor' \in [Nodes -> NodeOrNone]
  BY <1>2 DEF HandleRequestVote, AdoptedVote, TypeOK, NodeOrNone
<1>5. role' \in [Nodes -> {"Follower", "Candidate", "Leader"}]
  BY <1>2 DEF HandleRequestVote, TypeOK
<1>6. isLeader' \in [Nodes -> BOOLEAN]
  <2>1. isLeader \in [Nodes -> BOOLEAN]
    BY DEF TypeOK
  <2>2. isLeader' = [isLeader EXCEPT ![m.to] = @ /\ role'[m.to] # "Follower"]
    BY DEF HandleRequestVote
  <2>3. (isLeader[m.to] /\ role'[m.to] # "Follower") \in BOOLEAN
    OBVIOUS
  <2>4. QED
    BY <2>1, <2>2, <2>3, Zenon
<1>7. cast' \subseteq Nat \X Nodes \X Nodes
  <2>1. cast' = cast \/ cast' = cast \cup {<<m.term, m.to, m.from>>}
    BY DEF HandleRequestVote
  <2>2. <<m.term, m.to, m.from>> \in Nat \X Nodes \X Nodes
    BY <1>2
  <2>3. cast \subseteq Nat \X Nodes \X Nodes
    BY DEF TypeOK
  <2>4. QED
    BY <2>1, <2>2, <2>3
<1>8. tick' \in [Nodes -> Ticks]
  <2>1. tick \in [Nodes -> Ticks] /\ tick[m.from] \in Ticks
    BY <1>2 DEF TypeOK
  <2>2. [tick[m.from] EXCEPT !.votes = tick[m.from].votes \cup {m.to}] \in Ticks
    BY <1>2, <2>1 DEF Ticks
  <2>3. QED
    BY <1>2, <2>1, <2>2 DEF HandleRequestVote
<1>9. rpcs' \subseteq VoteRequests \cup AppendRequests \cup ReplRequests
  BY DEF HandleRequestVote, TypeOK
<1>10. TypeOK'
  BY <1>3, <1>4, <1>5, <1>6, <1>7, <1>8, <1>9 DEF HandleRequestVote, TypeOK
<1>11. QED
  BY <1>10 DEF HandleRequestVote, ThreadInv, Entry

LEMMA AppendEntriesTypeInv ==
  ASSUME TypeInv, NEW m \in rpcs, HandleAppendEntries(m)
  PROVE  TypeInv'
<1> USE DEF TypeInv
<1>1. m \in AppendRequests
  BY RequestKinds DEF HandleAppendEntries
<1>2. /\ m.to \in Nodes /\ m.from \in Nodes /\ m.term \in Nat /\ m.commit \in Nat
      /\ m.by \in Puts \cup {NoPut} /\ m.round \in Nat
  BY <1>1 DEF AppendRequests
<1>3. currentTerm' \in [Nodes -> Nat] /\ AdoptedTerm(m, m.to) \in Nat
  BY <1>2 DEF HandleAppendEntries, AdoptedTerm, TypeOK
<1>4. votedFor' \in [Nodes -> NodeOrNone]
  BY <1>2 DEF HandleAppendEntries, AdoptedVote, TypeOK, NodeOrNone
<1>5. role' \in [Nodes -> {"Follower", "Candidate", "Leader"}]
  BY <1>2 DEF HandleAppendEntries, AdoptedRole, TypeOK
<1>6. log' \in [Nodes -> Seq(LogEntry)]
  <2>1. log \in [Nodes -> Seq(LogEntry)] /\ log[m.to] \in Seq(LogEntry)
    BY <1>2 DEF TypeOK
  <2>2. PrevLogOk(m, log[m.to]) => MergedLog(m, log[m.to]) \in Seq(LogEntry)
    BY <1>1, <2>1, MergedLogType
  <2>3. QED
    BY <1>2, <2>1, <2>2 DEF HandleAppendEntries, AcceptsEntries
<1>7. commitIndex' \in [Nodes -> Nat]
  <2>1. log'[m.to] \in Seq(LogEntry)
    BY <1>2, <1>6
  <2>2. LastIndex(log'[m.to]) \in Nat
    BY <2>1, LastOfLog
  <2>3. AdvancedCommit(m, commitIndex[m.to], log'[m.to]) \in Nat
    BY <1>2, <2>2 DEF AdvancedCommit, TypeOK
  <2>4. QED
    BY <1>2, <2>3 DEF HandleAppendEntries, TypeOK
<1>8. isLeader' \in [Nodes -> BOOLEAN]
  <2>1. isLeader \in [Nodes -> BOOLEAN]
    BY DEF TypeOK
  <2>2. isLeader' = [isLeader EXCEPT ![m.to] = @ /\ role'[m.to] # "Follower"]
    BY DEF HandleAppendEntries
  <2>3. (isLeader[m.to] /\ role'[m.to] # "Follower") \in BOOLEAN
    OBVIOUS
  <2>4. QED
    BY <2>1, <2>2, <2>3, Zenon
<1> DEFINE a == [by |-> m.by, from |-> m.from, to |-> m.to, round |-> m.round,
                 term |-> AdoptedTerm(m, m.to), success |-> AcceptsEntries(m, m.to),
                 taken |-> FALSE, pending |-> <<>>]
<1>9. a \in Appliers
  <2>1. AcceptsEntries(m, m.to) \in BOOLEAN
    BY DEF AcceptsEntries
  <2>2. QED
    BY <1>2, <1>3, <2>1 DEF Appliers
<1>10. appliers' = appliers \cup {a} /\ ~a.taken
  BY DEF HandleAppendEntries
<1> HIDE DEF a
<1>11. appliers' \subseteq Appliers
  BY <1>9, <1>10 DEF TypeOK
<1>12. rpcs' \subseteq VoteRequests \cup AppendRequests \cup ReplRequests
  BY DEF HandleAppendEntries, TypeOK
<1>13. TypeOK'
  BY <1>3, <1>4, <1>5, <1>6, <1>7, <1>8, <1>11, <1>12
     DEF HandleAppendEntries, TypeOK, history
<1>14. QED
  BY <1>10, <1>13 DEF HandleAppendEntries, ThreadInv, Entry

\* What apply_committed does to the catalog of a node keeps its type.
LEMMA ApplyEntryType ==
  ASSUME TypeOK, NEW n \in Nodes, NEW e \in LogEntry, ApplyEntry(n, e)
  PROVE  map' \in [Nodes -> [Keys -> Puts \cup {NoPut}]] /\ catLog' \in [Nodes -> SUBSET CatalogEntry]
<1>1. e.key \in Keys /\ e.val \in Puts /\ e.term \in Nat /\ e.index \in Nat
  BY DEF LogEntry
<1>2. map' \in [Nodes -> [Keys -> Puts \cup {NoPut}]]
  <2>1. map \in [Nodes -> [Keys -> Puts \cup {NoPut}]]
    BY DEF TypeOK
  <2>2. [map[n] EXCEPT ![e.key] = e.val] \in [Keys -> Puts \cup {NoPut}]
    BY <1>1, <2>1
  <2>3. QED
    BY <2>1, <2>2 DEF ApplyEntry
<1>3. catLog' \in [Nodes -> SUBSET CatalogEntry]
  <2>1. [epoch |-> e.term, index |-> e.index, key |-> e.key, val |-> e.val] \in CatalogEntry
    BY <1>1 DEF CatalogEntry
  <2>2. QED
    BY <2>1 DEF ApplyEntry, TypeOK
<1>4. QED
  BY <1>2, <1>3

\* One acknowledgement more changes nothing else of a PUT handler.
LEMMA AcksType ==
  ASSUME TypeInv, NEW t \in Puts, NEW n \in Nodes,
         put' = [put EXCEPT ![t].acks = @ \cup {n}]
  PROVE  /\ put' \in [Puts -> PutThreads]
         /\ \A u \in Puts : /\ put'[u].pc = put[u].pc /\ put'[u].node = put[u].node
                            /\ put'[u].entry = put[u].entry /\ put'[u].peer = put[u].peer
                            /\ put'[u].pending = put[u].pending /\ put'[u].view = put[u].view
                            /\ put'[u].todo = put[u].todo /\ put'[u].result = put[u].result
                            /\ put'[u].acks = IF u = t THEN put[u].acks \cup {n} ELSE put[u].acks
<1>1. put \in [Puts -> PutThreads] /\ put[t] \in PutThreads
  BY DEF TypeInv, TypeOK
<1>2. [put[t] EXCEPT !.acks = put[t].acks \cup {n}] \in PutThreads
  BY <1>1 DEF PutThreads
<1>3. put' \in [Puts -> PutThreads]
  BY <1>1, <1>2
<1>4. QED
  BY <1>1, <1>3

\* An answer to a PUT handler is such an acknowledgement or nothing.
LEMMA AnswerAppendType ==
  ASSUME TypeInv, NEW a \in Appliers, AnswerAppend(a)
  PROVE  /\ put' \in [Puts -> PutThreads]
         /\ \A t \in Puts : /\ put'[t].pc = put[t].pc /\ put'[t].node = put[t].node
                            /\ put'[t].entry = put[t].entry /\ put'[t].peer = put[t].peer
                            /\ put'[t].pending = put[t].pending /\ put'[t].view = put[t].view
                            /\ put'[t].todo = put[t].todo /\ put'[t].result = put[t].result
<1>1. a.by \in Puts \cup {NoPut} /\ a.to \in Nodes
  BY DEF Appliers
<1>2. CASE put' = put
  BY <1>2 DEF TypeInv, TypeOK
<1>3. CASE a.by \in Puts /\ put' = [put EXCEPT ![a.by].acks = @ \cup {a.to}]
  <2>1. put \in [Puts -> PutThreads] /\ put[a.by] \in PutThreads
    BY <1>3 DEF TypeInv, TypeOK
  <2>2. [put[a.by] EXCEPT !.acks = put[a.by].acks \cup {a.to}] \in PutThreads
    BY <1>1, <2>1 DEF PutThreads
  <2>3. put' \in [Puts -> PutThreads]
    BY <1>3, <2>1, <2>2
  <2>4. QED
    BY <1>3, <2>1, <2>3
<1>4. QED
  BY <1>1, <1>2, <1>3 DEF AnswerAppend

\* The locals ThreadInv speaks of, when only acknowledgements change.
LEMMA ThreadsKept ==
  ASSUME TypeInv, \A a \in appliers' : a.taken => a.pending # <<>>,
         \A t \in Puts : /\ put'[t].pc = put[t].pc /\ put'[t].node = put[t].node
                         /\ put'[t].entry = put[t].entry /\ put'[t].peer = put[t].peer
                         /\ put'[t].pending = put[t].pending
  PROVE  ThreadInv'
BY DEF TypeInv, ThreadInv, Entry

\* A thread that has more than one entry left has some left after the next one.
LEMMA HeadAndTail ==
  ASSUME NEW q \in Seq(LogEntry), q # <<>>
  PROVE  /\ Head(q) \in LogEntry /\ Tail(q) \in Seq(LogEntry)
         /\ Len(q) # 1 => Tail(q) # <<>>
<1>1. Len(q) \in Nat /\ Len(q) # 0
  BY EmptySeq, LenProperties
<1>2. Head(q) \in LogEntry /\ Tail(q) \in Seq(LogEntry) /\ Len(Tail(q)) = Len(q) - 1
  BY HeadTailProperties
<1>3. Len(q) # 1 => Len(Tail(q)) # 0
  BY <1>1, <1>2
<1>4. QED
  BY <1>2, <1>3, EmptySeq

LEMMA TakeCommittedTypeInv ==
  ASSUME TypeInv, NEW a \in appliers, TakeCommitted(a)
  PROVE  TypeInv'
<1> USE DEF TypeInv
<1>1. a \in Appliers /\ a.to \in Nodes /\ appliers \subseteq Appliers
  BY DEF TypeOK, Appliers
<1>2. Applicable(a.to) \in Seq(LogEntry) /\ AppliedUpTo(a.to) \in Nat
  BY <1>1, ApplicableType
<1>3. lastApplied' \in [Nodes -> Nat]
  BY <1>1, <1>2 DEF TakeCommitted, TypeOK
<1> DEFINE b == [a EXCEPT !.taken = TRUE, !.pending = Applicable(a.to)]
<1>4. b \in Appliers /\ b.pending = Applicable(a.to)
  BY <1>1, <1>2 DEF Appliers
<1>5. \/ appliers' = appliers \ {a} /\ AnswerAppend(a)
      \/ /\ Applicable(a.to) # <<>>
         /\ appliers' = (appliers \ {a}) \cup {b}
         /\ UNCHANGED put
  BY DEF TakeCommitted
<1> HIDE DEF b
<1>6. /\ appliers' \subseteq Appliers
      /\ \A c \in appliers' : c.taken => c.pending # <<>>
  BY <1>1, <1>4, <1>5 DEF ThreadInv
<1>7. /\ put' \in [Puts -> PutThreads]
      /\ \A t \in Puts : /\ put'[t].pc = put[t].pc /\ put'[t].node = put[t].node
                         /\ put'[t].entry = put[t].entry /\ put'[t].peer = put[t].peer
                         /\ put'[t].pending = put[t].pending
  BY <1>1, <1>5, AnswerAppendType DEF TypeOK
<1>8. TypeOK'
  BY <1>3, <1>6, <1>7 DEF TakeCommitted, TypeOK, stateVars, history
<1>9. QED
  BY <1>6, <1>7, <1>8, ThreadsKept

LEMMA ApplyCommittedTypeInv ==
  ASSUME TypeInv, NEW a \in appliers, ApplyCommitted(a)
  PROVE  TypeInv'
<1> USE DEF TypeInv
<1>1. a \in Appliers /\ a.to \in Nodes /\ appliers \subseteq Appliers
  BY DEF TypeOK, Appliers
<1>2. a.pending \in Seq(LogEntry) /\ a.pending # <<>>
  BY <1>1 DEF ApplyCommitted, Appliers, ThreadInv
<1>3. /\ Head(a.pending) \in LogEntry /\ Tail(a.pending) \in Seq(LogEntry)
      /\ Len(a.pending) # 1 => Tail(a.pending) # <<>>
  BY <1>2, HeadAndTail
<1>4. /\ map' \in [Nodes -> [Keys -> Puts \cup {NoPut}]]
      /\ catLog' \in [Nodes -> SUBSET CatalogEntry]
  BY <1>1, <1>3, ApplyEntryType DEF ApplyCommitted
<1> DEFINE b == [a EXCEPT !.pending = Tail(a.pending)]
<1>5. b \in Appliers /\ b.pending = Tail(a.pending)
  BY <1>1, <1>3 DEF Appliers
<1>6. \/ appliers' = appliers \ {a} /\ AnswerAppend(a)
      \/ /\ Len(a.pending) # 1
         /\ appliers' = (appliers \ {a}) \cup {b}
         /\ UNCHANGED put
  BY Zenon DEF ApplyCommitted
<1> HIDE DEF b
<1>7. /\ appliers' \subseteq Appliers
      /\ \A c \in appliers' : c.taken => c.pending # <<>>
  BY <1>1, <1>3, <1>5, <1>6 DEF ThreadInv
<1>8. /\ put' \in [Puts -> PutThreads]
      /\ \A t \in Puts : /\ put'[t].pc = put[t].pc /\ put'[t].node = put[t].node
                         /\ put'[t].entry = put[t].entry /\ put'[t].peer = put[t].peer
                         /\ put'[t].pending = put[t].pending
  BY <1>1, <1>6, AnswerAppendType DEF TypeOK
<1>9. TypeOK'
  BY <1>4, <1>7, <1>8 DEF ApplyCommitted, TypeOK, raftVars, history
<1>10. QED
  BY <1>7, <1>8, <1>9, ThreadsKept

LEMMA ReplTypeInv ==
  ASSUME TypeInv, NEW m \in rpcs, HandleRepl(m)
  PROVE  TypeInv'
<1> USE DEF TypeInv
<1>1. m \in ReplRequests
  BY RequestKinds DEF HandleRepl
<1>2. /\ m.to \in Nodes /\ m.epoch \in Nat /\ m.by \in Puts
      /\ m.entry.key \in Keys /\ m.entry.val \in Puts /\ m.entry.index \in Nat
  BY <1>1 DEF ReplRequests, LogEntry
<1>3. epoch' \in [Nodes -> Nat] /\ isLeader' \in [Nodes -> BOOLEAN]
  BY <1>2 DEF HandleRepl, TypeOK
<1>4. map' \in [Nodes -> [Keys -> Puts \cup {NoPut}]]
  <2>1. map \in [Nodes -> [Keys -> Puts \cup {NoPut}]]
    BY DEF TypeOK
  <2>2. [map[m.to] EXCEPT ![m.entry.key] = m.entry.val] \in [Keys -> Puts \cup {NoPut}]
    BY <1>2, <2>1
  <2>3. QED
    BY <1>2, <2>1, <2>2 DEF HandleRepl
<1>5. catLog' \in [Nodes -> SUBSET CatalogEntry]
  <2>1. [epoch |-> m.epoch, index |-> m.entry.index, key |-> m.entry.key,
         val |-> m.entry.val] \in CatalogEntry
    BY <1>2 DEF CatalogEntry
  <2>2. catLog \in [Nodes -> SUBSET CatalogEntry]
    BY DEF TypeOK
  <2>3. catLog[m.to] \cup {[epoch |-> m.epoch, index |-> m.entry.index,
           key |-> m.entry.key, val |-> m.entry.val]} \in SUBSET CatalogEntry
    BY <1>2, <2>1, <2>2
  <2>4. QED
    BY <1>2, <2>2, <2>3 DEF HandleRepl
<1>6. /\ put' \in [Puts -> PutThreads]
      /\ \A t \in Puts : /\ put'[t].pc = put[t].pc /\ put'[t].node = put[t].node
                         /\ put'[t].entry = put[t].entry /\ put'[t].peer = put[t].peer
                         /\ put'[t].pending = put[t].pending
  <2>1. put' = put \/ put' = [put EXCEPT ![m.by].acks = @ \cup {m.to}]
    BY DEF HandleRepl
  <2>2. CASE put' = put
    BY <2>2 DEF TypeOK
  <2>3. CASE put' = [put EXCEPT ![m.by].acks = @ \cup {m.to}]
    <3>1. put \in [Puts -> PutThreads] /\ put[m.by] \in PutThreads
      BY <1>2 DEF TypeOK
    <3>2. [put[m.by] EXCEPT !.acks = put[m.by].acks \cup {m.to}] \in PutThreads
      BY <1>2, <3>1 DEF PutThreads
    <3>3. put' \in [Puts -> PutThreads]
      BY <2>3, <3>1, <3>2
    <3>4. QED
      BY <2>3, <3>1, <3>3
  <2>4. QED
    BY <2>1, <2>2, <2>3
<1>7. rpcs' \subseteq VoteRequests \cup AppendRequests \cup ReplRequests
  BY DEF HandleRepl, TypeOK
<1>8. TypeOK'
  BY <1>3, <1>4, <1>5, <1>6, <1>7 DEF HandleRepl, TypeOK, raftVars, history
<1>9. \A a \in appliers' : a.taken => a.pending # <<>>
  BY DEF HandleRepl, ThreadInv
<1>10. QED
  BY <1>6, <1>8, <1>9, ThreadsKept

\* What a PUT handler at work has in hand.
LEMMA WorkerType ==
  ASSUME TypeInv, NEW t \in Puts, put[t].pc \in Working
  PROVE  /\ put[t] \in PutThreads /\ put \in [Puts -> PutThreads]
         /\ put[t].node \in Nodes
         /\ put[t].entry \in Seq(LogEntry) /\ put[t].entry # <<>>
         /\ Entry(t) \in LogEntry
         /\ put[t].pc # "propose" => Entry(t).index \in Nat \ {0}
<1>1. put[t] \in PutThreads /\ put \in [Puts -> PutThreads]
  BY DEF TypeInv, TypeOK
<1>2. put[t].node \in Nodes /\ put[t].entry \in Seq(LogEntry) /\ put[t].entry # <<>>
  BY <1>1 DEF TypeInv, ThreadInv, PutThreads
<1>3. Entry(t) \in LogEntry
  BY <1>2 DEF Entry
<1>4. put[t].pc # "propose" => Entry(t).index > 0
  BY DEF TypeInv, ThreadInv
<1>5. Entry(t).index \in Nat
  BY <1>3 DEF LogEntry
<1>6. QED
  BY <1>1, <1>2, <1>3, <1>4, <1>5

\* ThreadInv when the appliers stay and only the thread of t moves.
LEMMA OneThreadMoves ==
  ASSUME TypeInv, NEW t \in Puts, NEW r \in PutThreads,
         appliers' = appliers, put' = [put EXCEPT ![t] = r],
         r.pc \in Working => r.node \in Nodes /\ r.entry # <<>>,
         r.pc \in Working \ {"propose"} => r.entry[1].index > 0,
         r.pc = "append" => r.peer \in Nodes,
         r.pc = "apply" => r.pending # <<>>
  PROVE  put' \in [Puts -> PutThreads] /\ ThreadInv'
<1>1. put \in [Puts -> PutThreads]
  BY DEF TypeInv, TypeOK
<1>2. put' \in [Puts -> PutThreads] /\ put'[t] = r
  BY <1>1
<1>3. \A u \in Puts \ {t} : put'[u] = put[u]
  BY <1>1
<1>4. QED
  BY <1>2, <1>3 DEF TypeInv, ThreadInv, Entry

\* A thread that answers has nothing left to do.
LEMMA AnswerType ==
  ASSUME TypeInv, NEW t \in Puts, appliers' = appliers,
         NEW result \in {"committed", "not_leader", "fenced"}, Answer(t, result)
  PROVE  put' \in [Puts -> PutThreads] /\ ThreadInv'
<1> DEFINE r == [UnsentPut EXCEPT !.pc = "done", !.node = put[t].node,
                                  !.entry = put[t].entry, !.result = result]
<1>1. put[t] \in PutThreads
  BY DEF TypeInv, TypeOK
<1>2. put[t].node \in NodeOrNone /\ put[t].entry \in Seq(LogEntry)
  BY <1>1 DEF PutThreads
<1>3. r \in PutThreads /\ r.pc = "done"
  <2>1. UnsentPut \in PutThreads
    BY DEF PutThreads, UnsentPut, PutPcs, NodeOrNone
  <2>2. QED
    BY <1>2, <2>1 DEF PutThreads, PutPcs
<1>4. put' = [put EXCEPT ![t] = r]
  BY DEF Answer
<1> HIDE DEF r
<1>5. QED
  BY <1>3, <1>4, OneThreadMoves DEF Working

\* The entry that append_entry makes of a call.
LEMMA StampedEntryType ==
  ASSUME NEW d \in LogEntry, NEW c \in Nat, NEW i \in Nat \ {0}
  PROVE  /\ [d EXCEPT !.term = c, !.index = i] \in LogEntry
         /\ [d EXCEPT !.term = c, !.index = i].index > 0
<1>1. [d EXCEPT !.term = c, !.index = i] \in LogEntry
  BY DEF LogEntry
<1>2. [d EXCEPT !.term = c, !.index = i].index = i
  BY DEF LogEntry
<1>3. i > 0
  OBVIOUS
<1>4. QED
  BY <1>1, <1>2, <1>3

\* leader_propose, step by step.
LEMMA PutHandlerTypeInv ==
  ASSUME TypeInv, NEW t \in Puts, PutHandler(t)
  PROVE  TypeInv'
<1> USE DEF TypeInv, raftVars, stateVars, history
<1> DEFINE n == put[t].node
<1>1. ASSUME put[t].pc \in Working
      PROVE  /\ put[t] \in PutThreads /\ n \in Nodes
             /\ Entry(t) \in LogEntry /\ put[t].entry # <<>>
             /\ put[t].pc # "propose" => Entry(t).index \in Nat \ {0}
             /\ log \in [Nodes -> Seq(LogEntry)] /\ log[n] \in Seq(LogEntry)
             /\ currentTerm[n] \in Nat /\ commitIndex[n] \in Nat /\ epoch[n] \in Nat
  <2>1. put[t] \in PutThreads /\ n \in Nodes /\ Entry(t) \in LogEntry /\ put[t].entry # <<>>
        /\ (put[t].pc # "propose" => Entry(t).index \in Nat \ {0})
    BY <1>1, WorkerType
  <2>2. QED
    BY <2>1 DEF TypeOK
<1>2. CASE ProposeEntry(t)
  <2>1. put[t].pc = "propose" /\ "propose" \in Working
    BY <1>2 DEF ProposeEntry, Working
  <2>2. CASE role[n] = "Leader"
    <3> DEFINE e == [Entry(t) EXCEPT !.term = currentTerm[n], !.index = LastIndex(log[n]) + 1]
               r == [put[t] EXCEPT !.pc = "capture", !.entry = <<e>>]
    <3>1. LastIndex(log[n]) + 1 \in Nat \ {0}
      BY <1>1, <2>1, LastOfLog
    <3>2. e \in LogEntry /\ e.index > 0
      <4>1. Entry(t) \in LogEntry /\ currentTerm[n] \in Nat
        BY <1>1, <2>1
      <4>2. QED
        BY <3>1, <4>1, StampedEntryType
    <3>3. log' = [log EXCEPT ![n] = Append(log[n], e)] /\ put' = [put EXCEPT ![t] = r]
      BY <1>1, <1>2, <2>1, <2>2, WorkerType DEF ProposeEntry
    <3> HIDE DEF e
    <3>4. r \in PutThreads /\ r.pc = "capture" /\ r.node = n /\ r.entry = <<e>>
      <4>1. <<e>> \in Seq(LogEntry)
        BY <3>2
      <4>2. put[t] \in PutThreads
        BY <1>1, <2>1
      <4>3. QED
        BY <4>1, <4>2 DEF PutThreads, PutPcs
    <3>5. r.entry # <<>> /\ r.entry[1] = e
      BY <3>4
    <3> HIDE DEF r
    <3>6. log' \in [Nodes -> Seq(LogEntry)]
      BY <1>1, <2>1, <3>2, <3>3
    <3>7. put' \in [Puts -> PutThreads] /\ ThreadInv'
      BY <1>1, <1>2, <2>1, <3>2, <3>3, <3>4, <3>5, OneThreadMoves DEF ProposeEntry
    <3>8. QED
      BY <1>2, <3>6, <3>7 DEF ProposeEntry, TypeOK
  <2>3. CASE role[n] # "Leader"
    <3>1. put' \in [Puts -> PutThreads] /\ ThreadInv'
      BY <1>2, <2>3, AnswerType DEF ProposeEntry
    <3>2. QED
      BY <1>2, <2>3, <3>1 DEF ProposeEntry, TypeOK
  <2>4. QED
    BY <2>2, <2>3
<1>3. CASE CaptureView(t)
  <2>1. put[t].pc = "capture" /\ "capture" \in Working
    BY <1>3 DEF CaptureView, Working
  <2> DEFINE r == [put[t] EXCEPT !.pc = "next", !.todo = Peers(n),
                     !.view = [term |-> currentTerm[n], epoch |-> epoch[n]]]
  <2>2. /\ r \in PutThreads /\ r.pc = "next" /\ r.node = n
        /\ r.entry = put[t].entry
    BY <1>1, <2>1 DEF PutThreads, PutPcs, Peers
  <2>3. put' = [put EXCEPT ![t] = r]
    BY <1>1, <1>3, <2>1, WorkerType DEF CaptureView
  <2> HIDE DEF r
  <2>4. r.entry[1].index > 0
    BY <1>1, <2>1, <2>2 DEF Entry
  <2>5. put' \in [Puts -> PutThreads] /\ ThreadInv'
    BY <1>1, <1>3, <2>1, <2>2, <2>3, <2>4, OneThreadMoves DEF CaptureView
  <2>6. QED
    BY <1>3, <2>5 DEF CaptureView, TypeOK
<1>4. CASE SendRepl(t)
  <2>1. put[t].pc = "append" /\ "append" \in Working
    BY <1>4 DEF SendRepl, Working
  <2> DEFINE r == [put[t] EXCEPT !.pc = "repl"]
  <2>2. /\ r \in PutThreads /\ r.pc = "repl" /\ r.node = n
        /\ r.entry = put[t].entry
    BY <1>1, <2>1 DEF PutThreads, PutPcs
  <2>3. put' = [put EXCEPT ![t] = r]
    BY <1>1, <1>4, <2>1, WorkerType DEF SendRepl
  <2> HIDE DEF r
  <2>4. r.entry[1].index > 0
    BY <1>1, <2>1, <2>2 DEF Entry
  <2>5. put' \in [Puts -> PutThreads] /\ ThreadInv'
    BY <1>1, <1>4, <2>1, <2>2, <2>3, <2>4, OneThreadMoves DEF SendRepl
  <2>6. rpcs' \subseteq VoteRequests \cup AppendRequests \cup ReplRequests
    <3> DEFINE m == [type |-> "Repl", by |-> t, to |-> put[t].peer,
                     epoch |-> put[t].view.epoch, entry |-> Entry(t)]
    <3>1. put[t].peer \in Nodes /\ put[t].view.epoch \in Nat
      BY <1>1, <2>1 DEF ThreadInv, PutThreads
    <3>2. m \in ReplRequests
      BY <1>1, <2>1, <3>1 DEF ReplRequests
    <3>3. rpcs' = rpcs \cup {m}
      BY <1>4 DEF SendRepl
    <3> HIDE DEF m
    <3>4. QED
      BY <3>2, <3>3 DEF TypeOK
  <2>7. QED
    BY <1>4, <2>5, <2>6 DEF SendRepl, TypeOK
<1>5. CASE CommitEntry(t)
  <2>1. put[t].pc \in Working \ {"propose", "append", "apply"}
    BY <1>5 DEF CommitEntry, Working
  <2>2. CASE \E res \in {"fenced", "not_leader"} : Answer(t, res) /\ UNCHANGED commitIndex
    <3>1. put' \in [Puts -> PutThreads] /\ ThreadInv'
      BY <1>5, <2>2, AnswerType DEF CommitEntry
    <3>2. QED
      BY <1>5, <2>2, <3>1 DEF CommitEntry, TypeOK
  <2>3. CASE /\ commitIndex' = [commitIndex EXCEPT ![n] = Entry(t).index]
             /\ put' = [put EXCEPT ![t].pc = "take", ![t].peer = NoNode, ![t].acks = {}]
    <3> DEFINE r == [put[t] EXCEPT !.pc = "take", !.peer = NoNode, !.acks = {}]
    <3>1. /\ r \in PutThreads /\ r.pc = "take" /\ r.node = n
          /\ r.entry = put[t].entry
      BY <1>1, <2>1 DEF PutThreads, PutPcs, NodeOrNone
    <3>2. put' = [put EXCEPT ![t] = r]
      BY <1>1, <2>1, <2>3, WorkerType
    <3> HIDE DEF r
    <3>3. r.entry[1].index > 0
      BY <1>1, <2>1, <3>1 DEF Entry
    <3>4. put' \in [Puts -> PutThreads] /\ ThreadInv'
      BY <1>1, <1>5, <2>1, <3>1, <3>2, <3>3, OneThreadMoves DEF CommitEntry
    <3>5. commitIndex' \in [Nodes -> Nat]
      BY <1>1, <2>1, <2>3 DEF TypeOK
    <3>6. QED
      BY <1>5, <3>4, <3>5 DEF CommitEntry, TypeOK
  <2>4. QED
    BY <1>5, <2>2, <2>3 DEF CommitEntry
<1>6. CASE TakeOwn(t)
  <2>1. put[t].pc = "take" /\ "take" \in Working
    BY <1>6 DEF TakeOwn, Working
  <2>2. Applicable(n) \in Seq(LogEntry) /\ AppliedUpTo(n) \in Nat
    BY <1>1, <2>1, ApplicableType
  <2>3. lastApplied' \in [Nodes -> Nat]
    BY <1>1, <1>6, <2>1, <2>2 DEF TakeOwn, TypeOK
  <2>4. CASE Answer(t, "committed")
    <3>1. put' \in [Puts -> PutThreads] /\ ThreadInv'
      BY <1>6, <2>4, AnswerType DEF TakeOwn
    <3>2. QED
      BY <1>6, <2>3, <3>1 DEF TakeOwn, TypeOK
  <2>5. CASE /\ Applicable(n) # <<>>
             /\ put' = [put EXCEPT ![t].pc = "apply", ![t].pending = Applicable(n)]
    <3> DEFINE r == [put[t] EXCEPT !.pc = "apply", !.pending = Applicable(n)]
    <3>1. /\ r \in PutThreads /\ r.pc = "apply" /\ r.node = n
          /\ r.entry = put[t].entry /\ r.pending = Applicable(n)
      BY <1>1, <2>1, <2>2 DEF PutThreads, PutPcs
    <3>2. put' = [put EXCEPT ![t] = r]
      BY <1>1, <2>1, <2>5, WorkerType
    <3> HIDE DEF r
    <3>3. r.entry[1].index > 0
      BY <1>1, <2>1, <3>1 DEF Entry
    <3>4. put' \in [Puts -> PutThreads] /\ ThreadInv'
      BY <1>1, <1>6, <2>1, <2>5, <3>1, <3>2, <3>3, OneThreadMoves DEF TakeOwn
    <3>5. QED
      BY <1>6, <2>3, <3>4 DEF TakeOwn, TypeOK
  <2>6. QED
    BY <1>6, <2>4, <2>5 DEF TakeOwn
<1>7. CASE ApplyOwn(t)
  <2>1. put[t].pc = "apply" /\ "apply" \in Working
    BY <1>7 DEF ApplyOwn, Working
  <2>2. put[t].pending \in Seq(LogEntry) /\ put[t].pending # <<>>
    BY <1>1, <2>1 DEF ThreadInv, PutThreads
  <2>3. /\ Head(put[t].pending) \in LogEntry /\ Tail(put[t].pending) \in Seq(LogEntry)
        /\ Len(put[t].pending) # 1 => Tail(put[t].pending) # <<>>
    BY <2>2, HeadAndTail
  <2>4. /\ map' \in [Nodes -> [Keys -> Puts \cup {NoPut}]]
        /\ catLog' \in [Nodes -> SUBSET CatalogEntry]
    BY <1>1, <1>7, <2>1, <2>3, ApplyEntryType DEF ApplyOwn
  <2>5. CASE Answer(t, "committed")
    <3>1. put' \in [Puts -> PutThreads] /\ ThreadInv'
      BY <1>7, <2>5, AnswerType DEF ApplyOwn
    <3>2. QED
      BY <1>7, <2>4, <3>1 DEF ApplyOwn, TypeOK
  <2>6. CASE /\ Len(put[t].pending) # 1
             /\ put' = [put EXCEPT ![t].pending = Tail(@)]
    <3> DEFINE r == [put[t] EXCEPT !.pending = Tail(put[t].pending)]
    <3>1. /\ r \in PutThreads /\ r.pc = "apply" /\ r.node = n
          /\ r.entry = put[t].entry /\ r.pending = Tail(put[t].pending)
      BY <1>1, <2>1, <2>3 DEF PutThreads
    <3>2. put' = [put EXCEPT ![t] = r]
      BY <1>1, <2>1, <2>6, WorkerType
    <3> HIDE DEF r
    <3>3. r.entry[1].index > 0
      BY <1>1, <2>1, <3>1 DEF Entry
    <3>4. put' \in [Puts -> PutThreads] /\ ThreadInv'
      BY <1>1, <1>7, <2>1, <2>3, <2>6, <3>1, <3>2, <3>3, OneThreadMoves DEF ApplyOwn
    <3>5. QED
      BY <1>7, <2>4, <3>4 DEF ApplyOwn, TypeOK
  <2>7. QED
    BY <1>7, <2>5, <2>6 DEF ApplyOwn
<1>8. ASSUME NEW p \in Nodes, SendAppend(t, p)
      PROVE  TypeInv'
  <2>1. put[t].pc \in Working \ {"propose", "apply"}
    BY <1>8 DEF SendAppend, Working
  <2> DEFINE r == [put[t] EXCEPT !.pc = "append", !.peer = p, !.todo = put[t].todo \ {p}]
  <2>2. /\ r \in PutThreads /\ r.pc = "append" /\ r.node = n
        /\ r.entry = put[t].entry /\ r.peer = p
    BY <1>1, <2>1 DEF PutThreads, PutPcs, NodeOrNone
  <2>3. put' = [put EXCEPT ![t] = r]
    BY <1>1, <1>8, <2>1, WorkerType DEF SendAppend
  <2> HIDE DEF r
  <2>4. r.entry[1].index > 0
    BY <1>1, <2>1, <2>2 DEF Entry
  <2>5. put' \in [Puts -> PutThreads] /\ ThreadInv'
    BY <1>1, <1>8, <2>1, <2>2, <2>3, <2>4, OneThreadMoves DEF SendAppend
  <2>6. rpcs' \subseteq VoteRequests \cup AppendRequests \cup ReplRequests
    <3> DEFINE prev == PrevIndex(t)
               prevTerm == IF prev \in 1..Len(log[n]) THEN log[n][prev].term ELSE 0
               m == [type |-> "AppendEntries", by |-> t, from |-> n, to |-> p, round |-> 0,
                     term |-> currentTerm[n], prevIndex |-> prev, prevTerm |-> prevTerm,
                     entries |-> put[t].entry, commit |-> commitIndex[n]]
    <3>1. prev \in Nat
      BY <1>1, <2>1 DEF PrevIndex
    <3>2. prevTerm \in Nat
      <4>1. CASE prev \in 1..Len(log[n])
        <5>1. log[n][prev] \in LogEntry
          BY <1>1, <2>1, <4>1
        <5>2. QED
          BY <4>1, <5>1 DEF LogEntry
      <4>2. QED
        BY <4>1
    <3>3. put[t].entry \in Seq(LogEntry)
      BY <1>1, <2>1 DEF PutThreads
    <3> HIDE DEF prev, prevTerm
    <3>4. m \in AppendRequests
      BY <1>1, <2>1, <3>1, <3>2, <3>3 DEF AppendRequests
    <3>5. rpcs' = rpcs \cup {m}
      BY <1>8 DEF SendAppend, prev, prevTerm
    <3>6. QED
      BY <3>4, <3>5 DEF TypeOK
  <2>7. QED
    BY <1>8, <2>5, <2>6 DEF SendAppend, TypeOK
<1>9. QED
  BY <1>2, <1>3, <1>4, <1>5, <1>6, <1>7, <1>8 DEF PutHandler

\* The OP_PUT arm of handle.
LEMMA ReceivePutTypeInv ==
  ASSUME TypeInv, NEW t \in Puts, NEW n \in Nodes, NEW k \in Keys, ReceivePut(t, n, k)
  PROVE  TypeInv'
<1> USE DEF TypeInv, raftVars, stateVars, history
<1>1. put \in [Puts -> PutThreads] /\ put[t] \in PutThreads
  BY DEF TypeOK
<1>2. CASE alive[n] /\ isLeader[n]
  <2> DEFINE d == [term |-> 0, index |-> 0, key |-> k, val |-> t]
             r == [put[t] EXCEPT !.pc = "propose", !.node = n, !.entry = <<d>>]
  <2>1. d \in LogEntry
    BY DEF LogEntry
  <2> HIDE DEF d
  <2>2. <<d>> \in Seq(LogEntry) /\ <<d>> # <<>>
    BY <2>1
  <2>3. /\ r \in PutThreads /\ r.pc = "propose" /\ r.node = n /\ r.entry = <<d>>
    BY <1>1, <2>2 DEF PutThreads, PutPcs, NodeOrNone
  <2>4. put' = [put EXCEPT ![t] = r]
    BY <1>1, <1>2 DEF ReceivePut, d
  <2> HIDE DEF r
  <2>5. put' \in [Puts -> PutThreads] /\ ThreadInv'
    BY <2>2, <2>3, <2>4, OneThreadMoves DEF ReceivePut, Working
  <2>6. QED
    BY <2>5 DEF ReceivePut, TypeOK
<1>3. CASE ~(alive[n] /\ isLeader[n])
  <2> DEFINE res == IF alive[n] THEN "not_leader" ELSE "unreachable"
             r == [put[t] EXCEPT !.pc = "done", !.node = n, !.result = res]
  <2>1. /\ r \in PutThreads /\ r.pc = "done"
    BY <1>1 DEF PutThreads, PutPcs, NodeOrNone
  <2>2. put' = [put EXCEPT ![t] = r]
    BY <1>1, <1>3 DEF ReceivePut
  <2> HIDE DEF r
  <2>3. put' \in [Puts -> PutThreads] /\ ThreadInv'
    BY <2>1, <2>2, OneThreadMoves DEF ReceivePut, Working
  <2>4. QED
    BY <2>3 DEF ReceivePut, TypeOK
<1>4. QED
  BY <1>2, <1>3

\* The operator's actions and a step that changes nothing.
LEMMA OperatorTypeInv ==
  ASSUME TypeInv,
         \/ \E n \in Nodes, e \in Epochs : Promote(n, e)
         \/ \E n \in Victims : Kill(n)
         \/ UNCHANGED vars
  PROVE  TypeInv'
<1> USE DEF TypeInv, raftVars, stateVars, history
<1>1. ASSUME NEW n \in Nodes, NEW e \in Epochs, Promote(n, e)
      PROVE  TypeInv'
  BY <1>1 DEF Promote, TypeOK, ThreadInv, Entry
<1>2. ASSUME NEW n \in Victims, Kill(n)
      PROVE  TypeInv'
  BY <1>2 DEF Kill, TypeOK, ThreadInv, Entry
<1>3. CASE UNCHANGED vars
  BY <1>3 DEF vars, TypeOK, ThreadInv, Entry
<1>4. QED
  BY <1>1, <1>2, <1>3

LEMMA NextTypeInv == TypeInv /\ [Next]_vars => TypeInv'
<1> SUFFICES ASSUME TypeInv, [Next]_vars PROVE TypeInv'
  OBVIOUS
<1>1. ASSUME NEW n \in Nodes, Ticker(n) PROVE TypeInv'
  BY <1>1, TickerTypeInv
<1>2. CASE Handler
  <2>1. ASSUME NEW m \in rpcs,
               HandleRequestVote(m) \/ HandleAppendEntries(m) \/ HandleRepl(m)
        PROVE  TypeInv'
    BY <2>1, RequestVoteTypeInv, AppendEntriesTypeInv, ReplTypeInv
  <2>2. ASSUME NEW a \in appliers, TakeCommitted(a) \/ ApplyCommitted(a)
        PROVE  TypeInv'
    BY <2>2, TakeCommittedTypeInv, ApplyCommittedTypeInv
  <2>3. QED
    BY <1>2, <2>1, <2>2 DEF Handler
<1>3. ASSUME NEW t \in Puts, PutHandler(t) PROVE TypeInv'
  BY <1>3, PutHandlerTypeInv
<1>4. ASSUME NEW t \in Puts, NEW n \in Nodes, NEW k \in Keys, ReceivePut(t, n, k)
      PROVE  TypeInv'
  BY <1>4, ReceivePutTypeInv
<1>5. CASE \/ \E n \in Nodes, e \in Epochs : Promote(n, e)
           \/ \E n \in Victims : Kill(n)
           \/ UNCHANGED vars
  BY <1>5, OperatorTypeInv
<1>6. QED
  BY <1>1, <1>2, <1>3, <1>4, <1>5 DEF Next

LEMMA TypeInvInvariant == Spec => []TypeInv
BY InitTypeInv, NextTypeInv, PTL DEF Spec

\* The variables of the nodes, their threads and the network keep their types
\* whatever the number of nodes and calls and whatever the bounds.
THEOREM TypeCorrect == Spec => []TypeOK
BY TypeInvInvariant, PTL DEF TypeInv

-----------------------------------------------------------------------------
(* Elections.                                                              *)

\* A vote counts until its voter moves to a later term.
VotesStand ==
  \A v \in cast : /\ v[1] <= currentTerm[v[2]]
                  /\ v[1] = currentTerm[v[2]] => votedFor[v[2]] = v[3]

\* A Candidate has voted for itself in the term it is in.
CandidatesVote ==
  \A n \in Nodes : role[n] = "Candidate" => <<currentTerm[n], n, n>> \in cast

\* What a ballot has counted are votes of the term it noted, which still is the
\* node's term unless the node was deposed: the term sent in its later requests may
\* differ, and such votes are not counted.
BallotsCount ==
  \A n \in Nodes : tick[n].pc = "ballot" =>
    /\ \A p \in tick[n].votes : <<tick[n].term, p, n>> \in cast
    /\ role[n] = "Candidate" => tick[n].term = currentTerm[n]

\* A majority stands behind every leader.
ElectedBacked ==
  \A x \in elected : \E Q \in SUBSET Nodes :
    Cardinality(Q) >= Majority /\ \A p \in Q : <<x[1], p, x[2]>> \in cast

ElectionInv == VotesStand /\ VoteOnce /\ CandidatesVote /\ BallotsCount /\ ElectedBacked

LEMMA QuorumsIntersect ==
  ASSUME NEW P \in SUBSET Nodes, NEW Q \in SUBSET Nodes,
         Cardinality(P) >= Majority, Cardinality(Q) >= Majority
  PROVE  P \cap Q # {}
<1> USE NodesAssumption
<1>1. IsFiniteSet(P) /\ IsFiniteSet(Q) /\ IsFiniteSet(P \cap Q) /\ IsFiniteSet(P \cup Q)
  BY FS_Subset
<1>2. /\ Cardinality(Nodes) \in Nat /\ Cardinality(P) \in Nat /\ Cardinality(Q) \in Nat
      /\ Cardinality(P \cup Q) \in Nat
  BY <1>1, FS_CardinalityType
<1>3. Cardinality(P \cup Q) <= Cardinality(Nodes)
  BY <1>1, FS_Subset
<1>4. Cardinality(P \cup Q) = Cardinality(P) + Cardinality(Q) - Cardinality(P \cap Q)
  BY <1>1, FS_Union
<1>5. SUFFICES ASSUME P \cap Q = {} PROVE FALSE
  OBVIOUS
<1>6. Cardinality(P \cap Q) = 0
  BY <1>5, FS_EmptySet
<1>7. QED
  BY <1>2, <1>3, <1>4, <1>6 DEF Majority

\* Nothing that keeps the terms, votes, roles and tickers disturbs the invariant.
LEMMA ElectionInvKept ==
  ASSUME ElectionInv,
         UNCHANGED <<currentTerm, votedFor, role, cast, elected, tick>>
  PROVE  ElectionInv'
BY DEF ElectionInv, VotesStand, VoteOnce, CandidatesVote, BallotsCount, ElectedBacked

LEMMA StartElectionInv ==
  ASSUME TypeOK, ElectionInv, NEW n \in Nodes, StartElection(n)
  PROVE  ElectionInv'
<1> USE DEF ElectionInv, StartElection, TypeOK
<1>1. \A v \in cast : v \in Nat \X Nodes \X Nodes
  OBVIOUS
<1>2. currentTerm[n] \in Nat
  OBVIOUS
<1>3. VotesStand'
  <2>1. ASSUME NEW v \in cast
        PROVE  /\ v[1] <= currentTerm'[v[2]]
               /\ v[1] = currentTerm'[v[2]] => votedFor'[v[2]] = v[3]
    <3>1. v[1] \in Nat /\ v[2] \in Nodes /\ currentTerm[v[2]] \in Nat
      BY <1>1
    <3>2. v[1] <= currentTerm[v[2]] /\ (v[1] = currentTerm[v[2]] => votedFor[v[2]] = v[3])
      BY DEF VotesStand
    <3>3. CASE v[2] = n
      <4>1. currentTerm'[v[2]] = currentTerm[v[2]] + 1
        BY <3>3
      <4> HIDE DEF ElectionInv, StartElection, TypeOK
      <4>2. v[1] < currentTerm'[v[2]]
        BY <3>1, <3>2, <4>1
      <4>3. QED
        BY <3>1, <4>1, <4>2
    <3>4. CASE v[2] # n
      BY <3>1, <3>2, <3>4
    <3>5. QED
      BY <3>3, <3>4
  <2>2. currentTerm'[n] = currentTerm[n] + 1 /\ votedFor'[n] = n
    OBVIOUS
  <2>3. ASSUME NEW v \in cast'
        PROVE  /\ v[1] <= currentTerm'[v[2]]
               /\ v[1] = currentTerm'[v[2]] => votedFor'[v[2]] = v[3]
    <3>1. CASE v \in cast
      BY <2>1, <3>1
    <3>2. CASE v = <<currentTerm[n] + 1, n, n>>
      <4>1. v[1] = currentTerm[n] + 1 /\ v[2] = n /\ v[3] = n
        BY <3>2
      <4>2. QED
        BY <1>2, <2>2, <4>1
    <3>3. QED
      BY <3>1, <3>2
  <2>4. QED
    BY <2>3 DEF VotesStand
<1>4. VoteOnce'
  <2>1. \A v \in cast : v[2] = n => v[1] # currentTerm[n] + 1
    BY <1>1, <1>2 DEF VotesStand
  <2>2. QED
    BY <2>1 DEF VoteOnce
<1>5. CandidatesVote'
  BY DEF CandidatesVote
<1>6. BallotsCount'
  BY DEF BallotsCount
<1>7. ElectedBacked'
  BY DEF ElectedBacked
<1>8. QED
  BY <1>3, <1>4, <1>5, <1>6, <1>7

LEMMA TallyVotesInv ==
  ASSUME TypeOK, ElectionInv, NEW n \in Nodes, TallyVotes(n)
  PROVE  ElectionInv'
<1> USE DEF ElectionInv, TallyVotes
<1>1. VotesStand' /\ VoteOnce'
  BY DEF VotesStand, VoteOnce
<1>2. CandidatesVote'
  <2>1. role' = [role EXCEPT ![n] = "Leader"] \/ role' = role
    OBVIOUS
  <2>2. \A p \in Nodes : role'[p] = "Candidate" => role[p] = "Candidate"
    BY <2>1 DEF TypeOK
  <2>3. currentTerm' = currentTerm /\ cast' = cast
    OBVIOUS
  <2>4. QED
    BY <2>2, <2>3 DEF CandidatesVote
<1>3. tick'[n].pc # "ballot" /\ \A p \in Nodes \ {n} : tick'[p] = tick[p] /\ role'[p] = role[p]
  <2>1. Rested(n).pc = "idle" /\ [Rested(n) EXCEPT !.pc = "won", !.term = currentTerm[n]].pc = "won"
    BY DEF Rested, IdleTicker
  <2>2. \/ tick' = [tick EXCEPT ![n] = Rested(n)]
        \/ tick' = [tick EXCEPT ![n] = [Rested(n) EXCEPT !.pc = "won", !.term = currentTerm[n]]]
    OBVIOUS
  <2>3. role' = [role EXCEPT ![n] = "Leader"] \/ role' = role
    OBVIOUS
  <2>4. QED
    BY <2>1, <2>2, <2>3 DEF TypeOK
<1>4. BallotsCount'
  BY <1>3 DEF BallotsCount
<1>5. CASE elected' = elected
  BY <1>1, <1>2, <1>4, <1>5 DEF ElectedBacked
<1>6. CASE Cardinality(tick[n].votes) >= Majority /\ role[n] = "Candidate"
  <2>1. tick[n].votes \in SUBSET Nodes
    BY DEF TypeOK, Ticks
  <2>2. \A p \in tick[n].votes : <<currentTerm[n], p, n>> \in cast
    BY <1>6 DEF BallotsCount
  <2>3. ElectedBacked'
    BY <1>6, <2>1, <2>2 DEF ElectedBacked
  <2>4. QED
    BY <1>1, <1>2, <1>4, <2>3
<1>7. QED
  BY <1>5, <1>6

LEMMA TickerElectionInv ==
  ASSUME TypeOK, ElectionInv, NEW n \in Nodes, Ticker(n)
  PROVE  ElectionInv'
<1> USE DEF ElectionInv, stateVars, raftVars, history
<1>1. tick \in [Nodes -> Ticks]
  BY DEF TypeOK
<1>2. CASE BeginBallot(n)
  <2>1. VotesStand' /\ VoteOnce' /\ CandidatesVote' /\ ElectedBacked'
    BY <1>2 DEF BeginBallot, VotesStand, VoteOnce, CandidatesVote, ElectedBacked
  <2>2. BallotsCount'
    BY <1>1, <1>2 DEF BeginBallot, BallotsCount, CandidatesVote
  <2>3. QED
    BY <2>1, <2>2
<1>3. ASSUME UNCHANGED <<currentTerm, votedFor, role, cast, elected>>,
             \A p \in Nodes : \/ tick'[p].pc # "ballot"
                              \/ /\ tick[p].pc = "ballot"
                                 /\ tick'[p].votes = tick[p].votes
                                 /\ tick'[p].term = tick[p].term
      PROVE  ElectionInv'
  BY <1>3 DEF VotesStand, VoteOnce, CandidatesVote, ElectedBacked, BallotsCount
<1>4. CASE PublishWin(n)
  BY <1>1, <1>3, <1>4 DEF PublishWin, Rested, IdleTicker
<1>5. CASE SeeLeader(n)
  BY <1>1, <1>3, <1>5 DEF SeeLeader
<1>6. CASE SendHeartbeats(n)
  BY <1>1, <1>3, <1>6 DEF SendHeartbeats, Rested, IdleTicker
<1>7. ASSUME NEW p \in Nodes, AskVote(n, p) PROVE ElectionInv'
  BY <1>1, <1>3, <1>7 DEF AskVote
<1>8. QED
  BY <1>2, <1>4, <1>5, <1>6, <1>7, StartElectionInv, TallyVotesInv DEF Ticker

\* A request of a later term moves the node on, and a vote of the same term stays.
LEMMA AdoptionProperties ==
  ASSUME TypeOK, NEW n \in Nodes, NEW m, m.term \in Nat
  PROVE  /\ AdoptedTerm(m, n) \in Nat
         /\ AdoptedTerm(m, n) >= currentTerm[n] /\ AdoptedTerm(m, n) >= m.term
         /\ AdoptedTerm(m, n) = currentTerm[n] => AdoptedVote(m, n) = votedFor[n]
         /\ Grants(m, n) => AdoptedTerm(m, n) = m.term
<1>1. currentTerm[n] \in Nat
  BY DEF TypeOK
<1>2. QED
  BY <1>1 DEF AdoptedTerm, AdoptedVote, Grants

\* The vote on a request, and its count by the ballot that still waits for it.
LEMMA RequestVoteElectionInv ==
  ASSUME TypeOK, ElectionInv, NEW m \in rpcs, HandleRequestVote(m)
  PROVE  ElectionInv'
<1> DEFINE n == m.to
           c == m.from
           vote == <<m.term, n, c>>
<1> USE DEF ElectionInv
<1>1. m \in VoteRequests /\ n \in Nodes /\ c \in Nodes /\ m.term \in Nat
  <2>1. m \in VoteRequests
    BY RequestKinds DEF HandleRequestVote
  <2>2. QED
    BY <2>1 DEF VoteRequests
<1>2. /\ currentTerm' = [currentTerm EXCEPT ![n] = AdoptedTerm(m, n)]
      /\ votedFor' = [votedFor EXCEPT ![n] = IF Grants(m, n) THEN c ELSE AdoptedVote(m, n)]
      /\ role' = [role EXCEPT ![n] = IF m.term > currentTerm[n] THEN "Follower" ELSE role[n]]
      /\ cast' = IF Grants(m, n) THEN cast \cup {vote} ELSE cast
      /\ elected' = elected
  BY DEF HandleRequestVote
<1>3. /\ currentTerm \in [Nodes -> Nat] /\ votedFor \in [Nodes -> NodeOrNone]
      /\ role \in [Nodes -> {"Follower", "Candidate", "Leader"}]
      /\ tick \in [Nodes -> Ticks] /\ cast \subseteq Nat \X Nodes \X Nodes
  BY DEF TypeOK
<1>4. /\ AdoptedTerm(m, n) \in Nat /\ AdoptedTerm(m, n) >= currentTerm[n]
      /\ AdoptedTerm(m, n) = currentTerm[n] => AdoptedVote(m, n) = votedFor[n]
      /\ Grants(m, n) => AdoptedTerm(m, n) = m.term
  BY <1>1, AdoptionProperties
<1>5. /\ currentTerm'[n] = AdoptedTerm(m, n)
      /\ votedFor'[n] = IF Grants(m, n) THEN c ELSE AdoptedVote(m, n)
      /\ \A p \in Nodes \ {n} : currentTerm'[p] = currentTerm[p] /\ votedFor'[p] = votedFor[p]
      /\ cast \subseteq cast'
  BY <1>1, <1>2, <1>3
\* A vote of this term, if the voter has one, is for the candidate that gets this one.
<1>6. ASSUME Grants(m, n), NEW v \in cast, v[1] = m.term, v[2] = n
      PROVE  v[3] = c
  <2>1. v[1] \in Nat /\ v[3] \in Nodes /\ currentTerm[n] \in Nat
    BY <1>1, <1>3
  <2>2. v[1] = currentTerm[n] /\ votedFor[n] = v[3]
    BY <1>6, <2>1 DEF VotesStand, Grants
  <2>3. AdoptedVote(m, n) = votedFor[n] /\ AdoptedVote(m, n) \in {NoNode, c}
    BY <1>4, <1>6, <2>2 DEF Grants
  <2>4. QED
    BY <2>1, <2>2, <2>3, NodesAssumption
<1>7. VotesStand'
  <2>1. ASSUME NEW v \in cast
        PROVE  /\ v[1] <= currentTerm'[v[2]]
               /\ v[1] = currentTerm'[v[2]] => votedFor'[v[2]] = v[3]
    <3>1. v[1] \in Nat /\ v[2] \in Nodes /\ currentTerm[v[2]] \in Nat
      BY <1>3
    <3>2. v[1] <= currentTerm[v[2]] /\ (v[1] = currentTerm[v[2]] => votedFor[v[2]] = v[3])
      BY DEF VotesStand
    <3>3. CASE v[2] # n
      BY <1>5, <3>1, <3>2, <3>3
    <3>4. CASE v[2] = n
      <4>1. v[1] <= AdoptedTerm(m, n)
        BY <1>4, <3>1, <3>2, <3>4
      <4>2. CASE v[1] = AdoptedTerm(m, n)
        <5>1. AdoptedTerm(m, n) = currentTerm[n] /\ votedFor[n] = v[3]
          BY <1>4, <3>1, <3>2, <3>4, <4>2
        <5>2. Grants(m, n) => v[3] = c
          BY <1>4, <1>6, <3>4, <4>2
        <5>3. QED
          BY <1>4, <1>5, <3>4, <4>1, <5>1, <5>2
      <4>3. QED
        BY <1>5, <3>4, <4>1, <4>2
    <3>5. QED
      BY <3>3, <3>4
  <2>2. ASSUME Grants(m, n)
        PROVE  /\ vote[1] <= currentTerm'[vote[2]]
               /\ vote[1] = currentTerm'[vote[2]] => votedFor'[vote[2]] = vote[3]
    <3>1. currentTerm'[n] = m.term /\ votedFor'[n] = c
      BY <1>4, <1>5, <2>2
    <3>2. QED
      BY <1>1, <3>1
  <2>3. \A v \in cast' : v \in cast \/ (Grants(m, n) /\ v = vote)
    BY <1>2
  <2>4. QED
    BY <2>1, <2>2, <2>3 DEF VotesStand
<1>8. VoteOnce'
  <2>1. vote[1] = m.term /\ vote[2] = n /\ vote[3] = c
    OBVIOUS
  <2>2. \A v \in cast' : v \in cast \/ (Grants(m, n) /\ v = vote)
    BY <1>2
  <2>3. QED
    BY <1>6, <2>1, <2>2 DEF VoteOnce
<1>9. CandidatesVote'
  <2>1. ASSUME NEW p \in Nodes, role'[p] = "Candidate"
        PROVE  role[p] = "Candidate" /\ currentTerm'[p] = currentTerm[p]
    BY <1>1, <1>2, <1>3, <2>1 DEF AdoptedTerm
  <2>2. QED
    BY <1>5, <2>1 DEF CandidatesVote
<1>10. BallotsCount'
  <2>1. \/ tick' = tick
        \/ /\ Grants(m, n) /\ m.term = tick[c].term
           /\ tick' = [tick EXCEPT ![c].votes = tick[c].votes \cup {n}]
    BY DEF HandleRequestVote
  <2>2. ASSUME NEW p \in Nodes
        PROVE  /\ tick'[p].pc = tick[p].pc /\ tick'[p].term = tick[p].term
               /\ \A q \in tick'[p].votes : q \in tick[p].votes \/ <<tick[p].term, q, p>> \in cast'
    <3>1. CASE tick' = tick
      BY <3>1
    <3>2. CASE /\ Grants(m, n) /\ m.term = tick[c].term
               /\ tick' = [tick EXCEPT ![c].votes = tick[c].votes \cup {n}]
      BY <1>1, <1>2, <1>3, <3>2
    <3>3. QED
      BY <2>1, <3>1, <3>2
  <2>3. ASSUME NEW p \in Nodes, role'[p] = "Candidate"
        PROVE  role[p] = "Candidate" /\ currentTerm'[p] = currentTerm[p]
    BY <1>1, <1>2, <1>3, <2>3 DEF AdoptedTerm
  <2>4. QED
    BY <1>5, <2>2, <2>3 DEF BallotsCount
<1>11. ElectedBacked'
  BY <1>2, <1>5 DEF ElectedBacked
<1>12. QED
  BY <1>7, <1>8, <1>9, <1>10, <1>11

LEMMA AppendEntriesElectionInv ==
  ASSUME TypeOK, ElectionInv, NEW m \in rpcs, HandleAppendEntries(m)
  PROVE  ElectionInv'
<1> DEFINE n == m.to
<1> USE DEF ElectionInv
<1>1. n \in Nodes /\ m.term \in Nat
  <2>1. m \in AppendRequests
    BY RequestKinds DEF HandleAppendEntries
  <2>2. QED
    BY <2>1 DEF AppendRequests
<1>2. /\ currentTerm' = [currentTerm EXCEPT ![n] = AdoptedTerm(m, n)]
      /\ votedFor' = [votedFor EXCEPT ![n] = AdoptedVote(m, n)]
      /\ role' = [role EXCEPT ![n] = AdoptedRole(m, n)]
      /\ UNCHANGED <<cast, elected, tick>>
  BY DEF HandleAppendEntries, history
<1>3. /\ currentTerm \in [Nodes -> Nat] /\ votedFor \in [Nodes -> NodeOrNone]
      /\ role \in [Nodes -> {"Follower", "Candidate", "Leader"}]
      /\ cast \subseteq Nat \X Nodes \X Nodes
  BY DEF TypeOK
<1>4. /\ AdoptedTerm(m, n) \in Nat /\ AdoptedTerm(m, n) >= currentTerm[n]
      /\ AdoptedTerm(m, n) = currentTerm[n] => AdoptedVote(m, n) = votedFor[n]
  BY <1>1, AdoptionProperties
<1>5. ASSUME NEW p \in Nodes
      PROVE  /\ currentTerm'[p] \in Nat /\ currentTerm'[p] >= currentTerm[p]
             /\ currentTerm'[p] = currentTerm[p] => votedFor'[p] = votedFor[p]
  BY <1>1, <1>2, <1>3, <1>4
<1>6. VotesStand'
  <2>1. ASSUME NEW v \in cast
        PROVE  /\ v[1] <= currentTerm'[v[2]]
               /\ v[1] = currentTerm'[v[2]] => votedFor'[v[2]] = v[3]
    <3>1. v[1] \in Nat /\ v[2] \in Nodes /\ currentTerm[v[2]] \in Nat
      BY <1>3
    <3>2. v[1] <= currentTerm[v[2]] /\ (v[1] = currentTerm[v[2]] => votedFor[v[2]] = v[3])
      BY DEF VotesStand
    <3>3. QED
      BY <1>5, <3>1, <3>2
  <2>2. QED
    BY <1>2, <2>1 DEF VotesStand
<1>7. ASSUME NEW p \in Nodes, role'[p] = "Candidate"
      PROVE  role[p] = "Candidate" /\ currentTerm'[p] = currentTerm[p]
  BY <1>1, <1>2, <1>3, <1>7 DEF AdoptedTerm, AdoptedRole
<1>8. CandidatesVote' /\ BallotsCount'
  BY <1>2, <1>7 DEF CandidatesVote, BallotsCount
<1>9. VoteOnce' /\ ElectedBacked'
  BY <1>2 DEF VoteOnce, ElectedBacked
<1>10. QED
  BY <1>6, <1>8, <1>9

LEMMA NextElectionInv == TypeInv /\ ElectionInv /\ [Next]_vars => ElectionInv'
<1> SUFFICES ASSUME TypeInv, ElectionInv, [Next]_vars PROVE ElectionInv'
  OBVIOUS
<1> USE DEF raftVars, stateVars, history
<1>1. TypeOK
  BY DEF TypeInv
<1>2. ASSUME NEW n \in Nodes, Ticker(n) PROVE ElectionInv'
  BY <1>1, <1>2, TickerElectionInv
<1>3. CASE Handler
  <2>1. ASSUME NEW m \in rpcs, HandleRequestVote(m) \/ HandleAppendEntries(m)
        PROVE  ElectionInv'
    BY <1>1, <2>1, RequestVoteElectionInv, AppendEntriesElectionInv
  <2>2. ASSUME NEW m \in rpcs, HandleRepl(m) PROVE ElectionInv'
    BY <2>2, ElectionInvKept DEF HandleRepl
  <2>3. ASSUME NEW a \in appliers, TakeCommitted(a) PROVE ElectionInv'
    BY <2>3, ElectionInvKept DEF TakeCommitted
  <2>4. ASSUME NEW a \in appliers, ApplyCommitted(a) PROVE ElectionInv'
    BY <2>4, ElectionInvKept DEF ApplyCommitted
  <2>5. QED
    BY <1>3, <2>1, <2>2, <2>3, <2>4 DEF Handler
<1>4. ASSUME NEW t \in Puts, PutHandler(t) PROVE ElectionInv'
  <2>1. UNCHANGED <<currentTerm, votedFor, role, cast, elected, tick>>
    BY <1>4 DEF PutHandler, ProposeEntry, CaptureView, SendAppend, SendRepl, CommitEntry,
                TakeOwn, ApplyOwn
  <2>2. QED
    BY <2>1, ElectionInvKept
<1>5. ASSUME NEW t \in Puts, NEW n \in Nodes, NEW k \in Keys, ReceivePut(t, n, k)
      PROVE  ElectionInv'
  BY <1>5, ElectionInvKept DEF ReceivePut
<1>6. ASSUME NEW n \in Nodes, NEW e \in Epochs, Promote(n, e) PROVE ElectionInv'
  BY <1>6, ElectionInvKept DEF Promote
<1>7. ASSUME NEW n \in Victims, Kill(n) PROVE ElectionInv'
  BY <1>7, ElectionInvKept DEF Kill
<1>8. CASE UNCHANGED vars
  BY <1>8, ElectionInvKept DEF vars
<1>9. QED
  BY <1>2, <1>3, <1>4, <1>5, <1>6, <1>7, <1>8 DEF Next

LEMMA InitElectionInv == Init => ElectionInv
<1> SUFFICES ASSUME Init PROVE ElectionInv
  OBVIOUS
<1>1. cast = {} /\ elected = {}
  BY DEF Init
<1>2. \A n \in Nodes : role[n] = "Follower" /\ tick[n].pc = "idle"
  BY DEF Init, IdleTicker
<1>3. QED
  BY <1>1, <1>2 DEF ElectionInv, VotesStand, VoteOnce, CandidatesVote, BallotsCount,
                    ElectedBacked

LEMMA ElectionInvInvariant == Spec => []ElectionInv
BY TypeInvInvariant, InitElectionInv, NextElectionInv, PTL DEF Spec

\* A node never votes for two candidates of one term, itself included, although
\* requests are handled late and carry terms read after the ballot's own
\* (start_election, handle_request_vote).
THEOREM VotesOnce == Spec => []VoteOnce
BY ElectionInvInvariant, PTL DEF ElectionInv

LEMMA ElectionInvSafe == ElectionInv => ElectionSafety
<1> SUFFICES ASSUME ElectionInv, NEW x \in elected, NEW y \in elected, x[1] = y[1]
             PROVE  x[2] = y[2]
  BY DEF ElectionSafety
<1>1. PICK P \in SUBSET Nodes :
        Cardinality(P) >= Majority /\ \A p \in P : <<x[1], p, x[2]>> \in cast
  BY DEF ElectionInv, ElectedBacked
<1>2. PICK Q \in SUBSET Nodes :
        Cardinality(Q) >= Majority /\ \A p \in Q : <<y[1], p, y[2]>> \in cast
  BY DEF ElectionInv, ElectedBacked
<1>3. PICK p \in P \cap Q : TRUE
  BY <1>1, <1>2, QuorumsIntersect
<1> DEFINE v == <<x[1], p, x[2]>>
           w == <<y[1], p, y[2]>>
<1>4. v \in cast /\ w \in cast
  BY <1>1, <1>2, <1>3
<1>5. v[1] = x[1] /\ v[2] = p /\ v[3] = x[2] /\ w[1] = y[1] /\ w[2] = p /\ w[3] = y[2]
  OBVIOUS
<1>6. v[3] = w[3]
  <2>1. VoteOnce
    BY DEF ElectionInv
  <2> HIDE DEF v, w
  <2>2. QED
    BY <1>4, <1>5, <2>1 DEF VoteOnce
<1>7. QED
  BY <1>5, <1>6

\* At most one node becomes leader in a term, for every number of nodes (tick,
\* handle_request_vote).
THEOREM ElectionsSafe == Spec => []ElectionSafety
BY ElectionInvInvariant, ElectionInvSafe, PTL

-----------------------------------------------------------------------------
(* Terms and votes of a node over time.                                    *)

VoteStep ==
  \A n \in Nodes :
    /\ currentTerm'[n] >= currentTerm[n]
    /\ currentTerm'[n] = currentTerm[n] /\ votedFor[n] # NoNode => votedFor'[n] = votedFor[n]

LEMMA VoteStepKept ==
  ASSUME TypeOK, UNCHANGED <<currentTerm, votedFor>>
  PROVE  VoteStep
BY DEF TypeOK, VoteStep

LEMMA NextVoteStep == TypeInv /\ [Next]_vars => VoteStep
<1> SUFFICES ASSUME TypeInv, [Next]_vars PROVE VoteStep
  OBVIOUS
<1> USE DEF raftVars, stateVars, history
<1>1. TypeOK /\ currentTerm \in [Nodes -> Nat] /\ votedFor \in [Nodes -> NodeOrNone]
  BY DEF TypeInv, TypeOK
<1>2. ASSUME NEW n \in Nodes, StartElection(n) PROVE VoteStep
  BY <1>1, <1>2 DEF StartElection, VoteStep
<1>3. ASSUME NEW n \in Nodes, Ticker(n), ~StartElection(n) PROVE VoteStep
  <2>1. UNCHANGED <<currentTerm, votedFor>>
    BY <1>3 DEF Ticker, BeginBallot, AskVote, TallyVotes, PublishWin, SeeLeader, SendHeartbeats
  <2>2. QED
    BY <1>1, <2>1, VoteStepKept
<1>4. ASSUME NEW m \in rpcs, HandleRequestVote(m) PROVE VoteStep
  <2> DEFINE n == m.to
  <2>1. m.to \in Nodes /\ m.term \in Nat
    <3>1. m \in VoteRequests
      BY <1>1, <1>4, RequestKinds DEF HandleRequestVote
    <3>2. QED
      BY <3>1 DEF VoteRequests
  <2>2. /\ currentTerm' = [currentTerm EXCEPT ![n] = AdoptedTerm(m, n)]
        /\ votedFor' = [votedFor EXCEPT ![n] = IF Grants(m, n) THEN m.from ELSE AdoptedVote(m, n)]
    BY <1>4 DEF HandleRequestVote
  <2>3. /\ AdoptedTerm(m, n) \in Nat /\ AdoptedTerm(m, n) >= currentTerm[n]
        /\ AdoptedTerm(m, n) = currentTerm[n] => AdoptedVote(m, n) = votedFor[n]
    BY <1>1, <2>1, AdoptionProperties
  <2>4. Grants(m, n) => AdoptedVote(m, n) \in {NoNode, m.from}
    BY DEF Grants
  <2>5. QED
    BY <1>1, <2>1, <2>2, <2>3, <2>4 DEF VoteStep
<1>5. ASSUME NEW m \in rpcs, HandleAppendEntries(m) PROVE VoteStep
  <2> DEFINE n == m.to
  <2>1. m.to \in Nodes /\ m.term \in Nat
    <3>1. m \in AppendRequests
      BY <1>1, <1>5, RequestKinds DEF HandleAppendEntries
    <3>2. QED
      BY <3>1 DEF AppendRequests
  <2>2. /\ currentTerm' = [currentTerm EXCEPT ![n] = AdoptedTerm(m, n)]
        /\ votedFor' = [votedFor EXCEPT ![n] = AdoptedVote(m, n)]
    BY <1>5 DEF HandleAppendEntries
  <2>3. /\ AdoptedTerm(m, n) \in Nat /\ AdoptedTerm(m, n) >= currentTerm[n]
        /\ AdoptedTerm(m, n) = currentTerm[n] => AdoptedVote(m, n) = votedFor[n]
    BY <1>1, <2>1, AdoptionProperties
  <2>4. QED
    BY <1>1, <2>1, <2>2, <2>3 DEF VoteStep
<1>6. ASSUME UNCHANGED <<currentTerm, votedFor>> PROVE VoteStep
  BY <1>1, <1>6, VoteStepKept
<1>7. CASE Handler
  <2>1. ASSUME NEW m \in rpcs, HandleRepl(m) PROVE VoteStep
    BY <1>6, <2>1 DEF HandleRepl
  <2>2. ASSUME NEW a \in appliers, TakeCommitted(a) \/ ApplyCommitted(a) PROVE VoteStep
    BY <1>6, <2>2 DEF TakeCommitted, ApplyCommitted
  <2>3. QED
    BY <1>4, <1>5, <1>7, <2>1, <2>2 DEF Handler
<1>8. ASSUME NEW t \in Puts, PutHandler(t) PROVE VoteStep
  BY <1>6, <1>8 DEF PutHandler, ProposeEntry, CaptureView, SendAppend, SendRepl, CommitEntry,
                    TakeOwn, ApplyOwn
<1>9. CASE \/ \E t \in Puts, n \in Nodes, k \in Keys : ReceivePut(t, n, k)
           \/ \E n \in Nodes, e \in Epochs : Promote(n, e)
           \/ \E n \in Victims : Kill(n)
           \/ UNCHANGED vars
  BY <1>6, <1>9 DEF ReceivePut, Promote, Kill, vars
<1>10. QED
  BY <1>2, <1>3, <1>7, <1>8, <1>9 DEF Next

\* No node's term ever decreases, and none takes back or changes a vote within a
\* term (handle_request_vote, handle_append_entries, start_election).
THEOREM VotesStable == Spec => VoteStability
<1>1. TypeInv /\ [Next]_vars => [VoteStep]_vars
  BY NextVoteStep
<1>2. QED
  BY <1>1, TypeInvInvariant, PTL DEF Spec, VoteStability, VoteStep

-----------------------------------------------------------------------------
(* Positions and indexes.                                                  *)

\* The entry of index i is at position i.
Indexed(l) == \A i \in 1..Len(l) : l[i].index = i

\* A request carries an entry for the place after the one it names as previous.
RequestsIndexed ==
  \A m \in rpcs : m.type = "AppendEntries" /\ m.entries # <<>> =>
    m.entries[1].index = m.prevIndex + 1

IndexInv == IndexIsPosition /\ RequestsIndexed

\* A log that has an entry of index i at position i ends with index Len.
LEMMA LastIndexIsLen ==
  ASSUME NEW l \in Seq(LogEntry), Indexed(l)
  PROVE  LastIndex(l) = Len(l)
<1>1. CASE l = <<>>
  BY <1>1 DEF LastIndex
<1>2. CASE l # <<>>
  <2>1. Len(l) \in 1..Len(l)
    BY <1>2
  <2>2. QED
    BY <1>2, <2>1 DEF LastIndex, Indexed
<1>3. QED
  BY <1>1, <1>2

LEMMA AppendIndexed ==
  ASSUME NEW l \in Seq(LogEntry), Indexed(l), NEW e \in LogEntry, e.index = Len(l) + 1
  PROVE  Indexed(Append(l, e))
BY DEF Indexed

\* Merging an accepted entry keeps positions and indexes together: an entry that
\* would leave a gap is not accepted, and one that conflicts cuts off all behind it.
LEMMA MergedLogIndexed ==
  ASSUME NEW m \in AppendRequests, NEW l \in Seq(LogEntry), Indexed(l), PrevLogOk(m, l),
         m.entries # <<>> => m.entries[1].index = m.prevIndex + 1
  PROVE  Indexed(MergedLog(m, l))
<1>1. m.prevIndex \in 0..Len(l)
  BY DEF AppendRequests, PrevLogOk
<1>2. CASE m.entries = <<>>
  BY <1>2 DEF MergedLog
<1>3. CASE m.entries # <<>>
  <2> DEFINE k == m.prevIndex
             e == m.entries[1]
             s == SubSeq(l, 1, k)
  <2>1. e \in LogEntry
    BY <1>3 DEF AppendRequests
  <2>2. s \in Seq(LogEntry) /\ Len(s) = k /\ \A i \in 1..k : s[i] = l[i]
    BY <1>1, SubSeqProperties
  <2>3. Indexed(s)
    BY <1>1, <2>2 DEF Indexed
  <2>4. e.index = k + 1
    BY <1>1, <1>3
  <2>5. Indexed(Append(s, e))
    BY <2>1, <2>2, <2>3, <2>4, AppendIndexed
  <2>6. CASE k + 1 > Len(l)
    <3>1. Indexed(Append(l, e))
      BY <1>1, <2>1, <2>4, <2>6, AppendIndexed
    <3>2. QED
      BY <1>3, <2>6, <3>1 DEF MergedLog
  <2>7. CASE ~(k + 1 > Len(l))
    <3>1. MergedLog(m, l) = l \/ MergedLog(m, l) = Append(SubSeq(l, 1, (k + 1) - 1), e)
      <4>1. MergedLog(m, l) = IF k + 1 > Len(l) THEN Append(l, e)
                              ELSE IF l[k + 1].term = e.term THEN l
                              ELSE Append(SubSeq(l, 1, (k + 1) - 1), e)
        BY <1>3, Zenon DEF MergedLog
      <4>2. QED
        BY <2>7, <4>1, Zenon
    <3>2. SubSeq(l, 1, (k + 1) - 1) = s
      BY <1>1
    <3> HIDE DEF s, e
    <3>3. QED
      BY <2>5, <3>1, <3>2
  <2>8. QED
    BY <2>6, <2>7
<1>4. QED
  BY <1>2, <1>3

LEMMA IndexInvKept ==
  ASSUME IndexInv, log' = log,
         \A m \in rpcs' : m.type = "AppendEntries" /\ m.entries # <<>> =>
           m \in rpcs \/ m.entries[1].index = m.prevIndex + 1
  PROVE  IndexInv'
BY DEF IndexInv, IndexIsPosition, RequestsIndexed

LEMMA ProposeEntryIndexInv ==
  ASSUME TypeInv, IndexInv, NEW t \in Puts, ProposeEntry(t)
  PROVE  IndexInv'
<1> DEFINE n == put[t].node
           e == [Entry(t) EXCEPT !.term = currentTerm[n], !.index = LastIndex(log[n]) + 1]
<1>1. put[t].pc \in Working
  BY DEF ProposeEntry, Working
<1>2. /\ n \in Nodes /\ Entry(t) \in LogEntry /\ log \in [Nodes -> Seq(LogEntry)]
      /\ log[n] \in Seq(LogEntry) /\ currentTerm[n] \in Nat
  BY <1>1, WorkerType DEF TypeInv, TypeOK
<1>3. Indexed(log[n]) /\ LastIndex(log[n]) = Len(log[n])
  BY <1>2, LastIndexIsLen DEF IndexInv, IndexIsPosition, Indexed
<1>4. e \in LogEntry /\ e.index = Len(log[n]) + 1
  <2>1. LastIndex(log[n]) + 1 \in Nat \ {0}
    BY <1>2, <1>3
  <2>2. e \in LogEntry
    BY <1>2, <2>1, StampedEntryType
  <2>3. e.index = LastIndex(log[n]) + 1
    BY <1>2 DEF LogEntry
  <2>4. QED
    BY <1>3, <2>2, <2>3
<1>5. rpcs' = rpcs /\ (log' = log \/ log' = [log EXCEPT ![n] = Append(log[n], e)])
  BY DEF ProposeEntry
<1> HIDE DEF e
<1>6. Indexed(Append(log[n], e))
  BY <1>2, <1>3, <1>4, AppendIndexed
<1>7. CASE log' = log
  BY <1>5, <1>7, IndexInvKept
<1>8. CASE log' = [log EXCEPT ![n] = Append(log[n], e)]
  <2>1. \A p \in Nodes : Indexed(log'[p])
    BY <1>2, <1>6, <1>8 DEF IndexInv, IndexIsPosition, Indexed
  <2>2. QED
    BY <1>5, <2>1 DEF IndexInv, IndexIsPosition, Indexed, RequestsIndexed
<1>9. QED
  BY <1>5, <1>7, <1>8

LEMMA AppendEntriesIndexInv ==
  ASSUME TypeInv, IndexInv, NEW m \in rpcs, HandleAppendEntries(m)
  PROVE  IndexInv'
<1> DEFINE n == m.to
           l == log[n]
<1>1. m \in AppendRequests /\ m.type = "AppendEntries" /\ n \in Nodes
  <2>1. m \in AppendRequests
    BY RequestKinds DEF HandleAppendEntries, TypeInv
  <2>2. QED
    BY <2>1 DEF AppendRequests
<1>2. log \in [Nodes -> Seq(LogEntry)] /\ l \in Seq(LogEntry)
  BY <1>1 DEF TypeInv, TypeOK
<1>3. Indexed(l)
  BY <1>1 DEF IndexInv, IndexIsPosition, Indexed
<1>4. AcceptsEntries(m, n) => Indexed(MergedLog(m, l))
  BY <1>1, <1>2, <1>3, MergedLogIndexed DEF AcceptsEntries, IndexInv, RequestsIndexed
<1>5. /\ log' = [log EXCEPT ![n] = IF AcceptsEntries(m, n) THEN MergedLog(m, l) ELSE l]
      /\ rpcs' \subseteq rpcs
  BY DEF HandleAppendEntries
<1>6. \A p \in Nodes : Indexed(log'[p])
  BY <1>1, <1>2, <1>3, <1>4, <1>5 DEF IndexInv, IndexIsPosition, Indexed
<1>7. QED
  BY <1>5, <1>6 DEF IndexInv, IndexIsPosition, Indexed, RequestsIndexed

LEMMA SendAppendIndexInv ==
  ASSUME TypeInv, IndexInv, NEW t \in Puts, NEW p \in Nodes, SendAppend(t, p)
  PROVE  IndexInv'
<1>1. put[t].pc \in Working /\ put[t].pc # "propose"
  BY DEF SendAppend, Working
<1>2. Entry(t).index \in Nat \ {0} /\ put[t].entry[1] = Entry(t)
  BY <1>1, WorkerType DEF Entry
<1>3. ASSUME NEW m \in rpcs', m \notin rpcs
      PROVE  m.entries[1].index = m.prevIndex + 1
  <2>1. m.entries = put[t].entry /\ m.prevIndex = Entry(t).index - 1
    BY <1>3 DEF SendAppend, PrevIndex
  <2>2. QED
    BY <1>2, <2>1
<1>4. log' = log
  BY DEF SendAppend, raftVars
<1>5. QED
  BY <1>3, <1>4, IndexInvKept

LEMMA NextIndexInv == TypeInv /\ IndexInv /\ [Next]_vars => IndexInv'
<1> SUFFICES ASSUME TypeInv, IndexInv, [Next]_vars PROVE IndexInv'
  OBVIOUS
<1> USE DEF raftVars, stateVars, history
<1>1. ASSUME NEW n \in Nodes, Ticker(n) PROVE IndexInv'
  <2>1. log' = log
    BY <1>1 DEF Ticker, StartElection, BeginBallot, AskVote, TallyVotes, PublishWin, SeeLeader,
                SendHeartbeats
  <2>2. ASSUME NEW m \in rpcs', m \notin rpcs
        PROVE  m.type = "RequestVote" \/ m.entries = <<>>
    <3>1. CASE SendHeartbeats(n)
      BY <2>2, <3>1 DEF SendHeartbeats
    <3>2. ASSUME NEW p \in Nodes, AskVote(n, p) PROVE m.type = "RequestVote"
      BY <2>2, <3>2 DEF AskVote
    <3>3. CASE StartElection(n) \/ BeginBallot(n) \/ TallyVotes(n) \/ PublishWin(n) \/ SeeLeader(n)
      BY <2>2, <3>3 DEF StartElection, BeginBallot, TallyVotes, PublishWin, SeeLeader
    <3>4. QED
      BY <1>1, <3>1, <3>2, <3>3 DEF Ticker
  <2>3. QED
    BY <2>1, <2>2, IndexInvKept
<1>2. CASE Handler
  <2>1. ASSUME NEW m \in rpcs, HandleRequestVote(m) PROVE IndexInv'
    BY <2>1, IndexInvKept DEF HandleRequestVote
  <2>2. ASSUME NEW m \in rpcs, HandleAppendEntries(m) PROVE IndexInv'
    BY <2>2, AppendEntriesIndexInv
  <2>3. ASSUME NEW m \in rpcs, HandleRepl(m) PROVE IndexInv'
    BY <2>3, IndexInvKept DEF HandleRepl
  <2>4. ASSUME NEW a \in appliers, TakeCommitted(a) \/ ApplyCommitted(a) PROVE IndexInv'
    BY <2>4, IndexInvKept DEF TakeCommitted, ApplyCommitted
  <2>5. QED
    BY <1>2, <2>1, <2>2, <2>3, <2>4 DEF Handler
<1>3. ASSUME NEW t \in Puts, PutHandler(t) PROVE IndexInv'
  <2>1. CASE CaptureView(t) \/ CommitEntry(t) \/ TakeOwn(t) \/ ApplyOwn(t)
    BY <2>1, IndexInvKept DEF CaptureView, CommitEntry, TakeOwn, ApplyOwn
  <2>2. CASE SendRepl(t)
    <3>1. log' = log
      BY <2>2 DEF SendRepl
    <3>2. ASSUME NEW m \in rpcs', m \notin rpcs
          PROVE  m.type = "Repl"
      BY <2>2, <3>2 DEF SendRepl
    <3>3. QED
      BY <3>1, <3>2, IndexInvKept
  <2>3. QED
    BY <1>3, <2>1, <2>2, ProposeEntryIndexInv, SendAppendIndexInv DEF PutHandler
<1>4. ASSUME NEW t \in Puts, NEW n \in Nodes, NEW k \in Keys, ReceivePut(t, n, k)
      PROVE  IndexInv'
  BY <1>4, IndexInvKept DEF ReceivePut
<1>5. CASE \/ \E n \in Nodes, e \in Epochs : Promote(n, e)
           \/ \E n \in Victims : Kill(n)
           \/ UNCHANGED vars
  BY <1>5, IndexInvKept DEF Promote, Kill, vars
<1>6. QED
  BY <1>1, <1>2, <1>3, <1>4, <1>5 DEF Next

LEMMA InitIndexInv == Init => IndexInv
BY DEF Init, IndexInv, IndexIsPosition, RequestsIndexed

LEMMA IndexInvInvariant == Spec => []IndexInv
BY InitIndexInv, NextIndexInv, TypeInvInvariant, PTL DEF Spec

\* Position and index of an entry agree in every log and at every time: what
\* handle_append_entries reads by position is what take_applicable finds by index.
THEOREM IndexesArePositions == Spec => []IndexIsPosition
BY IndexInvInvariant, PTL DEF IndexInv

-----------------------------------------------------------------------------
(* What a leader does to its log.                                          *)

LeaderStep ==
  \A n \in Nodes :
    role[n] = "Leader" /\ role'[n] = "Leader" /\ log'[n] # log[n] =>
      \E t \in Puts :
        /\ put[t].pc = "propose" /\ put[t].node = n
        /\ log'[n] = Append(log[n], Entry(t)')
        /\ Entry(t)'.term = currentTerm[n]

LEMMA ProposeEntryLeaderStep ==
  ASSUME TypeInv, NEW t \in Puts, ProposeEntry(t)
  PROVE  LeaderStep
<1> DEFINE n == put[t].node
           e == [Entry(t) EXCEPT !.term = currentTerm[n], !.index = LastIndex(log[n]) + 1]
<1>1. put[t].pc = "propose" /\ put[t].pc \in Working
  BY DEF ProposeEntry, Working
<1>2. /\ n \in Nodes /\ Entry(t) \in LogEntry /\ put \in [Puts -> PutThreads]
      /\ put[t] \in PutThreads /\ log \in [Nodes -> Seq(LogEntry)]
  BY <1>1, WorkerType DEF TypeInv, TypeOK
<1>3. e.term = currentTerm[n]
  BY <1>2 DEF LogEntry
<1>4. \/ log' = log
      \/ /\ log' = [log EXCEPT ![n] = Append(log[n], e)]
         /\ put' = [put EXCEPT ![t].pc = "capture", ![t].entry = <<e>>]
  BY DEF ProposeEntry
<1> HIDE DEF e
<1>5. CASE log' = log
  BY <1>5 DEF LeaderStep
<1>6. CASE /\ log' = [log EXCEPT ![n] = Append(log[n], e)]
           /\ put' = [put EXCEPT ![t].pc = "capture", ![t].entry = <<e>>]
  <2>1. put'[t].entry = <<e>>
    BY <1>2, <1>6 DEF PutThreads
  <2>2. Entry(t)' = e
    BY <2>1 DEF Entry
  <2>3. log'[n] = Append(log[n], e) /\ \A p \in Nodes \ {n} : log'[p] = log[p]
    BY <1>2, <1>6
  <2>4. QED
    BY <1>1, <1>2, <1>3, <2>2, <2>3 DEF LeaderStep
<1>7. QED
  BY <1>4, <1>5, <1>6

LEMMA AppendEntriesLeaderStep ==
  ASSUME TypeInv, NEW m \in rpcs, HandleAppendEntries(m)
  PROVE  LeaderStep
<1> DEFINE n == m.to
<1>1. n \in Nodes /\ m.term \in Nat
  <2>1. m \in AppendRequests
    BY RequestKinds DEF HandleAppendEntries, TypeInv
  <2>2. QED
    BY <2>1 DEF AppendRequests
<1>2. /\ log \in [Nodes -> Seq(LogEntry)] /\ currentTerm[n] \in Nat
      /\ role \in [Nodes -> {"Follower", "Candidate", "Leader"}]
  BY <1>1 DEF TypeInv, TypeOK
<1>3. /\ log' = [log EXCEPT ![n] = IF AcceptsEntries(m, n) THEN MergedLog(m, log[n]) ELSE log[n]]
      /\ role' = [role EXCEPT ![n] = AdoptedRole(m, n)]
  BY DEF HandleAppendEntries
<1>4. role'[n] = "Leader" => log'[n] = log[n]
  <2>1. AdoptedRole(m, n) = "Leader" => ~AcceptsEntries(m, n)
    BY DEF AdoptedRole, AcceptsEntries
  <2>2. QED
    BY <1>1, <1>2, <1>3, <2>1
<1>5. \A p \in Nodes \ {n} : log'[p] = log[p]
  BY <1>2, <1>3
<1>6. QED
  BY <1>4, <1>5 DEF LeaderStep

LEMMA NextLeaderStep == TypeInv /\ [Next]_vars => LeaderStep
<1> SUFFICES ASSUME TypeInv, [Next]_vars PROVE LeaderStep
  OBVIOUS
<1> USE DEF raftVars, stateVars, history
<1>1. ASSUME log' = log PROVE LeaderStep
  BY <1>1 DEF LeaderStep
<1>2. ASSUME NEW n \in Nodes, Ticker(n) PROVE LeaderStep
  BY <1>1, <1>2 DEF Ticker, StartElection, BeginBallot, AskVote, TallyVotes, PublishWin,
                    SeeLeader, SendHeartbeats
<1>3. CASE Handler
  <2>1. ASSUME NEW m \in rpcs, HandleRequestVote(m) \/ HandleRepl(m) PROVE LeaderStep
    BY <1>1, <2>1 DEF HandleRequestVote, HandleRepl
  <2>2. ASSUME NEW a \in appliers, TakeCommitted(a) \/ ApplyCommitted(a) PROVE LeaderStep
    BY <1>1, <2>2 DEF TakeCommitted, ApplyCommitted
  <2>3. QED
    BY <1>3, <2>1, <2>2, AppendEntriesLeaderStep DEF Handler
<1>4. ASSUME NEW t \in Puts, PutHandler(t) PROVE LeaderStep
  <2>1. ASSUME ~ProposeEntry(t) PROVE log' = log
    BY <1>4, <2>1 DEF PutHandler, CaptureView, SendAppend, SendRepl, CommitEntry, TakeOwn, ApplyOwn
  <2>2. QED
    BY <1>1, <2>1, ProposeEntryLeaderStep
<1>5. CASE \/ \E t \in Puts, n \in Nodes, k \in Keys : ReceivePut(t, n, k)
           \/ \E n \in Nodes, e \in Epochs : Promote(n, e)
           \/ \E n \in Victims : Kill(n)
           \/ UNCHANGED vars
  BY <1>1, <1>5 DEF ReceivePut, Promote, Kill, vars
<1>6. QED
  BY <1>2, <1>3, <1>4, <1>5 DEF Next

\* Nothing but a leader's own proposal, in its own term, ever changes its log: not
\* the AppendEntries that a deposed leader sends on in the term that deposed it.
THEOREM LeadersAppendOnly == Spec => LeaderAppendOnly
<1>1. TypeInv /\ [Next]_vars => [LeaderStep]_vars
  BY NextLeaderStep
<1>2. QED
  BY <1>1, TypeInvInvariant, PTL DEF Spec, LeaderAppendOnly, LeaderStep

-----------------------------------------------------------------------------
(* The epoch a node fences with.                                           *)

FenceStep ==
  \A n \in Nodes : epoch'[n] < epoch[n] =>
    tick[n].pc = "won" /\ tick'[n].pc = "idle" /\ epoch'[n] = tick[n].term

LEMMA NextFenceStep == TypeInv /\ [Next]_vars => FenceStep
<1> SUFFICES ASSUME TypeInv, [Next]_vars PROVE FenceStep
  OBVIOUS
<1> USE DEF raftVars, stateVars, history
<1>1. epoch \in [Nodes -> Nat] /\ tick \in [Nodes -> Ticks]
  BY DEF TypeInv, TypeOK
<1>2. ASSUME epoch' = epoch PROVE FenceStep
  BY <1>1, <1>2 DEF FenceStep
<1>3. ASSUME NEW n \in Nodes, Ticker(n) PROVE FenceStep
  <2>1. CASE PublishWin(n)
    <3>1. Rested(n).pc = "idle"
      BY DEF Rested, IdleTicker
    <3>2. QED
      BY <1>1, <2>1, <3>1 DEF PublishWin, FenceStep
  <2>2. ASSUME ~PublishWin(n) PROVE epoch' = epoch
    BY <1>3, <2>2 DEF Ticker, StartElection, BeginBallot, AskVote, TallyVotes, SeeLeader,
                      SendHeartbeats
  <2>3. QED
    BY <1>2, <2>1, <2>2
<1>4. CASE Handler
  <2>1. ASSUME NEW m \in rpcs, HandleRepl(m) PROVE FenceStep
    <3>1. m.to \in Nodes /\ m.epoch \in Nat
      <4>1. m \in ReplRequests
        BY <2>1, RequestKinds DEF HandleRepl, TypeInv
      <4>2. QED
        BY <4>1 DEF ReplRequests
    <3>2. CASE AcceptsRepl(m, m.to)
      <4>1. epoch' = [epoch EXCEPT ![m.to] = m.epoch] /\ m.epoch >= epoch[m.to]
        BY <2>1, <3>2 DEF HandleRepl, AcceptsRepl
      <4>2. QED
        BY <1>1, <3>1, <4>1 DEF FenceStep
    <3>3. CASE ~AcceptsRepl(m, m.to)
      BY <1>2, <2>1, <3>3 DEF HandleRepl
    <3>4. QED
      BY <3>2, <3>3
  <2>2. ASSUME NEW m \in rpcs, HandleRequestVote(m) \/ HandleAppendEntries(m) PROVE FenceStep
    BY <1>2, <2>2 DEF HandleRequestVote, HandleAppendEntries
  <2>3. ASSUME NEW a \in appliers, TakeCommitted(a) \/ ApplyCommitted(a) PROVE FenceStep
    BY <1>2, <2>3 DEF TakeCommitted, ApplyCommitted
  <2>4. QED
    BY <1>4, <2>1, <2>2, <2>3 DEF Handler
<1>5. ASSUME NEW t \in Puts, PutHandler(t) PROVE FenceStep
  BY <1>2, <1>5 DEF PutHandler, ProposeEntry, CaptureView, SendAppend, SendRepl, CommitEntry,
                    TakeOwn, ApplyOwn
<1>6. ASSUME NEW n \in Nodes, NEW e \in Epochs, Promote(n, e) PROVE FenceStep
  BY <1>1, <1>6, EpochsAssumption DEF Promote, FenceStep
<1>7. CASE \/ \E t \in Puts, n \in Nodes, k \in Keys : ReceivePut(t, n, k)
           \/ \E n \in Victims : Kill(n)
           \/ UNCHANGED vars
  BY <1>2, <1>7 DEF ReceivePut, Kill, vars
<1>8. QED
  BY <1>3, <1>4, <1>5, <1>6, <1>7 DEF Next

\* The fencing epoch of a node never goes down except where the node publishes an
\* election it has won: neither a promotion nor a late OP_REPL takes it back.
THEOREM EpochsFence == Spec => EpochFence
<1>1. TypeInv /\ [Next]_vars => [FenceStep]_vars
  BY NextFenceStep
<1>2. QED
  BY <1>1, TypeInvInvariant, PTL DEF Spec, EpochFence, FenceStep

-----------------------------------------------------------------------------
(* Calls and their entries.                                                *)

\* The call has had its entry appended to a log: the entry has its term and index.
Stamped(t) == put[t].entry # <<>> /\ Entry(t).index > 0

\* What a handler thread holds of its call: the entry it puts, without an index
\* until it is appended, and entries to apply only while it applies them.
CallInv(t) ==
  /\ put[t].pc = "unsent" => put[t].entry = <<>>
  /\ put[t].pc = "propose" => Entry(t).index = 0
  /\ put[t].entry # <<>> => put[t].entry = <<Entry(t)>> /\ Entry(t).val = t
  /\ put[t].pc # "apply" => put[t].pending = <<>>

CallsInv == \A t \in Puts : CallInv(t)

\* Once appended, an entry stays as its call has it.
EntriesStand ==
  \A t \in Puts : Stamped(t) => /\ put'[t].entry = put[t].entry
                                /\ put'[t].node = put[t].node

LEMMA CallsKept ==
  ASSUME CallsInv,
         \A t \in Puts : /\ put'[t].pc = put[t].pc /\ put'[t].node = put[t].node
                         /\ put'[t].entry = put[t].entry /\ put'[t].pending = put[t].pending
  PROVE  CallsInv' /\ EntriesStand
BY DEF CallsInv, CallInv, EntriesStand, Entry

LEMMA OneCallMoves ==
  ASSUME CallsInv, NEW t \in Puts,
         \A u \in Puts \ {t} : put'[u] = put[u],
         CallInv(t)',
         Stamped(t) => put'[t].entry = put[t].entry /\ put'[t].node = put[t].node
  PROVE  CallsInv' /\ EntriesStand
BY DEF CallsInv, CallInv, EntriesStand, Entry

\* What an answer leaves in the thread.
LEMMA AnswerEffect ==
  ASSUME TypeInv, NEW t \in Puts, NEW result, Answer(t, result)
  PROVE  /\ \A u \in Puts \ {t} : put'[u] = put[u]
         /\ put'[t].pc = "done" /\ put'[t].node = put[t].node
         /\ put'[t].entry = put[t].entry /\ put'[t].pending = <<>>
         /\ put'[t].acks = {} /\ put'[t].todo = {} /\ put'[t].result = result
<1>1. put \in [Puts -> PutThreads]
  BY DEF TypeInv, TypeOK
<1>2. put' = [put EXCEPT ![t] = [UnsentPut EXCEPT
            !.pc = "done", !.node = put[t].node, !.entry = put[t].entry, !.result = result]]
  BY DEF Answer
<1>3. put'[t] = [UnsentPut EXCEPT
            !.pc = "done", !.node = put[t].node, !.entry = put[t].entry, !.result = result]
  BY <1>1, <1>2
<1>4. QED
  BY <1>1, <1>2, <1>3 DEF UnsentPut

\* leader_propose keeps the node it runs on, and the entry once it is appended.
LEMMA PutHandlerEffect ==
  ASSUME TypeInv, NEW t \in Puts, PutHandler(t)
  PROVE  /\ put[t].pc \in Working
         /\ \A u \in Puts \ {t} : put'[u] = put[u]
         /\ put'[t].node = put[t].node
         /\ put'[t].pc \notin {"unsent", "propose"}
         /\ ~ProposeEntry(t) => put[t].pc # "propose" /\ put'[t].entry = put[t].entry
         /\ put'[t].pc # "apply" => put'[t].pending = <<>> \/ put'[t].pending = put[t].pending
         /\ put[t].pc = "apply" /\ put'[t].pc # "apply" => put'[t].pending = <<>>
<1>1. put \in [Puts -> PutThreads] /\ put[t] \in PutThreads
  BY DEF TypeInv, TypeOK
<1>2. CASE ProposeEntry(t)
  <2>1. put[t].pc = "propose"
    BY <1>2 DEF ProposeEntry
  <2>2. \/ Answer(t, "not_leader")
        \/ \E e : put' = [put EXCEPT ![t].pc = "capture", ![t].entry = <<e>>]
    BY <1>2 DEF ProposeEntry
  <2>3. QED
    BY <1>1, <1>2, <2>1, <2>2, AnswerEffect DEF Working, PutThreads
<1>3. CASE CaptureView(t)
  BY <1>1, <1>3 DEF CaptureView, Working, PutThreads, ProposeEntry
<1>4. CASE SendRepl(t)
  BY <1>1, <1>4 DEF SendRepl, Working, PutThreads, ProposeEntry
<1>5. CASE \E p \in Nodes : SendAppend(t, p)
  <2>1. put[t].pc \in {"next", "repl"}
    BY <1>5 DEF SendAppend
  <2>2. PICK p : put' = [put EXCEPT ![t].pc = "append", ![t].peer = p, ![t].todo = @ \ {p}]
    BY <1>5 DEF SendAppend
  <2>3. put' = [put EXCEPT ![t] = [put[t] EXCEPT !.pc = "append", !.peer = p, !.todo = @ \ {p}]]
    BY <1>1, <2>2 DEF PutThreads
  <2>4. QED
    BY <1>1, <2>1, <2>3 DEF Working, PutThreads, ProposeEntry
<1>6. CASE CommitEntry(t)
  <2>1. put[t].pc \in {"next", "repl"}
    BY <1>6 DEF CommitEntry
  <2>2. \/ Answer(t, "fenced") \/ Answer(t, "not_leader")
        \/ put' = [put EXCEPT ![t].pc = "take", ![t].peer = NoNode, ![t].acks = {}]
    BY <1>6 DEF CommitEntry
  <2>3. QED
    BY <1>1, <2>1, <2>2, AnswerEffect DEF Working, PutThreads, ProposeEntry
<1>7. CASE TakeOwn(t)
  <2>1. put[t].pc = "take"
    BY <1>7 DEF TakeOwn
  <2>2. \/ Answer(t, "committed")
        \/ \E q : put' = [put EXCEPT ![t].pc = "apply", ![t].pending = q]
    BY <1>7 DEF TakeOwn
  <2>3. QED
    BY <1>1, <2>1, <2>2, AnswerEffect DEF Working, PutThreads, ProposeEntry
<1>8. CASE ApplyOwn(t)
  <2>1. put[t].pc = "apply"
    BY <1>8 DEF ApplyOwn
  <2>2. \/ Answer(t, "committed")
        \/ put' = [put EXCEPT ![t].pending = Tail(@)]
    BY <1>8 DEF ApplyOwn
  <2>3. CASE Answer(t, "committed")
    BY <2>1, <2>3, AnswerEffect DEF Working, ProposeEntry
  <2>4. CASE put' = [put EXCEPT ![t].pending = Tail(@)]
    <3>1. /\ \A u \in Puts \ {t} : put'[u] = put[u]
          /\ put'[t].node = put[t].node /\ put'[t].pc = put[t].pc /\ put'[t].entry = put[t].entry
      BY <1>1, <2>4 DEF PutThreads
    <3>2. QED
      BY <2>1, <3>1 DEF Working, ProposeEntry
  <2>5. QED
    BY <2>2, <2>3, <2>4
<1>9. QED
  BY <1>2, <1>3, <1>4, <1>5, <1>6, <1>7, <1>8 DEF PutHandler

\* append_entry stamps the entry of the call, once.
LEMMA ProposeEntryEffect ==
  ASSUME TypeInv, CallsInv, NEW t \in Puts, ProposeEntry(t)
  PROVE  \/ put'[t].entry = put[t].entry /\ put'[t].pc = "done" /\ log' = log
         \/ /\ role[put[t].node] = "Leader"
            /\ put'[t].pc = "capture"
            /\ put'[t].entry = <<Entry(t)'>> /\ Entry(t)' \in LogEntry
            /\ Entry(t)'.val = t /\ Entry(t)'.key = Entry(t).key
            /\ Entry(t)'.term = currentTerm[put[t].node]
            /\ Entry(t)'.index = LastIndex(log[put[t].node]) + 1
            /\ log' = [log EXCEPT ![put[t].node] = Append(log[put[t].node], Entry(t)')]
<1> DEFINE n == put[t].node
           e == [Entry(t) EXCEPT !.term = currentTerm[n], !.index = LastIndex(log[n]) + 1]
<1>1. put[t].pc = "propose" /\ put[t].pc \in Working
  BY DEF ProposeEntry, Working
<1>2. /\ n \in Nodes /\ Entry(t) \in LogEntry /\ put \in [Puts -> PutThreads] /\ put[t].entry # <<>>
      /\ put[t] \in PutThreads /\ log \in [Nodes -> Seq(LogEntry)] /\ currentTerm[n] \in Nat
      /\ log[n] \in Seq(LogEntry)
  BY <1>1, WorkerType DEF TypeInv, TypeOK
<1>3. Entry(t).val = t
  BY <1>2 DEF CallsInv, CallInv
<1>4. LastIndex(log[n]) + 1 \in Nat \ {0}
  BY <1>2, LastOfLog
<1>5. /\ e \in LogEntry /\ e.val = t /\ e.key = Entry(t).key /\ e.term = currentTerm[n]
      /\ e.index = LastIndex(log[n]) + 1
  <2>1. e \in LogEntry
    BY <1>2, <1>4, StampedEntryType
  <2>2. QED
    BY <1>2, <1>3, <2>1 DEF LogEntry
<1>6. CASE role[n] = "Leader"
  <2>1. /\ put' = [put EXCEPT ![t].pc = "capture", ![t].entry = <<e>>]
        /\ log' = [log EXCEPT ![n] = Append(log[n], e)]
    BY <1>6 DEF ProposeEntry
  <2> HIDE DEF e
  <2>2. put'[t].entry = <<e>> /\ put'[t].pc = "capture"
    BY <1>2, <2>1 DEF PutThreads
  <2>3. Entry(t)' = e
    BY <2>2 DEF Entry
  <2>4. QED
    BY <1>5, <1>6, <2>1, <2>2, <2>3
<1>7. CASE role[n] # "Leader"
  BY <1>7, AnswerEffect DEF ProposeEntry
<1>8. QED
  BY <1>6, <1>7

LEMMA PutHandlerCalls ==
  ASSUME TypeInv, CallsInv, NEW t \in Puts, PutHandler(t)
  PROVE  CallsInv' /\ EntriesStand
<1>1. /\ put[t].pc \in Working /\ put'[t].node = put[t].node
      /\ \A u \in Puts \ {t} : put'[u] = put[u]
      /\ put'[t].pc \notin {"unsent", "propose"}
      /\ put'[t].pc # "apply" => put'[t].pending = <<>>
  <2>1. CallInv(t)
    BY DEF CallsInv
  <2>2. QED
    BY <2>1, PutHandlerEffect DEF CallInv
<1>2. CASE ProposeEntry(t)
  <2>1. put[t].pc = "propose" /\ ~Stamped(t)
    BY <1>2 DEF ProposeEntry, CallsInv, CallInv, Stamped
  <2>2. \/ put'[t].entry = put[t].entry
        \/ put'[t].entry = <<Entry(t)'>> /\ Entry(t)'.val = t
    BY <1>2, ProposeEntryEffect
  <2>3. CallInv(t)'
    BY <1>1, <2>2 DEF CallsInv, CallInv, Entry
  <2>4. QED
    BY <1>1, <2>1, <2>3, OneCallMoves
<1>3. CASE ~ProposeEntry(t)
  <2>1. put'[t].entry = put[t].entry
    BY <1>3, PutHandlerEffect
  <2>2. CallInv(t)'
    BY <1>1, <2>1 DEF CallsInv, CallInv, Entry
  <2>3. QED
    BY <1>1, <2>1, <2>2, OneCallMoves
<1>4. QED
  BY <1>2, <1>3

LEMMA ReceivePutCalls ==
  ASSUME TypeInv, CallsInv, NEW t \in Puts, NEW n \in Nodes, NEW k \in Keys, ReceivePut(t, n, k)
  PROVE  CallsInv' /\ EntriesStand
<1> DEFINE e == [term |-> 0, index |-> 0, key |-> k, val |-> t]
<1>1. put \in [Puts -> PutThreads] /\ put[t] \in PutThreads
  BY DEF TypeInv, TypeOK
<1>2. put[t].pc = "unsent" /\ put[t].entry = <<>> /\ put[t].pending = <<>> /\ ~Stamped(t)
  BY DEF ReceivePut, CallsInv, CallInv, Stamped
<1>3. \/ put' = [put EXCEPT ![t].pc = "propose", ![t].node = n, ![t].entry = <<e>>]
      \/ \E r : put' = [put EXCEPT ![t].pc = "done", ![t].node = n, ![t].result = r]
  BY DEF ReceivePut
<1>4. e.index = 0 /\ e.val = t
  OBVIOUS
<1> HIDE DEF e
<1>5. /\ \A u \in Puts \ {t} : put'[u] = put[u]
      /\ put'[t].pending = <<>>
      /\ \/ put'[t].pc = "propose" /\ put'[t].entry = <<e>>
         \/ put'[t].pc = "done" /\ put'[t].entry = <<>>
  BY <1>1, <1>2, <1>3 DEF PutThreads
<1>6. CallInv(t)'
  BY <1>4, <1>5 DEF CallInv, Entry
<1>7. QED
  BY <1>2, <1>5, <1>6, OneCallMoves

LEMMA NextCalls == TypeInv /\ CallsInv /\ [Next]_vars => CallsInv' /\ EntriesStand
<1> SUFFICES ASSUME TypeInv, CallsInv, [Next]_vars PROVE CallsInv' /\ EntriesStand
  OBVIOUS
<1> USE DEF raftVars, stateVars, history
<1>1. ASSUME put' = put PROVE CallsInv' /\ EntriesStand
  BY <1>1, CallsKept
<1>2. ASSUME NEW n \in Nodes, Ticker(n) PROVE CallsInv' /\ EntriesStand
  BY <1>1, <1>2 DEF Ticker, StartElection, BeginBallot, AskVote, TallyVotes, PublishWin,
                    SeeLeader, SendHeartbeats
<1>3. CASE Handler
  <2>1. ASSUME NEW m \in rpcs, HandleRequestVote(m) \/ HandleAppendEntries(m)
        PROVE  CallsInv' /\ EntriesStand
    BY <1>1, <2>1 DEF HandleRequestVote, HandleAppendEntries
  <2>2. ASSUME NEW m \in rpcs, HandleRepl(m) PROVE CallsInv' /\ EntriesStand
    <3>1. m.to \in Nodes /\ m.by \in Puts
      <4>1. m \in ReplRequests
        BY <2>2, RequestKinds DEF HandleRepl, TypeInv
      <4>2. QED
        BY <4>1 DEF ReplRequests
    <3>2. put' = put \/ put' = [put EXCEPT ![m.by].acks = @ \cup {m.to}]
      BY <2>2 DEF HandleRepl
    <3>3. CASE put' = [put EXCEPT ![m.by].acks = @ \cup {m.to}]
      <4>1. put \in [Puts -> PutThreads] /\ put[m.by] \in PutThreads
        BY <3>1 DEF TypeInv, TypeOK
      <4>2. \A t \in Puts : /\ put'[t].pc = put[t].pc /\ put'[t].node = put[t].node
                            /\ put'[t].entry = put[t].entry
                            /\ put'[t].pending = put[t].pending
        BY <3>1, <3>3, <4>1 DEF PutThreads
      <4>3. QED
        BY <4>2, CallsKept
    <3>4. QED
      BY <1>1, <3>2, <3>3
  <2>3. ASSUME NEW a \in appliers, TakeCommitted(a) \/ ApplyCommitted(a)
        PROVE  CallsInv' /\ EntriesStand
    <3>1. a \in Appliers
      BY DEF TypeInv, TypeOK
    <3>2. put' = put \/ AnswerAppend(a)
      BY <2>3 DEF TakeCommitted, ApplyCommitted
    <3>3. QED
      BY <1>1, <3>1, <3>2, AnswerAppendType, CallsKept
  <2>4. QED
    BY <1>3, <2>1, <2>2, <2>3 DEF Handler
<1>4. CASE \/ \E n \in Nodes, e \in Epochs : Promote(n, e)
           \/ \E n \in Victims : Kill(n)
           \/ UNCHANGED vars
  BY <1>1, <1>4 DEF Promote, Kill, vars
<1>5. QED
  BY <1>2, <1>3, <1>4, PutHandlerCalls, ReceivePutCalls DEF Next

LEMMA InitCalls == Init => CallsInv
BY DEF Init, CallsInv, CallInv, UnsentPut

LEMMA CallsInvariant == Spec => []CallsInv
BY TypeInvInvariant, InitCalls, NextCalls, PTL DEF Spec

-----------------------------------------------------------------------------
(* Leaders and the elections they have won.                                *)

\* Who leads has won the election of its term, and no node stands twice for one.
LeadersInv ==
  /\ \A n \in Nodes : role[n] = "Leader" => <<currentTerm[n], n>> \in elected
  /\ \A n \in Nodes : role[n] # "Follower" => currentTerm[n] > 0
  /\ \A x \in elected : /\ x[1] > 0 /\ x[1] <= currentTerm[x[2]]
                        /\ x[1] = currentTerm[x[2]] => role[x[2]] # "Candidate"

LEMMA LeadersKept ==
  ASSUME LeadersInv, UNCHANGED <<currentTerm, role, elected>>
  PROVE  LeadersInv'
BY DEF LeadersInv

\* A handler may move its node to a later term or end its lead or candidacy.
LEMMA LeadersDeposed ==
  ASSUME TypeOK, LeadersInv, NEW n \in Nodes, NEW c \in Nat, NEW r \in {"Follower", role[n]},
         c >= currentTerm[n], c > currentTerm[n] => r = "Follower",
         currentTerm' = [currentTerm EXCEPT ![n] = c], role' = [role EXCEPT ![n] = r],
         elected' = elected
  PROVE  LeadersInv'
<1>1. /\ currentTerm \in [Nodes -> Nat] /\ elected \subseteq Nat \X Nodes
      /\ role \in [Nodes -> {"Follower", "Candidate", "Leader"}]
  BY DEF TypeOK
<1>2. ASSUME NEW p \in Nodes
      PROVE  /\ currentTerm'[p] \in Nat /\ currentTerm'[p] >= currentTerm[p]
             /\ role'[p] # "Follower" => role'[p] = role[p] /\ currentTerm'[p] = currentTerm[p]
  <2>1. currentTerm[p] \in Nat /\ currentTerm[n] \in Nat
    BY <1>1
  <2>2. CASE p = n
    BY <1>1, <2>1, <2>2
  <2>3. CASE p # n
    BY <1>1, <2>1, <2>3
  <2>4. QED
    BY <2>2, <2>3
<1>3. \A p \in Nodes : role'[p] = "Leader" => <<currentTerm'[p], p>> \in elected'
  BY <1>2 DEF LeadersInv
<1>4. \A p \in Nodes : role'[p] # "Follower" => currentTerm'[p] > 0
  BY <1>2 DEF LeadersInv
<1>5. ASSUME NEW x \in elected
      PROVE  /\ x[1] > 0 /\ x[1] <= currentTerm'[x[2]]
             /\ x[1] = currentTerm'[x[2]] => role'[x[2]] # "Candidate"
  <2>1. x[1] \in Nat /\ x[2] \in Nodes /\ currentTerm[x[2]] \in Nat
    BY <1>1
  <2>2. QED
    BY <1>2, <2>1 DEF LeadersInv
<1>6. QED
  BY <1>3, <1>4, <1>5 DEF LeadersInv

LEMMA StartElectionLeaders ==
  ASSUME TypeOK, LeadersInv, NEW n \in Nodes, StartElection(n)
  PROVE  LeadersInv'
<1>1. /\ currentTerm \in [Nodes -> Nat] /\ elected \subseteq Nat \X Nodes
      /\ role \in [Nodes -> {"Follower", "Candidate", "Leader"}]
  BY DEF TypeOK
<1>2. /\ currentTerm'[n] = currentTerm[n] + 1 /\ role'[n] = "Candidate"
      /\ \A p \in Nodes \ {n} : currentTerm'[p] = currentTerm[p] /\ role'[p] = role[p]
      /\ elected' = elected
  BY <1>1 DEF StartElection
<1>3. ASSUME NEW x \in elected
      PROVE  /\ x[1] > 0 /\ x[1] <= currentTerm'[x[2]]
             /\ x[1] = currentTerm'[x[2]] => role'[x[2]] # "Candidate"
  <2>1. x[1] \in Nat /\ x[2] \in Nodes /\ currentTerm[x[2]] \in Nat
    BY <1>1
  <2>2. x[1] > 0 /\ x[1] <= currentTerm[x[2]]
        /\ (x[1] = currentTerm[x[2]] => role[x[2]] # "Candidate")
    BY DEF LeadersInv
  <2>3. CASE x[2] = n
    BY <1>2, <2>1, <2>2, <2>3
  <2>4. CASE x[2] # n
    BY <1>2, <2>1, <2>2, <2>4
  <2>5. QED
    BY <2>3, <2>4
<1>4. \A p \in Nodes : role'[p] = "Leader" => <<currentTerm'[p], p>> \in elected'
  BY <1>2 DEF LeadersInv
<1>5. \A p \in Nodes : role'[p] # "Follower" => currentTerm'[p] > 0
  BY <1>1, <1>2 DEF LeadersInv
<1>6. QED
  BY <1>2, <1>3, <1>4, <1>5 DEF LeadersInv

LEMMA TallyVotesLeaders ==
  ASSUME TypeOK, LeadersInv, NEW n \in Nodes, TallyVotes(n)
  PROVE  LeadersInv'
<1>1. /\ currentTerm \in [Nodes -> Nat] /\ elected \subseteq Nat \X Nodes
      /\ role \in [Nodes -> {"Follower", "Candidate", "Leader"}]
  BY DEF TypeOK
<1>2. currentTerm' = currentTerm
  BY DEF TallyVotes
<1>3. CASE role' = role /\ elected' = elected
  BY <1>2, <1>3, LeadersKept
<1>4. CASE /\ role[n] = "Candidate" /\ role' = [role EXCEPT ![n] = "Leader"]
           /\ elected' = elected \cup {<<currentTerm[n], n>>}
  <2> DEFINE w == <<currentTerm[n], n>>
  <2>1. currentTerm[n] > 0 /\ currentTerm[n] \in Nat
    BY <1>1, <1>4 DEF LeadersInv
  <2>2. role'[n] = "Leader" /\ \A p \in Nodes \ {n} : role'[p] = role[p]
    BY <1>1, <1>4
  <2>3. ASSUME NEW x \in elected'
        PROVE  /\ x[1] > 0 /\ x[1] <= currentTerm'[x[2]]
               /\ x[1] = currentTerm'[x[2]] => role'[x[2]] # "Candidate"
    <3>1. CASE x = w
      <4>1. x[1] = currentTerm[n] /\ x[2] = n
        BY <3>1
      <4>2. QED
        BY <1>2, <2>1, <2>2, <4>1
    <3>2. CASE x \in elected
      <4>1. x[2] \in Nodes
        BY <1>1, <3>2
      <4>2. QED
        BY <1>2, <2>2, <3>2, <4>1 DEF LeadersInv
    <3>3. QED
      BY <1>4, <3>1, <3>2
  <2>4. \A p \in Nodes : role'[p] = "Leader" => <<currentTerm'[p], p>> \in elected'
    BY <1>2, <1>4, <2>2 DEF LeadersInv
  <2>5. \A p \in Nodes : role'[p] # "Follower" => currentTerm'[p] > 0
    BY <1>2, <2>1, <2>2 DEF LeadersInv
  <2>6. QED
    BY <2>3, <2>4, <2>5 DEF LeadersInv
<1>5. QED
  BY <1>3, <1>4 DEF TallyVotes

LEMMA NextLeaders == TypeInv /\ LeadersInv /\ [Next]_vars => LeadersInv'
<1> SUFFICES ASSUME TypeInv, LeadersInv, [Next]_vars PROVE LeadersInv'
  OBVIOUS
<1> USE DEF raftVars, stateVars, history
<1>1. TypeOK
  BY DEF TypeInv
<1>2. ASSUME NEW n \in Nodes, Ticker(n) PROVE LeadersInv'
  <2>1. ASSUME ~StartElection(n), ~TallyVotes(n) PROVE UNCHANGED <<currentTerm, role, elected>>
    BY <1>2, <2>1 DEF Ticker, BeginBallot, AskVote, PublishWin, SeeLeader, SendHeartbeats
  <2>2. QED
    BY <1>1, <1>2, <2>1, LeadersKept, StartElectionLeaders, TallyVotesLeaders
<1>3. ASSUME NEW m \in rpcs, HandleRequestVote(m) PROVE LeadersInv'
  <2> DEFINE n == m.to
             r == IF m.term > currentTerm[n] THEN "Follower" ELSE role[n]
  <2>1. n \in Nodes /\ m.term \in Nat /\ currentTerm[n] \in Nat
    <3>1. m \in VoteRequests
      BY <1>1, <1>3, RequestKinds DEF HandleRequestVote
    <3>2. QED
      BY <1>1, <3>1 DEF VoteRequests, TypeOK
  <2>2. /\ currentTerm' = [currentTerm EXCEPT ![n] = AdoptedTerm(m, n)]
        /\ role' = [role EXCEPT ![n] = r]
        /\ elected' = elected
    BY <1>3 DEF HandleRequestVote
  <2>3. /\ AdoptedTerm(m, n) \in Nat /\ AdoptedTerm(m, n) >= currentTerm[n]
        /\ AdoptedTerm(m, n) > currentTerm[n] => r = "Follower"
        /\ r \in {"Follower", role[n]}
    BY <2>1 DEF AdoptedTerm
  <2> HIDE DEF r
  <2>4. QED
    BY <1>1, <2>1, <2>2, <2>3, LeadersDeposed
<1>4. ASSUME NEW m \in rpcs, HandleAppendEntries(m) PROVE LeadersInv'
  <2> DEFINE n == m.to
  <2>1. n \in Nodes /\ m.term \in Nat /\ currentTerm[n] \in Nat
    <3>1. m \in AppendRequests
      BY <1>1, <1>4, RequestKinds DEF HandleAppendEntries
    <3>2. QED
      BY <1>1, <3>1 DEF AppendRequests, TypeOK
  <2>2. /\ currentTerm' = [currentTerm EXCEPT ![n] = AdoptedTerm(m, n)]
        /\ role' = [role EXCEPT ![n] = AdoptedRole(m, n)]
        /\ elected' = elected
    BY <1>4 DEF HandleAppendEntries
  <2>3. /\ AdoptedTerm(m, n) \in Nat /\ AdoptedTerm(m, n) >= currentTerm[n]
        /\ AdoptedTerm(m, n) > currentTerm[n] => AdoptedRole(m, n) = "Follower"
        /\ AdoptedRole(m, n) \in {"Follower", role[n]}
    BY <2>1 DEF AdoptedTerm, AdoptedRole
  <2>4. QED
    BY <1>1, <2>1, <2>2, <2>3, LeadersDeposed
<1>5. CASE Handler
  <2>1. ASSUME NEW m \in rpcs, HandleRepl(m) PROVE LeadersInv'
    BY <2>1, LeadersKept DEF HandleRepl
  <2>2. ASSUME NEW a \in appliers, TakeCommitted(a) \/ ApplyCommitted(a) PROVE LeadersInv'
    BY <2>2, LeadersKept DEF TakeCommitted, ApplyCommitted
  <2>3. QED
    BY <1>3, <1>4, <1>5, <2>1, <2>2 DEF Handler
<1>6. ASSUME NEW t \in Puts, PutHandler(t) PROVE LeadersInv'
  <2>1. UNCHANGED <<currentTerm, role, elected>>
    BY <1>6 DEF PutHandler, ProposeEntry, CaptureView, SendAppend, SendRepl, CommitEntry,
                TakeOwn, ApplyOwn
  <2>2. QED
    BY <2>1, LeadersKept
<1>7. CASE \/ \E t \in Puts, n \in Nodes, k \in Keys : ReceivePut(t, n, k)
           \/ \E n \in Nodes, e \in Epochs : Promote(n, e)
           \/ \E n \in Victims : Kill(n)
           \/ UNCHANGED vars
  BY <1>7, LeadersKept DEF ReceivePut, Promote, Kill, vars
<1>8. QED
  BY <1>2, <1>5, <1>6, <1>7 DEF Next

LEMMA InitLeaders == Init => LeadersInv
BY DEF Init, LeadersInv

LEMMA LeadersInvariant == Spec => []LeadersInv
BY TypeInvInvariant, InitLeaders, NextLeaders, PTL DEF Spec

\* Elections are remembered.
LEMMA ElectedGrows == [Next]_vars => elected \subseteq elected'
<1> USE DEF raftVars, stateVars, history
<1> SUFFICES ASSUME [Next]_vars PROVE elected \subseteq elected'
  OBVIOUS
<1>1. ASSUME NEW n \in Nodes, Ticker(n) PROVE elected \subseteq elected'
  BY <1>1 DEF Ticker, StartElection, BeginBallot, AskVote, TallyVotes, PublishWin, SeeLeader,
              SendHeartbeats
<1>2. CASE Handler
  BY <1>2 DEF Handler, HandleRequestVote, HandleAppendEntries, HandleRepl, TakeCommitted,
              ApplyCommitted
<1>3. ASSUME NEW t \in Puts, PutHandler(t) PROVE elected \subseteq elected'
  BY <1>3 DEF PutHandler, ProposeEntry, CaptureView, SendAppend, SendRepl, CommitEntry,
              TakeOwn, ApplyOwn
<1>4. CASE \/ \E t \in Puts, n \in Nodes, k \in Keys : ReceivePut(t, n, k)
           \/ \E n \in Nodes, e \in Epochs : Promote(n, e)
           \/ \E n \in Victims : Kill(n)
           \/ UNCHANGED vars
  BY <1>4 DEF ReceivePut, Promote, Kill, vars
<1>5. QED
  BY <1>1, <1>2, <1>3, <1>4 DEF Next

-----------------------------------------------------------------------------
(* Copies.  Every entry in a log, in a request, waiting to be applied or    *)
(* applied is a copy of the one entry that a call had appended.             *)

\* e is the entry that the calls c have appended for its value.
IsCopy(c, e) == e.val \in DOMAIN c /\ c[e.val].entry = <<e>> /\ e.index > 0
AllCopies(c, s) == \A i \in 1..Len(s) : IsCopy(c, s[i])

\* The call of value v has had an entry for key k appended, at index i.
HasPut(c, v, k) == v \in DOMAIN c /\ c[v].entry # <<>> /\ c[v].entry[1].key = k
                   /\ c[v].entry[1].index > 0

RequestCopies(c, m) ==
  /\ m.type = "AppendEntries" /\ m.by = NoPut => m.entries = <<>>
  /\ m.type = "AppendEntries" /\ m.by # NoPut =>
       c[m.by].entry # <<>> /\ m.entries = c[m.by].entry /\ c[m.by].entry[1].index > 0
  /\ m.type = "Repl" =>
       c[m.by].entry # <<>> /\ m.entry = c[m.by].entry[1] /\ c[m.by].entry[1].index > 0

CatalogCopies(c, listed, values) ==
  /\ \A x \in listed : HasPut(c, x.val, x.key) /\ c[x.val].entry[1].index = x.index
  /\ \A k \in Keys : values[k] # NoPut => HasPut(c, values[k], k)

CopiesInv ==
  /\ \A n \in Nodes : AllCopies(put, log[n])
  /\ \A m \in rpcs : RequestCopies(put, m)
  /\ \A a \in appliers : AllCopies(put, a.pending)
  /\ \A t \in Puts : AllCopies(put, put[t].pending)
  /\ \A n \in Nodes : CatalogCopies(put, catLog[n], map[n])

\* What is a copy stays one.
LEMMA CopiesStand ==
  ASSUME TypeInv, TypeInv', EntriesStand
  PROVE  /\ \A e : IsCopy(put, e) => IsCopy(put', e)
         /\ \A s : AllCopies(put, s) => AllCopies(put', s)
         /\ \A m \in rpcs : RequestCopies(put, m) => RequestCopies(put', m)
         /\ \A l, v : CatalogCopies(put, l, v) => CatalogCopies(put', l, v)
<1>1. DOMAIN put = Puts /\ DOMAIN put' = Puts
  BY DEF TypeInv, TypeOK
<1>2. ASSUME NEW t \in Puts, put[t].entry # <<>>, put[t].entry[1].index > 0
      PROVE  put'[t].entry = put[t].entry
  BY <1>2 DEF EntriesStand, Stamped, Entry
<1>3. \A e : IsCopy(put, e) => IsCopy(put', e)
  <2>1. SUFFICES ASSUME NEW e, IsCopy(put, e) PROVE IsCopy(put', e)
    OBVIOUS
  <2>2. e.val \in Puts /\ put[e.val].entry = <<e>> /\ e.index > 0
    BY <1>1, <2>1 DEF IsCopy
  <2>3. <<e>> # <<>> /\ <<e>>[1] = e
    OBVIOUS
  <2>4. put'[e.val].entry = <<e>>
    BY <1>2, <2>2, <2>3
  <2>5. QED
    BY <1>1, <2>2, <2>4 DEF IsCopy
<1>4. \A s : AllCopies(put, s) => AllCopies(put', s)
  BY <1>3 DEF AllCopies
<1>5. \A m \in rpcs : RequestCopies(put, m) => RequestCopies(put', m)
  <2>1. ASSUME NEW m \in rpcs
        PROVE  /\ m.type = "AppendEntries" => m.by \in Puts \cup {NoPut}
               /\ m.type = "Repl" => m.by \in Puts
    BY RequestKinds DEF TypeInv, AppendRequests, ReplRequests
  <2>2. QED
    BY <1>2, <2>1 DEF RequestCopies
<1>6. \A v, k : HasPut(put, v, k) => HasPut(put', v, k) /\ put'[v].entry = put[v].entry
  BY <1>1, <1>2 DEF HasPut
<1>7. \A l, v : CatalogCopies(put, l, v) => CatalogCopies(put', l, v)
  BY <1>6 DEF CatalogCopies
<1>8. QED
  BY <1>3, <1>4, <1>5, <1>7

\* A step that brings in copies only.
LEMMA CopiesKept ==
  ASSUME TypeInv, TypeInv', EntriesStand, CopiesInv,
         \A n \in Nodes : log'[n] = log[n] \/ AllCopies(put', log'[n]),
         \A m \in rpcs' : m \in rpcs \/ RequestCopies(put', m),
         \A a \in appliers' : a \in appliers \/ AllCopies(put', a.pending),
         \A t \in Puts : put'[t].pending = put[t].pending \/ AllCopies(put', put'[t].pending),
         \A n \in Nodes : \/ catLog'[n] = catLog[n] /\ map'[n] = map[n]
                          \/ CatalogCopies(put', catLog'[n], map'[n])
  PROVE  CopiesInv'
<1>1. \A n \in Nodes : AllCopies(put', log'[n])
  BY CopiesStand DEF CopiesInv
<1>2. \A m \in rpcs' : RequestCopies(put', m)
  BY CopiesStand DEF CopiesInv
<1>3. \A a \in appliers' : AllCopies(put', a.pending)
  BY CopiesStand DEF CopiesInv
<1>4. \A t \in Puts : AllCopies(put', put'[t].pending)
  BY CopiesStand DEF CopiesInv
<1>5. \A n \in Nodes : CatalogCopies(put', catLog'[n], map'[n])
  BY CopiesStand DEF CopiesInv
<1>6. QED
  BY <1>1, <1>2, <1>3, <1>4, <1>5 DEF CopiesInv

\* Where the entries of a merged log come from.
LEMMA MergedLogEntries ==
  ASSUME NEW m \in AppendRequests, NEW l \in Seq(LogEntry), PrevLogOk(m, l),
         NEW i \in 1..Len(MergedLog(m, l))
  PROVE  \/ i \in 1..Len(l) /\ MergedLog(m, l)[i] = l[i]
         \/ /\ m.entries # <<>> /\ i = m.prevIndex + 1
            /\ MergedLog(m, l)[i] = m.entries[1]
<1>1. m.prevIndex \in 0..Len(l)
  BY DEF AppendRequests, PrevLogOk
<1>2. CASE m.entries = <<>>
  BY <1>2 DEF MergedLog
<1>3. CASE m.entries # <<>>
  <2> DEFINE k == m.prevIndex
             e == m.entries[1]
             s == SubSeq(l, 1, k)
  <2>1. e \in LogEntry
    BY <1>3 DEF AppendRequests
  <2>2. s \in Seq(LogEntry) /\ Len(s) = k /\ \A j \in 1..k : s[j] = l[j]
    BY <1>1, SubSeqProperties
  <2>3. k + 1 - 1 = k /\ k \in Nat
    BY <1>1
  <2>4. CASE k + 1 > Len(l)
    <3>1. MergedLog(m, l) = Append(l, e) /\ k = Len(l)
      BY <1>1, <1>3, <2>4 DEF MergedLog
    <3> HIDE DEF e
    <3>2. QED
      BY <1>3, <2>1, <3>1 DEF e
  <2>5. CASE ~(k + 1 > Len(l)) /\ l[k + 1].term = e.term
    <3>1. MergedLog(m, l) = l
      BY <1>3, <2>5, Zenon DEF MergedLog
    <3>2. QED
      BY <3>1
  <2>6. CASE ~(k + 1 > Len(l)) /\ l[k + 1].term # e.term
    <3>1. MergedLog(m, l) = Append(SubSeq(l, 1, k + 1 - 1), e)
      BY <1>1, <1>3, <2>1, <2>6 DEF MergedLog
    <3>2. MergedLog(m, l) = Append(s, e)
      BY <2>3, <3>1
    <3> HIDE DEF e, s
    <3>3. Len(Append(s, e)) = k + 1 /\ Append(s, e)[k + 1] = e
          /\ \A j \in 1..k : Append(s, e)[j] = s[j]
      BY <2>1, <2>2, AppendProperties
    <3>4. i \in 1..(k + 1)
      BY <3>2, <3>3
    <3>5. CASE i = k + 1
      BY <1>3, <3>2, <3>3, <3>5 DEF e
    <3>6. CASE i \in 1..k
      BY <1>1, <2>2, <2>6, <3>2, <3>3, <3>6
    <3>7. QED
      BY <2>3, <3>4, <3>5, <3>6
  <2>7. QED
    BY <2>4, <2>5, <2>6
<1>4. QED
  BY <1>2, <1>3

\* What is taken from a log to be applied is a part of it.
LEMMA ApplicableEntries ==
  ASSUME TypeOK, NEW n \in Nodes, NEW i \in 1..Len(Applicable(n))
  PROVE  /\ lastApplied[n] + i \in 1..Len(log[n])
         /\ Applicable(n)[i] = log[n][lastApplied[n] + i]
         /\ lastApplied[n] + i <= commitIndex[n]
<1> DEFINE u == IF commitIndex[n] < Len(log[n]) THEN commitIndex[n] ELSE Len(log[n])
           b == lastApplied[n] + 1
<1>1. /\ log[n] \in Seq(LogEntry) /\ Len(log[n]) \in Nat
      /\ lastApplied[n] \in Nat /\ commitIndex[n] \in Nat
  BY DEF TypeOK
<1>2. u \in Nat /\ u <= Len(log[n]) /\ u <= commitIndex[n] /\ b \in Nat \ {0}
  BY <1>1
<1>3. Applicable(n) = SubSeq(log[n], b, u)
  BY DEF Applicable
<1> HIDE DEF u, b
<1>4. \A j \in b..u : log[n][j] \in LogEntry
  BY <1>1, <1>2
<1>5. /\ Len(SubSeq(log[n], b, u)) = IF b <= u THEN u - b + 1 ELSE 0
      /\ \A j \in 1..(u - b + 1) : SubSeq(log[n], b, u)[j] = log[n][b + j - 1]
  BY <1>2, <1>4, SubSeqProperties
<1>6. b <= u /\ i \in 1..(u - b + 1)
  BY <1>2, <1>3, <1>5
<1>7. Applicable(n)[i] = log[n][b + i - 1]
  BY <1>3, <1>5, <1>6
<1>8. i \in Nat \ {0} /\ b + i - 1 <= u
  BY <1>2, <1>6
<1>9. b + i - 1 = lastApplied[n] + i /\ b + i - 1 \in Nat \ {0}
  BY <1>1, <1>8 DEF b
<1>10. lastApplied[n] + i <= Len(log[n]) /\ lastApplied[n] + i <= commitIndex[n]
  BY <1>1, <1>2, <1>8, <1>9
<1>11. lastApplied[n] + i \in 1..Len(log[n])
  BY <1>1, <1>9, <1>10
<1>12. Applicable(n)[i] = log[n][lastApplied[n] + i]
  BY <1>7, <1>9
<1>13. QED
  BY <1>10, <1>11, <1>12

LEMMA TickerCopies ==
  ASSUME TypeInv, TypeInv', EntriesStand, CopiesInv, NEW n \in Nodes, Ticker(n)
  PROVE  CopiesInv'
<1> USE DEF raftVars, stateVars, history
<1>1. UNCHANGED <<log, put, appliers, catLog, map>>
  BY DEF Ticker, StartElection, BeginBallot, AskVote, TallyVotes, PublishWin, SeeLeader,
         SendHeartbeats
<1>2. ASSUME NEW m \in rpcs', m \notin rpcs
      PROVE  RequestCopies(put', m)
  <2>1. CASE SendHeartbeats(n)
    BY <1>2, <2>1 DEF SendHeartbeats, RequestCopies
  <2>2. ASSUME NEW p \in Nodes, AskVote(n, p) PROVE RequestCopies(put', m)
    BY <1>2, <2>2 DEF AskVote, RequestCopies
  <2>3. CASE StartElection(n) \/ BeginBallot(n) \/ TallyVotes(n) \/ PublishWin(n) \/ SeeLeader(n)
    BY <1>2, <2>3 DEF StartElection, BeginBallot, TallyVotes, PublishWin, SeeLeader
  <2>4. QED
    BY <2>1, <2>2, <2>3 DEF Ticker
<1>3. QED
  BY <1>1, <1>2, CopiesKept

LEMMA AppendEntriesCopies ==
  ASSUME TypeInv, TypeInv', CallsInv, EntriesStand, CopiesInv,
         NEW m \in rpcs, HandleAppendEntries(m)
  PROVE  CopiesInv'
<1> DEFINE n == m.to
<1>1. m \in AppendRequests /\ m.type = "AppendEntries" /\ n \in Nodes /\ m.by \in Puts \cup {NoPut}
  <2>1. m \in AppendRequests
    BY RequestKinds DEF HandleAppendEntries, TypeInv
  <2>2. QED
    BY <2>1 DEF AppendRequests
<1>2. /\ log' = [log EXCEPT ![n] = IF AcceptsEntries(m, n) THEN MergedLog(m, log[n]) ELSE log[n]]
      /\ \A a \in appliers' : a \in appliers \/ a.pending = <<>>
      /\ rpcs' \subseteq rpcs /\ UNCHANGED <<put, catLog, map>>
  BY DEF HandleAppendEntries
<1>3. log \in [Nodes -> Seq(LogEntry)] /\ log[n] \in Seq(LogEntry) /\ DOMAIN put = Puts
  BY <1>1 DEF TypeInv, TypeOK
<1>4. m.entries # <<>> => IsCopy(put, m.entries[1])
  <2>1. m.entries # <<>> =>
          m.by \in Puts /\ m.entries = put[m.by].entry /\ put[m.by].entry # <<>>
          /\ put[m.by].entry[1].index > 0
    BY <1>1 DEF CopiesInv, RequestCopies
  <2>2. QED
    BY <1>3, <2>1 DEF CallsInv, CallInv, IsCopy, Entry
<1>5. ASSUME AcceptsEntries(m, n), NEW i \in 1..Len(MergedLog(m, log[n]))
      PROVE  IsCopy(put, MergedLog(m, log[n])[i])
  <2>1. \/ i \in 1..Len(log[n]) /\ MergedLog(m, log[n])[i] = log[n][i]
        \/ m.entries # <<>> /\ MergedLog(m, log[n])[i] = m.entries[1]
    BY <1>1, <1>3, <1>5, MergedLogEntries DEF AcceptsEntries
  <2>2. AllCopies(put, log[n])
    BY <1>1 DEF CopiesInv
  <2>3. QED
    BY <1>4, <2>1, <2>2 DEF AllCopies
<1>6. \A p \in Nodes : log'[p] = log[p] \/ AllCopies(put', log'[p])
  BY <1>1, <1>2, <1>3, <1>5 DEF AllCopies
<1>7. \A a \in appliers' : a \in appliers \/ AllCopies(put', a.pending)
  BY <1>2 DEF AllCopies
<1>8. QED
  BY <1>2, <1>6, <1>7, CopiesKept

\* An entry that is applied, whatever applies it.
LEMMA AppliedCopies ==
  ASSUME NEW c, NEW listed, NEW values \in [Keys -> Puts \cup {NoPut}],
         CatalogCopies(c, listed, values), NEW e, IsCopy(c, e), NEW x,
         x.val = e.val, x.key = e.key, x.index = e.index
  PROVE  CatalogCopies(c, listed \cup {x}, [values EXCEPT ![e.key] = e.val])
<1>1. c[e.val].entry # <<>> /\ c[e.val].entry[1] = e /\ e.val \in DOMAIN c /\ e.index > 0
  BY DEF IsCopy
<1>2. HasPut(c, e.val, e.key) /\ c[e.val].entry[1].index = e.index
  BY <1>1 DEF HasPut
<1>3. QED
  BY <1>2 DEF CatalogCopies

LEMMA ApplyEntryCopies ==
  ASSUME TypeInv, TypeInv', EntriesStand, CopiesInv, NEW n \in Nodes, NEW e \in LogEntry,
         ApplyEntry(n, e), IsCopy(put, e)
  PROVE  \A p \in Nodes : \/ catLog'[p] = catLog[p] /\ map'[p] = map[p]
                          \/ CatalogCopies(put', catLog'[p], map'[p])
<1> DEFINE x == [epoch |-> e.term, index |-> e.index, key |-> e.key, val |-> e.val]
<1>1. map \in [Nodes -> [Keys -> Puts \cup {NoPut}]] /\ catLog \in [Nodes -> SUBSET CatalogEntry]
  BY DEF TypeInv, TypeOK
<1>2. /\ map' = [map EXCEPT ![n][e.key] = e.val]
      /\ catLog' = [catLog EXCEPT ![n] = @ \cup {x}]
  BY DEF ApplyEntry
<1>3. x.val = e.val /\ x.key = e.key /\ x.index = e.index
  OBVIOUS
<1> HIDE DEF x
<1>4. /\ map'[n] = [map[n] EXCEPT ![e.key] = e.val] /\ catLog'[n] = catLog[n] \cup {x}
      /\ map[n] \in [Keys -> Puts \cup {NoPut}]
      /\ \A p \in Nodes \ {n} : map'[p] = map[p] /\ catLog'[p] = catLog[p]
  BY <1>1, <1>2
<1>5. CatalogCopies(put', catLog[n], map[n]) /\ IsCopy(put', e)
  BY CopiesStand DEF CopiesInv
<1>6. CatalogCopies(put', catLog'[n], map'[n])
  BY <1>3, <1>4, <1>5, AppliedCopies
<1>7. QED
  BY <1>4, <1>6

LEMMA ReplCopies ==
  ASSUME TypeInv, TypeInv', CallsInv, EntriesStand, CopiesInv, NEW m \in rpcs, HandleRepl(m)
  PROVE  CopiesInv'
<1> DEFINE n == m.to
           e == m.entry
           x == [epoch |-> m.epoch, index |-> e.index, key |-> e.key, val |-> e.val]
<1>1. n \in Nodes /\ m.by \in Puts /\ e \in LogEntry /\ m.type = "Repl"
  <2>1. m \in ReplRequests
    BY RequestKinds DEF HandleRepl, TypeInv
  <2>2. QED
    BY <2>1 DEF ReplRequests
<1>2. /\ map \in [Nodes -> [Keys -> Puts \cup {NoPut}]] /\ catLog \in [Nodes -> SUBSET CatalogEntry]
      /\ DOMAIN put = Puts
  BY DEF TypeInv, TypeOK
<1>3. IsCopy(put, e)
  BY <1>1, <1>2 DEF CopiesInv, RequestCopies, CallsInv, CallInv, IsCopy, Entry
<1>4. CASE ~AcceptsRepl(m, n)
  <2>1. UNCHANGED <<log, put, appliers, catLog, map>> /\ rpcs' \subseteq rpcs
    BY <1>4 DEF HandleRepl, raftVars
  <2>2. QED
    BY <2>1, CopiesKept
<1>5. CASE AcceptsRepl(m, n)
  <2>1. /\ map' = [map EXCEPT ![n][e.key] = e.val]
        /\ catLog' = [catLog EXCEPT ![n] = @ \cup {x}]
        /\ UNCHANGED <<log, appliers>> /\ rpcs' \subseteq rpcs
        /\ put' = put \/ put' = [put EXCEPT ![m.by].acks = @ \cup {n}]
    BY <1>5 DEF HandleRepl, raftVars
  <2>2. x.val = e.val /\ x.key = e.key /\ x.index = e.index
    OBVIOUS
  <2> HIDE DEF x, e
  <2>3. /\ map'[n] = [map[n] EXCEPT ![e.key] = e.val] /\ catLog'[n] = catLog[n] \cup {x}
        /\ map[n] \in [Keys -> Puts \cup {NoPut}]
        /\ \A p \in Nodes \ {n} : map'[p] = map[p] /\ catLog'[p] = catLog[p]
    BY <1>1, <1>2, <2>1
  <2>4. CatalogCopies(put', catLog[n], map[n]) /\ IsCopy(put', e)
    BY <1>1, <1>3, CopiesStand DEF CopiesInv
  <2>5. CatalogCopies(put', catLog'[n], map'[n])
    BY <2>2, <2>3, <2>4, AppliedCopies
  <2>6. \A t \in Puts : put'[t].pending = put[t].pending
    <3>1. put \in [Puts -> PutThreads] /\ put[m.by] \in PutThreads
      BY <1>1 DEF TypeInv, TypeOK
    <3>2. CASE put' = [put EXCEPT ![m.by].acks = @ \cup {n}]
      BY <1>1, <3>1, <3>2 DEF PutThreads
    <3>3. QED
      BY <2>1, <3>2
  <2>7. QED
    BY <2>1, <2>3, <2>5, <2>6, CopiesKept
<1>6. QED
  BY <1>4, <1>5

LEMMA ApplicableCopies ==
  ASSUME TypeInv, CopiesInv, NEW n \in Nodes
  PROVE  AllCopies(put, Applicable(n))
<1>1. TypeOK
  BY DEF TypeInv
<1>2. AllCopies(put, log[n])
  BY DEF CopiesInv
<1>3. ASSUME NEW i \in 1..Len(Applicable(n))
      PROVE  IsCopy(put, Applicable(n)[i])
  BY <1>1, <1>2, ApplicableEntries DEF AllCopies
<1>4. QED
  BY <1>3 DEF AllCopies

\* The next of the entries to apply is a copy, and so are those after it.
LEMMA PendingCopies ==
  ASSUME NEW c, NEW q \in Seq(LogEntry), q # <<>>, AllCopies(c, q)
  PROVE  /\ Head(q) \in LogEntry /\ IsCopy(c, Head(q))
         /\ AllCopies(c, Tail(q))
<1>1. Head(q) = q[1] /\ 1 \in 1..Len(q)
  BY EmptySeq
<1>2. /\ Head(q) \in LogEntry /\ Tail(q) \in Seq(LogEntry) /\ Len(Tail(q)) = Len(q) - 1
      /\ \A i \in 1..Len(Tail(q)) : Tail(q)[i] = q[i + 1]
  BY HeadTailProperties
<1>3. \A i \in 1..Len(Tail(q)) : i + 1 \in 1..Len(q)
  BY <1>2
<1>4. QED
  BY <1>1, <1>2, <1>3 DEF AllCopies

LEMMA AppliersCopies ==
  ASSUME TypeInv, TypeInv', EntriesStand, CopiesInv,
         NEW a \in appliers, TakeCommitted(a) \/ ApplyCommitted(a)
  PROVE  CopiesInv'
<1>1. a \in Appliers /\ a.to \in Nodes /\ appliers \subseteq Appliers
  BY DEF TypeInv, TypeOK, Appliers
<1>2. put' = put \/ AnswerAppend(a)
  BY DEF TakeCommitted, ApplyCommitted
<1>3. \A t \in Puts : put'[t].pending = put[t].pending
  BY <1>1, <1>2, AnswerAppendType
<1>4. CASE TakeCommitted(a)
  <2> DEFINE q == Applicable(a.to)
  <2>1. UNCHANGED <<log, catLog, map, rpcs>>
    BY <1>4 DEF TakeCommitted, stateVars
  <2>2. \A b \in appliers' : b \in appliers \/ b = [a EXCEPT !.taken = TRUE, !.pending = q]
    BY <1>4 DEF TakeCommitted
  <2>3. AllCopies(put', q)
    BY <1>1, ApplicableCopies, CopiesStand
  <2> HIDE DEF q
  <2>4. [a EXCEPT !.taken = TRUE, !.pending = q].pending = q
    BY <1>1 DEF Appliers
  <2>5. QED
    BY <1>3, <2>1, <2>2, <2>3, <2>4, CopiesKept
<1>5. CASE ApplyCommitted(a)
  <2> DEFINE q == a.pending
  <2>1. /\ log' = log /\ rpcs' = rpcs
        /\ a.taken /\ ApplyEntry(a.to, Head(q))
    BY <1>5 DEF ApplyCommitted, raftVars
  <2>2. \A b \in appliers' : b \in appliers \/ b = [a EXCEPT !.pending = Tail(a.pending)]
    BY <1>5 DEF ApplyCommitted
  <2>3. q \in Seq(LogEntry) /\ q # <<>> /\ AllCopies(put, q)
    BY <1>1, <2>1 DEF TypeInv, ThreadInv, Appliers, CopiesInv
  <2>4. /\ Head(q) \in LogEntry /\ IsCopy(put, Head(q)) /\ AllCopies(put, Tail(q))
    BY <2>3, PendingCopies
  <2>5. \A b \in appliers' : b \in appliers \/ AllCopies(put', b.pending)
    <3>1. [a EXCEPT !.pending = Tail(q)].pending = Tail(q)
      BY <1>1 DEF Appliers
    <3>2. AllCopies(put', Tail(q))
      BY <2>4, CopiesStand
    <3>3. QED
      BY <2>2, <3>1, <3>2
  <2>6. \A p \in Nodes : \/ catLog'[p] = catLog[p] /\ map'[p] = map[p]
                         \/ CatalogCopies(put', catLog'[p], map'[p])
    BY <1>1, <2>1, <2>4, ApplyEntryCopies
  <2>7. QED
    BY <1>3, <2>1, <2>5, <2>6, CopiesKept
<1>6. QED
  BY <1>4, <1>5

LEMMA ProposeEntryCopies ==
  ASSUME TypeInv, TypeInv', CallsInv, EntriesStand, CopiesInv, NEW t \in Puts, ProposeEntry(t)
  PROVE  CopiesInv'
<1> DEFINE n == put[t].node
           e == Entry(t)'
<1>1. UNCHANGED <<rpcs, appliers, catLog, map>>
  BY DEF ProposeEntry, stateVars
<1>2. \A u \in Puts : put'[u].pending = put[u].pending
  <2>1. put[t].pc = "propose" /\ put[t].pending = <<>>
    BY DEF ProposeEntry, CallsInv, CallInv
  <2>2. PutHandler(t)
    BY DEF PutHandler
  <2>3. /\ \A u \in Puts \ {t} : put'[u] = put[u]
        /\ put'[t].pc # "apply" => put'[t].pending = <<>> \/ put'[t].pending = put[t].pending
    BY <2>2, PutHandlerEffect
  <2>4. put'[t].pc \in {"done", "capture"}
    BY ProposeEntryEffect
  <2>5. QED
    BY <2>1, <2>3, <2>4
<1>3. CASE log' = log
  BY <1>1, <1>2, <1>3, CopiesKept
<1>4. CASE /\ put'[t].entry = <<e>> /\ e \in LogEntry /\ e.val = t
           /\ e.index = LastIndex(log[n]) + 1
           /\ log' = [log EXCEPT ![n] = Append(log[n], e)]
  <2>1. put[t].pc \in Working
    BY DEF ProposeEntry, Working
  <2>2. n \in Nodes /\ log \in [Nodes -> Seq(LogEntry)] /\ log[n] \in Seq(LogEntry)
    BY <2>1, WorkerType DEF TypeInv, TypeOK
  <2>3. DOMAIN put' = Puts
    BY DEF TypeInv, TypeOK
  <2>4. e.index > 0
    BY <1>4, <2>2, LastOfLog
  <2> HIDE DEF e
  <2>5. IsCopy(put', e)
    BY <1>4, <2>3, <2>4 DEF IsCopy
  <2>6. AllCopies(put', log[n])
    BY <2>2, CopiesStand DEF CopiesInv
  <2>7. AllCopies(put', Append(log[n], e))
    BY <1>4, <2>2, <2>5, <2>6 DEF AllCopies
  <2>8. \A p \in Nodes : log'[p] = log[p] \/ AllCopies(put', log'[p])
    BY <1>4, <2>2, <2>7
  <2>9. QED
    BY <1>1, <1>2, <2>8, CopiesKept
<1>5. QED
  BY <1>3, <1>4, ProposeEntryEffect

LEMMA SendCopies ==
  ASSUME TypeInv, TypeInv', CallsInv, EntriesStand, CopiesInv, NEW t \in Puts,
         SendRepl(t) \/ \E p \in Nodes : SendAppend(t, p)
  PROVE  CopiesInv'
<1>1. put[t].pc \in Working \ {"propose", "apply"} /\ PutHandler(t)
  BY DEF SendRepl, SendAppend, Working, PutHandler
<1>2. put[t].entry # <<>> /\ Entry(t).index > 0
  BY <1>1, WorkerType DEF TypeInv, ThreadInv
<1>3. /\ UNCHANGED <<log, appliers, catLog, map>>
      /\ put'[t].pc \in {"append", "repl"}
      /\ put'[t].entry = put[t].entry
  <2>1. UNCHANGED <<log, appliers, catLog, map>>
    BY DEF SendRepl, SendAppend, raftVars, stateVars
  <2>2. ~ProposeEntry(t)
    BY <1>1 DEF ProposeEntry
  <2>3. put' \in [Puts -> PutThreads] /\ put \in [Puts -> PutThreads]
    BY DEF TypeInv, TypeOK
  <2>4. put'[t].pc \in {"append", "repl"}
    <3>1. CASE SendRepl(t)
      BY <2>3, <3>1 DEF SendRepl, PutThreads
    <3>2. ASSUME NEW p \in Nodes, SendAppend(t, p) PROVE put'[t].pc = "append"
      <4>1. put' = [put EXCEPT ![t].pc = "append", ![t].peer = p, ![t].todo = @ \ {p}]
        BY <3>2 DEF SendAppend
      <4>2. QED
        BY <2>3, <4>1 DEF PutThreads
    <3>3. QED
      BY <3>1, <3>2
  <2>5. QED
    BY <1>1, <2>1, <2>2, <2>4, PutHandlerEffect
<1>4. \A u \in Puts : put'[u].pending = put[u].pending
  <2>1. put[t].pending = <<>>
    BY <1>1 DEF CallsInv, CallInv, Working
  <2>2. QED
    BY <1>1, <1>3, <2>1, PutHandlerEffect
<1>5. t # NoPut
  BY PutsAssumption
<1>6. ASSUME NEW m \in rpcs', m \notin rpcs
      PROVE  RequestCopies(put', m)
  <2>1. CASE SendRepl(t)
    <3>1. m.type = "Repl" /\ m.by = t /\ m.entry = Entry(t)
      BY <1>6, <2>1 DEF SendRepl
    <3>2. QED
      BY <1>2, <1>3, <3>1 DEF RequestCopies, Entry
  <2>2. CASE \E p \in Nodes : SendAppend(t, p)
    <3>1. m.type = "AppendEntries" /\ m.by = t /\ m.entries = put[t].entry
      <4>1. PICK p \in Nodes : SendAppend(t, p)
        BY <2>2
      <4>2. \E c, i, d, w :
              rpcs' = rpcs \cup
                {[type |-> "AppendEntries", by |-> t, from |-> put[t].node, to |-> p, round |-> 0,
                  term |-> c, prevIndex |-> i, prevTerm |-> d, entries |-> put[t].entry,
                  commit |-> w]}
        BY <4>1, Zenon DEF SendAppend
      <4>3. QED
        BY <1>6, <4>2
    <3>2. QED
      BY <1>2, <1>3, <1>5, <3>1 DEF RequestCopies, Entry
  <2>3. QED
    BY <2>1, <2>2
<1>7. QED
  BY <1>3, <1>4, <1>6, CopiesKept

LEMMA OwnCopies ==
  ASSUME TypeInv, TypeInv', CallsInv, EntriesStand, CopiesInv, NEW t \in Puts,
         TakeOwn(t) \/ ApplyOwn(t)
  PROVE  CopiesInv'
<1> DEFINE n == put[t].node
           q == put[t].pending
<1>1. put[t].pc \in {"take", "apply"} /\ put[t].pc \in Working /\ PutHandler(t)
  BY DEF TakeOwn, ApplyOwn, Working, PutHandler
<1>2. n \in Nodes /\ q \in Seq(LogEntry) /\ put \in [Puts -> PutThreads] /\ put[t] \in PutThreads
  BY <1>1, WorkerType DEF PutThreads
<1>3. \A u \in Puts \ {t} : put'[u] = put[u]
  BY <1>1, PutHandlerEffect
<1>4. AllCopies(put, Applicable(n)) /\ AllCopies(put, q)
  BY <1>2, ApplicableCopies DEF CopiesInv
<1>5. AllCopies(put', <<>>)
  BY DEF AllCopies
<1>6. CASE TakeOwn(t)
  <2>1. UNCHANGED <<log, rpcs, appliers, catLog, map>>
    BY <1>6 DEF TakeOwn, stateVars
  <2>2. \/ Answer(t, "committed")
        \/ put' = [put EXCEPT ![t].pc = "apply", ![t].pending = Applicable(n)]
    BY <1>6 DEF TakeOwn
  <2>3. put'[t].pending = <<>> \/ put'[t].pending = Applicable(n)
    BY <1>2, <2>2, AnswerEffect DEF PutThreads
  <2>4. AllCopies(put', put'[t].pending)
    BY <1>4, <1>5, <2>3, CopiesStand
  <2>5. QED
    BY <1>3, <2>1, <2>4, CopiesKept
<1>7. CASE ApplyOwn(t)
  <2>1. UNCHANGED <<log, rpcs, appliers>> /\ ApplyEntry(n, Head(q)) /\ put[t].pc = "apply"
    BY <1>7 DEF ApplyOwn, raftVars
  <2>2. q # <<>>
    BY <2>1 DEF TypeInv, ThreadInv
  <2>3. Head(q) \in LogEntry /\ IsCopy(put, Head(q)) /\ AllCopies(put, Tail(q))
    BY <1>2, <1>4, <2>2, PendingCopies
  <2>4. \/ Answer(t, "committed")
        \/ put' = [put EXCEPT ![t].pending = Tail(q)]
    BY <1>7 DEF ApplyOwn
  <2>5. put'[t].pending = <<>> \/ put'[t].pending = Tail(q)
    BY <1>2, <2>4, AnswerEffect DEF PutThreads
  <2>6. AllCopies(put', put'[t].pending)
    BY <1>5, <2>3, <2>5, CopiesStand
  <2>7. \A p \in Nodes : \/ catLog'[p] = catLog[p] /\ map'[p] = map[p]
                         \/ CatalogCopies(put', catLog'[p], map'[p])
    BY <1>2, <2>1, <2>3, ApplyEntryCopies
  <2>8. QED
    BY <1>3, <2>1, <2>6, <2>7, CopiesKept
<1>8. QED
  BY <1>6, <1>7

LEMMA NextCopies ==
  TypeInv /\ TypeInv' /\ CallsInv /\ CopiesInv /\ [Next]_vars => CopiesInv'
<1> SUFFICES ASSUME TypeInv, TypeInv', CallsInv, CopiesInv, [Next]_vars PROVE CopiesInv'
  OBVIOUS
<1> USE DEF raftVars, stateVars, history
<1>1. EntriesStand /\ CallsInv'
  BY NextCalls
<1>2. CASE Handler
  <2>1. ASSUME NEW m \in rpcs, HandleRequestVote(m) PROVE CopiesInv'
    BY <1>1, <2>1, CopiesKept DEF HandleRequestVote
  <2>2. QED
    BY <1>1, <1>2, <2>1, AppendEntriesCopies, ReplCopies, AppliersCopies DEF Handler
<1>3. ASSUME NEW t \in Puts, PutHandler(t) PROVE CopiesInv'
  <2>1. CASE CaptureView(t) \/ CommitEntry(t)
    <3>1. UNCHANGED <<log, rpcs, appliers, catLog, map>>
      BY <2>1 DEF CaptureView, CommitEntry
    <3>2. put[t].pc # "apply" /\ put'[t].pc # "apply"
      <4>1. put \in [Puts -> PutThreads]
        BY DEF TypeInv, TypeOK
      <4>2. CASE CaptureView(t)
        BY <4>1, <4>2 DEF CaptureView, PutThreads
      <4>3. CASE CommitEntry(t)
        <5>1. \/ Answer(t, "fenced") \/ Answer(t, "not_leader")
              \/ put' = [put EXCEPT ![t].pc = "take", ![t].peer = NoNode, ![t].acks = {}]
          BY <4>3 DEF CommitEntry
        <5>2. put'[t].pc \in {"done", "take"}
          BY <4>1, <5>1, AnswerEffect DEF PutThreads
        <5>3. QED
          BY <4>3, <5>2 DEF CommitEntry
      <4>4. QED
        BY <2>1, <4>2, <4>3
    <3>3. put[t].pending = <<>> /\ put'[t].pending = <<>>
      BY <1>1, <3>2 DEF CallsInv, CallInv
    <3>4. \A u \in Puts : put'[u].pending = put[u].pending
      BY <1>3, <3>3, PutHandlerEffect
    <3>5. QED
      BY <1>1, <3>1, <3>4, CopiesKept
  <2>2. QED
    BY <1>1, <1>3, <2>1, ProposeEntryCopies, SendCopies, OwnCopies DEF PutHandler
<1>4. ASSUME NEW t \in Puts, NEW n \in Nodes, NEW k \in Keys, ReceivePut(t, n, k)
      PROVE  CopiesInv'
  <2>1. UNCHANGED <<log, rpcs, appliers, catLog, map>> /\ put[t].pc = "unsent"
    BY <1>4 DEF ReceivePut
  <2>2. put'[t].pc \in {"propose", "done"} /\ \A u \in Puts \ {t} : put'[u] = put[u]
    <3>1. put \in [Puts -> PutThreads]
      BY DEF TypeInv, TypeOK
    <3>2. QED
      BY <1>4, <3>1 DEF ReceivePut, PutThreads
  <2>3. put[t].pending = <<>> /\ put'[t].pending = <<>>
    BY <1>1, <2>1, <2>2 DEF CallsInv, CallInv
  <2>4. QED
    BY <1>1, <2>1, <2>2, <2>3, CopiesKept
<1>5. CASE \/ \E n \in Nodes, e \in Epochs : Promote(n, e)
           \/ \E n \in Victims : Kill(n)
           \/ UNCHANGED vars
  BY <1>1, <1>5, CopiesKept DEF Promote, Kill, vars
<1>6. QED
  BY <1>1, <1>2, <1>3, <1>4, <1>5, TickerCopies DEF Next

LEMMA InitCopies == Init => CopiesInv
<1> SUFFICES ASSUME Init PROVE CopiesInv
  OBVIOUS
<1>1. /\ \A n \in Nodes : log[n] = <<>> /\ catLog[n] = {} /\ \A k \in Keys : map[n][k] = NoPut
      /\ \A t \in Puts : put[t].pending = <<>>
      /\ rpcs = {} /\ appliers = {}
  BY DEF Init, UnsentPut
<1>2. QED
  BY <1>1 DEF CopiesInv, AllCopies, CatalogCopies

LEMMA CopiesInvariant == Spec => []CopiesInv
BY InitCopies, NextCopies, TypeInvInvariant, CallsInvariant, PTL DEF Spec

-----------------------------------------------------------------------------
(* Proposals: where and when an entry was appended first.                  *)

\* Nothing but append_entry stamps the entry of a call.
StampsOnly ==
  \A t \in Puts : Stamped(t)' => Stamped(t) \/ ProposeEntry(t)

LEMMA NextStamps == TypeInv /\ CallsInv /\ [Next]_vars => StampsOnly
<1> SUFFICES ASSUME TypeInv, CallsInv, [Next]_vars PROVE StampsOnly
  OBVIOUS
<1> USE DEF raftVars, stateVars, history
<1>1. ASSUME \A t \in Puts : put'[t].entry = put[t].entry PROVE StampsOnly
  BY <1>1 DEF StampsOnly, Stamped, Entry
<1>2. ASSUME put' = put PROVE StampsOnly
  BY <1>1, <1>2
<1>3. ASSUME NEW n \in Nodes, Ticker(n) PROVE StampsOnly
  BY <1>2, <1>3 DEF Ticker, StartElection, BeginBallot, AskVote, TallyVotes, PublishWin,
                    SeeLeader, SendHeartbeats
<1>4. CASE Handler
  <2>1. ASSUME NEW m \in rpcs, HandleRequestVote(m) \/ HandleAppendEntries(m) PROVE StampsOnly
    BY <1>2, <2>1 DEF HandleRequestVote, HandleAppendEntries
  <2>2. ASSUME NEW m \in rpcs, HandleRepl(m) PROVE StampsOnly
    <3>1. m.to \in Nodes /\ m.by \in Puts
      <4>1. m \in ReplRequests
        BY <2>2, RequestKinds DEF HandleRepl, TypeInv
      <4>2. QED
        BY <4>1 DEF ReplRequests
    <3>2. put' = put \/ put' = [put EXCEPT ![m.by].acks = @ \cup {m.to}]
      BY <2>2 DEF HandleRepl
    <3>3. QED
      BY <1>1, <1>2, <3>1, <3>2, AcksType
  <2>3. ASSUME NEW a \in appliers, TakeCommitted(a) \/ ApplyCommitted(a) PROVE StampsOnly
    <3>1. a \in Appliers
      BY DEF TypeInv, TypeOK
    <3>2. put' = put \/ AnswerAppend(a)
      BY <2>3 DEF TakeCommitted, ApplyCommitted
    <3>3. QED
      BY <1>1, <1>2, <3>1, <3>2, AnswerAppendType
  <2>4. QED
    BY <1>4, <2>1, <2>2, <2>3 DEF Handler
<1>5. ASSUME NEW t \in Puts, PutHandler(t) PROVE StampsOnly
  BY <1>5, PutHandlerEffect DEF StampsOnly, Stamped, Entry
<1>6. ASSUME NEW t \in Puts, NEW n \in Nodes, NEW k \in Keys, ReceivePut(t, n, k)
      PROVE  StampsOnly
  <2> DEFINE e == [term |-> 0, index |-> 0, key |-> k, val |-> t]
  <2>1. put \in [Puts -> PutThreads] /\ put[t] \in PutThreads
    BY DEF TypeInv, TypeOK
  <2>2. \/ put' = [put EXCEPT ![t].pc = "propose", ![t].node = n, ![t].entry = <<e>>]
        \/ \E r : put' = [put EXCEPT ![t].pc = "done", ![t].node = n, ![t].result = r]
    BY <1>6 DEF ReceivePut
  <2>3. ~(e.index > 0)
    OBVIOUS
  <2> HIDE DEF e
  <2>4. /\ \A u \in Puts \ {t} : put'[u] = put[u]
        /\ put'[t].entry = put[t].entry \/ put'[t].entry = <<e>>
    BY <2>1, <2>2 DEF PutThreads
  <2>5. QED
    BY <2>3, <2>4 DEF StampsOnly, Stamped, Entry
<1>7. CASE \/ \E n \in Nodes, e \in Epochs : Promote(n, e)
           \/ \E n \in Victims : Kill(n)
           \/ UNCHANGED vars
  BY <1>2, <1>7 DEF Promote, Kill, vars
<1>8. QED
  BY <1>3, <1>4, <1>5, <1>6, <1>7 DEF Next

\* Who leads after a step is in the term it was in before.
LeadsOn ==
  \A n \in Nodes : role'[n] = "Leader" => role[n] # "Follower" /\ currentTerm'[n] = currentTerm[n]

LEMMA NextLeadsOn == TypeInv /\ [Next]_vars => LeadsOn
<1> SUFFICES ASSUME TypeInv, [Next]_vars PROVE LeadsOn
  OBVIOUS
<1> USE DEF raftVars, stateVars, history
<1>1. /\ currentTerm \in [Nodes -> Nat]
      /\ role \in [Nodes -> {"Follower", "Candidate", "Leader"}]
  BY DEF TypeInv, TypeOK
<1>2. ASSUME UNCHANGED <<currentTerm, role>> PROVE LeadsOn
  BY <1>2 DEF LeadsOn
<1>3. ASSUME NEW n \in Nodes, Ticker(n) PROVE LeadsOn
  <2>1. CASE StartElection(n)
    BY <1>1, <2>1 DEF StartElection, LeadsOn
  <2>2. CASE TallyVotes(n)
    <3>1. currentTerm' = currentTerm
      BY <2>2 DEF TallyVotes
    <3>2. role' = role \/ (role[n] = "Candidate" /\ role' = [role EXCEPT ![n] = "Leader"])
      BY <2>2 DEF TallyVotes
    <3>3. QED
      BY <1>1, <3>1, <3>2 DEF LeadsOn
  <2>3. CASE ~StartElection(n) /\ ~TallyVotes(n)
    BY <1>2, <1>3, <2>3 DEF Ticker, BeginBallot, AskVote, PublishWin, SeeLeader, SendHeartbeats
  <2>4. QED
    BY <2>1, <2>2, <2>3
<1>4. ASSUME NEW m \in rpcs, HandleRequestVote(m) PROVE LeadsOn
  <2> DEFINE n == m.to
  <2>1. n \in Nodes /\ m.term \in Nat
    <3>1. m \in VoteRequests
      BY <1>4, RequestKinds DEF HandleRequestVote, TypeInv
    <3>2. QED
      BY <3>1 DEF VoteRequests
  <2>2. /\ currentTerm' = [currentTerm EXCEPT ![n] = AdoptedTerm(m, n)]
        /\ role' = [role EXCEPT ![n] = IF m.term > currentTerm[n] THEN "Follower" ELSE role[n]]
    BY <1>4 DEF HandleRequestVote
  <2>3. QED
    BY <1>1, <2>1, <2>2 DEF LeadsOn, AdoptedTerm
<1>5. ASSUME NEW m \in rpcs, HandleAppendEntries(m) PROVE LeadsOn
  <2> DEFINE n == m.to
  <2>1. n \in Nodes /\ m.term \in Nat
    <3>1. m \in AppendRequests
      BY <1>5, RequestKinds DEF HandleAppendEntries, TypeInv
    <3>2. QED
      BY <3>1 DEF AppendRequests
  <2>2. /\ currentTerm' = [currentTerm EXCEPT ![n] = AdoptedTerm(m, n)]
        /\ role' = [role EXCEPT ![n] = AdoptedRole(m, n)]
    BY <1>5 DEF HandleAppendEntries
  <2>3. QED
    BY <1>1, <2>1, <2>2 DEF LeadsOn, AdoptedTerm, AdoptedRole
<1>6. CASE Handler
  <2>1. ASSUME NEW m \in rpcs, HandleRepl(m) PROVE LeadsOn
    BY <1>2, <2>1 DEF HandleRepl
  <2>2. ASSUME NEW a \in appliers, TakeCommitted(a) \/ ApplyCommitted(a) PROVE LeadsOn
    BY <1>2, <2>2 DEF TakeCommitted, ApplyCommitted
  <2>3. QED
    BY <1>4, <1>5, <1>6, <2>1, <2>2 DEF Handler
<1>7. ASSUME NEW t \in Puts, PutHandler(t) PROVE LeadsOn
  BY <1>2, <1>7 DEF PutHandler, ProposeEntry, CaptureView, SendAppend, SendRepl, CommitEntry,
                    TakeOwn, ApplyOwn
<1>8. CASE \/ \E t \in Puts, n \in Nodes, k \in Keys : ReceivePut(t, n, k)
           \/ \E n \in Nodes, e \in Epochs : Promote(n, e)
           \/ \E n \in Victims : Kill(n)
           \/ UNCHANGED vars
  BY <1>2, <1>8 DEF ReceivePut, Promote, Kill, vars
<1>9. QED
  BY <1>3, <1>6, <1>7, <1>8 DEF Next

\* An entry was appended first by the node elected in its term, whose log still
\* reaches that far while it leads in that term, and no other entry was appended
\* there under the same term and index.
ProposedByElected ==
  \A t \in Puts : Stamped(t) => <<Entry(t).term, put[t].node>> \in elected

LeaderKeepsOwn ==
  \A t \in Puts :
    Stamped(t) /\ role[put[t].node] = "Leader" /\ Entry(t).term = currentTerm[put[t].node] =>
      Entry(t).index <= Len(log[put[t].node])

ProposedApart ==
  \A t, u \in Puts :
    /\ Stamped(t) /\ Stamped(u) /\ put[t].node = put[u].node
    /\ Entry(t).term = Entry(u).term /\ Entry(t).index = Entry(u).index
    => t = u

ProposalsInv == ProposedByElected /\ LeaderKeepsOwn /\ ProposedApart

\* A call stamped before the step.
LEMMA StampedStands ==
  ASSUME EntriesStand, NEW t \in Puts, Stamped(t)
  PROVE  Stamped(t)' /\ Entry(t)' = Entry(t) /\ put'[t].node = put[t].node
BY DEF EntriesStand, Stamped, Entry

\* The call that the step stamps, if any.
LEMMA NewStamp ==
  ASSUME TypeInv, CallsInv, IndexInv, NEW t \in Puts, ProposeEntry(t), Stamped(t)'
  PROVE  /\ \A u \in Puts \ {t} : put'[u] = put[u]
         /\ put'[t].node = put[t].node /\ put[t].node \in Nodes
         /\ role[put[t].node] = "Leader"
         /\ Entry(t)'.term = currentTerm[put[t].node]
         /\ Entry(t)'.index = Len(log[put[t].node]) + 1
         /\ Len(log'[put[t].node]) = Len(log[put[t].node]) + 1
         /\ UNCHANGED <<role, currentTerm, elected>>
<1> DEFINE n == put[t].node
           e == Entry(t)'
<1>1. put[t].pc \in Working /\ put[t].pc = "propose" /\ PutHandler(t)
  BY DEF ProposeEntry, Working, PutHandler
<1>2. n \in Nodes /\ log \in [Nodes -> Seq(LogEntry)] /\ log[n] \in Seq(LogEntry)
  BY <1>1, WorkerType DEF TypeInv, TypeOK
<1>3. Len(log[n]) = LastIndex(log[n])
  <2>1. Indexed(log[n])
    BY <1>2 DEF IndexInv, IndexIsPosition, Indexed
  <2>2. QED
    BY <1>2, <2>1, LastIndexIsLen
<1>4. ~(put'[t].entry = put[t].entry)
  BY <1>1 DEF Stamped, CallsInv, CallInv, Entry
<1>5. /\ role[n] = "Leader" /\ e.term = currentTerm[n] /\ e \in LogEntry
      /\ e.index = LastIndex(log[n]) + 1
      /\ log' = [log EXCEPT ![n] = Append(log[n], e)]
  BY <1>4, ProposeEntryEffect
<1> HIDE DEF e
<1>6. Len(log'[n]) = Len(log[n]) + 1
  BY <1>2, <1>5
<1>7. UNCHANGED <<role, currentTerm, elected>>
  BY DEF ProposeEntry, history
<1>8. QED
  BY <1>1, <1>2, <1>3, <1>5, <1>6, <1>7, PutHandlerEffect DEF e

LEMMA NextProposals ==
  TypeInv /\ TypeInv' /\ CallsInv /\ IndexInv /\ LeadersInv /\ ProposalsInv /\ [Next]_vars
    => ProposalsInv'
<1> SUFFICES ASSUME TypeInv, TypeInv', CallsInv, IndexInv, LeadersInv, ProposalsInv, [Next]_vars
             PROVE  ProposalsInv'
  OBVIOUS
<1>1. EntriesStand /\ StampsOnly /\ LeadsOn /\ LeaderStep /\ elected \subseteq elected'
  BY NextCalls, NextStamps, NextLeadsOn, NextLeaderStep, ElectedGrows
<1>2. /\ elected \subseteq Nat \X Nodes /\ log \in [Nodes -> Seq(LogEntry)]
      /\ put \in [Puts -> PutThreads] /\ log' \in [Nodes -> Seq(LogEntry)]
      /\ role \in [Nodes -> {"Follower", "Candidate", "Leader"}]
  BY DEF TypeInv, TypeOK
<1>3. ASSUME NEW t \in Puts, Stamped(t)
      PROVE  /\ Stamped(t)' /\ Entry(t)' = Entry(t) /\ put'[t].node = put[t].node
             /\ put[t].node \in Nodes /\ <<Entry(t).term, put[t].node>> \in elected
             /\ Entry(t).index \in Nat
  <2>1. <<Entry(t).term, put[t].node>> \in elected
    BY <1>3 DEF ProposalsInv, ProposedByElected
  <2>2. Entry(t) \in LogEntry
    BY <1>2, <1>3 DEF Stamped, Entry, PutThreads
  <2>3. QED
    BY <1>1, <1>2, <1>3, <2>1, <2>2, StampedStands DEF LogEntry
<1>4. ASSUME NEW t \in Puts, Stamped(t)', ~Stamped(t)
      PROVE  ProposeEntry(t)
  BY <1>1, <1>4 DEF StampsOnly
<1>5. ProposedByElected'
  <2>1. ASSUME NEW t \in Puts, Stamped(t)'
        PROVE  <<Entry(t)'.term, put'[t].node>> \in elected'
    <3>1. CASE Stamped(t)
      BY <1>1, <1>3, <3>1
    <3>2. CASE ~Stamped(t)
      BY <1>1, <1>4, <2>1, <3>2, NewStamp DEF LeadersInv
    <3>3. QED
      BY <3>1, <3>2
  <2>2. QED
    BY <2>1 DEF ProposedByElected
<1>6. LeaderKeepsOwn'
  <2>1. ASSUME NEW t \in Puts, Stamped(t)', role'[put'[t].node] = "Leader",
               Entry(t)'.term = currentTerm'[put'[t].node]
        PROVE  Entry(t)'.index <= Len(log'[put'[t].node])
    <3> DEFINE n == put[t].node
    <3>1. CASE Stamped(t)
      <4>1. n \in Nodes /\ role'[n] = "Leader" /\ Entry(t).term = currentTerm'[n]
            /\ Entry(t)' = Entry(t) /\ put'[t].node = n /\ Entry(t).index \in Nat
        BY <1>3, <2>1, <3>1
      <4>2. currentTerm'[n] = currentTerm[n] /\ role[n] # "Follower"
        BY <1>1, <4>1 DEF LeadsOn
      <4>3. role[n] # "Candidate"
        <5>1. <<currentTerm[n], n>> \in elected
          BY <1>3, <3>1, <4>1, <4>2
        <5>2. <<currentTerm[n], n>>[1] = currentTerm[n] /\ <<currentTerm[n], n>>[2] = n
          OBVIOUS
        <5>3. QED
          BY <5>1, <5>2 DEF LeadersInv
      <4>4. role[n] = "Leader"
        BY <1>2, <4>1, <4>2, <4>3
      <4>5. Entry(t).index <= Len(log[n])
        BY <3>1, <4>1, <4>2, <4>4 DEF ProposalsInv, LeaderKeepsOwn
      <4>6. log'[n] = log[n] \/ \E u \in Puts : log'[n] = Append(log[n], Entry(u)')
        BY <1>1, <4>1, <4>4 DEF LeaderStep
      <4>7. Len(log[n]) <= Len(log'[n]) /\ Len(log[n]) \in Nat /\ Len(log'[n]) \in Nat
        <5>1. log[n] \in Seq(LogEntry) /\ log'[n] \in Seq(LogEntry)
          BY <1>2, <4>1
        <5>2. \A d : Len(Append(log[n], d)) = Len(log[n]) + 1
          BY <5>1
        <5>3. QED
          BY <4>6, <5>1, <5>2
      <4>8. QED
        BY <4>1, <4>5, <4>7
    <3>2. CASE ~Stamped(t)
      <4>1. /\ put'[t].node = n /\ Entry(t)'.index = Len(log[n]) + 1
            /\ Len(log'[n]) = Len(log[n]) + 1 /\ n \in Nodes
        BY <1>4, <2>1, <3>2, NewStamp
      <4>2. Len(log[n]) \in Nat
        BY <1>2, <4>1
      <4>3. QED
        BY <4>1, <4>2
    <3>3. QED
      BY <3>1, <3>2
  <2>2. QED
    BY <2>1 DEF LeaderKeepsOwn
<1>7. ProposedApart'
  <2>1. ASSUME NEW t \in Puts, NEW u \in Puts, t # u, Stamped(t)', Stamped(u)', ~Stamped(t),
               put'[t].node = put'[u].node, Entry(t)'.term = Entry(u)'.term
        PROVE  Entry(t)'.index # Entry(u)'.index
    <3> DEFINE n == put[t].node
    <3>1. /\ put'[u] = put[u] /\ put'[t].node = n /\ n \in Nodes /\ role[n] = "Leader"
          /\ Entry(t)'.term = currentTerm[n] /\ Entry(t)'.index = Len(log[n]) + 1
      BY <1>4, <2>1, NewStamp
    <3>2. Stamped(u) /\ Entry(u)' = Entry(u)
      BY <2>1, <3>1 DEF Stamped, Entry
    <3>3. put[u].node = n /\ Entry(u).term = currentTerm[n] /\ Entry(u).index \in Nat
      BY <1>3, <2>1, <3>1, <3>2
    <3>4. Entry(u).index <= Len(log[n])
      BY <3>1, <3>2, <3>3, Zenon DEF ProposalsInv, LeaderKeepsOwn
    <3>5. log[n] \in Seq(LogEntry)
      BY <1>2, <3>1
    <3>6. Len(log[n]) \in Nat
      BY <3>5
    <3>7. QED
      BY <3>1, <3>2, <3>3, <3>4, <3>6
  <2>2. ASSUME NEW t \in Puts, NEW u \in Puts, Stamped(t), Stamped(u),
               put'[t].node = put'[u].node, Entry(t)'.term = Entry(u)'.term,
               Entry(t)'.index = Entry(u)'.index
        PROVE  t = u
    BY <1>3, <2>2 DEF ProposalsInv, ProposedApart
  <2>3. ASSUME NEW t \in Puts, NEW u \in Puts, Stamped(t)', Stamped(u)',
               put'[t].node = put'[u].node, Entry(t)'.term = Entry(u)'.term,
               Entry(t)'.index = Entry(u)'.index
        PROVE  t = u
    <3>1. CASE Stamped(t) /\ Stamped(u)
      BY <2>2, <2>3, <3>1
    <3>2. CASE ~Stamped(t)
      BY <2>1, <2>3, <3>2
    <3>3. CASE ~Stamped(u)
      <4>1. put'[u].node = put'[t].node /\ Entry(u)'.term = Entry(t)'.term
            /\ Entry(u)'.index = Entry(t)'.index
        BY <2>3
      <4>2. QED
        BY <2>1, <2>3, <3>3, <4>1
    <3>4. QED
      BY <3>1, <3>2, <3>3
  <2>4. QED
    BY <2>3 DEF ProposedApart
<1>8. QED
  BY <1>5, <1>6, <1>7 DEF ProposalsInv

LEMMA InitProposals == Init => ProposalsInv
BY DEF Init, ProposalsInv, ProposedByElected, LeaderKeepsOwn, ProposedApart, Stamped, UnsentPut

LEMMA ProposalsInvariant == Spec => []ProposalsInv
BY InitProposals, NextProposals, TypeInvInvariant, CallsInvariant, IndexInvInvariant,
   LeadersInvariant, PTL DEF Spec

\* A copy is the entry of its call.
LEMMA CopyIsStamped ==
  ASSUME TypeInv, NEW e, IsCopy(put, e)
  PROVE  e.val \in Puts /\ Stamped(e.val) /\ Entry(e.val) = e
<1>1. DOMAIN put = Puts
  BY DEF TypeInv, TypeOK
<1>2. e.val \in Puts /\ put[e.val].entry = <<e>> /\ e.index > 0
  BY <1>1 DEF IsCopy
<1>3. <<e>> # <<>> /\ <<e>>[1] = e
  OBVIOUS
<1>4. QED
  BY <1>2, <1>3 DEF Stamped, Entry

LEMMA OneEntryPerIndexAndTerm ==
  TypeInv /\ CallsInv /\ CopiesInv /\ ProposalsInv /\ ElectionSafety => EntryIdentity
<1> SUFFICES ASSUME TypeInv, CallsInv, CopiesInv, ProposalsInv, ElectionSafety
             PROVE  EntryIdentity
  OBVIOUS
<1> DEFINE logged == (UNION {{log[n][i] : i \in 1..Len(log[n])} : n \in Nodes})
           held == {Entry(t) : t \in {u \in Puts : /\ put[u].entry # <<>>
                                                  /\ Entry(u).index # 0}}
<1>1. ASSUME NEW e \in logged \cup held
      PROVE  \E t \in Puts : Stamped(t) /\ Entry(t) = e
  <2>1. CASE e \in logged
    <3>1. PICK n \in Nodes : \E i \in 1..Len(log[n]) : e = log[n][i]
      BY <2>1
    <3>2. IsCopy(put, e)
      BY <3>1 DEF CopiesInv, AllCopies
    <3>3. QED
      BY <3>2, CopyIsStamped
  <2>2. CASE e \in held
    <3>1. PICK t \in Puts : put[t].entry # <<>> /\ Entry(t).index # 0 /\ e = Entry(t)
      BY <2>2
    <3>2. Entry(t).index \in Nat
      <4>1. put[t].entry \in Seq(LogEntry)
        BY DEF TypeInv, TypeOK, PutThreads
      <4>2. Entry(t) \in LogEntry
        BY <3>1, <4>1 DEF Entry
      <4>3. QED
        BY <4>2 DEF LogEntry
    <3>3. QED
      BY <3>1, <3>2 DEF Stamped
  <2>3. QED
    BY <2>1, <2>2
<1>2. ASSUME NEW d \in logged \cup held, NEW e \in logged \cup held,
             d.index = e.index, d.term = e.term
      PROVE  d = e
  <2>1. PICK t \in Puts : Stamped(t) /\ Entry(t) = d
    BY <1>1
  <2>2. PICK u \in Puts : Stamped(u) /\ Entry(u) = e
    BY <1>1
  <2>3. <<d.term, put[t].node>> \in elected /\ <<e.term, put[u].node>> \in elected
    BY <2>1, <2>2 DEF ProposalsInv, ProposedByElected
  <2>4. put[t].node = put[u].node
    <3>1. /\ <<d.term, put[t].node>>[1] = d.term /\ <<d.term, put[t].node>>[2] = put[t].node
          /\ <<e.term, put[u].node>>[1] = e.term /\ <<e.term, put[u].node>>[2] = put[u].node
      OBVIOUS
    <3>2. QED
      BY <1>2, <2>3, <3>1 DEF ElectionSafety
  <2>5. t = u
    BY <1>2, <2>1, <2>2, <2>4 DEF ProposalsInv, ProposedApart
  <2>6. QED
    BY <2>1, <2>2, <2>5
<1> HIDE DEF logged, held
<1>3. EntryIdentity <=>
        \A d, e \in logged \cup held : d.index = e.index /\ d.term = e.term => d = e
  BY DEF EntryIdentity, logged, held
<1>4. QED
  BY <1>2, <1>3

\* A term and an index name one entry, in every log, request and handler: the mutex
\* around append_entry and the elections together leave no two handlers that would
\* give different entries the same identity.
THEOREM EntriesUnique == Spec => []EntryIdentity
BY TypeInvInvariant, CallsInvariant, CopiesInvariant, ProposalsInvariant, ElectionsSafe,
   OneEntryPerIndexAndTerm, PTL

\* What the catalogs hold was put: each value under its key and index, by a call
\* whose entry the node elected in its term had appended to its log.
CatalogProvenance ==
  \A n \in Nodes : \A c \in catLog[n] :
    /\ Stamped(c.val) /\ Entry(c.val).index = c.index /\ Entry(c.val).key = c.key
    /\ <<Entry(c.val).term, put[c.val].node>> \in elected

LEMMA CatalogsFromCalls == TypeInv /\ CopiesInv /\ ProposalsInv => CatalogProvenance
<1> SUFFICES ASSUME TypeInv, CopiesInv, ProposalsInv, NEW n \in Nodes, NEW c \in catLog[n]
             PROVE  /\ Stamped(c.val) /\ Entry(c.val).index = c.index /\ Entry(c.val).key = c.key
                    /\ <<Entry(c.val).term, put[c.val].node>> \in elected
  BY DEF CatalogProvenance
<1>1. DOMAIN put = Puts
  BY DEF TypeInv, TypeOK
<1>2. HasPut(put, c.val, c.key) /\ put[c.val].entry[1].index = c.index
  BY DEF CopiesInv, CatalogCopies
<1>3. c.val \in Puts /\ Stamped(c.val) /\ Entry(c.val).index = c.index /\ Entry(c.val).key = c.key
  BY <1>1, <1>2 DEF HasPut, Stamped, Entry
<1>4. QED
  BY <1>3 DEF ProposalsInv, ProposedByElected

\* Nothing enters a catalog, by apply_committed or by OP_REPL, committed or not, that
\* no elected leader has put into its log first.
THEOREM CatalogsHoldProposals == Spec => []CatalogProvenance
BY TypeInvInvariant, CopiesInvariant, ProposalsInvariant, CatalogsFromCalls, PTL

-----------------------------------------------------------------------------
(* Where terms and epochs come from.                                       *)

Given == {1} \cup Epochs \cup {x[1] : x \in elected}

\* What is on its way to becoming an epoch: the term of an election to publish and
\* the epoch a handler has read.
EpochsGiven ==
  /\ \A n \in Nodes : epoch[n] \in Given
  /\ \A m \in rpcs : m.type = "Repl" => m.epoch \in Given
  /\ \A n \in Nodes : tick[n].pc = "won" => tick[n].term \in Given
  /\ \A t \in Puts : put[t].pc \in {"next", "append", "repl"} => put[t].view.epoch \in Given

LEMMA GivenGrows ==
  ASSUME elected \subseteq elected'
  PROVE  Given \subseteq Given'
BY DEF Given

\* The thread of a call after a step of that thread.
LEMMA PutHandlerView ==
  ASSUME TypeInv, NEW t \in Puts, PutHandler(t)
  PROVE  /\ \A u \in Puts \ {t} : put'[u] = put[u]
         /\ put'[t].pc \in {"next", "append", "repl"} =>
              \/ put'[t].view.epoch = epoch[put[t].node]
              \/ put[t].pc \in {"next", "append", "repl"} /\ put'[t].view = put[t].view
<1>1. put \in [Puts -> PutThreads] /\ put[t] \in PutThreads
  BY DEF TypeInv, TypeOK
<1>2. CASE ProposeEntry(t)
  <2>1. \/ Answer(t, "not_leader")
        \/ \E e : put' = [put EXCEPT ![t].pc = "capture", ![t].entry = <<e>>]
    BY <1>2 DEF ProposeEntry
  <2>2. put'[t].pc \in {"done", "capture"}
    BY <1>1, <2>1, AnswerEffect DEF PutThreads
  <2>3. QED
    BY <2>2, PutHandlerEffect
<1>3. CASE CaptureView(t)
  <2>1. put'[t].view = [term |-> currentTerm[put[t].node], epoch |-> epoch[put[t].node]]
    BY <1>1, <1>3 DEF CaptureView, PutThreads
  <2>2. QED
    BY <2>1, PutHandlerEffect
<1>4. CASE SendRepl(t)
  BY <1>1, <1>4, PutHandlerEffect DEF SendRepl, PutThreads
<1>5. CASE \E p \in Nodes : SendAppend(t, p)
  <2>1. put[t].pc \in {"next", "repl"}
    BY <1>5 DEF SendAppend
  <2>2. PICK p : put' = [put EXCEPT ![t].pc = "append", ![t].peer = p, ![t].todo = @ \ {p}]
    BY <1>5 DEF SendAppend
  <2>3. put' = [put EXCEPT ![t] = [put[t] EXCEPT !.pc = "append", !.peer = p, !.todo = @ \ {p}]]
    BY <1>1, <2>2 DEF PutThreads
  <2>4. put'[t].view = put[t].view
    BY <1>1, <2>3 DEF PutThreads
  <2>5. QED
    BY <2>1, <2>4, PutHandlerEffect
<1>6. CASE CommitEntry(t)
  <2>1. \/ Answer(t, "fenced") \/ Answer(t, "not_leader")
        \/ put' = [put EXCEPT ![t].pc = "take", ![t].peer = NoNode, ![t].acks = {}]
    BY <1>6 DEF CommitEntry
  <2>2. put'[t].pc \in {"done", "take"}
    BY <1>1, <2>1, AnswerEffect DEF PutThreads
  <2>3. QED
    BY <2>2, PutHandlerEffect
<1>7. CASE TakeOwn(t)
  <2>1. \/ Answer(t, "committed")
        \/ \E q : put' = [put EXCEPT ![t].pc = "apply", ![t].pending = q]
    BY <1>7 DEF TakeOwn
  <2>2. put'[t].pc \in {"done", "apply"}
    BY <1>1, <2>1, AnswerEffect DEF PutThreads
  <2>3. QED
    BY <2>2, PutHandlerEffect
<1>8. CASE ApplyOwn(t)
  <2>1. put[t].pc = "apply"
    BY <1>8 DEF ApplyOwn
  <2>2. Answer(t, "committed") \/ put' = [put EXCEPT ![t].pending = Tail(@)]
    BY <1>8 DEF ApplyOwn
  <2>3. put'[t].pc \in {"done", "apply"}
    BY <1>1, <2>1, <2>2, AnswerEffect DEF PutThreads
  <2>4. QED
    BY <2>3, PutHandlerEffect
<1>9. QED
  BY <1>2, <1>3, <1>4, <1>5, <1>6, <1>7, <1>8 DEF PutHandler

\* A step that makes up no epoch.
LEMMA EpochsKept ==
  ASSUME EpochsGiven, elected \subseteq elected',
         \A n \in Nodes : epoch'[n] = epoch[n] \/ epoch'[n] \in Given,
         \A m \in rpcs' : m \in rpcs \/ m.type # "Repl" \/ m.epoch \in Given,
         \A n \in Nodes : tick'[n].pc = "won" =>
           tick'[n].term \in Given' \/ (tick[n].pc = "won" /\ tick'[n].term = tick[n].term),
         \A t \in Puts : put'[t].pc \in {"next", "append", "repl"} =>
           \/ put'[t].view.epoch \in Given
           \/ put[t].pc \in {"next", "append", "repl"} /\ put'[t].view = put[t].view
  PROVE  EpochsGiven'
<1>1. Given \subseteq Given'
  BY GivenGrows
<1>2. /\ \A n \in Nodes : epoch'[n] \in Given'
      /\ \A m \in rpcs' : m.type = "Repl" => m.epoch \in Given'
  BY <1>1 DEF EpochsGiven
<1>3. /\ \A n \in Nodes : tick'[n].pc = "won" => tick'[n].term \in Given'
      /\ \A t \in Puts : put'[t].pc \in {"next", "append", "repl"} => put'[t].view.epoch \in Given'
  BY <1>1 DEF EpochsGiven
<1> HIDE DEF Given
<1>4. QED
  BY <1>2, <1>3 DEF EpochsGiven

LEMMA TickerEpochs ==
  ASSUME TypeInv, EpochsGiven, NEW n \in Nodes, Ticker(n), elected \subseteq elected'
  PROVE  EpochsGiven'
<1> USE DEF raftVars, stateVars, history
<1>1. tick \in [Nodes -> Ticks] /\ tick[n] \in Ticks /\ epoch \in [Nodes -> Nat]
  BY DEF TypeInv, TypeOK
<1>2. put' = put
  BY DEF Ticker, StartElection, BeginBallot, AskVote, TallyVotes, PublishWin, SeeLeader,
         SendHeartbeats
<1>3. \A m \in rpcs' : m \in rpcs \/ m.type # "Repl"
  <2>1. CASE SendHeartbeats(n)
    BY <2>1 DEF SendHeartbeats
  <2>2. ASSUME NEW p \in Nodes, AskVote(n, p) PROVE \A m \in rpcs' : m \in rpcs \/ m.type # "Repl"
    BY <2>2 DEF AskVote
  <2>3. CASE StartElection(n) \/ BeginBallot(n) \/ TallyVotes(n) \/ PublishWin(n) \/ SeeLeader(n)
    BY <2>3 DEF StartElection, BeginBallot, TallyVotes, PublishWin, SeeLeader
  <2>4. QED
    BY <2>1, <2>2, <2>3 DEF Ticker
<1>4. \A p \in Nodes : epoch'[p] = epoch[p] \/ epoch'[p] \in Given
  <2>1. CASE PublishWin(n)
    <3>1. epoch' = [epoch EXCEPT ![n] = tick[n].term] /\ tick[n].pc = "won"
      BY <2>1 DEF PublishWin
    <3>2. tick[n].term \in Given
      BY <3>1 DEF EpochsGiven
    <3>3. QED
      BY <1>1, <3>1, <3>2
  <2>2. CASE ~PublishWin(n)
    BY <2>2 DEF Ticker, StartElection, BeginBallot, AskVote, TallyVotes, SeeLeader, SendHeartbeats
  <2>3. QED
    BY <2>1, <2>2
<1>5. \A p \in Nodes : tick'[p].pc = "won" =>
        tick'[p].term \in Given' \/ (tick[p].pc = "won" /\ tick'[p].term = tick[p].term)
  <2>0. Rested(n).pc = "idle"
    BY DEF Rested, IdleTicker
  <2>1. CASE TallyVotes(n)
    <3>1. \/ /\ tick' = [tick EXCEPT ![n] = [Rested(n) EXCEPT !.pc = "won", !.term = currentTerm[n]]]
             /\ elected' = elected \cup {<<currentTerm[n], n>>}
          \/ tick' = [tick EXCEPT ![n] = Rested(n)]
      BY <2>1 DEF TallyVotes
    <3>2. CASE /\ tick' = [tick EXCEPT ![n] = [Rested(n) EXCEPT !.pc = "won", !.term = currentTerm[n]]]
               /\ elected' = elected \cup {<<currentTerm[n], n>>}
      <4>1. [Rested(n) EXCEPT !.pc = "won", !.term = currentTerm[n]].term = currentTerm[n]
        BY DEF Rested, IdleTicker
      <4>2. <<currentTerm[n], n>>[1] = currentTerm[n] /\ <<currentTerm[n], n>> \in elected'
        BY <3>2
      <4>3. currentTerm[n] \in Given'
        BY <4>2 DEF Given
      <4>4. QED
        BY <1>1, <3>2, <4>1, <4>3
    <3>3. CASE tick' = [tick EXCEPT ![n] = Rested(n)]
      BY <1>1, <2>0, <3>3
    <3>4. QED
      BY <3>1, <3>2, <3>3
  <2>2. CASE StartElection(n)
    BY <2>2 DEF StartElection
  <2>3. CASE BeginBallot(n)
    <3>1. tick'[n].pc = "ballot" /\ \A p \in Nodes \ {n} : tick'[p] = tick[p]
      BY <1>1, <2>3 DEF BeginBallot, Ticks
    <3>2. QED
      BY <3>1
  <2>4. CASE \E p \in Nodes : AskVote(n, p)
    <3>1. PICK p \in Nodes : AskVote(n, p)
      BY <2>4
    <3>2. tick' = [tick EXCEPT ![n] = [tick[n] EXCEPT !.todo = @ \ {p}, !.peer = p]]
      BY <1>1, <3>1 DEF AskVote, Ticks
    <3>3. tick'[n].pc = tick[n].pc /\ tick'[n].term = tick[n].term
          /\ \A q \in Nodes \ {n} : tick'[q] = tick[q]
      BY <1>1, <3>2 DEF Ticks
    <3>4. QED
      BY <3>3
  <2>5. CASE PublishWin(n) \/ SendHeartbeats(n)
    <3>1. tick' = [tick EXCEPT ![n] = Rested(n)]
      BY <2>5 DEF PublishWin, SendHeartbeats
    <3>2. QED
      BY <1>1, <2>0, <3>1
  <2>6. CASE SeeLeader(n)
    <3>1. tick'[n].pc = "beat" /\ \A p \in Nodes \ {n} : tick'[p] = tick[p]
      BY <1>1, <2>6 DEF SeeLeader, Ticks
    <3>2. QED
      BY <3>1
  <2>7. QED
    BY <2>1, <2>2, <2>3, <2>4, <2>5, <2>6 DEF Ticker
<1>6. QED
  BY <1>2, <1>3, <1>4, <1>5, EpochsKept

LEMMA NextEpochs == TypeInv /\ EpochsGiven /\ [Next]_vars => EpochsGiven'
<1> SUFFICES ASSUME TypeInv, EpochsGiven, [Next]_vars PROVE EpochsGiven'
  OBVIOUS
<1> USE DEF raftVars, stateVars, history
<1>1. elected \subseteq elected'
  BY ElectedGrows
<1>2. epoch \in [Nodes -> Nat] /\ put \in [Puts -> PutThreads] /\ appliers \subseteq Appliers
  BY DEF TypeInv, TypeOK
<1>3. CASE Handler
  <2>1. ASSUME NEW m \in rpcs, HandleRequestVote(m) PROVE EpochsGiven'
    <3>1. UNCHANGED <<epoch, put>> /\ rpcs' \subseteq rpcs
      BY <2>1 DEF HandleRequestVote
    <3>2. \A n \in Nodes : tick'[n].pc = tick[n].pc /\ tick'[n].term = tick[n].term
      <4>1. m \in VoteRequests
        BY <2>1, RequestKinds DEF HandleRequestVote, TypeInv
      <4>2. m.from \in Nodes
        BY <4>1 DEF VoteRequests
      <4>3. tick \in [Nodes -> Ticks]
        BY DEF TypeInv, TypeOK
      <4>4. tick' = tick \/ \E v : tick' = [tick EXCEPT ![m.from].votes = v]
        BY <2>1 DEF HandleRequestVote
      <4>5. ASSUME NEW v, tick' = [tick EXCEPT ![m.from].votes = v], NEW n \in Nodes
            PROVE  tick'[n].pc = tick[n].pc /\ tick'[n].term = tick[n].term
        BY <4>2, <4>3, <4>5 DEF Ticks
      <4>6. QED
        BY <4>4, <4>5
    <3>3. QED
      BY <1>1, <3>1, <3>2, EpochsKept
  <2>2. ASSUME NEW m \in rpcs, HandleAppendEntries(m) PROVE EpochsGiven'
    BY <1>1, <2>2, EpochsKept DEF HandleAppendEntries
  <2>3. ASSUME NEW m \in rpcs, HandleRepl(m) PROVE EpochsGiven'
    <3>1. m.to \in Nodes /\ m.by \in Puts /\ m.type = "Repl"
      <4>1. m \in ReplRequests
        BY <2>3, RequestKinds DEF HandleRepl, TypeInv
      <4>2. QED
        BY <4>1 DEF ReplRequests
    <3>2. /\ (put' = put \/ put' = [put EXCEPT ![m.by].acks = @ \cup {m.to}])
          /\ (epoch' = epoch \/ epoch' = [epoch EXCEPT ![m.to] = m.epoch])
          /\ rpcs' \subseteq rpcs /\ tick' = tick
      BY <2>3 DEF HandleRepl
    <3>3. m.epoch \in Given
      BY <3>1 DEF EpochsGiven
    <3>4. \A n \in Nodes : epoch'[n] = epoch[n] \/ epoch'[n] \in Given
      BY <1>2, <3>1, <3>2, <3>3
    <3>5. \A t \in Puts : put'[t].pc = put[t].pc /\ put'[t].view = put[t].view
      <4>1. CASE put' = put
        BY <4>1
      <4>2. CASE put' = [put EXCEPT ![m.by].acks = @ \cup {m.to}]
        BY <3>1, <4>2, AcksType
      <4>3. QED
        BY <3>2, <4>1, <4>2
    <3>6. QED
      BY <1>1, <3>2, <3>4, <3>5, EpochsKept
  <2>4. ASSUME NEW a \in appliers, TakeCommitted(a) \/ ApplyCommitted(a) PROVE EpochsGiven'
    <3>1. UNCHANGED <<epoch, rpcs, tick>> /\ (put' = put \/ AnswerAppend(a))
      BY <2>4 DEF TakeCommitted, ApplyCommitted
    <3>2. a \in Appliers
      BY <1>2
    <3>3. \A t \in Puts : put'[t].pc = put[t].pc /\ put'[t].view = put[t].view
      BY <3>1, <3>2, AnswerAppendType
    <3>4. QED
      BY <1>1, <3>1, <3>3, EpochsKept
  <2>5. QED
    BY <1>3, <2>1, <2>2, <2>3, <2>4 DEF Handler
<1>4. ASSUME NEW t \in Puts, PutHandler(t) PROVE EpochsGiven'
  <2>1. UNCHANGED <<epoch, tick>>
    BY <1>4 DEF PutHandler, ProposeEntry, CaptureView, SendAppend, SendRepl, CommitEntry,
                TakeOwn, ApplyOwn
  <2>2. ASSUME NEW m \in rpcs', m \notin rpcs, m.type = "Repl"
        PROVE  m.epoch \in Given
    <3>1. CASE SendRepl(t)
      <4>1. m.epoch = put[t].view.epoch /\ put[t].pc = "append"
        BY <2>2, <3>1 DEF SendRepl
      <4>2. QED
        BY <4>1 DEF EpochsGiven
    <3>2. CASE \E p \in Nodes : SendAppend(t, p)
      <4>1. PICK p \in Nodes : SendAppend(t, p)
        BY <3>2
      <4>2. \E c, i, d, w :
              rpcs' = rpcs \cup
                {[type |-> "AppendEntries", by |-> t, from |-> put[t].node, to |-> p, round |-> 0,
                  term |-> c, prevIndex |-> i, prevTerm |-> d, entries |-> put[t].entry,
                  commit |-> w]}
        BY <4>1, Zenon DEF SendAppend
      <4>3. QED
        BY <2>2, <4>2
    <3>3. CASE ProposeEntry(t) \/ CaptureView(t) \/ CommitEntry(t) \/ TakeOwn(t) \/ ApplyOwn(t)
      BY <2>2, <3>3 DEF ProposeEntry, CaptureView, CommitEntry, TakeOwn, ApplyOwn
    <3>4. QED
      BY <1>4, <3>1, <3>2, <3>3 DEF PutHandler
  <2>3. \A u \in Puts : put'[u].pc \in {"next", "append", "repl"} =>
          \/ put'[u].view.epoch \in Given
          \/ put[u].pc \in {"next", "append", "repl"} /\ put'[u].view = put[u].view
    <3>1. put'[t].pc \in {"next", "append", "repl"} => put[t].node \in Nodes
      <4>1. put[t].pc \in Working
        BY <1>4, PutHandlerEffect
      <4>2. QED
        BY <4>1 DEF TypeInv, ThreadInv
    <3>2. QED
      BY <1>4, <3>1, PutHandlerView DEF EpochsGiven
  <2>4. QED
    BY <1>1, <2>1, <2>2, <2>3, EpochsKept
<1>5. ASSUME NEW t \in Puts, NEW n \in Nodes, NEW k \in Keys, ReceivePut(t, n, k)
      PROVE  EpochsGiven'
  <2>1. put'[t].pc \in {"propose", "done"} /\ \A u \in Puts \ {t} : put'[u] = put[u]
    BY <1>2, <1>5 DEF ReceivePut, PutThreads
  <2>2. UNCHANGED <<epoch, tick, rpcs>>
    BY <1>5 DEF ReceivePut
  <2>3. QED
    BY <1>1, <2>1, <2>2, EpochsKept
<1>6. ASSUME NEW n \in Nodes, NEW e \in Epochs, Promote(n, e) PROVE EpochsGiven'
  <2>1. e \in Given
    BY DEF Given
  <2>2. \A p \in Nodes : epoch'[p] = epoch[p] \/ epoch'[p] \in Given
    BY <1>2, <1>6, <2>1 DEF Promote
  <2>3. UNCHANGED <<tick, rpcs, put>>
    BY <1>6 DEF Promote
  <2>4. QED
    BY <1>1, <2>2, <2>3, EpochsKept
<1>7. CASE \/ \E n \in Victims : Kill(n)
           \/ UNCHANGED vars
  BY <1>1, <1>7, EpochsKept DEF Kill, vars
<1>8. QED
  BY <1>1, <1>3, <1>4, <1>5, <1>6, <1>7, TickerEpochs DEF Next

LEMMA InitEpochs == Init => EpochsGiven
BY DEF Init, EpochsGiven, Given, IdleTicker, UnsentPut

LEMMA EpochsInvariant == Spec => []EpochsGiven
BY TypeInvInvariant, InitEpochs, NextEpochs, PTL DEF Spec

LEMMA OriginsHold == TypeInv /\ CopiesInv /\ ProposalsInv /\ EpochsGiven => Origins
<1> SUFFICES ASSUME TypeInv, CopiesInv, ProposalsInv, EpochsGiven PROVE Origins
  OBVIOUS
<1>1. ASSUME NEW n \in Nodes, NEW i \in 1..Len(log[n])
      PROVE  <<log[n][i].term, put[log[n][i].val].node>> \in elected
  <2> DEFINE e == log[n][i]
  <2>1. IsCopy(put, e)
    BY <1>1 DEF CopiesInv, AllCopies
  <2> HIDE DEF e
  <2>2. e.val \in Puts /\ Stamped(e.val) /\ Entry(e.val) = e
    BY <2>1, CopyIsStamped
  <2>3. <<e.term, put[e.val].node>> \in elected
    BY <2>2 DEF ProposalsInv, ProposedByElected
  <2>4. QED
    BY <2>3 DEF e
<1>2. EpochOrigin
  BY DEF EpochOrigin, EpochsGiven, Given
<1>3. QED
  BY <1>1, <1>2 DEF Origins, EntryProvenance

\* The term of an entry in a log is one its proposer was elected in, and an epoch a
\* node fences with one that somebody was elected or promoted for, although
\* leader_propose and tick read terms and epochs after they have given up the lock.
THEOREM TermsAndEpochsGiven == Spec => []Origins
BY TypeInvInvariant, CopiesInvariant, ProposalsInvariant, EpochsInvariant, OriginsHold, PTL

-----------------------------------------------------------------------------
(* Entries on their way into the catalog.                                  *)

Indexes(s) == {s[i].index : i \in 1..Len(s)}

\* TakenOnce, and a handler that has not taken entries yet has none.
TakenInv ==
  /\ \A a \in appliers : Indexes(a.pending) \subseteq 1..lastApplied[a.to]
  /\ \A t \in Puts : put[t].pc = "apply" =>
       Indexes(put[t].pending) \subseteq 1..lastApplied[put[t].node]
  /\ \A a, b \in appliers : a # b /\ a.to = b.to =>
       Indexes(a.pending) \cap Indexes(b.pending) = {}
  /\ \A t, u \in Puts : t # u /\ put[t].node = put[u].node =>
       Indexes(put[t].pending) \cap Indexes(put[u].pending) = {}
  /\ \A a \in appliers, t \in Puts : a.to = put[t].node =>
       Indexes(a.pending) \cap Indexes(put[t].pending) = {}
  /\ \A a \in appliers : ~a.taken => a.pending = <<>>

LEMMA NoIndexes == Indexes(<<>>) = {}
BY DEF Indexes

LEMMA TailIndexes ==
  ASSUME NEW q \in Seq(LogEntry), q # <<>>
  PROVE  Indexes(Tail(q)) \subseteq Indexes(q)
<1>1. /\ Len(Tail(q)) = Len(q) - 1 /\ Len(q) \in Nat
      /\ \A i \in 1..Len(Tail(q)) : Tail(q)[i] = q[i + 1]
  BY HeadTailProperties
<1>2. \A i \in 1..Len(Tail(q)) : i + 1 \in 1..Len(q)
  BY <1>1
<1>3. QED
  BY <1>1, <1>2 DEF Indexes

LEMMA TakenInvTakenOnce == TakenInv => TakenOnce
BY DEF TakenInv, TakenOnce, Indexes

\* What TakenInv relates: the nodes, and what is applied there only grows.
LEMMA AppliedGrows ==
  ASSUME TypeInv, TypeInv', \A n \in Nodes : lastApplied'[n] >= lastApplied[n]
  PROVE  /\ \A n \in Nodes : 1..lastApplied[n] \subseteq 1..lastApplied'[n]
         /\ \A a \in appliers : a.to \in Nodes
         /\ \A a \in appliers' : a.to \in Nodes
         /\ \A t \in Puts : put[t].pc = "apply" => put[t].node \in Nodes
<1>1. /\ lastApplied \in [Nodes -> Nat] /\ lastApplied' \in [Nodes -> Nat]
      /\ appliers \subseteq Appliers /\ appliers' \subseteq Appliers
  BY DEF TypeInv, TypeOK
<1>2. \A n \in Nodes : 1..lastApplied[n] \subseteq 1..lastApplied'[n]
  BY <1>1
<1>3. \A t \in Puts : put[t].pc = "apply" => put[t].node \in Nodes
  BY DEF TypeInv, ThreadInv, Working
<1>4. QED
  BY <1>1, <1>2, <1>3 DEF Appliers

\* Nothing is taken, or something is done with.
LEMMA TakenKept ==
  ASSUME TypeInv, TypeInv', TakenInv, \A n \in Nodes : lastApplied'[n] >= lastApplied[n],
         \A x \in appliers' : x \in appliers \/ x.pending = <<>>,
         \A t \in Puts :
           \/ put'[t].pc = put[t].pc /\ put'[t].node = put[t].node /\ put'[t].pending = put[t].pending
           \/ put'[t].pending = <<>>
  PROVE  TakenInv'
<1>1. /\ \A n \in Nodes : 1..lastApplied[n] \subseteq 1..lastApplied'[n]
      /\ \A a \in appliers : a.to \in Nodes
      /\ \A t \in Puts : put[t].pc = "apply" => put[t].node \in Nodes
  BY AppliedGrows
<1>2. \A a \in appliers' : Indexes(a.pending) \subseteq 1..lastApplied'[a.to]
  BY <1>1, NoIndexes DEF TakenInv
<1>3. \A t \in Puts : put'[t].pc = "apply" =>
        Indexes(put'[t].pending) \subseteq 1..lastApplied'[put'[t].node]
  BY <1>1, NoIndexes DEF TakenInv
<1>4. \A a, b \in appliers' : a # b /\ a.to = b.to =>
        Indexes(a.pending) \cap Indexes(b.pending) = {}
  BY NoIndexes DEF TakenInv
<1>5. \A t, u \in Puts : t # u /\ put'[t].node = put'[u].node =>
        Indexes(put'[t].pending) \cap Indexes(put'[u].pending) = {}
  BY NoIndexes DEF TakenInv
<1>6. \A a \in appliers', t \in Puts : a.to = put'[t].node =>
        Indexes(a.pending) \cap Indexes(put'[t].pending) = {}
  BY NoIndexes DEF TakenInv
<1>7. \A a \in appliers' : ~a.taken => a.pending = <<>>
  BY DEF TakenInv
<1>8. QED
  BY <1>2, <1>3, <1>4, <1>5, <1>6, <1>7 DEF TakenInv

\* A handler takes entries that nobody else has, or applies one of its own.
LEMMA ApplierTakes ==
  ASSUME TypeInv, TypeInv', TakenInv, \A n \in Nodes : lastApplied'[n] >= lastApplied[n],
         NEW a \in appliers, NEW b, b.to = a.to, b.taken,
         Indexes(b.pending) \subseteq 1..lastApplied'[a.to],
         appliers' = (appliers \ {a}) \cup {b}, put' = put,
         \A x \in appliers \ {a} : x.to = a.to =>
           Indexes(x.pending) \cap Indexes(b.pending) = {},
         \A t \in Puts : put[t].node = a.to =>
           Indexes(put[t].pending) \cap Indexes(b.pending) = {}
  PROVE  TakenInv'
<1>1. /\ \A n \in Nodes : 1..lastApplied[n] \subseteq 1..lastApplied'[n]
      /\ \A x \in appliers : x.to \in Nodes
      /\ \A t \in Puts : put[t].pc = "apply" => put[t].node \in Nodes
  BY AppliedGrows
<1>2. \A x \in appliers' : Indexes(x.pending) \subseteq 1..lastApplied'[x.to]
  BY <1>1 DEF TakenInv
<1>3. \A t \in Puts : put'[t].pc = "apply" =>
        Indexes(put'[t].pending) \subseteq 1..lastApplied'[put'[t].node]
  BY <1>1 DEF TakenInv
<1>4. \A x, y \in appliers' : x # y /\ x.to = y.to =>
        Indexes(x.pending) \cap Indexes(y.pending) = {}
  <2>1. ASSUME NEW x \in appliers', NEW y \in appliers', x # y, x.to = y.to
        PROVE  Indexes(x.pending) \cap Indexes(y.pending) = {}
    <3>1. CASE x \in appliers \ {a} /\ y \in appliers \ {a}
      BY <2>1, <3>1 DEF TakenInv
    <3>2. CASE x = b /\ y \in appliers \ {a}
      BY <2>1, <3>2
    <3>3. CASE y = b /\ x \in appliers \ {a}
      BY <2>1, <3>3
    <3>4. QED
      BY <2>1, <3>1, <3>2, <3>3
  <2>2. QED
    BY <2>1
<1>5. \A t, u \in Puts : t # u /\ put'[t].node = put'[u].node =>
        Indexes(put'[t].pending) \cap Indexes(put'[u].pending) = {}
  BY DEF TakenInv
<1>6. \A x \in appliers', t \in Puts : x.to = put'[t].node =>
        Indexes(x.pending) \cap Indexes(put'[t].pending) = {}
  BY DEF TakenInv
<1>7. \A x \in appliers' : ~x.taken => x.pending = <<>>
  BY DEF TakenInv
<1>8. QED
  BY <1>2, <1>3, <1>4, <1>5, <1>6, <1>7 DEF TakenInv

\* The same for the thread of a call.
LEMMA CallTakes ==
  ASSUME TypeInv, TypeInv', TakenInv, \A n \in Nodes : lastApplied'[n] >= lastApplied[n],
         NEW t \in Puts, put'[t].node = put[t].node,
         Indexes(put'[t].pending) \subseteq 1..lastApplied'[put[t].node],
         appliers' = appliers, \A u \in Puts \ {t} : put'[u] = put[u],
         \A x \in appliers : x.to = put[t].node =>
           Indexes(x.pending) \cap Indexes(put'[t].pending) = {},
         \A u \in Puts \ {t} : put[u].node = put[t].node =>
           Indexes(put[u].pending) \cap Indexes(put'[t].pending) = {}
  PROVE  TakenInv'
<1>1. /\ \A n \in Nodes : 1..lastApplied[n] \subseteq 1..lastApplied'[n]
      /\ \A x \in appliers : x.to \in Nodes
      /\ \A u \in Puts : put[u].pc = "apply" => put[u].node \in Nodes
  BY AppliedGrows
<1>2. \A x \in appliers' : Indexes(x.pending) \subseteq 1..lastApplied'[x.to]
  BY <1>1 DEF TakenInv
<1>3. \A u \in Puts : put'[u].pc = "apply" =>
        Indexes(put'[u].pending) \subseteq 1..lastApplied'[put'[u].node]
  BY <1>1 DEF TakenInv
<1>4. \A x, y \in appliers' : x # y /\ x.to = y.to =>
        Indexes(x.pending) \cap Indexes(y.pending) = {}
  BY DEF TakenInv
<1>5. \A u, v \in Puts : u # v /\ put'[u].node = put'[v].node =>
        Indexes(put'[u].pending) \cap Indexes(put'[v].pending) = {}
  BY DEF TakenInv
<1>6. \A x \in appliers', u \in Puts : x.to = put'[u].node =>
        Indexes(x.pending) \cap Indexes(put'[u].pending) = {}
  BY DEF TakenInv
<1>7. \A x \in appliers' : ~x.taken => x.pending = <<>>
  BY DEF TakenInv
<1>8. QED
  BY <1>2, <1>3, <1>4, <1>5, <1>6, <1>7 DEF TakenInv

\* What take_applicable returns lies beyond what has been taken before.
LEMMA ApplicableFresh ==
  ASSUME TypeInv, IndexInv, NEW n \in Nodes,
         lastApplied' = [lastApplied EXCEPT ![n] = AppliedUpTo(n)]
  PROVE  /\ \A p \in Nodes : lastApplied'[p] >= lastApplied[p]
         /\ Indexes(Applicable(n)) \subseteq 1..lastApplied'[n]
         /\ \A s : Indexes(s) \subseteq 1..lastApplied[n] =>
              Indexes(s) \cap Indexes(Applicable(n)) = {}
<1>1. /\ lastApplied \in [Nodes -> Nat] /\ commitIndex[n] \in Nat /\ log[n] \in Seq(LogEntry)
      /\ TypeOK /\ lastApplied[n] \in Nat
  BY DEF TypeInv, TypeOK
<1>2. /\ lastApplied'[n] = AppliedUpTo(n) /\ AppliedUpTo(n) >= lastApplied[n]
      /\ AppliedUpTo(n) >= commitIndex[n] /\ AppliedUpTo(n) \in Nat
  BY <1>1 DEF AppliedUpTo
<1>3. \A p \in Nodes : lastApplied'[p] >= lastApplied[p]
  BY <1>1, <1>2
<1>4. ASSUME NEW i \in 1..Len(Applicable(n))
      PROVE  /\ Applicable(n)[i].index \in 1..lastApplied'[n]
             /\ Applicable(n)[i].index > lastApplied[n]
  <2>1. /\ lastApplied[n] + i \in 1..Len(log[n])
        /\ Applicable(n)[i] = log[n][lastApplied[n] + i]
        /\ lastApplied[n] + i <= commitIndex[n]
    BY <1>1, ApplicableEntries
  <2>2. Applicable(n)[i].index = lastApplied[n] + i
    BY <2>1 DEF IndexInv, IndexIsPosition
  <2>3. i \in Nat /\ i >= 1
    OBVIOUS
  <2>4. QED
    BY <1>1, <1>2, <2>1, <2>2, <2>3
<1>5. \A x \in Indexes(Applicable(n)) : x \in 1..lastApplied'[n] /\ x > lastApplied[n]
  BY <1>4 DEF Indexes
<1>6. \A x \in 1..lastApplied[n] : ~(x > lastApplied[n])
  BY <1>1
<1>7. QED
  BY <1>3, <1>5, <1>6

LEMMA AppliersTaken ==
  ASSUME TypeInv, TypeInv', CallsInv, IndexInv, TakenInv,
         NEW a \in appliers, TakeCommitted(a) \/ ApplyCommitted(a)
  PROVE  TakenInv'
<1> DEFINE n == a.to
<1>1. a \in Appliers /\ n \in Nodes
  BY DEF TypeInv, TypeOK, Appliers
<1>2. put' = put \/ AnswerAppend(a)
  BY DEF TakeCommitted, ApplyCommitted
<1>3. \A t \in Puts : /\ put'[t].pc = put[t].pc /\ put'[t].node = put[t].node
                      /\ put'[t].pending = put[t].pending
  BY <1>1, <1>2, AnswerAppendType
<1>4. \A t \in Puts : put[t].node = n => Indexes(put[t].pending) \subseteq 1..lastApplied[n]
  BY NoIndexes DEF TakenInv, CallsInv, CallInv
<1>5. CASE TakeCommitted(a)
  <2>1. lastApplied' = [lastApplied EXCEPT ![n] = AppliedUpTo(n)]
    BY <1>5 DEF TakeCommitted
  <2>2. /\ \A p \in Nodes : lastApplied'[p] >= lastApplied[p]
        /\ Indexes(Applicable(n)) \subseteq 1..lastApplied'[n]
        /\ \A s : Indexes(s) \subseteq 1..lastApplied[n] =>
             Indexes(s) \cap Indexes(Applicable(n)) = {}
    BY <1>1, <2>1, ApplicableFresh
  <2>3. CASE appliers' = appliers \ {a}
    BY <1>3, <2>2, <2>3, TakenKept
  <2>4. CASE /\ appliers' = (appliers \ {a}) \cup {[a EXCEPT !.taken = TRUE, !.pending = Applicable(n)]}
             /\ put' = put
    <3> DEFINE b == [a EXCEPT !.taken = TRUE, !.pending = Applicable(n)]
    <3>1. b.to = a.to /\ b.taken /\ b.pending = Applicable(n)
      BY <1>1 DEF Appliers
    <3>2. appliers' = (appliers \ {a}) \cup {b} /\ put' = put
      BY <2>4
    <3> HIDE DEF b
    <3>3. \A x \in appliers \ {a} : x.to = a.to => Indexes(x.pending) \cap Indexes(b.pending) = {}
      BY <2>2, <3>1 DEF TakenInv
    <3>4. \A t \in Puts : put[t].node = a.to => Indexes(put[t].pending) \cap Indexes(b.pending) = {}
      BY <1>4, <2>2, <3>1
    <3>5. QED
      BY <2>2, <3>1, <3>2, <3>3, <3>4, ApplierTakes
  <2>5. QED
    BY <1>5, <2>3, <2>4 DEF TakeCommitted
<1>6. CASE ApplyCommitted(a)
  <2>1. lastApplied' = lastApplied /\ a.taken
    BY <1>6 DEF ApplyCommitted, raftVars
  <2>2. \A p \in Nodes : lastApplied'[p] >= lastApplied[p]
    <3>1. lastApplied \in [Nodes -> Nat]
      BY DEF TypeInv, TypeOK
    <3>2. QED
      BY <2>1, <3>1
  <2>3. CASE appliers' = appliers \ {a}
    BY <1>3, <2>2, <2>3, TakenKept
  <2>4. CASE appliers' = (appliers \ {a}) \cup {[a EXCEPT !.pending = Tail(@)]} /\ put' = put
    <3> DEFINE b == [a EXCEPT !.pending = Tail(a.pending)]
    <3>1. b.to = a.to /\ b.taken /\ b.pending = Tail(a.pending)
      BY <1>1, <2>1 DEF Appliers
    <3>2. appliers' = (appliers \ {a}) \cup {b} /\ put' = put
      BY <2>4
    <3> HIDE DEF b
    <3>3. Indexes(b.pending) \subseteq Indexes(a.pending)
      <4>1. a.pending \in Seq(LogEntry) /\ a.pending # <<>>
        BY <1>1, <2>1 DEF Appliers, TypeInv, ThreadInv
      <4>2. QED
        BY <3>1, <4>1, TailIndexes
    <3>4. Indexes(b.pending) \subseteq 1..lastApplied'[n]
      BY <2>1, <3>3 DEF TakenInv
    <3>5. \A x \in appliers \ {a} : x.to = a.to => Indexes(x.pending) \cap Indexes(b.pending) = {}
      BY <3>3 DEF TakenInv
    <3>6. \A t \in Puts : put[t].node = a.to => Indexes(put[t].pending) \cap Indexes(b.pending) = {}
      BY <3>3 DEF TakenInv
    <3>7. QED
      BY <2>2, <3>1, <3>2, <3>4, <3>5, <3>6, ApplierTakes
  <2>5. QED
    BY <1>6, <2>3, <2>4 DEF ApplyCommitted
<1>7. QED
  BY <1>5, <1>6

LEMMA OwnTaken ==
  ASSUME TypeInv, TypeInv', CallsInv, IndexInv, TakenInv, NEW t \in Puts, TakeOwn(t) \/ ApplyOwn(t)
  PROVE  TakenInv'
<1> DEFINE n == put[t].node
<1>1. put[t].pc \in {"take", "apply"} /\ put[t].pc \in Working /\ PutHandler(t)
  BY DEF TakeOwn, ApplyOwn, Working, PutHandler
<1>2. n \in Nodes /\ put \in [Puts -> PutThreads] /\ put[t] \in PutThreads
  BY <1>1, WorkerType
<1>3. (\A u \in Puts \ {t} : put'[u] = put[u]) /\ put'[t].node = n
  BY <1>1, PutHandlerEffect
<1>4. appliers' = appliers
  BY DEF TakeOwn, ApplyOwn
<1>5. \A u \in Puts : put[u].node = n => Indexes(put[u].pending) \subseteq 1..lastApplied[n]
  BY NoIndexes DEF TakenInv, CallsInv, CallInv
<1>6. ASSUME put'[t].pending = <<>>, \A p \in Nodes : lastApplied'[p] >= lastApplied[p]
      PROVE  TakenInv'
  BY <1>3, <1>4, <1>6, TakenKept
<1>7. CASE TakeOwn(t)
  <2>1. lastApplied' = [lastApplied EXCEPT ![n] = AppliedUpTo(n)]
    BY <1>7 DEF TakeOwn
  <2>2. /\ \A p \in Nodes : lastApplied'[p] >= lastApplied[p]
        /\ Indexes(Applicable(n)) \subseteq 1..lastApplied'[n]
        /\ \A s : Indexes(s) \subseteq 1..lastApplied[n] =>
             Indexes(s) \cap Indexes(Applicable(n)) = {}
    BY <1>2, <2>1, ApplicableFresh
  <2>3. CASE Answer(t, "committed")
    BY <1>6, <2>2, <2>3, AnswerEffect
  <2>4. CASE put' = [put EXCEPT ![t].pc = "apply", ![t].pending = Applicable(n)]
    <3>1. put'[t].pending = Applicable(n)
      BY <1>2, <2>4 DEF PutThreads
    <3>2. \A x \in appliers : x.to = n => Indexes(x.pending) \cap Indexes(put'[t].pending) = {}
      BY <2>2, <3>1 DEF TakenInv
    <3>3. \A u \in Puts \ {t} : put[u].node = n =>
            Indexes(put[u].pending) \cap Indexes(put'[t].pending) = {}
      BY <1>5, <2>2, <3>1
    <3>4. QED
      BY <1>3, <1>4, <2>2, <3>1, <3>2, <3>3, CallTakes
  <2>5. QED
    BY <1>7, <2>3, <2>4 DEF TakeOwn
<1>8. CASE ApplyOwn(t)
  <2>1. lastApplied' = lastApplied /\ put[t].pc = "apply"
    BY <1>8 DEF ApplyOwn, raftVars
  <2>2. \A p \in Nodes : lastApplied'[p] >= lastApplied[p]
    <3>1. lastApplied \in [Nodes -> Nat]
      BY DEF TypeInv, TypeOK
    <3>2. QED
      BY <2>1, <3>1
  <2>3. CASE Answer(t, "committed")
    BY <1>6, <2>2, <2>3, AnswerEffect
  <2>4. CASE put' = [put EXCEPT ![t].pending = Tail(@)]
    <3>1. put'[t].pending = Tail(put[t].pending)
      BY <1>2, <2>4 DEF PutThreads
    <3>2. Indexes(put'[t].pending) \subseteq Indexes(put[t].pending)
      <4>1. put[t].pending \in Seq(LogEntry) /\ put[t].pending # <<>>
        BY <1>2, <2>1 DEF PutThreads, TypeInv, ThreadInv
      <4>2. QED
        BY <3>1, <4>1, TailIndexes
    <3>3. Indexes(put'[t].pending) \subseteq 1..lastApplied'[n]
      BY <1>5, <2>1, <3>2
    <3>4. \A x \in appliers : x.to = n => Indexes(x.pending) \cap Indexes(put'[t].pending) = {}
      BY <3>2 DEF TakenInv
    <3>5. \A u \in Puts \ {t} : put[u].node = n =>
            Indexes(put[u].pending) \cap Indexes(put'[t].pending) = {}
      BY <3>2 DEF TakenInv
    <3>6. QED
      BY <1>3, <1>4, <2>2, <3>3, <3>4, <3>5, CallTakes
  <2>5. QED
    BY <1>8, <2>3, <2>4 DEF ApplyOwn
<1>9. QED
  BY <1>7, <1>8

\* Only apply_committed leaves a thread applying.
LEMMA ApplyingCalls ==
  ASSUME TypeInv, NEW t \in Puts, PutHandler(t), put'[t].pc = "apply"
  PROVE  TakeOwn(t) \/ ApplyOwn(t)
<1>1. put \in [Puts -> PutThreads] /\ put[t] \in PutThreads
  BY DEF TypeInv, TypeOK
<1>2. ~ProposeEntry(t)
  <2>1. ASSUME ProposeEntry(t) PROVE put'[t].pc \in {"done", "capture"}
    <3>1. \/ Answer(t, "not_leader")
          \/ \E e : put' = [put EXCEPT ![t].pc = "capture", ![t].entry = <<e>>]
      BY <2>1 DEF ProposeEntry
    <3>2. QED
      BY <1>1, <3>1, AnswerEffect DEF PutThreads
  <2>2. QED
    BY <2>1
<1>3. ~CaptureView(t)
  BY <1>1 DEF CaptureView, PutThreads
<1>4. ~SendRepl(t)
  BY <1>1 DEF SendRepl, PutThreads
<1>5. ~ \E p \in Nodes : SendAppend(t, p)
  <2>1. ASSUME NEW p \in Nodes, SendAppend(t, p) PROVE put'[t].pc = "append"
    <3>1. put' = [put EXCEPT ![t].pc = "append", ![t].peer = p, ![t].todo = @ \ {p}]
      BY <2>1 DEF SendAppend
    <3>2. QED
      BY <1>1, <3>1 DEF PutThreads
  <2>2. QED
    BY <2>1
<1>6. ~CommitEntry(t)
  <2>1. ASSUME CommitEntry(t) PROVE put'[t].pc \in {"done", "take"}
    <3>1. \/ Answer(t, "fenced") \/ Answer(t, "not_leader")
          \/ put' = [put EXCEPT ![t].pc = "take", ![t].peer = NoNode, ![t].acks = {}]
      BY <2>1 DEF CommitEntry
    <3>2. QED
      BY <1>1, <3>1, AnswerEffect DEF PutThreads
  <2>2. QED
    BY <2>1
<1>7. QED
  BY <1>2, <1>3, <1>4, <1>5, <1>6 DEF PutHandler

LEMMA NextTaken ==
  TypeInv /\ TypeInv' /\ CallsInv /\ IndexInv /\ TakenInv /\ [Next]_vars => TakenInv'
<1> SUFFICES ASSUME TypeInv, TypeInv', CallsInv, IndexInv, TakenInv, [Next]_vars PROVE TakenInv'
  OBVIOUS
<1> USE DEF raftVars, stateVars, history
<1>1. CallsInv'
  BY NextCalls
<1>2. ASSUME lastApplied' = lastApplied PROVE \A n \in Nodes : lastApplied'[n] >= lastApplied[n]
  <2>1. lastApplied \in [Nodes -> Nat]
    BY DEF TypeInv, TypeOK
  <2>2. QED
    BY <1>2, <2>1
<1>3. ASSUME UNCHANGED <<lastApplied, appliers, put>> PROVE TakenInv'
  BY <1>2, <1>3, TakenKept
<1>4. ASSUME NEW n \in Nodes, Ticker(n) PROVE TakenInv'
  BY <1>3, <1>4 DEF Ticker, StartElection, BeginBallot, AskVote, TallyVotes, PublishWin,
                    SeeLeader, SendHeartbeats
<1>5. CASE Handler
  <2>1. ASSUME NEW m \in rpcs, HandleRequestVote(m) PROVE TakenInv'
    BY <1>3, <2>1 DEF HandleRequestVote
  <2>2. ASSUME NEW m \in rpcs, HandleAppendEntries(m) PROVE TakenInv'
    <3>1. /\ UNCHANGED <<lastApplied, put>>
          /\ \A x \in appliers' : x \in appliers \/ x.pending = <<>>
      BY <2>2 DEF HandleAppendEntries
    <3>2. QED
      BY <1>2, <3>1, TakenKept
  <2>3. ASSUME NEW m \in rpcs, HandleRepl(m) PROVE TakenInv'
    <3>1. m.to \in Nodes /\ m.by \in Puts
      <4>1. m \in ReplRequests
        BY <2>3, RequestKinds DEF HandleRepl, TypeInv
      <4>2. QED
        BY <4>1 DEF ReplRequests
    <3>2. UNCHANGED <<lastApplied, appliers>>
      BY <2>3 DEF HandleRepl
    <3>3. put' = put \/ put' = [put EXCEPT ![m.by].acks = @ \cup {m.to}]
      BY <2>3 DEF HandleRepl
    <3>4. \A t \in Puts : /\ put'[t].pc = put[t].pc /\ put'[t].node = put[t].node
                          /\ put'[t].pending = put[t].pending
      <4>1. CASE put' = put
        BY <4>1
      <4>2. CASE put' = [put EXCEPT ![m.by].acks = @ \cup {m.to}]
        BY <3>1, <4>2, AcksType
      <4>3. QED
        BY <3>3, <4>1, <4>2
    <3>5. QED
      BY <1>2, <3>2, <3>4, TakenKept
  <2>4. QED
    BY <1>5, <2>1, <2>2, <2>3, AppliersTaken DEF Handler
<1>6. ASSUME NEW t \in Puts, PutHandler(t) PROVE TakenInv'
  <2>1. CASE TakeOwn(t) \/ ApplyOwn(t)
    BY <2>1, OwnTaken
  <2>2. CASE ~TakeOwn(t) /\ ~ApplyOwn(t)
    <3>1. UNCHANGED <<lastApplied, appliers>>
      BY <1>6, <2>2 DEF PutHandler, ProposeEntry, CaptureView, SendAppend, SendRepl, CommitEntry
    <3>2. put[t].pc # "apply"
      BY <1>6, <2>2 DEF PutHandler, ProposeEntry, CaptureView, SendAppend, SendRepl, CommitEntry
    <3>3. put'[t].pending = <<>> /\ \A u \in Puts \ {t} : put'[u] = put[u]
      <4>1. put[t].pending = <<>>
        BY <3>2 DEF CallsInv, CallInv
      <4>2. put'[t].pc # "apply" => put'[t].pending = <<>>
        BY <1>1 DEF CallsInv, CallInv
      <4>3. put'[t].pc = "apply" => TakeOwn(t) \/ ApplyOwn(t)
        BY <1>6, ApplyingCalls
      <4>4. QED
        BY <1>6, <2>2, <4>1, <4>2, <4>3, PutHandlerEffect
    <3>4. QED
      BY <1>2, <3>1, <3>3, TakenKept
  <2>3. QED
    BY <2>1, <2>2
<1>7. ASSUME NEW t \in Puts, NEW n \in Nodes, NEW k \in Keys, ReceivePut(t, n, k)
      PROVE  TakenInv'
  <2>1. UNCHANGED <<lastApplied, appliers>>
    BY <1>7 DEF ReceivePut
  <2>2. put'[t].pc \in {"propose", "done"} /\ \A u \in Puts \ {t} : put'[u] = put[u]
    <3>1. put \in [Puts -> PutThreads]
      BY DEF TypeInv, TypeOK
    <3>2. QED
      BY <1>7, <3>1 DEF ReceivePut, PutThreads
  <2>3. put'[t].pending = <<>>
    BY <1>1, <2>2 DEF CallsInv, CallInv
  <2>4. QED
    BY <1>2, <2>1, <2>2, <2>3, TakenKept
<1>8. CASE \/ \E n \in Nodes, e \in Epochs : Promote(n, e)
           \/ \E n \in Victims : Kill(n)
           \/ UNCHANGED vars
  BY <1>3, <1>8 DEF Promote, Kill, vars
<1>9. QED
  BY <1>4, <1>5, <1>6, <1>7, <1>8 DEF Next

LEMMA InitTaken == Init => TakenInv
<1> SUFFICES ASSUME Init PROVE TakenInv
  OBVIOUS
<1>1. appliers = {} /\ \A t \in Puts : put[t].pending = <<>> /\ put[t].pc = "unsent"
  BY DEF Init, UnsentPut
<1>2. QED
  BY <1>1, NoIndexes DEF TakenInv

LEMMA TakenInvariant == Spec => []TakenInv
BY InitTaken, NextTaken, TypeInvInvariant, CallsInvariant, IndexInvInvariant, PTL DEF Spec

\* However many handlers of a node run apply_committed at the same time, no two of
\* them take the same index: take_applicable marks what it returns under the lock.
THEOREM IndexesTakenOnce == Spec => []TakenOnce
BY TakenInvariant, TakenInvTakenOnce, PTL

-----------------------------------------------------------------------------
(***************************************************************************)
(* The reign of the first leader, as long as no second election is held    *)
(* (FirstReign): the logs are prefixes of the leader's, answered calls are *)
(* held by a majority, and the leader's catalog is what its committed      *)
(* entries leave.  The last is shown for one call at a time.               *)
(***************************************************************************)

(* Who sends what to whom.                                                 *)

HasLed(n) == \E x \in elected : x[2] = n

\* Heartbeats and AppendEntries come from nodes that were elected, and no node sends
\* to itself: the peers a call has left to ask do not include the node it runs on.
Routed(m) ==
  /\ m.type = "AppendEntries" => HasLed(m.from) /\ m.to # m.from
  /\ m.type = "Repl" => m.to # put[m.by].node

CallRouted(t) ==
  /\ put[t].pc \in {"next", "append", "repl"} => put[t].todo \subseteq Peers(put[t].node)
  /\ put[t].pc \in {"append", "repl"} => put[t].peer \in Peers(put[t].node)

ApplierRouted(a) ==
  HasLed(a.from) /\ a.to # a.from /\ (a.by # NoPut => a.by \in Puts /\ Stamped(a.by))

RouteInv ==
  /\ \A n \in Nodes : tick[n].pc = "beat" => HasLed(n)
  /\ \A t \in Puts : CallRouted(t)
  /\ \A m \in rpcs : Routed(m)
  /\ \A a \in appliers : ApplierRouted(a)

LEMMA LedBefore ==
  ASSUME elected \subseteq elected', NEW n, HasLed(n)
  PROVE  HasLed(n)'
BY DEF HasLed

LEMMA RouteKept ==
  ASSUME TypeInv, CopiesInv, RouteInv, EntriesStand, elected \subseteq elected',
         \A n \in Nodes : tick'[n].pc = "beat" => tick[n].pc = "beat" \/ HasLed(n),
         \A t \in Puts : \/ /\ put'[t].pc = put[t].pc /\ put'[t].node = put[t].node
                            /\ put'[t].todo = put[t].todo /\ put'[t].peer = put[t].peer
                         \/ CallRouted(t)',
         \A m \in rpcs' : m \in rpcs \/ Routed(m)',
         \A a \in appliers' : \/ \E b \in appliers : a.by = b.by /\ a.from = b.from /\ a.to = b.to
                              \/ ApplierRouted(a)'
  PROVE  RouteInv'
<1>1. \A n \in Nodes : tick'[n].pc = "beat" => HasLed(n)'
  BY LedBefore DEF RouteInv
<1>2. \A t \in Puts : CallRouted(t)'
  BY DEF RouteInv, CallRouted
<1>3. ASSUME NEW m \in rpcs, m \in rpcs' PROVE Routed(m)'
  <2>1. CASE m.type = "AppendEntries"
    BY <2>1, LedBefore DEF RouteInv, Routed
  <2>2. CASE m.type = "Repl"
    <3>1. m.by \in Puts
      BY <2>2, RequestKinds DEF TypeInv, ReplRequests
    <3>2. Stamped(m.by)
      BY <2>2 DEF CopiesInv, RequestCopies, Stamped, Entry
    <3>3. put'[m.by].node = put[m.by].node
      BY <3>1, <3>2 DEF EntriesStand
    <3>4. QED
      BY <2>2, <3>3 DEF RouteInv, Routed
  <2>3. CASE m.type # "AppendEntries" /\ m.type # "Repl"
    BY <2>3 DEF Routed
  <2>4. QED
    BY <2>1, <2>2, <2>3
<1>4. ASSUME NEW a \in appliers', NEW b \in appliers, a.by = b.by, a.from = b.from, a.to = b.to
      PROVE  ApplierRouted(a)'
  <2>1. HasLed(b.from)' /\ b.to # b.from /\ (b.by # NoPut => b.by \in Puts /\ Stamped(b.by))
    BY LedBefore DEF RouteInv, ApplierRouted
  <2>2. b.by # NoPut => Stamped(b.by)'
    BY <2>1, StampedStands
  <2>3. QED
    BY <1>4, <2>1, <2>2 DEF ApplierRouted
<1>5. QED
  BY <1>1, <1>2, <1>3, <1>4 DEF RouteInv

LEMMA LeaderHasLed ==
  ASSUME LeadersInv, NEW n \in Nodes, role[n] = "Leader"
  PROVE  HasLed(n)
<1>1. <<currentTerm[n], n>> \in elected /\ <<currentTerm[n], n>>[2] = n
  BY DEF LeadersInv
<1>2. QED
  BY <1>1 DEF HasLed

LEMMA ProposerHasLed ==
  ASSUME ProposalsInv, NEW t \in Puts, Stamped(t)
  PROVE  HasLed(put[t].node)
<1>1. /\ <<Entry(t).term, put[t].node>> \in elected
      /\ <<Entry(t).term, put[t].node>>[2] = put[t].node
  BY DEF ProposalsInv, ProposedByElected
<1>2. QED
  BY <1>1 DEF HasLed

LEMMA TickerRoutes ==
  ASSUME TypeInv, LeadersInv, CopiesInv, RouteInv, EntriesStand, elected \subseteq elected',
         NEW n \in Nodes, Ticker(n)
  PROVE  RouteInv'
<1> USE DEF raftVars, stateVars, history
<1>1. tick \in [Nodes -> Ticks] /\ tick[n] \in Ticks
  BY DEF TypeInv, TypeOK
<1>2. UNCHANGED <<put, appliers>>
  BY DEF Ticker, StartElection, BeginBallot, AskVote, TallyVotes, PublishWin, SeeLeader,
         SendHeartbeats
<1>3. ASSUME NEW m \in rpcs', m \notin rpcs PROVE Routed(m)'
  <2>1. CASE SendHeartbeats(n)
    <3>1. m.type = "AppendEntries" /\ m.from = n /\ m.to \in Peers(n) /\ tick[n].pc = "beat"
      BY <1>3, <2>1 DEF SendHeartbeats
    <3>2. HasLed(n)'
      BY <3>1, LedBefore DEF RouteInv
    <3>3. QED
      BY <3>1, <3>2 DEF Routed, Peers
  <2>2. ASSUME NEW p \in Nodes, AskVote(n, p) PROVE Routed(m)'
    BY <1>3, <2>2 DEF AskVote, Routed
  <2>3. CASE StartElection(n) \/ BeginBallot(n) \/ TallyVotes(n) \/ PublishWin(n) \/ SeeLeader(n)
    BY <1>3, <2>3 DEF StartElection, BeginBallot, TallyVotes, PublishWin, SeeLeader
  <2>4. QED
    BY <2>1, <2>2, <2>3 DEF Ticker
<1>4. ASSUME NEW p \in Nodes, tick'[p].pc = "beat" PROVE tick[p].pc = "beat" \/ HasLed(p)
  <2>0. Rested(n).pc = "idle" /\ [Rested(n) EXCEPT !.pc = "won", !.term = currentTerm[n]].pc = "won"
    BY DEF Rested, IdleTicker
  <2>1. CASE SeeLeader(n)
    <3>1. role[n] = "Leader" /\ \A q \in Nodes \ {n} : tick'[q] = tick[q]
      BY <1>1, <2>1 DEF SeeLeader
    <3>2. QED
      BY <1>4, <3>1, LeaderHasLed
  <2>2. CASE StartElection(n)
    BY <1>4, <2>2 DEF StartElection
  <2>3. CASE BeginBallot(n)
    <3>1. tick'[n].pc = "ballot" /\ \A q \in Nodes \ {n} : tick'[q] = tick[q]
      BY <1>1, <2>3 DEF BeginBallot, Ticks
    <3>2. QED
      BY <1>4, <3>1
  <2>4. CASE \E q \in Nodes : AskVote(n, q)
    <3>1. PICK q \in Nodes : AskVote(n, q)
      BY <2>4
    <3>2. tick' = [tick EXCEPT ![n] = [tick[n] EXCEPT !.todo = @ \ {q}, !.peer = q]]
      BY <1>1, <3>1 DEF AskVote, Ticks
    <3>3. tick'[p].pc = tick[p].pc
      BY <1>1, <3>2 DEF Ticks
    <3>4. QED
      BY <1>4, <3>3
  <2>5. CASE PublishWin(n) \/ SendHeartbeats(n)
    <3>1. tick' = [tick EXCEPT ![n] = Rested(n)]
      BY <2>5 DEF PublishWin, SendHeartbeats
    <3>2. QED
      BY <1>1, <1>4, <2>0, <3>1
  <2>6. CASE TallyVotes(n)
    <3>1. \/ tick' = [tick EXCEPT ![n] = [Rested(n) EXCEPT !.pc = "won", !.term = currentTerm[n]]]
          \/ tick' = [tick EXCEPT ![n] = Rested(n)]
      BY <2>6 DEF TallyVotes
    <3>2. QED
      BY <1>1, <1>4, <2>0, <3>1
  <2>7. QED
    BY <2>1, <2>2, <2>3, <2>4, <2>5, <2>6 DEF Ticker
<1>5. QED
  BY <1>2, <1>3, <1>4, RouteKept

\* Only while it asks its peers has a call peers left to ask.
LEMMA RoutedCalls ==
  ASSUME TypeInv, NEW t \in Puts, PutHandler(t), put'[t].pc \in {"next", "append", "repl"}
  PROVE  CaptureView(t) \/ SendRepl(t) \/ \E p \in Nodes : SendAppend(t, p)
<1>1. put \in [Puts -> PutThreads] /\ put[t] \in PutThreads
  BY DEF TypeInv, TypeOK
<1>2. ASSUME ProposeEntry(t) PROVE put'[t].pc \in {"done", "capture"}
  <2>1. \/ Answer(t, "not_leader")
        \/ \E e : put' = [put EXCEPT ![t].pc = "capture", ![t].entry = <<e>>]
    BY <1>2 DEF ProposeEntry
  <2>2. QED
    BY <1>1, <2>1, AnswerEffect DEF PutThreads
<1>3. ASSUME CommitEntry(t) PROVE put'[t].pc \in {"done", "take"}
  <2>1. \/ Answer(t, "fenced") \/ Answer(t, "not_leader")
        \/ put' = [put EXCEPT ![t].pc = "take", ![t].peer = NoNode, ![t].acks = {}]
    BY <1>3 DEF CommitEntry
  <2>2. QED
    BY <1>1, <2>1, AnswerEffect DEF PutThreads
<1>4. ASSUME TakeOwn(t) PROVE put'[t].pc \in {"done", "apply"}
  <2>1. \/ Answer(t, "committed")
        \/ \E q : put' = [put EXCEPT ![t].pc = "apply", ![t].pending = q]
    BY <1>4 DEF TakeOwn
  <2>2. QED
    BY <1>1, <2>1, AnswerEffect DEF PutThreads
<1>5. ASSUME ApplyOwn(t) PROVE put'[t].pc \in {"done", "apply"}
  <2>1. put[t].pc = "apply"
    BY <1>5 DEF ApplyOwn
  <2>2. Answer(t, "committed") \/ put' = [put EXCEPT ![t].pending = Tail(@)]
    BY <1>5 DEF ApplyOwn
  <2>3. QED
    BY <1>1, <2>1, <2>2, AnswerEffect DEF PutThreads
<1>6. QED
  BY <1>2, <1>3, <1>4, <1>5 DEF PutHandler

LEMMA PutHandlerRoutes ==
  ASSUME TypeInv, CallsInv, CopiesInv, ProposalsInv, RouteInv, EntriesStand,
         elected \subseteq elected', NEW t \in Puts, PutHandler(t)
  PROVE  RouteInv'
<1>1. put \in [Puts -> PutThreads] /\ put[t] \in PutThreads
  BY DEF TypeInv, TypeOK
<1>2. /\ put[t].pc \in Working /\ put'[t].node = put[t].node
      /\ \A u \in Puts \ {t} : put'[u] = put[u]
  BY PutHandlerEffect
<1>3. put[t].node \in Nodes
  BY <1>2, WorkerType
<1>4. UNCHANGED <<tick, appliers>>
  BY DEF PutHandler, ProposeEntry, CaptureView, SendRepl, SendAppend, CommitEntry, TakeOwn, ApplyOwn
<1>5. ASSUME CallRouted(t)', \A m \in rpcs' : m \in rpcs \/ Routed(m)'
      PROVE  RouteInv'
  BY <1>2, <1>4, <1>5, RouteKept
<1>6. CASE CaptureView(t)
  <2>1. put'[t].pc = "next" /\ put'[t].todo = Peers(put[t].node) /\ rpcs' = rpcs
    BY <1>1, <1>6 DEF CaptureView, PutThreads
  <2>2. QED
    BY <1>2, <1>5, <2>1 DEF CallRouted
<1>7. CASE SendRepl(t)
  <2>1. /\ put'[t].pc = "repl" /\ put'[t].todo = put[t].todo /\ put'[t].peer = put[t].peer
        /\ put[t].pc = "append"
    BY <1>1, <1>7 DEF SendRepl, PutThreads
  <2>2. CallRouted(t)'
    BY <1>2, <2>1 DEF RouteInv, CallRouted
  <2>3. ASSUME NEW m \in rpcs', m \notin rpcs PROVE Routed(m)'
    <3>1. m.type = "Repl" /\ m.by = t /\ m.to = put[t].peer
      BY <1>7, <2>3 DEF SendRepl
    <3>2. put[t].peer \in Peers(put[t].node)
      BY <2>1 DEF RouteInv, CallRouted
    <3>3. QED
      BY <1>2, <3>1, <3>2 DEF Routed, Peers
  <2>4. QED
    BY <1>5, <2>2, <2>3
<1>8. CASE \E p \in Nodes : SendAppend(t, p)
  <2>1. PICK p \in Nodes : SendAppend(t, p)
    BY <1>8
  <2>2. put[t].pc \in {"next", "repl"} /\ p \in put[t].todo
        /\ put' = [put EXCEPT ![t].pc = "append", ![t].peer = p, ![t].todo = @ \ {p}]
    BY <2>1 DEF SendAppend
  <2>3. put' = [put EXCEPT ![t] = [put[t] EXCEPT !.pc = "append", !.peer = p, !.todo = @ \ {p}]]
    BY <1>1, <2>2 DEF PutThreads
  <2>4. put'[t].pc = "append" /\ put'[t].peer = p /\ put'[t].todo = put[t].todo \ {p}
    BY <1>1, <2>3 DEF PutThreads
  <2>5. put[t].todo \subseteq Peers(put[t].node)
    BY <2>2 DEF RouteInv, CallRouted
  <2>6. CallRouted(t)'
    BY <1>2, <2>2, <2>4, <2>5 DEF CallRouted
  <2>7. \E x \in elected' : x[2] = put[t].node
    <3>1. put[t].pc \in Working \ {"propose"}
      BY <2>2 DEF Working
    <3>2. Stamped(t)
      BY <3>1 DEF TypeInv, ThreadInv, Stamped
    <3>3. QED
      BY <3>2, ProposerHasLed DEF HasLed
  <2>8. ASSUME NEW m \in rpcs', m \notin rpcs PROVE Routed(m)'
    <3>1. \E c, i, d, w :
            rpcs' = rpcs \cup
              {[type |-> "AppendEntries", by |-> t, from |-> put[t].node, to |-> p, round |-> 0,
                term |-> c, prevIndex |-> i, prevTerm |-> d, entries |-> put[t].entry,
                commit |-> w]}
      BY <2>1, Zenon DEF SendAppend
    <3>2. m.type = "AppendEntries" /\ m.from = put[t].node /\ m.to = p
      BY <2>8, <3>1
    <3>3. QED
      BY <2>2, <2>5, <2>7, <3>2 DEF Routed, Peers, HasLed
  <2>9. QED
    BY <1>5, <2>6, <2>8
<1>9. CASE ~CaptureView(t) /\ ~SendRepl(t) /\ ~(\E p \in Nodes : SendAppend(t, p))
  <2>1. rpcs' = rpcs
    BY <1>9 DEF PutHandler, ProposeEntry, CommitEntry, TakeOwn, ApplyOwn
  <2>2. put'[t].pc \notin {"next", "append", "repl"}
    BY <1>9, RoutedCalls
  <2>3. QED
    BY <1>5, <2>1, <2>2 DEF CallRouted
<1>10. QED
  BY <1>6, <1>7, <1>8, <1>9

LEMMA NextRoutes ==
  TypeInv /\ CallsInv /\ LeadersInv /\ CopiesInv /\ ProposalsInv /\ RouteInv /\ [Next]_vars
    => RouteInv'
<1> SUFFICES ASSUME TypeInv, CallsInv, LeadersInv, CopiesInv, ProposalsInv, RouteInv, [Next]_vars
             PROVE  RouteInv'
  OBVIOUS
<1> USE DEF raftVars, stateVars, history
<1>1. EntriesStand /\ elected \subseteq elected'
  BY NextCalls, ElectedGrows
<1>2. ASSUME UNCHANGED <<tick, put>>, rpcs' \subseteq rpcs, appliers' \subseteq appliers
      PROVE  RouteInv'
  BY <1>1, <1>2, RouteKept
<1>3. CASE Handler
  <2>1. ASSUME NEW m \in rpcs, HandleRequestVote(m) PROVE RouteInv'
    <3>1. UNCHANGED <<appliers, put>> /\ rpcs' \subseteq rpcs
      BY <2>1 DEF HandleRequestVote
    <3>2. \A n \in Nodes : tick'[n].pc = tick[n].pc
      <4>1. m \in VoteRequests
        BY <2>1, RequestKinds DEF HandleRequestVote, TypeInv
      <4>2. m.from \in Nodes
        BY <4>1 DEF VoteRequests
      <4>3. tick \in [Nodes -> Ticks]
        BY DEF TypeInv, TypeOK
      <4>4. tick' = tick \/ \E v : tick' = [tick EXCEPT ![m.from].votes = v]
        BY <2>1 DEF HandleRequestVote
      <4>5. ASSUME NEW v, tick' = [tick EXCEPT ![m.from].votes = v], NEW n \in Nodes
            PROVE  tick'[n].pc = tick[n].pc
        BY <4>2, <4>3, <4>5 DEF Ticks
      <4>6. QED
        BY <4>4, <4>5
    <3>3. QED
      BY <1>1, <3>1, <3>2, RouteKept
  <2>2. ASSUME NEW m \in rpcs, HandleAppendEntries(m) PROVE RouteInv'
    <3>1. UNCHANGED <<tick, put>> /\ rpcs' \subseteq rpcs
          /\ \A a \in appliers' : a \in appliers \/ (a.by = m.by /\ a.from = m.from /\ a.to = m.to)
      BY <2>2 DEF HandleAppendEntries
    <3>2. m.type = "AppendEntries" /\ m.by \in Puts \cup {NoPut}
      <4>1. m \in AppendRequests
        BY <2>2, RequestKinds DEF HandleAppendEntries, TypeInv
      <4>2. QED
        BY <2>2, <4>1 DEF HandleAppendEntries, AppendRequests
    <3>3. HasLed(m.from)' /\ m.to # m.from
      BY <1>1, <3>2, LedBefore DEF RouteInv, Routed
    <3>4. m.by # NoPut => m.by \in Puts /\ Stamped(m.by)'
      <4>1. m.by # NoPut => m.by \in Puts /\ Stamped(m.by)
        BY <3>2 DEF CopiesInv, RequestCopies, Stamped, Entry
      <4>2. QED
        BY <1>1, <4>1, StampedStands
    <3>5. \A a \in appliers' : a \in appliers \/ ApplierRouted(a)'
      BY <3>1, <3>3, <3>4 DEF ApplierRouted
    <3>6. QED
      BY <1>1, <3>1, <3>5, RouteKept
  <2>3. ASSUME NEW m \in rpcs, HandleRepl(m) PROVE RouteInv'
    <3>1. m.to \in Nodes /\ m.by \in Puts
      <4>1. m \in ReplRequests
        BY <2>3, RequestKinds DEF HandleRepl, TypeInv
      <4>2. QED
        BY <4>1 DEF ReplRequests
    <3>2. UNCHANGED <<tick, appliers>> /\ rpcs' \subseteq rpcs
      BY <2>3 DEF HandleRepl
    <3>3. put' = put \/ put' = [put EXCEPT ![m.by].acks = @ \cup {m.to}]
      BY <2>3 DEF HandleRepl
    <3>4. \A t \in Puts : /\ put'[t].pc = put[t].pc /\ put'[t].node = put[t].node
                          /\ put'[t].todo = put[t].todo /\ put'[t].peer = put[t].peer
      <4>1. CASE put' = put
        BY <4>1
      <4>2. CASE put' = [put EXCEPT ![m.by].acks = @ \cup {m.to}]
        BY <3>1, <4>2, AcksType
      <4>3. QED
        BY <3>3, <4>1, <4>2
    <3>5. QED
      BY <1>1, <3>2, <3>4, RouteKept
  <2>4. ASSUME NEW a \in appliers, TakeCommitted(a) \/ ApplyCommitted(a) PROVE RouteInv'
    <3>1. a \in Appliers
      BY DEF TypeInv, TypeOK
    <3>2. UNCHANGED <<tick, rpcs>> /\ (put' = put \/ AnswerAppend(a))
      BY <2>4 DEF TakeCommitted, ApplyCommitted
    <3>3. \A t \in Puts : /\ put'[t].pc = put[t].pc /\ put'[t].node = put[t].node
                          /\ put'[t].todo = put[t].todo /\ put'[t].peer = put[t].peer
      BY <3>1, <3>2, AnswerAppendType
    <3>4. \A b \in appliers' : \/ b \in appliers
                               \/ b = [a EXCEPT !.taken = TRUE, !.pending = Applicable(a.to)]
                               \/ b = [a EXCEPT !.pending = Tail(@)]
      BY <2>4 DEF TakeCommitted, ApplyCommitted
    <3>5. \A b \in appliers' : \E c \in appliers : b.by = c.by /\ b.from = c.from /\ b.to = c.to
      BY <3>1, <3>4 DEF Appliers
    <3>6. QED
      BY <1>1, <3>2, <3>3, <3>5, RouteKept
  <2>5. QED
    BY <1>3, <2>1, <2>2, <2>3, <2>4 DEF Handler
<1>4. ASSUME NEW t \in Puts, NEW n \in Nodes, NEW k \in Keys, ReceivePut(t, n, k)
      PROVE  RouteInv'
  <2>1. UNCHANGED <<tick, rpcs, appliers>>
    BY <1>4 DEF ReceivePut
  <2>2. put'[t].pc \in {"propose", "done"} /\ \A u \in Puts \ {t} : put'[u] = put[u]
    <3>1. put \in [Puts -> PutThreads]
      BY DEF TypeInv, TypeOK
    <3>2. QED
      BY <1>4, <3>1 DEF ReceivePut, PutThreads
  <2>3. CallRouted(t)'
    BY <2>2 DEF CallRouted
  <2>4. QED
    BY <1>1, <2>1, <2>2, <2>3, RouteKept
<1>5. CASE \/ \E n \in Nodes, e \in Epochs : Promote(n, e)
           \/ \E n \in Victims : Kill(n)
           \/ UNCHANGED vars
  BY <1>2, <1>5 DEF Promote, Kill, vars
<1>6. QED
  BY <1>1, <1>3, <1>4, <1>5, TickerRoutes, PutHandlerRoutes DEF Next

LEMMA InitRoutes == Init => RouteInv
BY DEF Init, RouteInv, CallRouted, IdleTicker, UnsentPut

LEMMA RouteInvariant == Spec => []RouteInv
BY InitRoutes, NextRoutes, TypeInvInvariant, CallsInvariant, LeadersInvariant, CopiesInvariant,
   ProposalsInvariant, PTL DEF Spec

-----------------------------------------------------------------------------
(* The reign of the first leader.                                          *)

\* What is known of every reachable state.
KnownInv ==
  /\ TypeInv /\ CallsInv /\ IndexInv /\ LeadersInv /\ CopiesInv /\ ProposalsInv /\ RouteInv
  /\ ElectionSafety

LEMMA KnownInvariant == Spec => []KnownInv
BY TypeInvInvariant, CallsInvariant, IndexInvInvariant, LeadersInvariant, CopiesInvariant,
   ProposalsInvariant, RouteInvariant, ElectionsSafe, PTL DEF KnownInv

SamePrefix(s, l) == Len(s) <= Len(l) /\ \A i \in 1..Len(s) : s[i] = l[i]

\* The leader keeps the lead, all logs are prefixes of its log, and every entry that
\* was appended is in it.
Reigns(l) ==
  /\ role[l] = "Leader" /\ currentTerm[l] = 1
  /\ \A n \in Nodes : SamePrefix(log[n], log[l])
  /\ \A t \in Puts : Stamped(t) =>
       Entry(t).index \in 1..Len(log[l]) /\ log[l][Entry(t).index] = Entry(t)

ReignInv == FirstReign => \A x \in elected : Reigns(x[2])

\* There is one leader at most, of term 1.
LEMMA OneReign ==
  ASSUME KnownInv, FirstReign
  PROVE  /\ \A x \in elected : x[1] = 1 /\ x[2] \in Nodes
         /\ \A x, y \in elected : x[2] = y[2]
<1>1. elected \subseteq Nat \X Nodes /\ currentTerm \in [Nodes -> Nat]
  BY DEF KnownInv, TypeInv, TypeOK
<1>2. ASSUME NEW x \in elected PROVE x[1] = 1 /\ x[2] \in Nodes
  <2>1. x[1] \in Nat /\ x[2] \in Nodes /\ currentTerm[x[2]] \in Nat
    BY <1>1
  <2>2. x[1] > 0 /\ x[1] <= currentTerm[x[2]] /\ currentTerm[x[2]] <= 1
    BY <2>1 DEF KnownInv, LeadersInv, FirstReign
  <2>3. QED
    BY <2>1, <2>2
<1>3. QED
  BY <1>2 DEF KnownInv, ElectionSafety

\* Terms only grow.
LEMMA StillFirstReign ==
  ASSUME KnownInv, KnownInv', [Next]_vars, FirstReign'
  PROVE  /\ FirstReign
         /\ \A n \in Nodes : currentTerm[n] = 1 => currentTerm'[n] = 1
<1>1. \A n \in Nodes : currentTerm'[n] >= currentTerm[n]
  BY NextVoteStep DEF KnownInv, VoteStep
<1>2. currentTerm \in [Nodes -> Nat] /\ currentTerm' \in [Nodes -> Nat]
  BY DEF KnownInv, TypeInv, TypeOK
<1>3. ASSUME NEW n \in Nodes
      PROVE  currentTerm[n] <= 1 /\ (currentTerm[n] = 1 => currentTerm'[n] = 1)
  <2>1. currentTerm[n] \in Nat /\ currentTerm'[n] \in Nat /\ currentTerm'[n] <= 1
    BY <1>2 DEF FirstReign
  <2>2. QED
    BY <1>1, <2>1
<1>4. QED
  BY <1>3 DEF FirstReign

\* Where logs and elections change.
LEMMA LogChange ==
  [Next]_vars => \/ log' = log
                 \/ \E t \in Puts : ProposeEntry(t)
                 \/ \E m \in rpcs : HandleAppendEntries(m)
<1> SUFFICES ASSUME [Next]_vars, ~(\E t \in Puts : ProposeEntry(t)),
                    ~(\E m \in rpcs : HandleAppendEntries(m))
             PROVE  log' = log
  OBVIOUS
<1> USE DEF raftVars, stateVars, history
<1>1. ASSUME NEW n \in Nodes, Ticker(n) PROVE log' = log
  BY <1>1 DEF Ticker, StartElection, BeginBallot, AskVote, TallyVotes, PublishWin, SeeLeader,
              SendHeartbeats
<1>2. CASE Handler
  BY <1>2 DEF Handler, HandleRequestVote, HandleRepl, TakeCommitted, ApplyCommitted
<1>3. ASSUME NEW t \in Puts, PutHandler(t) PROVE log' = log
  BY <1>3 DEF PutHandler, CaptureView, SendAppend, SendRepl, CommitEntry, TakeOwn, ApplyOwn
<1>4. CASE \/ \E t \in Puts, n \in Nodes, k \in Keys : ReceivePut(t, n, k)
           \/ \E n \in Nodes, e \in Epochs : Promote(n, e)
           \/ \E n \in Victims : Kill(n)
           \/ UNCHANGED vars
  BY <1>4 DEF ReceivePut, Promote, Kill, vars
<1>5. QED
  BY <1>1, <1>2, <1>3, <1>4 DEF Next

LEMMA ElectedChange ==
  [Next]_vars => \/ elected' = elected
                 \/ \E n \in Nodes :
                      /\ role[n] = "Candidate" /\ role' = [role EXCEPT ![n] = "Leader"]
                      /\ elected' = elected \cup {<<currentTerm[n], n>>}
                      /\ UNCHANGED <<log, put>>
<1> SUFFICES ASSUME [Next]_vars
             PROVE  \/ elected' = elected
                    \/ \E n \in Nodes :
                         /\ role[n] = "Candidate" /\ role' = [role EXCEPT ![n] = "Leader"]
                         /\ elected' = elected \cup {<<currentTerm[n], n>>}
                         /\ UNCHANGED <<log, put>>
  OBVIOUS
<1> USE DEF raftVars, stateVars, history
<1>1. ASSUME NEW n \in Nodes, TallyVotes(n)
      PROVE  \/ elected' = elected
             \/ /\ role[n] = "Candidate" /\ role' = [role EXCEPT ![n] = "Leader"]
                /\ elected' = elected \cup {<<currentTerm[n], n>>}
                /\ UNCHANGED <<log, put>>
  BY <1>1 DEF TallyVotes
<1>2. ASSUME NEW n \in Nodes, Ticker(n), ~TallyVotes(n) PROVE elected' = elected
  BY <1>2 DEF Ticker, StartElection, BeginBallot, AskVote, PublishWin, SeeLeader, SendHeartbeats
<1>3. CASE Handler
  BY <1>3 DEF Handler, HandleRequestVote, HandleAppendEntries, HandleRepl, TakeCommitted,
              ApplyCommitted
<1>4. ASSUME NEW t \in Puts, PutHandler(t) PROVE elected' = elected
  BY <1>4 DEF PutHandler, ProposeEntry, CaptureView, SendAppend, SendRepl, CommitEntry, TakeOwn,
              ApplyOwn
<1>5. CASE \/ \E t \in Puts, n \in Nodes, k \in Keys : ReceivePut(t, n, k)
           \/ \E n \in Nodes, e \in Epochs : Promote(n, e)
           \/ \E n \in Victims : Kill(n)
           \/ UNCHANGED vars
  BY <1>5 DEF ReceivePut, Promote, Kill, vars
<1>6. QED
  BY <1>1, <1>2, <1>3, <1>4, <1>5 DEF Next

\* While nobody has been elected nothing has been appended.
LEMMA NothingBefore ==
  ASSUME KnownInv, elected = {}
  PROVE  (\A t \in Puts : ~Stamped(t)) /\ \A n \in Nodes : log[n] = <<>>
<1>1. \A t \in Puts : ~Stamped(t)
  BY DEF KnownInv, ProposalsInv, ProposedByElected
<1>2. ASSUME NEW n \in Nodes, log[n] # <<>> PROVE FALSE
  <2>1. log[n] \in Seq(LogEntry)
    BY DEF KnownInv, TypeInv, TypeOK
  <2>2. 1 \in 1..Len(log[n])
    BY <1>2, <2>1
  <2>3. IsCopy(put, log[n][1])
    BY <2>2 DEF KnownInv, CopiesInv, AllCopies
  <2>4. QED
    BY <1>1, <2>3, CopyIsStamped DEF KnownInv
<1>3. QED
  BY <1>1, <1>2

\* No request makes the leader step down without a later term.
LEMMA LeadStays ==
  ASSUME KnownInv, FirstReign, [Next]_vars, NEW x \in elected, role[x[2]] = "Leader",
         currentTerm'[x[2]] = currentTerm[x[2]]
  PROVE  role'[x[2]] = "Leader"
<1> DEFINE l == x[2]
<1> USE DEF raftVars, stateVars, history
<1>1. /\ l \in Nodes /\ TypeInv /\ role \in [Nodes -> {"Follower", "Candidate", "Leader"}]
      /\ currentTerm \in [Nodes -> Nat]
  BY OneReign DEF KnownInv, TypeInv, TypeOK
<1>2. ASSUME role' = role PROVE role'[l] = "Leader"
  BY <1>2
<1>3. ASSUME NEW n \in Nodes, Ticker(n) PROVE role'[l] = "Leader"
  <2>1. CASE StartElection(n)
    BY <1>1, <2>1 DEF StartElection
  <2>2. CASE TallyVotes(n)
    <3>1. role' = role \/ role' = [role EXCEPT ![n] = "Leader"]
      BY <2>2 DEF TallyVotes
    <3>2. QED
      BY <1>1, <3>1
  <2>3. CASE ~StartElection(n) /\ ~TallyVotes(n)
    BY <1>3, <2>3 DEF Ticker, BeginBallot, AskVote, PublishWin, SeeLeader, SendHeartbeats
  <2>4. QED
    BY <2>1, <2>2, <2>3
<1>4. ASSUME NEW m \in rpcs, HandleRequestVote(m) PROVE role'[l] = "Leader"
  <2> DEFINE n == m.to
  <2>1. n \in Nodes /\ m.term \in Nat
    <3>1. m \in VoteRequests
      BY <1>1, <1>4, RequestKinds DEF HandleRequestVote, TypeInv
    <3>2. QED
      BY <3>1 DEF VoteRequests
  <2>2. /\ currentTerm' = [currentTerm EXCEPT ![n] = AdoptedTerm(m, n)]
        /\ role' = [role EXCEPT ![n] = IF m.term > currentTerm[n] THEN "Follower" ELSE role[n]]
    BY <1>4 DEF HandleRequestVote
  <2>3. QED
    BY <1>1, <2>1, <2>2 DEF AdoptedTerm
<1>5. ASSUME NEW m \in rpcs, HandleAppendEntries(m) PROVE role'[l] = "Leader"
  <2>1. m.type = "AppendEntries" /\ role' = [role EXCEPT ![m.to] = AdoptedRole(m, m.to)]
    BY <1>5 DEF HandleAppendEntries
  <2>2. HasLed(m.from) /\ m.to # m.from
    BY <2>1 DEF KnownInv, RouteInv, Routed
  <2>3. m.from = l
    BY <2>2, OneReign DEF HasLed
  <2>4. QED
    BY <1>1, <2>1, <2>2, <2>3
<1>6. CASE Handler
  <2>1. ASSUME NEW m \in rpcs, HandleRepl(m) PROVE role'[l] = "Leader"
    BY <2>1 DEF HandleRepl
  <2>2. ASSUME NEW a \in appliers, TakeCommitted(a) \/ ApplyCommitted(a) PROVE role'[l] = "Leader"
    BY <2>2 DEF TakeCommitted, ApplyCommitted
  <2>3. QED
    BY <1>4, <1>5, <1>6, <2>1, <2>2 DEF Handler
<1>7. ASSUME NEW t \in Puts, PutHandler(t) PROVE role'[l] = "Leader"
  BY <1>7 DEF PutHandler, ProposeEntry, CaptureView, SendAppend, SendRepl, CommitEntry, TakeOwn,
              ApplyOwn
<1>8. CASE \/ \E t \in Puts, n \in Nodes, k \in Keys : ReceivePut(t, n, k)
           \/ \E n \in Nodes, e \in Epochs : Promote(n, e)
           \/ \E n \in Victims : Kill(n)
           \/ UNCHANGED vars
  BY <1>8 DEF ReceivePut, Promote, Kill, vars
<1>9. QED
  BY <1>3, <1>6, <1>7, <1>8 DEF Next

LEMMA SamePrefixTransitive ==
  ASSUME NEW r \in Seq(LogEntry), NEW s \in Seq(LogEntry), NEW l \in Seq(LogEntry),
         SamePrefix(r, s), SamePrefix(s, l)
  PROVE  SamePrefix(r, l)
BY DEF SamePrefix

LEMMA AppendPrefix ==
  ASSUME NEW s \in Seq(LogEntry), NEW e \in LogEntry
  PROVE  SamePrefix(s, Append(s, e))
BY DEF SamePrefix

\* The entry a request carries is the one its call appended.
LEMMA SentEntryIsCopy ==
  ASSUME KnownInv, NEW m \in rpcs, m.type = "AppendEntries", m.entries # <<>>
  PROVE  /\ m.by \in Puts /\ Stamped(m.by) /\ m.entries[1] = Entry(m.by)
         /\ IsCopy(put, m.entries[1]) /\ m.entries[1] \in LogEntry
         /\ m.entries[1].index = m.prevIndex + 1
<1>1. m \in AppendRequests /\ DOMAIN put = Puts
  BY RequestKinds DEF KnownInv, TypeInv, TypeOK
<1>2. m.by \in Puts \cup {NoPut} /\ m.entries[1] \in LogEntry
  BY <1>1 DEF AppendRequests
<1>3. m.by \in Puts /\ m.entries = put[m.by].entry /\ put[m.by].entry[1].index > 0
  BY <1>2 DEF KnownInv, CopiesInv, RequestCopies
<1>4. m.entries = <<Entry(m.by)>> /\ Entry(m.by).val = m.by
  BY <1>3 DEF KnownInv, CallsInv, CallInv
<1>5. m.entries[1] = Entry(m.by) /\ IsCopy(put, Entry(m.by))
  BY <1>1, <1>3, <1>4 DEF IsCopy, Entry
<1>6. m.entries[1].index = m.prevIndex + 1
  BY DEF KnownInv, IndexInv, RequestsIndexed
<1>7. QED
  BY <1>2, <1>3, <1>5, <1>6 DEF Stamped, Entry

\* Under the first leader a request never cuts off anything: it adds the leader's
\* next entry to the log or finds it there.
LEMMA ReignMerge ==
  ASSUME KnownInv, FirstReign, ReignInv, NEW x \in elected,
         NEW m \in rpcs, m.type = "AppendEntries", PrevLogOk(m, log[m.to])
  PROVE  /\ \/ MergedLog(m, log[m.to]) = log[m.to]
            \/ /\ m.entries # <<>>
               /\ MergedLog(m, log[m.to]) = Append(log[m.to], m.entries[1])
         /\ SamePrefix(MergedLog(m, log[m.to]), log[x[2]])
         /\ m.entries # <<>> =>
              \E i \in 1..Len(MergedLog(m, log[m.to])) :
                MergedLog(m, log[m.to])[i] = m.entries[1]
<1> DEFINE n == m.to
           l == log[n]
           e == m.entries[1]
<1>1. m \in AppendRequests /\ n \in Nodes /\ l \in Seq(LogEntry) /\ Len(l) \in Nat
  <2>1. m \in AppendRequests
    BY RequestKinds DEF KnownInv, TypeInv
  <2>2. QED
    BY <2>1 DEF AppendRequests, KnownInv, TypeInv, TypeOK
<1>2. SamePrefix(l, log[x[2]]) /\ x[2] \in Nodes /\ log[x[2]] \in Seq(LogEntry)
  BY <1>1, OneReign DEF ReignInv, Reigns, KnownInv, TypeInv, TypeOK
<1>3. CASE m.entries = <<>>
  BY <1>2, <1>3 DEF MergedLog
<1>4. CASE m.entries # <<>>
  <2> DEFINE k == m.prevIndex + 1
  <2>1. e \in LogEntry /\ e.index = k /\ Stamped(m.by) /\ e = Entry(m.by) /\ m.by \in Puts
    BY <1>4, SentEntryIsCopy
  <2>2. k \in 1..Len(log[x[2]]) /\ log[x[2]][k] = e
    BY <2>1 DEF ReignInv, Reigns
  <2>3. m.prevIndex \in 0..Len(l) /\ k \in 1..(Len(l) + 1)
    BY <1>1 DEF AppendRequests, PrevLogOk
  <2>4. CASE k > Len(l)
    <3>1. MergedLog(m, l) = Append(l, e) /\ k = Len(l) + 1
      BY <1>1, <1>4, <2>3, <2>4 DEF MergedLog
    <3> HIDE DEF e, l
    <3>2. /\ Len(Append(l, e)) = k /\ Append(l, e)[k] = e
          /\ \A i \in 1..Len(l) : Append(l, e)[i] = l[i]
      BY <1>1, <2>1, <3>1, AppendProperties
    <3>3. SamePrefix(Append(l, e), log[x[2]])
      <4>1. ASSUME NEW i \in 1..k PROVE Append(l, e)[i] = log[x[2]][i]
        <5>1. CASE i = k
          BY <2>2, <3>2, <5>1
        <5>2. CASE i # k
          <6>1. i \in 1..Len(l)
            BY <1>1, <3>1, <5>2
          <6>2. QED
            BY <1>2, <3>2, <6>1 DEF SamePrefix
        <5>3. QED
          BY <5>1, <5>2
      <4>2. k <= Len(log[x[2]])
        BY <2>2
      <4>3. QED
        BY <3>2, <4>1, <4>2 DEF SamePrefix
    <3>4. k \in 1..Len(Append(l, e))
      BY <2>3, <3>2
    <3>5. QED
      BY <1>4, <3>1, <3>2, <3>3, <3>4 DEF e, l
  <2>5. CASE ~(k > Len(l))
    <3>1. k \in 1..Len(l)
      BY <1>1, <2>3, <2>5
    <3>2. l[k] = e
      BY <1>2, <2>2, <3>1 DEF SamePrefix
    <3>3. MergedLog(m, l) = l
      BY <1>4, <2>5, <3>2, Zenon DEF MergedLog
    <3>4. QED
      BY <1>2, <1>4, <3>1, <3>2, <3>3
  <2>6. QED
    BY <2>4, <2>5
<1>5. QED
  BY <1>3, <1>4

\* What an AppendEntries does to the logs.
LEMMA ReignAppendEntries ==
  ASSUME KnownInv, FirstReign, ReignInv, NEW x \in elected,
         NEW m \in rpcs, HandleAppendEntries(m)
  PROVE  /\ m.to # x[2] /\ log'[x[2]] = log[x[2]]
         /\ \A p \in Nodes : SamePrefix(log[p], log'[p]) /\ SamePrefix(log'[p], log[x[2]])
         /\ AcceptsEntries(m, m.to) /\ m.entries # <<>> =>
              \E i \in 1..Len(log'[m.to]) : log'[m.to][i] = m.entries[1]
<1> DEFINE n == m.to
<1>1. /\ m.type = "AppendEntries"
      /\ log' = [log EXCEPT ![n] = IF AcceptsEntries(m, n) THEN MergedLog(m, log[n]) ELSE log[n]]
  BY DEF HandleAppendEntries
<1>2. log \in [Nodes -> Seq(LogEntry)] /\ n \in Nodes /\ x[2] \in Nodes
  <2>1. m \in AppendRequests
    BY <1>1, RequestKinds DEF KnownInv, TypeInv
  <2>2. QED
    BY <2>1, OneReign DEF AppendRequests, KnownInv, TypeInv, TypeOK
<1>3. n # x[2]
  <2>1. HasLed(m.from) /\ m.to # m.from
    BY <1>1 DEF KnownInv, RouteInv, Routed
  <2>2. m.from = x[2]
    BY <2>1, OneReign DEF HasLed
  <2>3. QED
    BY <2>1, <2>2
<1>4. \A p \in Nodes : SamePrefix(log[p], log[x[2]]) /\ SamePrefix(log[p], log[p])
  BY <1>2 DEF ReignInv, Reigns, SamePrefix
<1>5. CASE AcceptsEntries(m, n)
  <2>1. PrevLogOk(m, log[n])
    BY <1>5 DEF AcceptsEntries
  <2>2. /\ \/ MergedLog(m, log[n]) = log[n]
           \/ m.entries # <<>> /\ MergedLog(m, log[n]) = Append(log[n], m.entries[1])
        /\ SamePrefix(MergedLog(m, log[n]), log[x[2]])
        /\ m.entries # <<>> =>
             \E i \in 1..Len(MergedLog(m, log[n])) : MergedLog(m, log[n])[i] = m.entries[1]
    BY <1>1, <2>1, ReignMerge
  <2>3. log'[n] = MergedLog(m, log[n]) /\ \A p \in Nodes \ {n} : log'[p] = log[p]
    BY <1>1, <1>2, <1>5
  <2>4. SamePrefix(log[n], MergedLog(m, log[n]))
    <3>1. CASE MergedLog(m, log[n]) = log[n]
      BY <1>2, <1>4, <3>1
    <3>2. CASE m.entries # <<>> /\ MergedLog(m, log[n]) = Append(log[n], m.entries[1])
      <4>1. m.entries[1] \in LogEntry
        BY <1>1, <3>2, SentEntryIsCopy
      <4>2. QED
        BY <1>2, <3>2, <4>1, AppendPrefix
    <3>3. QED
      BY <2>2, <3>1, <3>2
  <2>5. QED
    BY <1>2, <1>3, <1>4, <2>2, <2>3, <2>4
<1>6. CASE ~AcceptsEntries(m, n)
  <2>1. log' = log
    BY <1>1, <1>2, <1>6
  <2>2. QED
    BY <1>3, <1>4, <1>6, <2>1
<1>7. QED
  BY <1>5, <1>6

\* What a proposal does to the logs.
LEMMA ReignPropose ==
  ASSUME KnownInv, FirstReign, ReignInv, NEW t \in Puts, ProposeEntry(t), log' # log
  PROVE  /\ \A x \in elected : put[t].node = x[2]
         /\ Entry(t)' \in LogEntry
         /\ log' = [log EXCEPT ![put[t].node] = Append(log[put[t].node], Entry(t)')]
         /\ Entry(t)'.index = Len(log[put[t].node]) + 1
         /\ \A p \in Nodes : SamePrefix(log[p], log'[p])
<1> DEFINE n == put[t].node
<1>1. /\ role[n] = "Leader" /\ Entry(t)' \in LogEntry
      /\ Entry(t)'.index = LastIndex(log[n]) + 1
      /\ log' = [log EXCEPT ![n] = Append(log[n], Entry(t)')]
  BY ProposeEntryEffect DEF KnownInv
<1>2. n \in Nodes /\ log \in [Nodes -> Seq(LogEntry)]
  <2>1. put[t].pc \in Working
    BY DEF ProposeEntry, Working
  <2>2. QED
    BY <2>1, WorkerType DEF KnownInv, TypeInv, TypeOK
<1>3. \A x \in elected : n = x[2]
  <2>1. HasLed(n)
    BY <1>1, <1>2, LeaderHasLed DEF KnownInv
  <2>2. QED
    BY <2>1, OneReign DEF HasLed
<1>4. LastIndex(log[n]) = Len(log[n])
  <2>1. Indexed(log[n])
    BY <1>2 DEF KnownInv, IndexInv, IndexIsPosition, Indexed
  <2>2. QED
    BY <1>2, <2>1, LastIndexIsLen
<1>5. \A p \in Nodes : SamePrefix(log[p], log'[p])
  <2>1. SamePrefix(log[n], log'[n])
    <3>1. log'[n] = Append(log[n], Entry(t)')
      BY <1>1, <1>2
    <3>2. QED
      BY <1>1, <1>2, <3>1, AppendPrefix
  <2>2. ASSUME NEW p \in Nodes \ {n} PROVE SamePrefix(log[p], log'[p])
    <3>1. log'[p] = log[p] /\ log[p] \in Seq(LogEntry)
      BY <1>1, <1>2
    <3>2. QED
      BY <3>1 DEF SamePrefix
  <2>3. QED
    BY <2>1, <2>2
<1>6. QED
  BY <1>1, <1>3, <1>4, <1>5

\* Logs grow at their ends only, and never beyond the leader's.
LEMMA ReignLogs ==
  ASSUME KnownInv, FirstReign, ReignInv, [Next]_vars
  PROVE  /\ \A p \in Nodes : SamePrefix(log[p], log'[p])
         /\ \A x \in elected, p \in Nodes : SamePrefix(log'[p], log'[x[2]])
<1>1. log \in [Nodes -> Seq(LogEntry)]
  BY DEF KnownInv, TypeInv, TypeOK
<1>2. \A p \in Nodes : SamePrefix(log[p], log[p])
  BY <1>1 DEF SamePrefix
<1>3. \A x \in elected, p \in Nodes : SamePrefix(log[p], log[x[2]])
  BY DEF ReignInv, Reigns
<1>4. CASE log' = log
  BY <1>2, <1>3, <1>4
<1>5. ASSUME NEW t \in Puts, ProposeEntry(t), log' # log
      PROVE  /\ \A p \in Nodes : SamePrefix(log[p], log'[p])
             /\ \A x \in elected, p \in Nodes : SamePrefix(log'[p], log'[x[2]])
  <2>1. /\ \A x \in elected : put[t].node = x[2]
        /\ log' = [log EXCEPT ![put[t].node] = Append(log[put[t].node], Entry(t)')]
        /\ Entry(t)' \in LogEntry
        /\ \A p \in Nodes : SamePrefix(log[p], log'[p])
    BY <1>5, ReignPropose
  <2>2. ASSUME NEW x \in elected, NEW p \in Nodes PROVE SamePrefix(log'[p], log'[x[2]])
    <3>1. x[2] \in Nodes /\ put[t].node = x[2] /\ SamePrefix(log[x[2]], log'[x[2]])
      BY <2>1, OneReign
    <3>2. log'[x[2]] = Append(log[x[2]], Entry(t)') /\ \A q \in Nodes \ {x[2]} : log'[q] = log[q]
      BY <1>1, <2>1, <3>1
    <3>3. log'[x[2]] \in Seq(LogEntry)
      BY <1>1, <2>1, <3>1, <3>2
    <3>4. CASE p = x[2]
      BY <3>3, <3>4 DEF SamePrefix
    <3>5. CASE p # x[2]
      <4>1. log'[p] = log[p] /\ SamePrefix(log[p], log[x[2]])
        BY <1>3, <3>2, <3>5
      <4>2. QED
        BY <1>1, <3>1, <3>3, <4>1, SamePrefixTransitive
    <3>6. QED
      BY <3>4, <3>5
  <2>3. QED
    BY <2>1, <2>2
<1>6. ASSUME NEW m \in rpcs, HandleAppendEntries(m)
      PROVE  /\ \A p \in Nodes : SamePrefix(log[p], log'[p])
             /\ \A x \in elected, p \in Nodes : SamePrefix(log'[p], log'[x[2]])
  <2>1. HasLed(m.from)
    BY <1>6 DEF HandleAppendEntries, KnownInv, RouteInv, Routed
  <2>2. \A x \in elected : /\ log'[x[2]] = log[x[2]]
                           /\ \A p \in Nodes : SamePrefix(log[p], log'[p])
                           /\ \A p \in Nodes : SamePrefix(log'[p], log[x[2]])
    BY <1>6, ReignAppendEntries
  <2>3. QED
    BY <2>1, <2>2 DEF HasLed
<1>7. QED
  BY <1>4, <1>5, <1>6, LogChange

OneLeader ==
  /\ \A x \in elected : x[1] = 1 /\ x[2] \in Nodes
  /\ \A x, y \in elected : x[2] = y[2]

LEMMA OneLeaderHolds == KnownInv /\ FirstReign => OneLeader
BY OneReign DEF OneLeader

LEMMA NextReign == KnownInv /\ KnownInv' /\ ReignInv /\ [Next]_vars => ReignInv'
<1> SUFFICES ASSUME KnownInv, KnownInv', ReignInv, [Next]_vars, FirstReign', NEW y \in elected'
             PROVE  Reigns(y[2])'
  BY DEF ReignInv
<1>1. /\ FirstReign /\ EntriesStand /\ elected \subseteq elected'
      /\ \A n \in Nodes : currentTerm[n] = 1 => currentTerm'[n] = 1
  BY StillFirstReign, NextCalls, ElectedGrows DEF KnownInv
<1>2. OneLeader'
  BY OneLeaderHolds, PTL
<1>3. CASE elected = {}
  <2>1. PICK n \in Nodes : /\ role' = [role EXCEPT ![n] = "Leader"]
                           /\ elected' = elected \cup {<<currentTerm[n], n>>}
                           /\ UNCHANGED <<log, put>>
    BY <1>3, ElectedChange
  <2>2. y[2] = n
    BY <1>3, <2>1
  <2>3. role'[n] = "Leader"
    <3>1. role \in [Nodes -> {"Follower", "Candidate", "Leader"}]
      BY DEF KnownInv, TypeInv, TypeOK
    <3>2. QED
      BY <2>1, <3>1
  <2>4. currentTerm'[n] = 1
    <3>1. <<currentTerm'[n], n>> \in elected'
      BY <2>3 DEF KnownInv, LeadersInv
    <3>2. <<currentTerm'[n], n>>[1] = currentTerm'[n]
      OBVIOUS
    <3>3. QED
      BY <1>2, <3>1, <3>2 DEF OneLeader
  <2>5. (\A t \in Puts : ~Stamped(t)) /\ \A p \in Nodes : log[p] = <<>>
    BY <1>3, NothingBefore
  <2>6. (\A t \in Puts : ~Stamped(t)') /\ \A p \in Nodes : log'[p] = <<>>
    BY <2>1, <2>5 DEF Stamped, Entry
  <2>7. QED
    BY <2>2, <2>3, <2>4, <2>6 DEF Reigns, SamePrefix
<1>4. ASSUME NEW x \in elected
      PROVE  Reigns(x[2])' /\ y[2] = x[2]
  <2> DEFINE l == x[2]
  <2>1. y[2] = x[2] /\ l \in Nodes
    BY <1>1, <1>2 DEF OneLeader
  <2>2. role[l] = "Leader" /\ currentTerm[l] = 1 /\ currentTerm'[l] = 1
    BY <1>1, <2>1 DEF ReignInv, Reigns
  <2>3. role'[l] = "Leader"
    BY <1>1, <2>2, LeadStays
  <2>4. \A p \in Nodes : SamePrefix(log[p], log'[p]) /\ SamePrefix(log'[p], log'[l])
    BY <1>1, ReignLogs
  <2>5. ASSUME NEW t \in Puts, Stamped(t)'
        PROVE  Entry(t)'.index \in 1..Len(log'[l]) /\ log'[l][Entry(t)'.index] = Entry(t)'
    <3>1. log[l] \in Seq(LogEntry) /\ log'[l] \in Seq(LogEntry)
      BY <2>1 DEF KnownInv, TypeInv, TypeOK
    <3>2. CASE Stamped(t)
      <4>1. Entry(t)' = Entry(t)
        BY <1>1, <3>2, StampedStands
      <4>2. Entry(t).index \in 1..Len(log[l]) /\ log[l][Entry(t).index] = Entry(t)
        BY <1>1, <3>2 DEF ReignInv, Reigns
      <4>3. SamePrefix(log[l], log'[l])
        BY <2>1, <2>4
      <4>4. QED
        BY <3>1, <4>1, <4>2, <4>3 DEF SamePrefix
    <3>3. CASE ~Stamped(t)
      <4>1. ProposeEntry(t)
        BY <2>5, <3>3, NextStamps DEF KnownInv, StampsOnly
      <4>2. /\ put[t].node \in Nodes
            /\ Len(log'[put[t].node]) = Len(log[put[t].node]) + 1
        BY <2>5, <4>1, NewStamp DEF KnownInv
      <4>3. log' # log
        <5>1. log[put[t].node] \in Seq(LogEntry)
          BY <4>2 DEF KnownInv, TypeInv, TypeOK
        <5>2. Len(log[put[t].node]) \in Nat
          BY <5>1
        <5>3. QED
          BY <4>2, <5>2
      <4>4. /\ put[t].node = l /\ Entry(t)' \in LogEntry
            /\ log' = [log EXCEPT ![l] = Append(log[l], Entry(t)')]
            /\ Entry(t)'.index = Len(log[l]) + 1
        BY <1>1, <4>1, <4>3, ReignPropose
      <4>5. log'[l] = Append(log[l], Entry(t)')
        <5>1. log \in [Nodes -> Seq(LogEntry)]
          BY DEF KnownInv, TypeInv, TypeOK
        <5>2. QED
          BY <2>1, <4>4, <5>1
      <4>6. \A e \in LogEntry : /\ Len(Append(log[l], e)) = Len(log[l]) + 1
                                /\ Append(log[l], e)[Len(log[l]) + 1] = e
        BY <3>1
      <4>7. Len(log[l]) + 1 \in 1..(Len(log[l]) + 1)
        BY <3>1
      <4>8. QED
        BY <4>4, <4>5, <4>6, <4>7
    <3>4. QED
      BY <3>2, <3>3
  <2>6. QED
    BY <2>1, <2>2, <2>3, <2>4, <2>5 DEF Reigns
<1>5. QED
  BY <1>3, <1>4

LEMMA InitReign == Init => ReignInv
BY DEF Init, ReignInv

LEMMA ReignInvariant == Spec => []ReignInv
BY InitReign, NextReign, KnownInvariant, PTL DEF Spec

LEMMA PrefixesOfLeader == KnownInv /\ ReignInv => FollowerPrefix
<1> SUFFICES ASSUME KnownInv, ReignInv, FirstReign, NEW x \in elected, NEW n \in Nodes
             PROVE  /\ Len(log[n]) <= Len(log[x[2]])
                    /\ SubSeq(log[x[2]], 1, Len(log[n])) = log[n]
  BY DEF FollowerPrefix
<1> DEFINE s == log[n]
           l == log[x[2]]
<1>1. s \in Seq(LogEntry) /\ l \in Seq(LogEntry)
  BY OneReign DEF KnownInv, TypeInv, TypeOK
<1>2. Len(s) <= Len(l) /\ \A i \in 1..Len(s) : s[i] = l[i]
  BY DEF ReignInv, Reigns, SamePrefix
<1> HIDE DEF s, l
<1>3. /\ SubSeq(l, 1, Len(s)) \in Seq(LogEntry) /\ Len(SubSeq(l, 1, Len(s))) = Len(s)
      /\ \A i \in 1..Len(s) : SubSeq(l, 1, Len(s))[i] = l[i]
  BY <1>1, <1>2, SubSeqProperties
<1>4. SubSeq(l, 1, Len(s)) = s
  BY <1>1, <1>2, <1>3, SeqEqual
<1>5. QED
  BY <1>2, <1>4 DEF s, l

\* Under the first leader, whatever requests are lost or late, every log is a prefix
\* of the leader's: handle_append_entries leaves no gap and takes nothing back.
THEOREM FollowersHoldPrefixes == Spec => []FollowerPrefix
BY KnownInvariant, ReignInvariant, PrefixesOfLeader, PTL

-----------------------------------------------------------------------------
(* Who holds an answered entry.                                            *)

Holders(t) == {n \in Nodes : InLog(n, Entry(t)) \/ InCatalog(n, Entry(t))}

Counted(t) == put[t].pc \in {"take", "apply"} \/ put[t].result = "committed"

\* A successful answer comes from a log that holds the entry, only nodes other than
\* the leader itself are counted, and they hold the entry; a call that goes past its
\* count is held by a majority.
AckInv ==
  FirstReign =>
    /\ \A a \in appliers : a.by # NoPut /\ a.success => InLog(a.to, Entry(a.by))
    /\ \A t \in Puts : \A p \in put[t].acks :
         Stamped(t) /\ p \in Holders(t) /\ p # put[t].node
    /\ \A t \in Puts : Counted(t) => Stamped(t) /\ Cardinality(Holders(t)) >= Majority

\* Nothing leaves a catalog's log.
LEMMA CatalogsGrow ==
  ASSUME TypeInv, [Next]_vars
  PROVE  \A n \in Nodes : catLog[n] \subseteq catLog'[n]
<1> USE DEF raftVars, stateVars, history
<1>1. catLog \in [Nodes -> SUBSET CatalogEntry]
  BY DEF TypeInv, TypeOK
<1>2. ASSUME catLog' = catLog PROVE \A n \in Nodes : catLog[n] \subseteq catLog'[n]
  BY <1>2
<1>3. ASSUME NEW q, NEW c, catLog' = [catLog EXCEPT ![q] = @ \cup {c}]
      PROVE  \A n \in Nodes : catLog[n] \subseteq catLog'[n]
  BY <1>1, <1>3
<1>4. ASSUME NEW n \in Nodes, Ticker(n) PROVE catLog' = catLog
  BY <1>4 DEF Ticker, StartElection, BeginBallot, AskVote, TallyVotes, PublishWin, SeeLeader,
              SendHeartbeats
<1>5. ASSUME Handler PROVE catLog' = catLog \/ \E q, c : catLog' = [catLog EXCEPT ![q] = @ \cup {c}]
  <2>1. ASSUME NEW m \in rpcs, HandleRequestVote(m) \/ HandleAppendEntries(m) PROVE catLog' = catLog
    BY <2>1 DEF HandleRequestVote, HandleAppendEntries
  <2>2. ASSUME NEW m \in rpcs, HandleRepl(m)
        PROVE  catLog' = catLog \/ \E q, c : catLog' = [catLog EXCEPT ![q] = @ \cup {c}]
    BY <2>2, Zenon DEF HandleRepl
  <2>3. ASSUME NEW a \in appliers, TakeCommitted(a) PROVE catLog' = catLog
    BY <2>3 DEF TakeCommitted
  <2>4. ASSUME NEW a \in appliers, ApplyCommitted(a)
        PROVE  \E q, c : catLog' = [catLog EXCEPT ![q] = @ \cup {c}]
    BY <2>4, Zenon DEF ApplyCommitted, ApplyEntry
  <2>5. QED
    BY <1>5, <2>1, <2>2, <2>3, <2>4 DEF Handler
<1>6. ASSUME NEW t \in Puts, PutHandler(t)
      PROVE  catLog' = catLog \/ \E q, c : catLog' = [catLog EXCEPT ![q] = @ \cup {c}]
  <2>1. ASSUME ApplyOwn(t) PROVE \E q, c : catLog' = [catLog EXCEPT ![q] = @ \cup {c}]
    BY <2>1, Zenon DEF ApplyOwn, ApplyEntry
  <2>2. ASSUME ~ApplyOwn(t) PROVE catLog' = catLog
    BY <1>6, <2>2 DEF PutHandler, ProposeEntry, CaptureView, SendAppend, SendRepl, CommitEntry, TakeOwn
  <2>3. QED
    BY <2>1, <2>2
<1>7. CASE \/ \E t \in Puts, n \in Nodes, k \in Keys : ReceivePut(t, n, k)
           \/ \E n \in Nodes, e \in Epochs : Promote(n, e)
           \/ \E n \in Victims : Kill(n)
           \/ UNCHANGED vars
  BY <1>2, <1>7 DEF ReceivePut, Promote, Kill, vars
<1>8. QED
  BY <1>2, <1>3, <1>4, <1>5, <1>6, <1>7 DEF Next

\* Under the first leader a node that holds an entry goes on to hold it.
LEMMA StillInLog ==
  ASSUME KnownInv, FirstReign, ReignInv, [Next]_vars,
         NEW n \in Nodes, NEW e, InLog(n, e)
  PROVE  \E i \in 1..Len(log'[n]) : log'[n][i] = e
<1>1. SamePrefix(log[n], log'[n])
  BY ReignLogs
<1>2. PICK i \in 1..Len(log[n]) : log[n][i] = e
  BY DEF InLog
<1>3. log[n] \in Seq(LogEntry)
  BY DEF KnownInv, TypeInv, TypeOK
<1>4. Len(log[n]) \in Nat
  BY <1>3
<1>5. i \in 1..Len(log'[n]) /\ log'[n][i] = e
  BY <1>1, <1>2, <1>4 DEF SamePrefix
<1>6. QED
  BY <1>5

LEMMA HoldersGrow ==
  ASSUME KnownInv, FirstReign, ReignInv, [Next]_vars, NEW t \in Puts, Stamped(t)
  PROVE  Stamped(t)' /\ Holders(t) \subseteq Holders(t)'
<1>1. EntriesStand
  BY NextCalls DEF KnownInv
<1>2. Stamped(t)' /\ Entry(t)' = Entry(t)
  BY <1>1, StampedStands
<1>3. ASSUME NEW n \in Nodes, InLog(n, Entry(t))
      PROVE  \E i \in 1..Len(log'[n]) : log'[n][i] = Entry(t)'
  BY <1>2, <1>3, StillInLog
<1>4. ASSUME NEW n \in Nodes, InCatalog(n, Entry(t))
      PROVE  \E c \in catLog'[n] : c.index = Entry(t)'.index /\ c.val = Entry(t)'.val
  BY <1>2, <1>4, CatalogsGrow DEF InCatalog, KnownInv
<1>5. QED
  BY <1>2, <1>3, <1>4 DEF Holders, InLog, InCatalog

LEMMA MoreHolders ==
  ASSUME NEW S \in SUBSET Nodes, NEW T \in SUBSET Nodes, S \subseteq T,
         Cardinality(S) >= Majority
  PROVE  Cardinality(T) >= Majority
<1>1. IsFiniteSet(T) /\ IsFiniteSet(Nodes)
  BY NodesAssumption, FS_Subset
<1>2. IsFiniteSet(S) /\ Cardinality(S) <= Cardinality(T)
  BY <1>1, FS_Subset
<1>3. Cardinality(S) \in Nat /\ Cardinality(T) \in Nat /\ Cardinality(Nodes) \in Nat
  BY <1>1, <1>2, FS_CardinalityType
<1>4. QED
  BY <1>2, <1>3 DEF Majority

LEMMA AcksKept ==
  ASSUME KnownInv, FirstReign, ReignInv, AckInv, [Next]_vars,
         \A a \in appliers' : a.by # NoPut /\ a.success =>
           \/ \E b \in appliers : b.by = a.by /\ b.success /\ b.to = a.to
           \/ InLog(a.to, Entry(a.by))',
         \A t \in Puts : \A p \in put'[t].acks :
           \/ p \in put[t].acks
           \/ Stamped(t) /\ p \in Holders(t)' /\ p # put[t].node,
         \A t \in Puts : Counted(t)' =>
           \/ Counted(t)
           \/ Stamped(t) /\ Cardinality(Holders(t)) >= Majority
  PROVE  AckInv'
<1>1. EntriesStand
  BY NextCalls DEF KnownInv
<1>2. ASSUME NEW a \in appliers', a.by # NoPut, a.success,
             NEW b \in appliers, b.by = a.by, b.success, b.to = a.to
      PROVE  InLog(a.to, Entry(a.by))'
  <2>1. InLog(b.to, Entry(b.by)) /\ b.by \in Puts /\ Stamped(b.by)
    BY <1>2 DEF AckInv, KnownInv, RouteInv, ApplierRouted
  <2>2. b.to \in Nodes
    BY DEF KnownInv, TypeInv, TypeOK, Appliers
  <2>3. \E i \in 1..Len(log'[b.to]) : log'[b.to][i] = Entry(b.by)
    BY <2>1, <2>2, StillInLog
  <2>4. Entry(b.by)' = Entry(b.by)
    BY <1>1, <2>1, StampedStands
  <2>5. QED
    BY <1>2, <2>3, <2>4 DEF InLog, Entry
<1>3. ASSUME NEW t \in Puts, NEW p \in put'[t].acks
      PROVE  (Stamped(t) /\ p \in Holders(t) /\ p # put[t].node)'
  <2>1. Stamped(t) /\ (p \in Holders(t) \/ p \in Holders(t)') /\ p # put[t].node
    BY DEF AckInv
  <2>2. Stamped(t)' /\ p \in Holders(t)' /\ put'[t].node = put[t].node
    BY <1>1, <2>1, HoldersGrow, StampedStands
  <2>3. QED
    BY <2>1, <2>2
<1>4. ASSUME NEW t \in Puts, Counted(t)'
      PROVE  (Stamped(t) /\ Cardinality(Holders(t)) >= Majority)'
  <2>1. Stamped(t) /\ Cardinality(Holders(t)) >= Majority
    BY <1>4 DEF AckInv
  <2>2. Stamped(t)' /\ Holders(t) \subseteq Holders(t)'
    BY <2>1, HoldersGrow
  <2>3. Holders(t) \in SUBSET Nodes /\ Holders(t)' \in SUBSET Nodes
    BY DEF Holders
  <2>4. Cardinality(Holders(t)') >= Majority
    BY <2>1, <2>2, <2>3, MoreHolders
  <2>5. QED
    BY <2>2, <2>4
<1>5. QED
  BY <1>2, <1>3, <1>4 DEF AckInv

\* How a call gets past its count, and what it does to its acknowledgements.
LEMMA PutHandlerCounts ==
  ASSUME TypeInv, NEW t \in Puts, PutHandler(t)
  PROVE  /\ \A u \in Puts \ {t} : put'[u] = put[u]
         /\ put'[t].acks \subseteq put[t].acks
         /\ Counted(t)' =>
              \/ Counted(t)
              \/ /\ put[t].pc \in {"next", "repl"} /\ role[put[t].node] = "Leader"
                 /\ ~(Cardinality(put[t].acks) + 1 < Majority)
<1>1. put \in [Puts -> PutThreads] /\ put[t] \in PutThreads
  BY DEF TypeInv, TypeOK
<1>2. \A u \in Puts \ {t} : put'[u] = put[u]
  BY PutHandlerEffect
<1>3. CASE ProposeEntry(t)
  <2>1. \/ Answer(t, "not_leader")
        \/ \E e : put' = [put EXCEPT ![t].pc = "capture", ![t].entry = <<e>>]
    BY <1>3 DEF ProposeEntry
  <2>2. \/ put'[t].acks = {} /\ put'[t].pc = "done" /\ put'[t].result = "not_leader"
        \/ put'[t].acks = put[t].acks /\ put'[t].pc = "capture" /\ put'[t].result = put[t].result
    BY <1>1, <2>1, AnswerEffect DEF PutThreads
  <2>3. QED
    BY <1>2, <2>2 DEF Counted
<1>4. CASE CaptureView(t)
  <2>1. put'[t].acks = put[t].acks /\ put'[t].pc = "next" /\ put'[t].result = put[t].result
    BY <1>1, <1>4 DEF CaptureView, PutThreads
  <2>2. QED
    BY <1>2, <2>1 DEF Counted
<1>5. CASE SendRepl(t)
  <2>1. put'[t].acks = put[t].acks /\ put'[t].pc = "repl" /\ put'[t].result = put[t].result
    BY <1>1, <1>5 DEF SendRepl, PutThreads
  <2>2. QED
    BY <1>2, <2>1 DEF Counted
<1>6. CASE \E p \in Nodes : SendAppend(t, p)
  <2>1. PICK p \in Nodes : SendAppend(t, p)
    BY <1>6
  <2>2. put' = [put EXCEPT ![t].pc = "append", ![t].peer = p, ![t].todo = @ \ {p}]
    BY <2>1 DEF SendAppend
  <2>3. put' = [put EXCEPT ![t] = [put[t] EXCEPT !.pc = "append", !.peer = p, !.todo = @ \ {p}]]
    BY <1>1, <2>2 DEF PutThreads
  <2>4. put'[t].acks = put[t].acks /\ put'[t].pc = "append" /\ put'[t].result = put[t].result
    BY <1>1, <2>3 DEF PutThreads
  <2>5. QED
    BY <1>2, <2>4 DEF Counted
<1>7. CASE CommitEntry(t)
  <2>1. put[t].pc \in {"next", "repl"}
    BY <1>7 DEF CommitEntry
  <2>2. \/ Answer(t, "fenced") \/ Answer(t, "not_leader")
        \/ /\ role[put[t].node] = "Leader" /\ ~(Cardinality(put[t].acks) + 1 < Majority)
           /\ put' = [put EXCEPT ![t].pc = "take", ![t].peer = NoNode, ![t].acks = {}]
    BY <1>7 DEF CommitEntry
  <2>3. CASE put' = [put EXCEPT ![t].pc = "take", ![t].peer = NoNode, ![t].acks = {}]
    <3>1. put' = [put EXCEPT ![t] = [put[t] EXCEPT !.pc = "take", !.peer = NoNode, !.acks = {}]]
      BY <1>1, <2>3 DEF PutThreads
    <3>2. put'[t].acks = {} /\ put'[t].result = put[t].result /\ put'[t].pc = "take"
      BY <1>1, <3>1 DEF PutThreads
    <3>3. put'[t].pc # "done"
      BY <3>2
    <3>4. ~Answer(t, "fenced") /\ ~Answer(t, "not_leader")
      BY <3>3, AnswerEffect
    <3>5. QED
      BY <1>2, <2>1, <2>2, <3>2, <3>4
  <2>4. CASE Answer(t, "fenced") \/ Answer(t, "not_leader")
    <3>1. /\ put'[t].acks = {} /\ put'[t].pc = "done"
          /\ put'[t].result = "fenced" \/ put'[t].result = "not_leader"
      BY <2>4, AnswerEffect
    <3>2. QED
      BY <1>2, <3>1 DEF Counted
  <2>5. QED
    BY <2>2, <2>3, <2>4
<1>8. CASE TakeOwn(t)
  <2>1. put[t].pc = "take"
    BY <1>8 DEF TakeOwn
  <2>2. \/ Answer(t, "committed")
        \/ \E q : put' = [put EXCEPT ![t].pc = "apply", ![t].pending = q]
    BY <1>8 DEF TakeOwn
  <2>3. put'[t].acks = {} \/ put'[t].acks = put[t].acks
    BY <1>1, <2>2, AnswerEffect DEF PutThreads
  <2>4. QED
    BY <1>2, <2>1, <2>3 DEF Counted
<1>9. CASE ApplyOwn(t)
  <2>1. put[t].pc = "apply"
    BY <1>9 DEF ApplyOwn
  <2>2. Answer(t, "committed") \/ put' = [put EXCEPT ![t].pending = Tail(@)]
    BY <1>9 DEF ApplyOwn
  <2>3. put'[t].acks = {} \/ put'[t].acks = put[t].acks
    BY <1>1, <2>2, AnswerEffect DEF PutThreads
  <2>4. QED
    BY <1>2, <2>1, <2>3 DEF Counted
<1>10. QED
  BY <1>3, <1>4, <1>5, <1>6, <1>7, <1>8, <1>9 DEF PutHandler

\* The peers that acknowledged an entry and the leader itself hold it.
LEMMA CountIsMajority ==
  ASSUME KnownInv, FirstReign, ReignInv, AckInv, NEW t \in Puts,
         put[t].pc \in {"next", "repl"}, ~(Cardinality(put[t].acks) + 1 < Majority)
  PROVE  Stamped(t) /\ Cardinality(Holders(t)) >= Majority
<1> DEFINE n == put[t].node
<1>1. Stamped(t) /\ n \in Nodes /\ put[t].acks \in SUBSET Nodes
  <2>1. put[t].pc \in Working \ {"propose"}
    BY DEF Working
  <2>2. Stamped(t)
    BY <2>1 DEF KnownInv, TypeInv, ThreadInv, Stamped
  <2>3. n \in Nodes /\ put[t] \in PutThreads
    BY <2>1, WorkerType DEF KnownInv
  <2>4. QED
    BY <2>2, <2>3 DEF PutThreads
<1>2. n \in Holders(t)
  <2>1. PICK x \in elected : x[2] = n
    BY <1>1, ProposerHasLed DEF KnownInv, HasLed
  <2>2. Entry(t).index \in 1..Len(log[n]) /\ log[n][Entry(t).index] = Entry(t)
    BY <1>1, <2>1 DEF ReignInv, Reigns
  <2>3. QED
    BY <1>1, <2>2 DEF Holders, InLog
<1>3. put[t].acks \subseteq Holders(t) /\ n \notin put[t].acks
  BY DEF AckInv
<1>4. IsFiniteSet(put[t].acks)
  BY <1>1, NodesAssumption, FS_Subset
<1>5. Cardinality(put[t].acks \cup {n}) = Cardinality(put[t].acks) + 1
  BY <1>3, <1>4, FS_AddElement
<1>6. Cardinality(put[t].acks) \in Nat /\ Cardinality(Nodes) \in Nat
  BY <1>4, NodesAssumption, FS_CardinalityType
<1>7. Cardinality(put[t].acks \cup {n}) >= Majority
  BY <1>5, <1>6 DEF Majority
<1>8. /\ put[t].acks \cup {n} \in SUBSET Nodes /\ Holders(t) \in SUBSET Nodes
      /\ put[t].acks \cup {n} \subseteq Holders(t)
  BY <1>1, <1>2, <1>3 DEF Holders
<1>9. QED
  BY <1>1, <1>7, <1>8, MoreHolders

\* An AppendEntries is accepted only into a log that then holds its entry.
LEMMA AppendEntriesAcks ==
  ASSUME KnownInv, FirstReign, ReignInv, AckInv, [Next]_vars,
         NEW m \in rpcs, HandleAppendEntries(m)
  PROVE  AckInv'
<1>1. /\ m.type = "AppendEntries" /\ put' = put
      /\ \A a \in appliers' :
           \/ a \in appliers
           \/ a.by = m.by /\ a.to = m.to /\ a.success = AcceptsEntries(m, m.to)
  BY DEF HandleAppendEntries
<1>2. ASSUME m.by # NoPut, AcceptsEntries(m, m.to)
      PROVE  InLog(m.to, Entry(m.by))'
  <2>1. m.entries # <<>>
    BY <1>1, <1>2 DEF KnownInv, CopiesInv, RequestCopies
  <2>2. PICK x \in elected : x[2] = m.from
    BY <1>1 DEF KnownInv, RouteInv, Routed, HasLed
  <2>3. \E i \in 1..Len(log'[m.to]) : log'[m.to][i] = m.entries[1]
    BY <1>2, <2>1, <2>2, ReignAppendEntries
  <2>4. m.entries[1] = Entry(m.by)
    BY <1>1, <2>1, SentEntryIsCopy
  <2>5. QED
    BY <1>1, <2>3, <2>4 DEF InLog, Entry
<1>3. \A a \in appliers' : a.by # NoPut /\ a.success =>
        \/ \E b \in appliers : b.by = a.by /\ b.success /\ b.to = a.to
        \/ InLog(a.to, Entry(a.by))'
  BY <1>1, <1>2 DEF InLog, Entry
<1>4. \A t \in Puts : Counted(t)' => Counted(t)
  BY <1>1 DEF Counted
<1>5. QED
  BY <1>1, <1>3, <1>4, AcksKept

\* An answer to an AppendEntries is counted for a peer whose log holds the entry.
LEMMA AppliersAcks ==
  ASSUME KnownInv, FirstReign, ReignInv, AckInv, [Next]_vars,
         NEW a \in appliers, TakeCommitted(a) \/ ApplyCommitted(a)
  PROVE  AckInv'
<1>1. a \in Appliers /\ TypeInv /\ put \in [Puts -> PutThreads]
  BY DEF KnownInv, TypeInv, TypeOK
<1>2. put' = put \/ AnswerAppend(a)
  BY DEF TakeCommitted, ApplyCommitted
<1>3. \A t \in Puts : put'[t].pc = put[t].pc /\ put'[t].result = put[t].result
  BY <1>1, <1>2, AnswerAppendType
<1>4. \A t \in Puts : Counted(t)' => Counted(t)
  BY <1>3 DEF Counted
<1>5. \A b \in appliers' : \E c \in appliers : c.by = b.by /\ c.success = b.success /\ c.to = b.to
  <2>1. \A b \in appliers' : \/ b \in appliers
                             \/ b = [a EXCEPT !.taken = TRUE, !.pending = Applicable(a.to)]
                             \/ b = [a EXCEPT !.pending = Tail(@)]
    BY DEF TakeCommitted, ApplyCommitted
  <2>2. QED
    BY <1>1, <2>1 DEF Appliers
<1>6. ASSUME NEW t \in Puts, NEW p \in put'[t].acks, p \notin put[t].acks
      PROVE  Stamped(t) /\ p \in Holders(t)' /\ p # put[t].node
  <2>1. /\ a.by # NoPut /\ put[a.by].pc = "append" /\ put[a.by].peer = a.to /\ a.success
        /\ put' = [put EXCEPT ![a.by].acks = @ \cup {a.to}]
    BY <1>2, <1>6 DEF AnswerAppend
  <2>2. a.by \in Puts /\ a.to \in Nodes
    BY <1>1, <2>1 DEF Appliers
  <2>3. t = a.by /\ p = a.to
    BY <1>1, <1>6, <2>1, <2>2, AcksType
  <2>4. Stamped(t) /\ InLog(p, Entry(t))
    BY <2>1, <2>3 DEF AckInv, KnownInv, RouteInv, ApplierRouted
  <2>5. p # put[t].node
    BY <2>1, <2>2, <2>3 DEF KnownInv, RouteInv, CallRouted, Peers
  <2>6. p \in Holders(t)
    BY <2>2, <2>3, <2>4 DEF Holders
  <2>7. QED
    BY <2>4, <2>5, <2>6, HoldersGrow
<1>7. QED
  BY <1>4, <1>5, <1>6, AcksKept

\* An OP_REPL is acknowledged by a node whose catalog then holds the entry.
LEMMA ReplAcks ==
  ASSUME KnownInv, FirstReign, ReignInv, AckInv, [Next]_vars, NEW m \in rpcs, HandleRepl(m)
  PROVE  AckInv'
<1>1. m.type = "Repl" /\ m.by \in Puts /\ m.to \in Nodes /\ TypeInv /\ put \in [Puts -> PutThreads]
  <2>1. m \in ReplRequests
    BY RequestKinds DEF HandleRepl, KnownInv, TypeInv
  <2>2. QED
    BY <2>1 DEF HandleRepl, ReplRequests, KnownInv, TypeInv, TypeOK
<1>2. appliers' = appliers
  BY DEF HandleRepl
<1>3. \/ put' = put
      \/ /\ AcceptsRepl(m, m.to) /\ put[m.by].pc = "repl" /\ put[m.by].peer = m.to
         /\ put' = [put EXCEPT ![m.by].acks = @ \cup {m.to}]
  BY DEF HandleRepl
<1>4. \A t \in Puts : put'[t].pc = put[t].pc /\ put'[t].result = put[t].result
  <2>1. CASE put' = put
    BY <2>1
  <2>2. CASE put' = [put EXCEPT ![m.by].acks = @ \cup {m.to}]
    BY <1>1, <2>2, AcksType
  <2>3. QED
    BY <1>3, <2>1, <2>2
<1>5. \A t \in Puts : Counted(t)' => Counted(t)
  BY <1>4 DEF Counted
<1>6. ASSUME NEW t \in Puts, NEW p \in put'[t].acks, p \notin put[t].acks
      PROVE  Stamped(t) /\ p \in Holders(t)' /\ p # put[t].node
  <2>1. /\ AcceptsRepl(m, m.to) /\ put[m.by].pc = "repl" /\ put[m.by].peer = m.to
        /\ put' = [put EXCEPT ![m.by].acks = @ \cup {m.to}]
    BY <1>3, <1>6
  <2>2. t = m.by /\ p = m.to
    BY <1>1, <1>6, <2>1, AcksType
  <2>3. Stamped(t) /\ m.entry = Entry(t)
    BY <1>1, <2>2 DEF KnownInv, CopiesInv, RequestCopies, Stamped, Entry
  <2>4. p # put[t].node
    BY <1>1, <2>1, <2>2 DEF KnownInv, RouteInv, CallRouted, Peers
  <2>5. \E c \in catLog'[p] : c.index = m.entry.index /\ c.val = m.entry.val
    <3>1. catLog' = [catLog EXCEPT ![p] = @ \cup
            {[epoch |-> m.epoch, index |-> m.entry.index, key |-> m.entry.key, val |-> m.entry.val]}]
      BY <2>1, <2>2 DEF HandleRepl
    <3>2. catLog \in [Nodes -> SUBSET CatalogEntry]
      BY DEF KnownInv, TypeInv, TypeOK
    <3> DEFINE c == [epoch |-> m.epoch, index |-> m.entry.index, key |-> m.entry.key,
                     val |-> m.entry.val]
    <3>3. c.index = m.entry.index /\ c.val = m.entry.val
      OBVIOUS
    <3>4. catLog' = [catLog EXCEPT ![p] = @ \cup {c}]
      BY <3>1
    <3> HIDE DEF c
    <3>5. c \in catLog'[p]
      BY <1>1, <2>2, <3>2, <3>4
    <3>6. QED
      BY <3>3, <3>5
  <2>6. Entry(t)' = Entry(t)
    BY <2>3, NextCalls, StampedStands DEF KnownInv
  <2>7. p \in Holders(t)'
    BY <1>1, <2>2, <2>3, <2>5, <2>6 DEF Holders, InCatalog
  <2>8. QED
    BY <2>3, <2>4, <2>7
<1>7. QED
  BY <1>2, <1>5, <1>6, AcksKept

LEMMA PutHandlerAcks ==
  ASSUME KnownInv, FirstReign, ReignInv, AckInv, [Next]_vars, NEW t \in Puts, PutHandler(t)
  PROVE  AckInv'
<1>1. appliers' = appliers
  BY DEF PutHandler, ProposeEntry, CaptureView, SendRepl, SendAppend, CommitEntry, TakeOwn, ApplyOwn
<1>2. /\ \A u \in Puts \ {t} : put'[u] = put[u]
      /\ put'[t].acks \subseteq put[t].acks
      /\ Counted(t)' =>
           \/ Counted(t)
           \/ put[t].pc \in {"next", "repl"} /\ ~(Cardinality(put[t].acks) + 1 < Majority)
  BY PutHandlerCounts DEF KnownInv
<1>3. ASSUME NEW u \in Puts, Counted(u)'
      PROVE  Counted(u) \/ (Stamped(u) /\ Cardinality(Holders(u)) >= Majority)
  <2>1. CASE u = t
    BY <1>2, <1>3, <2>1, CountIsMajority
  <2>2. CASE u # t
    BY <1>2, <1>3, <2>2 DEF Counted
  <2>3. QED
    BY <2>1, <2>2
<1>4. \A u \in Puts : put'[u].acks \subseteq put[u].acks
  BY <1>2
<1>5. QED
  BY <1>1, <1>3, <1>4, AcksKept

LEMMA NextAcks == KnownInv /\ KnownInv' /\ ReignInv /\ AckInv /\ [Next]_vars => AckInv'
<1> SUFFICES ASSUME KnownInv, KnownInv', ReignInv, AckInv, [Next]_vars, FirstReign'
             PROVE  AckInv'
  BY DEF AckInv
<1> USE DEF raftVars, stateVars, history
<1>1. FirstReign
  BY StillFirstReign
<1>2. ASSUME UNCHANGED <<put, appliers>> PROVE AckInv'
  <2>1. \A t \in Puts : Counted(t)' => Counted(t)
    BY <1>2 DEF Counted
  <2>2. QED
    BY <1>1, <1>2, <2>1, AcksKept
<1>3. ASSUME NEW n \in Nodes, Ticker(n) PROVE AckInv'
  BY <1>2, <1>3 DEF Ticker, StartElection, BeginBallot, AskVote, TallyVotes, PublishWin, SeeLeader,
                    SendHeartbeats
<1>4. CASE Handler
  <2>1. ASSUME NEW m \in rpcs, HandleRequestVote(m) PROVE AckInv'
    BY <1>2, <2>1 DEF HandleRequestVote
  <2>2. QED
    BY <1>1, <1>4, <2>1, AppendEntriesAcks, ReplAcks, AppliersAcks DEF Handler
<1>5. ASSUME NEW t \in Puts, NEW n \in Nodes, NEW k \in Keys, ReceivePut(t, n, k)
      PROVE  AckInv'
  <2>1. put \in [Puts -> PutThreads] /\ put[t] \in PutThreads
    BY DEF KnownInv, TypeInv, TypeOK
  <2>2. \/ put' = [put EXCEPT ![t].pc = "propose", ![t].node = n,
                              ![t].entry = <<[term |-> 0, index |-> 0, key |-> k, val |-> t]>>]
        \/ put' = [put EXCEPT ![t].pc = "done", ![t].node = n,
                              ![t].result = IF alive[n] THEN "not_leader" ELSE "unreachable"]
    BY <1>5 DEF ReceivePut
  <2>3. CASE put' = [put EXCEPT ![t].pc = "propose", ![t].node = n,
                                ![t].entry = <<[term |-> 0, index |-> 0, key |-> k, val |-> t]>>]
    <3> DEFINE r == [put[t] EXCEPT !.pc = "propose", !.node = n,
                                   !.entry = <<[term |-> 0, index |-> 0, key |-> k, val |-> t]>>]
    <3>1. put' = [put EXCEPT ![t] = r]
      BY <2>1, <2>3 DEF PutThreads
    <3>2. r.pc = "propose" /\ r.acks = put[t].acks /\ r.result = put[t].result
      BY <2>1 DEF PutThreads
    <3> HIDE DEF r
    <3>3. \A u \in Puts : put'[u].acks = put[u].acks /\ (Counted(u)' => Counted(u))
      BY <2>1, <3>1, <3>2 DEF Counted
    <3>4. QED
      BY <1>1, <1>5, <3>3, AcksKept DEF ReceivePut
  <2>4. CASE put' = [put EXCEPT ![t].pc = "done", ![t].node = n,
                                ![t].result = IF alive[n] THEN "not_leader" ELSE "unreachable"]
    <3> DEFINE r == [put[t] EXCEPT !.pc = "done", !.node = n,
                                   !.result = IF alive[n] THEN "not_leader" ELSE "unreachable"]
    <3>1. put' = [put EXCEPT ![t] = r]
      BY <2>1, <2>4 DEF PutThreads
    <3>2. r.pc = "done" /\ r.acks = put[t].acks /\ r.result # "committed"
      BY <2>1 DEF PutThreads
    <3> HIDE DEF r
    <3>3. \A u \in Puts : put'[u].acks = put[u].acks /\ (Counted(u)' => Counted(u))
      BY <2>1, <3>1, <3>2 DEF Counted
    <3>4. QED
      BY <1>1, <1>5, <3>3, AcksKept DEF ReceivePut
  <2>5. QED
    BY <2>2, <2>3, <2>4
<1>6. CASE \/ \E n \in Nodes, e \in Epochs : Promote(n, e)
           \/ \E n \in Victims : Kill(n)
           \/ UNCHANGED vars
  BY <1>2, <1>6 DEF Promote, Kill, vars
<1>7. QED
  BY <1>1, <1>3, <1>4, <1>5, <1>6, PutHandlerAcks DEF Next

LEMMA InitAcks == Init => AckInv
BY DEF Init, AckInv, Counted, UnsentPut

LEMMA AckInvariant == Spec => []AckInv
BY InitAcks, NextAcks, KnownInvariant, ReignInvariant, PTL DEF Spec

\* Under the first leader a PUT answered 1 is held by a majority, in the logs or in
\* the catalogs: of AppendEntries and OP_REPL, answered late or not at all, only the
\* answers a peer gave are counted.
THEOREM AnsweredOnMajority == Spec => []AckedOnMajority
<1>1. AckInv => AckedOnMajority
  BY DEF AckInv, AckedOnMajority, Counted, Committed, Holders
<1>2. QED
  BY <1>1, AckInvariant, PTL

-----------------------------------------------------------------------------
(* The leader's catalog, with one call at a time.                          *)

\* The map is what the first j entries of the log leave.
Reflects(mp, s, j) ==
  \A k \in Keys :
    \/ mp[k] = NoPut /\ \A i \in 1..j : s[i].key # k
    \/ \E i \in 1..j : /\ s[i].key = k /\ mp[k] = s[i].val
                       /\ \A h \in (i + 1)..j : s[h].key # k

\* A call replicates the last entry of the log, or applies entries that follow those
\* the catalog reflects, up to last_applied.
CallFollows(t, l) ==
  LET q == put[t].pending
      j == lastApplied[l] - Len(q) IN
  /\ put[t].pc \in {"capture", "next", "append", "repl"} => Entry(t).index = Len(log[l])
  /\ put[t].pc = "apply" =>
       /\ Len(q) <= lastApplied[l] /\ Reflects(map[l], log[l], j)
       /\ \A i \in 1..Len(q) : q[i] = log[l][j + i]

\* The leader applies what it commits, and between the calls it has applied it.
LeaderFollows(l) ==
  /\ lastApplied[l] <= commitIndex[l] /\ commitIndex[l] <= Len(log[l])
  /\ lastApplied[l] = commitIndex[l] \/ \E t \in Puts : put[t].pc = "take"
  /\ (\A t \in Puts : put[t].pc # "apply") => Reflects(map[l], log[l], lastApplied[l])
  /\ \A t \in Puts : CallFollows(t, l)

OneCall == \A t, u \in InFlight : t = u

CatalogInv ==
  FirstReign /\ MaxInFlight = 1 =>
    /\ OneCall
    /\ elected = {} => \A n \in Nodes : commitIndex[n] = 0 /\ lastApplied[n] = 0
    /\ \A x \in elected : LeaderFollows(x[2])

LEMMA ReflectsNext ==
  ASSUME NEW mp \in [Keys -> Puts \cup {NoPut}], NEW s \in Seq(LogEntry), NEW j \in Nat,
         j < Len(s), Reflects(mp, s, j)
  PROVE  Reflects([mp EXCEPT ![s[j + 1].key] = s[j + 1].val], s, j + 1)
<1> DEFINE e == s[j + 1]
           np == [mp EXCEPT ![e.key] = e.val]
<1>1. Len(s) \in Nat
  OBVIOUS
<1>2. j + 1 \in 1..Len(s) /\ e \in LogEntry
  BY <1>1
<1>3. e.key \in Keys
  BY <1>2 DEF LogEntry
<1>4. np[e.key] = e.val /\ \A k \in Keys \ {e.key} : np[k] = mp[k]
  BY <1>3
<1>5. ASSUME NEW k \in Keys
      PROVE  \/ np[k] = NoPut /\ \A i \in 1..(j + 1) : s[i].key # k
             \/ \E i \in 1..(j + 1) : /\ s[i].key = k /\ np[k] = s[i].val
                                      /\ \A h \in (i + 1)..(j + 1) : s[h].key # k
  <2>1. CASE k = e.key
    <3>1. j + 1 \in 1..(j + 1) /\ (j + 1 + 1)..(j + 1) = {}
      OBVIOUS
    <3>2. s[j + 1].key = k /\ np[k] = s[j + 1].val
      BY <1>4, <2>1
    <3>3. QED
      BY <3>1, <3>2
  <2>2. CASE k # e.key
    <3>1. np[k] = mp[k] /\ s[j + 1].key # k
      BY <1>4, <2>2
    <3>2. CASE mp[k] = NoPut /\ \A i \in 1..j : s[i].key # k
      <4>1. \A i \in 1..(j + 1) : i \in 1..j \/ i = j + 1
        OBVIOUS
      <4>2. QED
        BY <3>1, <3>2, <4>1
    <3>3. CASE \E i \in 1..j : /\ s[i].key = k /\ mp[k] = s[i].val
                               /\ \A h \in (i + 1)..j : s[h].key # k
      <4>1. PICK i \in 1..j : /\ s[i].key = k /\ mp[k] = s[i].val
                              /\ \A h \in (i + 1)..j : s[h].key # k
        BY <3>3
      <4>2. i \in 1..(j + 1) /\ \A h \in (i + 1)..(j + 1) : h \in (i + 1)..j \/ h = j + 1
        OBVIOUS
      <4>3. QED
        BY <3>1, <4>1, <4>2
    <3>4. QED
      BY <3>2, <3>3 DEF Reflects
  <2>3. QED
    BY <2>1, <2>2
<1>6. QED
  BY <1>5 DEF Reflects

\* A longer log reflects the same in its first entries.
LEMMA ReflectsAppend ==
  ASSUME NEW mp, NEW s, NEW r, NEW j \in Nat, SamePrefix(s, r), j <= Len(s), Len(s) \in Nat,
         Reflects(mp, s, j)
  PROVE  Reflects(mp, r, j)
<1>1. \A i \in 1..j : i \in 1..Len(s) /\ r[i] = s[i]
  BY DEF SamePrefix
<1>2. ASSUME NEW k \in Keys
      PROVE  \/ mp[k] = NoPut /\ \A i \in 1..j : r[i].key # k
             \/ \E i \in 1..j : /\ r[i].key = k /\ mp[k] = r[i].val
                                /\ \A h \in (i + 1)..j : r[h].key # k
  <2>1. CASE mp[k] = NoPut /\ \A i \in 1..j : s[i].key # k
    BY <1>1, <2>1
  <2>2. CASE \E i \in 1..j : /\ s[i].key = k /\ mp[k] = s[i].val
                             /\ \A h \in (i + 1)..j : s[h].key # k
    <3>1. PICK i \in 1..j : /\ s[i].key = k /\ mp[k] = s[i].val
                            /\ \A h \in (i + 1)..j : s[h].key # k
      BY <2>2
    <3>2. \A h \in (i + 1)..j : h \in 1..j
      OBVIOUS
    <3>3. QED
      BY <1>1, <3>1, <3>2
  <2>3. QED
    BY <2>1, <2>2 DEF Reflects
<1>3. QED
  BY <1>2 DEF Reflects

QuietCalls ==
  \A t \in Puts : /\ put'[t].pc = put[t].pc /\ put'[t].entry = put[t].entry
                  /\ put'[t].pending = put[t].pending

\* Only a call's own thread moves it on.
LEMMA CallsMove ==
  ASSUME TypeInv, [Next]_vars
  PROVE  \/ QuietCalls
         \/ \E t \in Puts : PutHandler(t)
         \/ \E t \in Puts, n \in Nodes, k \in Keys : ReceivePut(t, n, k)
<1> SUFFICES ASSUME ~(\E t \in Puts : PutHandler(t)),
                    ~(\E t \in Puts, n \in Nodes, k \in Keys : ReceivePut(t, n, k))
             PROVE  QuietCalls
  OBVIOUS
<1> USE DEF raftVars, stateVars, history
<1>1. ASSUME put' = put PROVE QuietCalls
  BY <1>1 DEF QuietCalls
<1>2. ASSUME NEW n \in Nodes, Ticker(n) PROVE QuietCalls
  BY <1>1, <1>2 DEF Ticker, StartElection, BeginBallot, AskVote, TallyVotes, PublishWin, SeeLeader,
                    SendHeartbeats
<1>3. ASSUME NEW m \in rpcs, HandleRequestVote(m) \/ HandleAppendEntries(m) PROVE QuietCalls
  BY <1>1, <1>3 DEF HandleRequestVote, HandleAppendEntries
<1>4. ASSUME NEW m \in rpcs, HandleRepl(m) PROVE QuietCalls
  <2>1. m.by \in Puts /\ m.to \in Nodes
    <3>1. m \in ReplRequests
      BY <1>4, RequestKinds DEF HandleRepl, TypeInv
    <3>2. QED
      BY <3>1 DEF ReplRequests
  <2>2. put' = put \/ put' = [put EXCEPT ![m.by].acks = @ \cup {m.to}]
    BY <1>4 DEF HandleRepl
  <2>3. CASE put' = [put EXCEPT ![m.by].acks = @ \cup {m.to}]
    BY <2>1, <2>3, AcksType DEF QuietCalls
  <2>4. QED
    BY <1>1, <2>2, <2>3
<1>5. ASSUME NEW a \in appliers, TakeCommitted(a) \/ ApplyCommitted(a) PROVE QuietCalls
  <2>1. a \in Appliers
    BY DEF TypeInv, TypeOK
  <2>2. put' = put \/ AnswerAppend(a)
    BY <1>5 DEF TakeCommitted, ApplyCommitted
  <2>3. CASE AnswerAppend(a)
    BY <2>1, <2>3, AnswerAppendType DEF QuietCalls
  <2>4. QED
    BY <1>1, <2>2, <2>3
<1>6. CASE \/ \E n \in Nodes, e \in Epochs : Promote(n, e)
           \/ \E n \in Victims : Kill(n)
           \/ UNCHANGED vars
  BY <1>1, <1>6 DEF Promote, Kill, vars
<1>7. QED
  BY <1>2, <1>3, <1>4, <1>5, <1>6 DEF Next, Handler

Undisturbed(l) ==
  /\ log'[l] = log[l] /\ commitIndex'[l] = commitIndex[l]
  /\ lastApplied'[l] = lastApplied[l] /\ map'[l] = map[l]

\* Only the leader's own calls touch its log and its map: what it sends to others is
\* not handled by itself.
LEMMA LeaderUndisturbed ==
  ASSUME KnownInv, FirstReign, [Next]_vars, NEW x \in elected,
         ~(\E t \in Puts : PutHandler(t))
  PROVE  Undisturbed(x[2])
<1> DEFINE l == x[2]
<1> USE DEF raftVars, stateVars, history
<1>0. ASSUME UNCHANGED <<log, commitIndex, lastApplied, map>> PROVE Undisturbed(l)
  BY <1>0 DEF Undisturbed
<1>1. l \in Nodes /\ TypeInv /\ TypeOK
  BY OneReign DEF KnownInv, TypeInv
<1>2. \A n : HasLed(n) => n = l
  BY OneReign DEF HasLed
<1>3. ASSUME NEW n \in Nodes, Ticker(n) PROVE Undisturbed(l)
  BY <1>0, <1>3 DEF Ticker, StartElection, BeginBallot, AskVote, TallyVotes, PublishWin, SeeLeader,
                    SendHeartbeats
<1>4. ASSUME NEW m \in rpcs, HandleRequestVote(m) PROVE Undisturbed(l)
  BY <1>0, <1>4 DEF HandleRequestVote
<1>5. ASSUME NEW m \in rpcs, HandleAppendEntries(m) PROVE Undisturbed(l)
  <2>1. m.to # l
    BY <1>2, <1>5 DEF HandleAppendEntries, KnownInv, RouteInv, Routed
  <2>2. \E v, w : /\ log' = [log EXCEPT ![m.to] = v]
                  /\ commitIndex' = [commitIndex EXCEPT ![m.to] = w]
                  /\ UNCHANGED <<lastApplied, map>>
    BY <1>5 DEF HandleAppendEntries
  <2>3. QED
    BY <1>1, <2>1, <2>2 DEF Undisturbed, TypeOK
<1>6. ASSUME NEW m \in rpcs, HandleRepl(m) PROVE Undisturbed(l)
  <2>1. m.type = "Repl" /\ m.by \in Puts /\ UNCHANGED <<log, commitIndex, lastApplied>>
    <3>1. m \in ReplRequests
      BY <1>1, <1>6, RequestKinds DEF HandleRepl
    <3>2. QED
      BY <1>6, <3>1 DEF HandleRepl, ReplRequests
  <2>2. Stamped(m.by)
    BY <2>1 DEF KnownInv, CopiesInv, RequestCopies, Stamped, Entry
  <2>3. put[m.by].node = l
    BY <1>2, <2>1, <2>2, ProposerHasLed DEF KnownInv
  <2>4. m.to # l
    BY <2>1, <2>3 DEF KnownInv, RouteInv, Routed
  <2>5. map' = map \/ \E v, k : map' = [map EXCEPT ![m.to][k] = v]
    BY <1>6, Zenon DEF HandleRepl
  <2>6. map'[l] = map[l]
    BY <1>1, <2>4, <2>5 DEF TypeOK
  <2>7. QED
    BY <2>1, <2>6 DEF Undisturbed
<1>7. ASSUME NEW a \in appliers, TakeCommitted(a) \/ ApplyCommitted(a) PROVE Undisturbed(l)
  <2>1. a.to # l
    BY <1>2 DEF KnownInv, RouteInv, ApplierRouted
  <2>2. /\ UNCHANGED <<log, commitIndex>>
        /\ lastApplied' = lastApplied \/ lastApplied' = [lastApplied EXCEPT ![a.to] = AppliedUpTo(a.to)]
    BY <1>7 DEF TakeCommitted, ApplyCommitted
  <2>3. map' = map \/ \E v, k : map' = [map EXCEPT ![a.to][k] = v]
    <3>1. CASE TakeCommitted(a)
      BY <3>1 DEF TakeCommitted
    <3>2. CASE ApplyCommitted(a)
      BY <3>2, Zenon DEF ApplyCommitted, ApplyEntry
    <3>3. QED
      BY <1>7, <3>1, <3>2
  <2>4. map'[l] = map[l]
    BY <1>1, <2>1, <2>3 DEF TypeOK
  <2>5. lastApplied'[l] = lastApplied[l]
    BY <1>1, <2>1, <2>2 DEF TypeOK
  <2>6. QED
    BY <2>2, <2>4, <2>5 DEF Undisturbed
<1>8. CASE \/ \E t \in Puts, n \in Nodes, k \in Keys : ReceivePut(t, n, k)
           \/ \E n \in Nodes, e \in Epochs : Promote(n, e)
           \/ \E n \in Victims : Kill(n)
           \/ UNCHANGED vars
  <2>1. UNCHANGED <<log, commitIndex, lastApplied, map>>
    BY <1>8, Zenon DEF ReceivePut, Promote, Kill, vars
  <2>2. QED
    BY <1>0, <2>1
<1>9. QED
  BY <1>3, <1>4, <1>5, <1>6, <1>7, <1>8 DEF Next, Handler

\* A client's call is received only when no other is under way.
LEMMA ReceivedAlone ==
  ASSUME OneCall, MaxInFlight = 1, NEW t \in Puts, NEW n \in Nodes, NEW k \in Keys,
         ReceivePut(t, n, k)
  PROVE  InFlight = {}
<1>1. Cardinality(InFlight) < 1
  BY DEF ReceivePut
<1>2. ASSUME NEW u \in InFlight PROVE FALSE
  <2>1. InFlight = {u}
    BY DEF OneCall
  <2>2. Cardinality(InFlight) = 1
    BY <2>1, FS_Singleton
  <2>3. QED
    BY <1>1, <2>2
<1>3. QED
  BY <1>2

LEMMA ReceivedCall ==
  ASSUME TypeInv, NEW t \in Puts, NEW n \in Nodes, NEW k \in Keys, ReceivePut(t, n, k)
  PROVE  /\ put[t].pc = "unsent" /\ put'[t].pc \in {"propose", "done"}
         /\ \A u \in Puts \ {t} : put'[u] = put[u]
<1>1. put \in [Puts -> PutThreads]
  BY DEF TypeInv, TypeOK
<1>2. QED
  BY <1>1 DEF ReceivePut, PutThreads

LEMMA StillOneCall ==
  ASSUME TypeInv, OneCall, MaxInFlight = 1, [Next]_vars
  PROVE  OneCall'
<1>1. CASE QuietCalls
  BY <1>1 DEF QuietCalls, OneCall, InFlight
<1>2. ASSUME NEW t \in Puts, PutHandler(t) PROVE OneCall'
  <2>1. put[t].pc \in Working /\ \A u \in Puts \ {t} : put'[u] = put[u]
    BY <1>2, PutHandlerEffect
  <2>2. t \in InFlight
    BY <2>1 DEF InFlight, Working
  <2>3. \A u \in Puts : put'[u].pc \notin {"unsent", "done"} => u \in InFlight
    BY <2>1, <2>2 DEF InFlight
  <2>4. QED
    BY <2>3 DEF OneCall, InFlight
<1>3. ASSUME NEW t \in Puts, NEW n \in Nodes, NEW k \in Keys, ReceivePut(t, n, k)
      PROVE  OneCall'
  <2>1. InFlight = {}
    BY <1>3, ReceivedAlone
  <2>2. \A u \in Puts \ {t} : put'[u] = put[u]
    BY <1>3, ReceivedCall
  <2>3. QED
    BY <2>1, <2>2 DEF OneCall, InFlight
<1>4. QED
  BY <1>1, <1>2, <1>3, CallsMove

\* With one call at a time the others are not yet sent or done.
LEMMA OthersRest ==
  ASSUME OneCall, NEW t \in Puts, put[t].pc \in Working
  PROVE  \A u \in Puts \ {t} : put[u].pc \in {"unsent", "done"}
<1>1. t \in InFlight
  BY DEF InFlight, Working
<1>2. QED
  BY <1>1 DEF OneCall, InFlight

\* What is left to show of the leader when its one call moves.
LEMMA OneCallFollows ==
  ASSUME OneCall, NEW t \in Puts, put[t].pc \in Working, NEW l,
         \A u \in Puts \ {t} : put'[u] = put[u],
         lastApplied'[l] <= commitIndex'[l] /\ commitIndex'[l] <= Len(log'[l]),
         lastApplied'[l] = commitIndex'[l] \/ put'[t].pc = "take",
         put'[t].pc # "apply" => Reflects(map[l], log[l], lastApplied[l])',
         CallFollows(t, l)'
  PROVE  LeaderFollows(l)'
<1>1. \A u \in Puts \ {t} : put'[u].pc \in {"unsent", "done"}
  BY OthersRest
<1>2. \A u \in Puts : CallFollows(u, l)'
  BY <1>1 DEF CallFollows
<1>3. QED
  BY <1>2 DEF LeaderFollows

\* Before the call takes the lead's entries the map reflects all that is applied.
LEMMA BeforeTake ==
  ASSUME OneCall, NEW t \in Puts, put[t].pc \in Working, NEW l, LeaderFollows(l)
  PROVE  /\ put[t].pc # "take" => lastApplied[l] = commitIndex[l]
         /\ put[t].pc # "apply" => Reflects(map[l], log[l], lastApplied[l])
<1>1. \A u \in Puts \ {t} : put[u].pc \in {"unsent", "done"}
  BY OthersRest
<1>2. QED
  BY <1>1 DEF LeaderFollows

LEMMA ProposalFollows ==
  ASSUME KnownInv, KnownInv', FirstReign, ReignInv, OneCall, [Next]_vars,
         NEW x \in elected, LeaderFollows(x[2]), NEW t \in Puts, ProposeEntry(t)
  PROVE  LeaderFollows(x[2])'
<1> DEFINE l == x[2]
<1>1. /\ TypeInv /\ CallsInv /\ IndexInv /\ l \in Nodes
      /\ log[l] \in Seq(LogEntry) /\ lastApplied[l] \in Nat
  BY OneReign DEF KnownInv, TypeInv, TypeOK
<1>2. /\ put[t].pc \in Working /\ put[t].pc = "propose"
      /\ \A u \in Puts \ {t} : put'[u] = put[u]
      /\ UNCHANGED <<commitIndex, lastApplied, map>>
  BY <1>1, PutHandlerEffect DEF ProposeEntry, PutHandler, stateVars
<1>3. /\ lastApplied[l] = commitIndex[l] /\ Reflects(map[l], log[l], lastApplied[l])
      /\ commitIndex[l] <= Len(log[l])
  BY <1>2, BeforeTake DEF LeaderFollows
<1>4. CASE put'[t].pc = "done" /\ log' = log
  <2>1. CallFollows(t, l)'
    BY <1>4 DEF CallFollows
  <2>2. QED
    BY <1>2, <1>3, <1>4, <2>1, OneCallFollows DEF LeaderFollows
<1>5. CASE put'[t].pc = "capture" /\ Stamped(t)'
  <2>1. /\ put[t].node = l
        /\ Entry(t)'.index = Len(log[put[t].node]) + 1
        /\ Len(log'[put[t].node]) = Len(log[put[t].node]) + 1
    <3>1. /\ role[put[t].node] = "Leader" /\ put[t].node \in Nodes
          /\ Entry(t)'.index = Len(log[put[t].node]) + 1
          /\ Len(log'[put[t].node]) = Len(log[put[t].node]) + 1
      BY <1>1, <1>5, NewStamp
    <3>2. put[t].node = l
      BY <3>1, LeaderHasLed, OneReign DEF KnownInv, HasLed
    <3>3. QED
      BY <3>1, <3>2
  <2>2. CallFollows(t, l)'
    BY <1>5, <2>1 DEF CallFollows
  <2>3. SamePrefix(log[l], log'[l])
    BY <1>1, ReignLogs
  <2>4. Reflects(map[l], log'[l], lastApplied[l])
    BY <1>1, <1>3, <2>3, ReflectsAppend
  <2>5. commitIndex[l] <= Len(log'[l])
    <3>1. Len(log[l]) \in Nat /\ commitIndex[l] \in Nat
      BY <1>1, <1>3
    <3>2. QED
      BY <1>3, <2>1, <3>1
  <2>6. /\ lastApplied'[l] <= commitIndex'[l] /\ commitIndex'[l] <= Len(log'[l])
        /\ lastApplied'[l] = commitIndex'[l]
        /\ Reflects(map[l], log[l], lastApplied[l])'
    BY <1>1, <1>2, <1>3, <2>4, <2>5
  <2>7. QED
    BY <1>2, <2>2, <2>6, OneCallFollows
<1>6. (put'[t].pc = "done" /\ log' = log) \/ (put'[t].pc = "capture" /\ Stamped(t)')
  <2>1. \/ put'[t].pc = "done" /\ log' = log
        \/ put'[t].pc = "capture"
    BY <1>1, ProposeEntryEffect
  <2>2. put'[t].pc = "capture" => Stamped(t)'
    <3>1. "capture" \in Working \ {"propose"}
      BY DEF Working
    <3>2. QED
      BY <3>1 DEF KnownInv, TypeInv, ThreadInv, Stamped
  <2>3. QED
    BY <2>1, <2>2
<1>7. QED
  BY <1>4, <1>5, <1>6

\* While the call asks its peers nothing changes at the leader.
LEMMA SendingFollows ==
  ASSUME KnownInv, FirstReign, OneCall, [Next]_vars,
         NEW x \in elected, LeaderFollows(x[2]), NEW t \in Puts,
         CaptureView(t) \/ SendRepl(t) \/ \E p \in Nodes : SendAppend(t, p)
  PROVE  LeaderFollows(x[2])'
<1> DEFINE l == x[2]
<1> USE DEF raftVars, stateVars
<1>1. TypeInv /\ put \in [Puts -> PutThreads] /\ put[t] \in PutThreads /\ PutHandler(t)
  BY DEF KnownInv, TypeInv, TypeOK, PutHandler
<1>2. /\ put[t].pc \in {"capture", "next", "append", "repl"}
      /\ UNCHANGED <<log, commitIndex, lastApplied, map>>
  BY DEF CaptureView, SendRepl, SendAppend
<1>3. /\ put[t].pc \in Working /\ \A u \in Puts \ {t} : put'[u] = put[u]
      /\ put'[t].entry = put[t].entry
  BY <1>1, <1>2, PutHandlerEffect DEF ProposeEntry
<1>4. put'[t].pc \in {"next", "append", "repl"}
  <2>1. CASE CaptureView(t)
    BY <1>1, <2>1 DEF CaptureView, PutThreads
  <2>2. CASE SendRepl(t)
    BY <1>1, <2>2 DEF SendRepl, PutThreads
  <2>3. CASE \E p \in Nodes : SendAppend(t, p)
    <3>1. PICK p \in Nodes : SendAppend(t, p)
      BY <2>3
    <3>2. put' = [put EXCEPT ![t].pc = "append", ![t].peer = p, ![t].todo = @ \ {p}]
      BY <3>1 DEF SendAppend
    <3>3. put' = [put EXCEPT ![t] = [put[t] EXCEPT !.pc = "append", !.peer = p, !.todo = @ \ {p}]]
      BY <1>1, <3>2 DEF PutThreads
    <3>4. QED
      BY <1>1, <3>3 DEF PutThreads
  <2>4. QED
    BY <2>1, <2>2, <2>3
<1>5. CallFollows(t, l)'
  <2>1. Entry(t).index = Len(log[l])
    BY <1>2 DEF LeaderFollows, CallFollows
  <2>2. QED
    BY <1>2, <1>3, <1>4, <2>1 DEF CallFollows, Entry
<1>6. lastApplied[l] = commitIndex[l] /\ Reflects(map[l], log[l], lastApplied[l])
  BY <1>2, <1>3, BeforeTake
<1>7. QED
  BY <1>2, <1>3, <1>5, <1>6, OneCallFollows DEF LeaderFollows

LEMMA CommitFollows ==
  ASSUME KnownInv, FirstReign, OneCall, [Next]_vars,
         NEW x \in elected, LeaderFollows(x[2]), NEW t \in Puts, CommitEntry(t)
  PROVE  LeaderFollows(x[2])'
<1> DEFINE l == x[2]
<1>1. /\ TypeInv /\ put \in [Puts -> PutThreads] /\ put[t] \in PutThreads /\ PutHandler(t)
      /\ l \in Nodes /\ commitIndex \in [Nodes -> Nat] /\ lastApplied[l] \in Nat
      /\ log[l] \in Seq(LogEntry)
  BY OneReign DEF KnownInv, TypeInv, TypeOK, PutHandler
<1>2. put[t].pc \in {"next", "repl"} /\ UNCHANGED <<log, lastApplied, map>>
  BY DEF CommitEntry, stateVars
<1>3. put[t].pc \in Working /\ \A u \in Puts \ {t} : put'[u] = put[u]
  BY <1>1, PutHandlerEffect
<1>4. /\ Entry(t).index = Len(log[l])
      /\ lastApplied[l] = commitIndex[l] /\ Reflects(map[l], log[l], lastApplied[l])
      /\ commitIndex[l] <= Len(log[l])
  BY <1>2, <1>3, BeforeTake DEF LeaderFollows, CallFollows
<1>5. \/ (Answer(t, "fenced") \/ Answer(t, "not_leader")) /\ commitIndex' = commitIndex
      \/ /\ put' = [put EXCEPT ![t].pc = "take", ![t].peer = NoNode, ![t].acks = {}]
         /\ commitIndex' = [commitIndex EXCEPT ![put[t].node] = Entry(t).index]
  BY DEF CommitEntry
<1>6. CASE (Answer(t, "fenced") \/ Answer(t, "not_leader")) /\ commitIndex' = commitIndex
  <2>1. put'[t].pc = "done"
    BY <1>1, <1>6, AnswerEffect
  <2>2. CallFollows(t, l)'
    BY <2>1 DEF CallFollows
  <2>3. QED
    BY <1>2, <1>3, <1>4, <1>6, <2>2, OneCallFollows DEF LeaderFollows
<1>7. CASE /\ put' = [put EXCEPT ![t].pc = "take", ![t].peer = NoNode, ![t].acks = {}]
           /\ commitIndex' = [commitIndex EXCEPT ![put[t].node] = Entry(t).index]
  <2>1. put'[t].pc = "take"
    <3>1. put' = [put EXCEPT ![t] = [put[t] EXCEPT !.pc = "take", !.peer = NoNode, !.acks = {}]]
      BY <1>1, <1>7 DEF PutThreads
    <3>2. QED
      BY <1>1, <3>1 DEF PutThreads
  <2>2. put[t].node = l
    <3>1. put[t].pc \in Working \ {"propose"}
      BY <1>2 DEF Working
    <3>2. Stamped(t)
      BY <3>1 DEF KnownInv, TypeInv, ThreadInv, Stamped
    <3>3. QED
      BY <3>2, ProposerHasLed, OneReign DEF KnownInv, HasLed
  <2>3. commitIndex'[l] = Len(log[l])
    BY <1>1, <1>4, <1>7, <2>2
  <2>4. CallFollows(t, l)'
    BY <2>1 DEF CallFollows
  <2>5. lastApplied[l] <= Len(log[l]) /\ Len(log[l]) <= Len(log[l])
    <3>1. Len(log[l]) \in Nat
      BY <1>1
    <3>2. QED
      BY <1>1, <1>4, <3>1
  <2>6. QED
    BY <1>2, <1>3, <1>4, <2>1, <2>3, <2>4, <2>5, OneCallFollows
<1>8. QED
  BY <1>5, <1>6, <1>7

LEMMA TakeFollows ==
  ASSUME KnownInv, FirstReign, OneCall, [Next]_vars,
         NEW x \in elected, LeaderFollows(x[2]), NEW t \in Puts, TakeOwn(t)
  PROVE  LeaderFollows(x[2])'
<1> DEFINE l == x[2]
           q == Applicable(l)
<1>1. /\ TypeInv /\ TypeOK /\ put \in [Puts -> PutThreads] /\ put[t] \in PutThreads /\ PutHandler(t)
      /\ l \in Nodes /\ lastApplied \in [Nodes -> Nat] /\ commitIndex[l] \in Nat
      /\ log[l] \in Seq(LogEntry)
  BY OneReign DEF KnownInv, TypeInv, TypeOK, PutHandler
<1>2. put[t].pc = "take" /\ UNCHANGED <<log, commitIndex, map>>
  BY DEF TakeOwn, stateVars
<1>3. put[t].pc \in Working /\ \A u \in Puts \ {t} : put'[u] = put[u]
  BY <1>1, PutHandlerEffect
<1>4. put[t].node = l
  <2>1. put[t].pc \in Working \ {"propose"}
    BY <1>2 DEF Working
  <2>2. Stamped(t)
    BY <2>1 DEF KnownInv, TypeInv, ThreadInv, Stamped
  <2>3. QED
    BY <2>2, ProposerHasLed, OneReign DEF KnownInv, HasLed
<1>5. /\ lastApplied[l] <= commitIndex[l] /\ commitIndex[l] <= Len(log[l])
      /\ Reflects(map[l], log[l], lastApplied[l])
  BY <1>2, <1>3, BeforeTake DEF LeaderFollows
<1>6. Len(log[l]) \in Nat /\ lastApplied[l] \in Nat
  BY <1>1
<1>7. lastApplied'[l] = commitIndex[l]
  <2>1. lastApplied'[l] = AppliedUpTo(l)
    BY <1>1, <1>4 DEF TakeOwn
  <2>2. QED
    BY <1>1, <1>5, <1>6, <2>1 DEF AppliedUpTo
<1>8. q = SubSeq(log[l], lastApplied[l] + 1, commitIndex[l])
  <2>1. (IF commitIndex[l] < Len(log[l]) THEN commitIndex[l] ELSE Len(log[l])) = commitIndex[l]
    BY <1>1, <1>5, <1>6
  <2>2. QED
    BY <2>1, Zenon DEF Applicable
<1>9. /\ Len(q) = commitIndex[l] - lastApplied[l]
      /\ \A i \in 1..Len(q) : q[i] = log[l][lastApplied[l] + i]
  <2> HIDE DEF q
  <2>1. Len(q) = IF lastApplied[l] + 1 <= commitIndex[l]
                   THEN commitIndex[l] - (lastApplied[l] + 1) + 1 ELSE 0
    BY <1>1, <1>5, <1>6, <1>8, SubSeqProperties
  <2>2. Len(q) = commitIndex[l] - lastApplied[l]
    BY <1>1, <1>5, <1>6, <2>1
  <2>3. \A i \in 1..Len(q) : q[i] = log[l][lastApplied[l] + i]
    BY <1>1, ApplicableEntries DEF q
  <2>4. QED
    BY <2>2, <2>3
<1> HIDE DEF q
<1>10. CASE Answer(t, "committed") /\ q = <<>>
  <2>1. put'[t].pc = "done" /\ lastApplied[l] = commitIndex[l]
    <3>1. Len(q) = 0
      BY <1>10
    <3>2. QED
      BY <1>1, <1>6, <1>9, <1>10, <3>1, AnswerEffect
  <2>2. CallFollows(t, l)'
    BY <2>1 DEF CallFollows
  <2>3. Reflects(map[l], log[l], lastApplied[l])'
    BY <1>2, <1>5, <1>7, <2>1
  <2>4. lastApplied'[l] <= commitIndex'[l] /\ commitIndex'[l] <= Len(log'[l])
    BY <1>1, <1>2, <1>5, <1>7
  <2>5. QED
    BY <1>2, <1>3, <1>7, <2>2, <2>3, <2>4, OneCallFollows
<1>11. CASE put' = [put EXCEPT ![t].pc = "apply", ![t].pending = q]
  <2>1. put'[t].pc = "apply" /\ put'[t].pending = q
    BY <1>1, <1>11 DEF PutThreads
  <2>2. Len(q) <= lastApplied'[l] /\ lastApplied'[l] - Len(q) = lastApplied[l]
    BY <1>1, <1>5, <1>6, <1>7, <1>9
  <2>3. CallFollows(t, l)'
    BY <1>2, <1>5, <1>9, <2>1, <2>2 DEF CallFollows
  <2>4. lastApplied'[l] <= commitIndex'[l] /\ commitIndex'[l] <= Len(log'[l])
    BY <1>1, <1>2, <1>5, <1>7
  <2>5. QED
    BY <1>2, <1>3, <1>7, <2>1, <2>3, <2>4, OneCallFollows
<1>12. IF Applicable(put[t].node) = <<>>
         THEN Answer(t, "committed")
         ELSE put' = [put EXCEPT ![t].pc = "apply", ![t].pending = Applicable(put[t].node)]
  BY DEF TakeOwn
<1>13. QED
  <2>1. q = Applicable(put[t].node)
    BY <1>4 DEF q
  <2>2. CASE q = <<>>
    BY <1>10, <1>12, <2>1, <2>2
  <2>3. CASE q # <<>>
    BY <1>11, <1>12, <2>1, <2>3
  <2>4. QED
    BY <2>2, <2>3

LEMMA ApplyFollows ==
  ASSUME KnownInv, FirstReign, OneCall, [Next]_vars,
         NEW x \in elected, LeaderFollows(x[2]), NEW t \in Puts, ApplyOwn(t)
  PROVE  LeaderFollows(x[2])'
<1> DEFINE l == x[2]
           q == put[t].pending
           e == Head(q)
           j == lastApplied[l] - Len(q)
<1> USE DEF raftVars
<1>1. /\ TypeInv /\ put \in [Puts -> PutThreads] /\ put[t] \in PutThreads /\ PutHandler(t)
      /\ l \in Nodes /\ lastApplied[l] \in Nat /\ commitIndex[l] \in Nat
      /\ log[l] \in Seq(LogEntry) /\ map \in [Nodes -> [Keys -> Puts \cup {NoPut}]]
      /\ q \in Seq(LogEntry)
  BY OneReign DEF KnownInv, TypeInv, TypeOK, PutHandler, PutThreads
<1>2. put[t].pc = "apply" /\ UNCHANGED <<log, commitIndex, lastApplied>>
  BY DEF ApplyOwn
<1>3. put[t].pc \in Working /\ \A u \in Puts \ {t} : put'[u] = put[u]
  BY <1>1, PutHandlerEffect
<1>4. put[t].node = l
  <2>1. put[t].pc \in Working \ {"propose"}
    BY <1>2 DEF Working
  <2>2. Stamped(t)
    BY <2>1 DEF KnownInv, TypeInv, ThreadInv, Stamped
  <2>3. QED
    BY <2>2, ProposerHasLed, OneReign DEF KnownInv, HasLed
<1>5. /\ Len(q) <= lastApplied[l] /\ Reflects(map[l], log[l], j)
      /\ \A i \in 1..Len(q) : q[i] = log[l][j + i]
      /\ lastApplied[l] <= commitIndex[l] /\ commitIndex[l] <= Len(log[l])
  BY <1>2 DEF LeaderFollows, CallFollows
<1>6. lastApplied[l] = commitIndex[l]
  BY <1>2, <1>3, BeforeTake
<1>7. q # <<>>
  BY <1>2 DEF KnownInv, TypeInv, ThreadInv
<1>8. Len(q) \in Nat /\ Len(q) >= 1 /\ Len(log[l]) \in Nat
  BY <1>1, <1>7
<1>9. j \in Nat /\ j < Len(log[l])
  BY <1>1, <1>5, <1>8
<1>10. e = log[l][j + 1]
  <2>1. e = q[1] /\ 1 \in 1..Len(q)
    BY <1>1, <1>7, <1>8
  <2>2. QED
    BY <1>5, <2>1
<1>11. map'[l] = [map[l] EXCEPT ![e.key] = e.val]
  <2>1. ApplyEntry(put[t].node, e)
    BY DEF ApplyOwn
  <2>2. map' = [map EXCEPT ![l][e.key] = e.val]
    BY <1>4, <2>1 DEF ApplyEntry
  <2> HIDE DEF e
  <2>3. QED
    BY <1>1, <2>2
<1>12. Reflects(map'[l], log[l], j + 1)
  <2> HIDE DEF e, j
  <2>1. map[l] \in [Keys -> Puts \cup {NoPut}]
    BY <1>1
  <2>2. Reflects([map[l] EXCEPT ![log[l][j + 1].key] = log[l][j + 1].val], log[l], j + 1)
    BY <1>1, <1>5, <1>9, <2>1, ReflectsNext
  <2>3. QED
    BY <1>10, <1>11, <2>2
<1>13. \/ Len(q) = 1 /\ Answer(t, "committed")
       \/ Len(q) # 1 /\ put' = [put EXCEPT ![t].pending = Tail(q)]
  <2>1. IF Len(put[t].pending) = 1
          THEN Answer(t, "committed")
          ELSE put' = [put EXCEPT ![t].pending = Tail(@)]
    BY DEF ApplyOwn
  <2>2. QED
    BY <1>1, <2>1
<1>14. CASE Len(q) = 1 /\ Answer(t, "committed")
  <2>1. put'[t].pc = "done"
    BY <1>1, <1>14, AnswerEffect
  <2>2. CallFollows(t, l)'
    BY <2>1 DEF CallFollows
  <2>3. j + 1 = lastApplied[l]
    BY <1>1, <1>14
  <2>4. Reflects(map[l], log[l], lastApplied[l])'
    BY <1>2, <1>12, <2>3
  <2>5. QED
    BY <1>2, <1>3, <1>5, <1>6, <2>2, <2>4, OneCallFollows
<1>15. CASE Len(q) # 1 /\ put' = [put EXCEPT ![t].pending = Tail(q)]
  <2>1. put'[t].pc = "apply" /\ put'[t].pending = Tail(q)
    <3> HIDE DEF q
    <3>1. QED
      BY <1>1, <1>2, <1>15 DEF PutThreads
  <2>2. Len(Tail(q)) = Len(q) - 1 /\ \A i \in 1..(Len(q) - 1) : Tail(q)[i] = q[i + 1]
    <3> HIDE DEF q
    <3>1. QED
      BY <1>1, <1>7, HeadTailProperties
  <2>3. lastApplied[l] - Len(Tail(q)) = j + 1 /\ Len(Tail(q)) <= lastApplied[l]
    BY <1>1, <1>5, <1>8, <2>2
  <2>4. \A i \in 1..Len(Tail(q)) : Tail(q)[i] = log[l][j + 1 + i]
    <3> HIDE DEF q, j
    <3>1. ASSUME NEW i \in 1..Len(Tail(q)) PROVE Tail(q)[i] = log[l][j + 1 + i]
      <4>1. i + 1 \in 1..Len(q) /\ Tail(q)[i] = q[i + 1] /\ j + (i + 1) = j + 1 + i
        BY <1>8, <1>9, <2>2
      <4>2. QED
        BY <1>5, <4>1
    <3>2. QED
      BY <3>1
  <2>5. CallFollows(t, l)'
    <3>1. /\ Len(put'[t].pending) <= lastApplied'[l]
          /\ lastApplied'[l] - Len(put'[t].pending) = j + 1
      BY <1>2, <2>1, <2>3
    <3>2. Reflects(map'[l], log'[l], j + 1)
      BY <1>2, <1>12
    <3>3. \A i \in 1..Len(put'[t].pending) : put'[t].pending[i] = log'[l][j + 1 + i]
      BY <1>2, <2>1, <2>4
    <3> HIDE DEF j, q, e
    <3>4. QED
      BY <2>1, <3>1, <3>2, <3>3 DEF CallFollows
  <2>6. QED
    BY <1>2, <1>3, <1>5, <1>6, <2>1, <2>5, OneCallFollows
<1>16. QED
  BY <1>13, <1>14, <1>15

\* Nothing is committed before a node is elected.
LEMMA NothingCommitted ==
  ASSUME KnownInv, elected = {}, [Next]_vars
  PROVE  UNCHANGED <<commitIndex, lastApplied>>
<1> USE DEF raftVars, stateVars, history
<1>1. \A t \in Puts : put[t].pc \notin Working \ {"propose"}
  BY NothingBefore DEF KnownInv, TypeInv, ThreadInv, Stamped
<1>2. \A n : ~HasLed(n)
  BY DEF HasLed
<1>3. ASSUME NEW n \in Nodes, Ticker(n) PROVE UNCHANGED <<commitIndex, lastApplied>>
  BY <1>3 DEF Ticker, StartElection, BeginBallot, AskVote, TallyVotes, PublishWin, SeeLeader,
              SendHeartbeats
<1>4. CASE Handler
  <2>1. ASSUME NEW m \in rpcs, HandleAppendEntries(m) PROVE FALSE
    BY <1>2, <2>1 DEF HandleAppendEntries, KnownInv, RouteInv, Routed
  <2>2. ASSUME NEW a \in appliers PROVE FALSE
    BY <1>2 DEF KnownInv, RouteInv, ApplierRouted
  <2>3. ASSUME NEW m \in rpcs, HandleRequestVote(m) \/ HandleRepl(m)
        PROVE  UNCHANGED <<commitIndex, lastApplied>>
    BY <2>3 DEF HandleRequestVote, HandleRepl
  <2>4. QED
    BY <1>4, <2>1, <2>2, <2>3 DEF Handler
<1>5. ASSUME NEW t \in Puts, PutHandler(t) PROVE UNCHANGED <<commitIndex, lastApplied>>
  <2>1. ~CommitEntry(t) /\ ~TakeOwn(t) /\ ~ApplyOwn(t)
    BY <1>1 DEF CommitEntry, TakeOwn, ApplyOwn, Working
  <2>2. QED
    BY <1>5, <2>1 DEF PutHandler, ProposeEntry, CaptureView, SendAppend, SendRepl
<1>6. CASE \/ \E t \in Puts, n \in Nodes, k \in Keys : ReceivePut(t, n, k)
           \/ \E n \in Nodes, e \in Epochs : Promote(n, e)
           \/ \E n \in Victims : Kill(n)
           \/ UNCHANGED vars
  BY <1>6 DEF ReceivePut, Promote, Kill, vars
<1>7. QED
  BY <1>3, <1>4, <1>5, <1>6 DEF Next

LEMMA LeaderGoesOn ==
  ASSUME KnownInv, KnownInv', FirstReign, ReignInv, OneCall, MaxInFlight = 1, [Next]_vars,
         NEW x \in elected, LeaderFollows(x[2])
  PROVE  LeaderFollows(x[2])'
<1> DEFINE l == x[2]
<1>1. ASSUME NEW t \in Puts, PutHandler(t) PROVE LeaderFollows(l)'
  BY <1>1, ProposalFollows, SendingFollows, CommitFollows, TakeFollows, ApplyFollows
     DEF PutHandler
<1>2. CASE ~(\E t \in Puts : PutHandler(t))
  <2>1. Undisturbed(l) /\ TypeInv
    BY <1>2, LeaderUndisturbed DEF KnownInv
  <2>2. CASE QuietCalls
    <3>1. \A t \in Puts : CallFollows(t, l)'
      BY <2>1, <2>2 DEF LeaderFollows, CallFollows, QuietCalls, Undisturbed, Entry
    <3>2. QED
      BY <2>1, <2>2, <3>1 DEF LeaderFollows, QuietCalls, Undisturbed
  <2>3. ASSUME NEW t \in Puts, NEW n \in Nodes, NEW k \in Keys, ReceivePut(t, n, k)
        PROVE  LeaderFollows(l)'
    <3>1. /\ put[t].pc = "unsent" /\ put'[t].pc \in {"propose", "done"}
          /\ \A u \in Puts \ {t} : put'[u] = put[u]
      BY <2>1, <2>3, ReceivedCall
    <3>2. \A u \in Puts : CallFollows(u, l)'
      BY <2>1, <3>1 DEF LeaderFollows, CallFollows, Undisturbed, Entry
    <3>3. /\ (\E u \in Puts : put[u].pc = "take") => \E u \in Puts : put'[u].pc = "take"
          /\ (\A u \in Puts : put'[u].pc # "apply") => \A u \in Puts : put[u].pc # "apply"
      BY <3>1
    <3>4. QED
      BY <2>1, <3>2, <3>3 DEF LeaderFollows, Undisturbed
  <2>4. QED
    BY <1>2, <2>1, <2>2, <2>3, CallsMove
<1>3. QED
  BY <1>1, <1>2

\* The first leader takes over with nothing committed and an empty catalog.
LEMMA LeaderStarts ==
  ASSUME KnownInv, KnownInv', elected = {}, [Next]_vars, NEW y \in elected',
         \A n \in Nodes : commitIndex[n] = 0 /\ lastApplied[n] = 0
  PROVE  LeaderFollows(y[2])'
<1>1. PICK n \in Nodes : elected' = elected \cup {<<currentTerm[n], n>>} /\ UNCHANGED <<log, put>>
  BY ElectedChange
<1>2. y[2] = n
  BY <1>1
<1>3. (\A t \in Puts : ~Stamped(t)) /\ log[n] = <<>>
  BY NothingBefore
<1>4. commitIndex'[n] = 0 /\ lastApplied'[n] = 0 /\ Len(log'[n]) = 0
  BY <1>1, <1>3, NothingCommitted
<1>5. \A t \in Puts : put'[t].pc \notin Working \ {"propose"}
  BY <1>1, <1>3 DEF KnownInv, TypeInv, ThreadInv, Stamped
<1>6. \A t \in Puts : CallFollows(t, n)'
  BY <1>5 DEF CallFollows, Working
<1>7. \A k \in Keys : map'[n][k] = NoPut
  <2>1. DOMAIN put' = Puts
    BY DEF KnownInv, TypeInv, TypeOK
  <2>2. ASSUME NEW k \in Keys, map'[n][k] # NoPut PROVE FALSE
    <3>1. HasPut(put', map'[n][k], k)
      BY <2>2 DEF KnownInv, CopiesInv, CatalogCopies
    <3>2. QED
      BY <1>1, <1>3, <2>1, <3>1 DEF HasPut, Stamped, Entry
  <2>3. QED
    BY <2>2
<1>8. Reflects(map'[n], log'[n], 0)
  BY <1>7 DEF Reflects
<1>9. QED
  BY <1>2, <1>4, <1>6, <1>8 DEF LeaderFollows

LEMMA NextCatalog == KnownInv /\ KnownInv' /\ ReignInv /\ CatalogInv /\ [Next]_vars => CatalogInv'
<1> SUFFICES ASSUME KnownInv, KnownInv', ReignInv, CatalogInv, [Next]_vars, FirstReign',
                    MaxInFlight = 1
             PROVE  /\ OneCall'
                    /\ elected' = {} => \A n \in Nodes : commitIndex'[n] = 0 /\ lastApplied'[n] = 0
                    /\ \A y \in elected' : LeaderFollows(y[2])'
  BY DEF CatalogInv
<1>1. FirstReign /\ elected \subseteq elected' /\ TypeInv
  BY StillFirstReign, ElectedGrows DEF KnownInv
<1>2. OneCall /\ OneCall'
  BY <1>1, StillOneCall DEF CatalogInv
<1>3. CASE elected = {}
  <2>1. \A n \in Nodes : commitIndex[n] = 0 /\ lastApplied[n] = 0
    BY <1>1, <1>3 DEF CatalogInv
  <2>2. \A n \in Nodes : commitIndex'[n] = 0 /\ lastApplied'[n] = 0
    BY <1>3, <2>1, NothingCommitted
  <2>3. QED
    BY <1>2, <1>3, <2>1, <2>2, LeaderStarts
<1>4. ASSUME NEW x \in elected, NEW y \in elected' PROVE LeaderFollows(y[2])'
  <2>1. OneLeader'
    BY OneLeaderHolds, PTL
  <2>2. y[2] = x[2]
    BY <1>1, <2>1 DEF OneLeader
  <2>3. LeaderFollows(x[2])
    BY <1>1 DEF CatalogInv
  <2>4. LeaderFollows(x[2])'
    BY <1>1, <1>2, <2>3, LeaderGoesOn
  <2>5. QED
    BY <2>2, <2>4
<1>5. QED
  BY <1>1, <1>2, <1>3, <1>4

LEMMA InitCatalog == Init => CatalogInv
BY DEF Init, CatalogInv, OneCall, InFlight, UnsentPut

LEMMA CatalogInvariant == Spec => []CatalogInv
BY InitCatalog, NextCatalog, KnownInvariant, ReignInvariant, PTL DEF Spec

LEMMA ReflectsCommitted == KnownInv /\ CatalogInv => CatalogFollowsLog
<1> SUFFICES ASSUME KnownInv, CatalogInv, FirstReign, MaxInFlight = 1, InFlight = {},
                    NEW x \in elected, NEW k \in Keys
             PROVE  LET n == x[2]
                        puts == {i \in 1..Len(log[n]) : i <= commitIndex[n] /\ log[n][i].key = k}
                    IN  map[n][k] = IF puts = {} THEN NoPut
                                    ELSE log[n][CHOOSE i \in puts : \A j \in puts : j <= i].val
  BY DEF CatalogFollowsLog
<1> DEFINE n == x[2]
           puts == {i \in 1..Len(log[n]) : i <= commitIndex[n] /\ log[n][i].key = k}
<1>1. LeaderFollows(n) /\ n \in Nodes /\ commitIndex[n] \in Nat /\ log[n] \in Seq(LogEntry)
  BY OneReign DEF CatalogInv, KnownInv, TypeInv, TypeOK
<1>2. \A t \in Puts : put[t].pc \in {"unsent", "done"}
  BY DEF InFlight
<1>3. commitIndex[n] <= Len(log[n]) /\ Reflects(map[n], log[n], commitIndex[n])
  BY <1>1, <1>2 DEF LeaderFollows
<1>4. puts = {i \in 1..commitIndex[n] : log[n][i].key = k}
  BY <1>1, <1>3
<1> HIDE DEF puts
<1>5. CASE map[n][k] = NoPut /\ \A i \in 1..commitIndex[n] : log[n][i].key # k
  BY <1>4, <1>5 DEF puts
<1>6. CASE \E i \in 1..commitIndex[n] : /\ log[n][i].key = k /\ map[n][k] = log[n][i].val
                                        /\ \A h \in (i + 1)..commitIndex[n] : log[n][h].key # k
  <2>1. PICK i \in 1..commitIndex[n] : /\ log[n][i].key = k /\ map[n][k] = log[n][i].val
                                       /\ \A h \in (i + 1)..commitIndex[n] : log[n][h].key # k
    BY <1>6
  <2>2. i \in puts /\ \A j \in puts : j <= i
    BY <1>1, <1>4, <2>1
  <2>3. \A h \in puts : (\A j \in puts : j <= h) => h = i
    <3>1. \A h \in puts : h \in Int
      BY <1>4
    <3>2. QED
      BY <2>2, <3>1
  <2>4. (CHOOSE h \in puts : \A j \in puts : j <= h) = i
    BY <2>2, <2>3
  <2>5. QED
    BY <2>1, <2>2, <2>4 DEF puts
<1>7. QED
  BY <1>3, <1>5, <1>6 DEF Reflects

\* Under the first leader there is one history: every log is a prefix of the
\* leader's, and with one PUT at a time its catalog holds between the calls what the
\* committed entries leave, those of failed calls that a later commit took along
\* included.
THEOREM HistoryIsOne == Spec => []OneHistory
<1>1. KnownInv /\ ReignInv /\ CatalogInv => OneHistory
  BY PrefixesOfLeader, ReflectsCommitted DEF OneHistory
<1>2. QED
  BY <1>1, KnownInvariant, ReignInvariant, CatalogInvariant, PTL

=============================================================================
