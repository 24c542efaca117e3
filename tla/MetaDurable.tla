---------------------------- MODULE MetaDurable ----------------------------
(***************************************************************************)
(* One node of the catalog service with a data directory, over crashes and *)
(* restarts: MetaNode::start_persistent.  The node stands in elections,    *)
(* follows other leaders and loses its leadership to them; while it leads, *)
(* handler threads run PUT, ADD_PEER and REMOVE_PEER, each through         *)
(* leader_propose, and an ADD_PEER leaves a thread behind that activates   *)
(* the new peer.  persist_now writes raft.bin and then catalog.bin,        *)
(* holding both mutexes; either of them may fail.                          *)
(*                                                                         *)
(* The other nodes are what arrives from them: votes, acknowledgements,    *)
(* vote requests, AppendEntries and OP_REPL of later leaders, whose        *)
(* entries the node's next save puts on the disk with its own.  An action  *)
(* is what a thread does under one lock.                                   *)
(***************************************************************************)
EXTENDS Integers, Sequences, FiniteSets, SequencesExt, Functions

CONSTANTS
  Self,         \* this node
  Initial,      \* its peers when it is started: the list of BLITZ_META_PEERS
  Joiners,      \* nodes that may be added, and removed
  NoOne,        \* voted_for: None
  Calls,        \* the calls of clients that reach this node
  Others,       \* what clients have other leaders do
  OpOf,         \* what each of them is: <<"put", key>>, <<"add", node>>, <<"remove", node>>
  Candidates,   \* the other nodes that stand in elections
  Requests,     \* bound: what other nodes ask this one: votes, AppendEntries, OP_REPL
  OtherTerms,   \* bound: the terms that other nodes stand and lead in
  MaxTerm,      \* bound: elections and requests go no further
  MaxIndex,     \* bound: nor do the indexes in requests
  MaxCrashes,   \* bound
  MaxFailures,  \* bound: saves of a file that end in an error
  MaxInFlight   \* bound: calls under way at the same time

ASSUME MetaDurableAssumption ==
  /\ Initial \in Seq(Range(Initial)) /\ IsInjective(Initial) /\ Self \notin Range(Initial)
  /\ NoOne \notin Range(Initial) \cup Joiners \cup {Self}
  /\ \A o \in Calls \cup Others :
       OpOf[o][1] = "add" => OpOf[o][2] \in Range(Initial) \cup Joiners \cup {Self}
  /\ Candidates \subseteq Range(Initial) \cup Joiners
  /\ OtherTerms \subseteq 1..MaxTerm
  /\ MaxTerm \in Nat /\ MaxIndex \in Nat /\ MaxCrashes \in Nat /\ MaxFailures \in Nat
  /\ MaxInFlight \in Nat

VARIABLES
  raft,      \* RaftNode, behind the mutex `raft`
  cat,       \* NodeState, behind the mutex `state`
  tick,      \* the ticker: the term it has won and has yet to publish in `cat`, or 0
  call,      \* the handler thread of each call and request
  join,      \* the activation thread that a call has left behind
  disk,      \* the files of the data directory
  crashes,   \* crashes so far, which also names the life of the process
  failures,  \* saves of a file that have failed so far
  up,        \* the process runs
  saves,     \* history: what each raft.bin said of the node's term and vote, and when
  kept       \* history: the entries of keys that a thread has taken, applied and saved

vars == <<raft, cat, tick, call, join, disk, crashes, failures, up, saves, kept>>

Threads == Calls \cup Requests

Absent == [there |-> FALSE]
Partial == [there |-> TRUE, whole |-> FALSE]
Whole(content) == [there |-> TRUE, whole |-> TRUE, content |-> content]

NewRaft(peers) ==
  [term |-> 0, voted |-> NoOne, log |-> <<>>, commit |-> 0, applied |-> 0, peers |-> peers,
   role |-> "Follower", next |-> [i \in DOMAIN peers |-> 0]]
NewCat == [epoch |-> 1, map |-> {}, log |-> <<>>, leader |-> FALSE]

Waiting == [pc |-> "unsent", index |-> 0, took |-> <<>>, pending |-> <<>>, added |-> <<>>,
            file |-> 0, result |-> "none"]
NoJoin == [pc |-> "none"]

Init ==
  /\ raft = NewRaft(Initial)
  /\ cat = NewCat
  /\ tick = 0
  /\ call = [t \in Threads |-> Waiting]
  /\ join = [c \in Calls |-> NoJoin]
  /\ disk = [raft |-> Absent, catalog |-> Absent]
  /\ crashes = 0
  /\ failures = 0
  /\ up = TRUE
  /\ saves = {}
  /\ kept = {}

-----------------------------------------------------------------------------
(* The ticker.                                                              *)

\* persist_now holds both mutexes while it writes the files.
Saving == {"save", "saved"}
Unlocked == up /\ \A c \in Calls : call[c].pc \notin Saving

StartElection ==
  /\ Unlocked
  /\ tick = 0
  /\ raft.role = "Follower"
  /\ raft.term < MaxTerm
  /\ raft' = [raft EXCEPT !.term = @ + 1, !.voted = Self, !.role = "Candidate"]
  /\ UNCHANGED <<cat, tick, call, join, disk, crashes, failures, up, saves, kept>>

\* The votes make a majority.
BecomeLeader ==
  /\ Unlocked
  /\ tick = 0
  /\ raft.role = "Candidate"
  /\ raft' = [raft EXCEPT !.role = "Leader",
                          !.next = [i \in DOMAIN raft.peers |-> Len(raft.log) + 1]]
  /\ tick' = raft.term
  /\ UNCHANGED <<cat, call, join, disk, crashes, failures, up, saves, kept>>

PublishElection ==
  /\ Unlocked
  /\ tick # 0
  /\ cat' = [cat EXCEPT !.leader = TRUE, !.epoch = tick]
  /\ tick' = 0
  /\ UNCHANGED <<raft, call, join, disk, crashes, failures, up, saves, kept>>

-----------------------------------------------------------------------------
(* What arrives from other nodes.                                           *)

Goto(t, pc) == call' = [call EXCEPT ![t].pc = pc]
Ended(t, result) == call' = [call EXCEPT ![t] = [Waiting EXCEPT !.pc = "ended", !.result = result]]

\* A later term makes a follower without a vote of the node.
Fenced(term) ==
  IF term > raft.term THEN [raft EXCEPT !.term = term, !.role = "Follower", !.voted = NoOne]
  ELSE raft

\* is_leader follows the role, under both locks.
Followed == cat' = [cat EXCEPT !.leader = IF raft'.role = "Follower" THEN FALSE ELSE @]

HandleRequestVote(t, candidate, term, upToDate) ==
  /\ Unlocked
  /\ call[t].pc = "unsent"
  /\ LET r == Fenced(term)
         granted == term = r.term /\ r.voted \in {NoOne, candidate} /\ upToDate
     IN  raft' = IF granted THEN [r EXCEPT !.voted = candidate] ELSE r
  /\ Followed
  /\ Ended(t, "ok")
  /\ UNCHANGED <<tick, join, disk, crashes, failures, up, saves, kept>>

\* The log after the entries of a request: none, or the one behind `prev`, which
\* takes the place of an entry of another term and of all that follows it.
Merged(log, prev, entries) ==
  IF entries = <<>> \/ (prev < Len(log) /\ log[prev + 1].term = entries[1].term) THEN log
  ELSE Append(SubSeq(log, 1, prev), entries[1])

Smaller(a, b) == IF a < b THEN a ELSE b

HandleAppendEntries(t, term, prev, prevTerm, entries, commit) ==
  /\ Unlocked
  /\ call[t].pc = "unsent"
  /\ LET r == Fenced(term)
         prevOk == prev = 0 \/ (prev <= Len(r.log) /\ r.log[prev].term = prevTerm)
         log == Merged(r.log, prev, entries)
     IN  raft' = IF term < r.term THEN r
                 ELSE IF ~prevOk THEN [r EXCEPT !.role = "Follower"]
                 ELSE [r EXCEPT !.role = "Follower", !.log = log,
                                !.commit = IF commit > @ THEN Smaller(commit, Len(log)) ELSE @]
  /\ Followed
  /\ Goto(t, "take")
  /\ UNCHANGED <<tick, join, disk, crashes, failures, up, saves, kept>>

IsPut(e) == OpOf[e.call][1] = "put"

\* An entry in the catalog: its value replaces that of the key.
Inserted(c, e) ==
  [c EXCEPT !.map = {kv \in @ : kv[1] # OpOf[e.call][2]} \cup {<<OpOf[e.call][2], e.call>>},
            !.log = Append(@, e)]

\* OP_REPL: a key goes into the catalog, whether the log has it or not; a membership change
\* is applied afterwards, under the other lock.
HandleRepl(t, epoch, e) ==
  /\ Unlocked
  /\ call[t].pc = "unsent"
  /\ IF epoch < cat.epoch THEN Ended(t, "refused") /\ UNCHANGED cat
     ELSE LET fenced == [cat EXCEPT !.epoch = epoch, !.leader = FALSE]
          IN  IF IsPut(e) THEN cat' = Inserted(fenced, e) /\ Ended(t, "ok")
              ELSE /\ cat' = fenced
                   /\ call' = [call EXCEPT ![t].pc = "apply", ![t].pending = <<e>>]
  /\ UNCHANGED <<raft, tick, join, disk, crashes, failures, up, saves, kept>>

-----------------------------------------------------------------------------
(* A call, up to its commit.                                                *)

\* The handler looks at is_leader, and an ADD_PEER at the peers.
Enter(c) ==
  /\ Unlocked
  /\ call[c].pc = "unsent"
  /\ Cardinality({d \in Calls : call[d].pc \notin {"unsent", "ended", "lost"}}) < MaxInFlight
  /\ \/ ~cat.leader /\ Ended(c, "not_leader")
     \/ /\ cat.leader
        /\ OpOf[c][1] = "add" /\ OpOf[c][2] \in Range(raft.peers) \cup {Self}
        /\ Ended(c, "ok")
     \/ /\ cat.leader
        /\ ~(OpOf[c][1] = "add" /\ OpOf[c][2] \in Range(raft.peers) \cup {Self})
        /\ Goto(c, "propose")
  /\ UNCHANGED <<raft, cat, tick, join, disk, crashes, failures, up, saves, kept>>

\* append_entry; then the entry is sent to the peers, without the lock.
AppendEntry(c) ==
  /\ Unlocked
  /\ call[c].pc = "propose"
  /\ IF raft.role # "Leader" THEN Ended(c, "not_leader") /\ UNCHANGED raft
     ELSE /\ raft' = [raft EXCEPT !.log = Append(@, [term |-> raft.term, call |-> c])]
          /\ call' = [call EXCEPT ![c].pc = "sent", ![c].index = Len(raft.log) + 1]
  /\ UNCHANGED <<cat, tick, join, disk, crashes, failures, up, saves, kept>>

\* Too few acknowledgements: the entry stays in the log.
NoQuorum(c) ==
  /\ Unlocked
  /\ call[c].pc = "sent"
  /\ Ended(c, "no_quorum")
  /\ UNCHANGED <<raft, cat, tick, join, disk, crashes, failures, up, saves, kept>>

CommitEntry(c) ==
  /\ Unlocked
  /\ call[c].pc = "sent"
  /\ IF raft.role # "Leader" THEN Ended(c, "not_leader") /\ UNCHANGED raft
     ELSE raft' = [raft EXCEPT !.commit = call[c].index] /\ Goto(c, "take")
  /\ UNCHANGED <<cat, tick, join, disk, crashes, failures, up, saves, kept>>

-----------------------------------------------------------------------------
(* apply_committed: the entries are taken under one lock and applied under  *)
(* others.                                                                  *)

\* The entries between last_applied and commit_index, those of them that the log has.
Applicable ==
  [i \in 1..(Smaller(raft.commit, Len(raft.log)) - raft.applied) |->
     [index |-> raft.applied + i, call |-> raft.log[raft.applied + i].call]]

TakeApplicable(t) ==
  /\ Unlocked
  /\ call[t].pc = "take"
  /\ call' = [call EXCEPT ![t].pc = "apply", ![t].took = Applicable, ![t].pending = Applicable]
  /\ raft' = [raft EXCEPT !.applied = IF raft.commit > @ THEN raft.commit ELSE @]
  /\ UNCHANGED <<cat, tick, join, disk, crashes, failures, up, saves, kept>>

Without(list, i) == SubSeq(list, 1, i - 1) \o SubSeq(list, i + 1, Len(list))
Position(list, p) == SelectInSeq(list, LAMBDA q : q = p)
Known(p) == p = Self \/ p \in Range(raft.peers)

\* The first of the entries that t has yet to apply, and t when that is done.
Applying(t) == Head(call[t].pending)
Applied(t, added) ==
  call' = [call EXCEPT ![t].pending = Tail(@), ![t].added = @ \o added]

ApplyPut(t) ==
  /\ Unlocked
  /\ call[t].pc = "apply" /\ call[t].pending # <<>>
  /\ IsPut(Applying(t))
  /\ cat' = Inserted(cat, Applying(t))
  /\ Applied(t, <<>>)
  /\ UNCHANGED <<raft, tick, join, disk, crashes, failures, up, saves, kept>>

\* A leader leaves a new peer to the activation; another node takes it in at once.
ApplyAddPeer(t) ==
  /\ Unlocked
  /\ call[t].pc = "apply" /\ call[t].pending # <<>>
  /\ OpOf[Applying(t).call][1] = "add"
  /\ LET p == OpOf[Applying(t).call][2] IN
     /\ Applied(t, IF ~Known(p) /\ raft.role = "Leader" THEN <<p>> ELSE <<>>)
     /\ raft' = [raft EXCEPT !.peers = IF ~Known(p) /\ raft.role # "Leader" THEN Append(@, p) ELSE @]
  /\ UNCHANGED <<cat, tick, join, disk, crashes, failures, up, saves, kept>>

ApplyRemovePeer(t) ==
  /\ Unlocked
  /\ call[t].pc = "apply" /\ call[t].pending # <<>>
  /\ OpOf[Applying(t).call][1] = "remove"
  /\ LET p == OpOf[Applying(t).call][2]
         i == Position(raft.peers, p)
     IN  raft' = [raft EXCEPT !.peers = IF i > 0 THEN Without(@, i) ELSE @,
                              !.next = IF i > 0 /\ raft.role = "Leader" /\ i <= Len(@)
                                       THEN Without(@, i) ELSE @,
                              !.role = IF p = Self THEN "Follower" ELSE @]
  /\ Applied(t, <<>>)
  /\ UNCHANGED <<cat, tick, join, disk, crashes, failures, up, saves, kept>>

\* A request of another leader is answered, and nothing is saved for it.
EndRequest(r) ==
  /\ Unlocked
  /\ call[r].pc = "apply" /\ call[r].pending = <<>>
  /\ Ended(r, "ok")
  /\ UNCHANGED <<raft, cat, tick, join, disk, crashes, failures, up, saves, kept>>

-----------------------------------------------------------------------------
(* persist_now and atomic_write: a file is written under another name and   *)
(* renamed over the old one.  An error on the way is printed, the next file *)
(* is written and the answer given all the same.                            *)

RaftImage ==
  [term |-> raft.term, voted |-> raft.voted, log |-> raft.log, commit |-> raft.commit,
   applied |-> raft.applied, peers |-> raft.peers]
CatImage == [epoch |-> cat.epoch, map |-> cat.map, log |-> cat.log]

Image(f) == IF f = "raft" THEN RaftImage ELSE CatImage
Files == <<"raft", "catalog">>

\* What is written lies beside the file, under a name that nobody loads.  Variant: the file
\* itself is truncated and written.
CreatedInPlace(f) == [disk EXCEPT ![f] = Partial]
Created(f) == disk

\* Variant: without waiting for the entries taken to be applied.
BeginSaveEarly(c) ==
  /\ Unlocked
  /\ call[c].pc = "apply"
  /\ call' = [call EXCEPT ![c].pc = "save", ![c].file = 1]
  /\ disk' = Created(Files[1])
  /\ UNCHANGED <<raft, cat, tick, join, crashes, failures, up, saves, kept>>
BeginSave(c) ==
  /\ Unlocked
  /\ call[c].pc = "apply" /\ call[c].pending = <<>>
  /\ call' = [call EXCEPT ![c].pc = "save", ![c].file = 1]
  /\ disk' = Created(Files[1])
  /\ UNCHANGED <<raft, cat, tick, join, crashes, failures, up, saves, kept>>

Renamed(f) == [disk EXCEPT ![f] = Whole(Image(f))]

SaveFile(c) ==
  /\ up
  /\ call[c].pc = "save"
  /\ LET f == Files[call[c].file] IN
     /\ disk' = Renamed(f)
     /\ IF f = "raft"
        THEN /\ saves' = saves \cup {[life |-> crashes, term |-> raft.term, voted |-> raft.voted]}
             /\ UNCHANGED kept
        ELSE /\ kept' = kept \cup {e \in Range(call[c].took) : IsPut(e)}
             /\ UNCHANGED saves
  /\ Goto(c, "saved")
  /\ UNCHANGED <<raft, cat, tick, join, crashes, failures, up>>

\* An error: the old file stays.
SaveFails(c) ==
  /\ up
  /\ failures < MaxFailures
  /\ call[c].pc = "save"
  /\ Goto(c, "saved")
  /\ failures' = failures + 1
  /\ UNCHANGED <<raft, cat, tick, join, disk, crashes, up, saves, kept>>

NextFile(c) ==
  /\ up
  /\ call[c].pc = "saved"
  /\ IF call[c].file = Len(Files) THEN Goto(c, "answer") /\ UNCHANGED disk
     ELSE /\ call' = [call EXCEPT ![c].pc = "save", ![c].file = @ + 1]
          /\ disk' = Created(Files[call[c].file + 1])
  /\ UNCHANGED <<raft, cat, tick, join, crashes, failures, up, saves, kept>>

\* The client is answered; peers that the thread has to activate are left to a thread.
Answer(c) ==
  /\ up
  /\ call[c].pc = "answer"
  /\ Ended(c, "ok")
  /\ join' = [join EXCEPT ![c] = IF call[c].added = <<>> THEN NoJoin
                                 ELSE [pc |-> "activate", todo |-> call[c].added]]
  /\ UNCHANGED <<raft, cat, tick, disk, crashes, failures, up, saves, kept>>

-----------------------------------------------------------------------------
(* activate_new_peers: each peer is activated, then sent a snapshot.  The   *)
(* log in it ends with the change that adds the peer, and for a change      *)
(* apply_snapshot takes a lock that it still holds: a joiner of the same    *)
(* process never returns, another never answers and is deactivated.         *)

\* Variant: activate_peer does not look for the peer first.
ActivatePeerTwice(c) ==
  /\ Unlocked
  /\ join[c].pc = "activate"
  /\ raft' = [raft EXCEPT !.peers = Append(@, Head(join[c].todo)),
                          !.next = IF raft.role = "Leader" THEN Append(@, Len(raft.log) + 1) ELSE @]
  /\ join' = [join EXCEPT ![c].pc = "install"]
  /\ UNCHANGED <<cat, tick, call, disk, crashes, failures, up, saves, kept>>
ActivatePeer(c) ==
  /\ Unlocked
  /\ join[c].pc = "activate"
  /\ LET p == Head(join[c].todo)
     IN  raft' = IF Known(p) THEN raft
                 ELSE [raft EXCEPT !.peers = Append(@, p),
                                   !.next = IF raft.role = "Leader" THEN Append(@, Len(raft.log) + 1)
                                            ELSE @]
  /\ join' = [join EXCEPT ![c].pc = "install"]
  /\ UNCHANGED <<cat, tick, call, disk, crashes, failures, up, saves, kept>>

InstallHangs(c) ==
  /\ up
  /\ join[c].pc = "install"
  /\ join' = [join EXCEPT ![c].pc = "hangs"]
  /\ UNCHANGED <<raft, cat, tick, call, disk, crashes, failures, up, saves, kept>>

InstallFails(c) ==
  /\ Unlocked
  /\ join[c].pc = "install"
  /\ LET i == Position(raft.peers, Head(join[c].todo))
     IN  raft' = [raft EXCEPT !.peers = IF i > 0 THEN Without(@, i) ELSE @,
                              !.next = IF i > 0 /\ i <= Len(@) THEN Without(@, i) ELSE @]
  /\ join' = [join EXCEPT ![c] = IF Len(@.todo) = 1 THEN NoJoin
                                 ELSE [pc |-> "activate", todo |-> Tail(@.todo)]]
  /\ UNCHANGED <<cat, tick, call, disk, crashes, failures, up, saves, kept>>

-----------------------------------------------------------------------------
(* The process ends at any point, and start_inner loads what is on disk.    *)

Crash ==
  /\ up
  /\ crashes < MaxCrashes
  /\ up' = FALSE
  /\ crashes' = crashes + 1
  /\ call' = [t \in Threads |-> IF call[t].pc \in {"unsent", "ended"} THEN call[t]
                                ELSE [Waiting EXCEPT !.pc = "lost"]]
  /\ join' = [c \in Calls |-> NoJoin]
  /\ raft' = NewRaft(<<>>)
  /\ cat' = NewCat
  /\ tick' = 0
  /\ UNCHANGED <<disk, failures, saves, kept>>

\* A file that does not load leaves the node as a new one.  The peers it was started with
\* count when no others were saved.  Variants: the term, or the vote, is not read back.
LoadRaftNoTerm ==
  IF disk.raft.there /\ disk.raft.whole
  THEN LET m == disk.raft.content
           peers == IF m.peers = <<>> THEN Initial ELSE m.peers
       IN  [NewRaft(peers) EXCEPT !.voted = m.voted, !.log = m.log, !.commit = m.commit,
                                  !.applied = m.applied]
  ELSE NewRaft(Initial)
LoadRaftNoVote ==
  IF disk.raft.there /\ disk.raft.whole
  THEN LET m == disk.raft.content
           peers == IF m.peers = <<>> THEN Initial ELSE m.peers
       IN  [NewRaft(peers) EXCEPT !.term = m.term, !.log = m.log, !.commit = m.commit,
                                  !.applied = m.applied]
  ELSE NewRaft(Initial)
LoadRaft ==
  IF disk.raft.there /\ disk.raft.whole
  THEN LET m == disk.raft.content
           peers == IF m.peers = <<>> THEN Initial ELSE m.peers
       IN  [NewRaft(peers) EXCEPT !.term = m.term, !.voted = m.voted, !.log = m.log,
                                  !.commit = m.commit, !.applied = m.applied]
  ELSE NewRaft(Initial)
LoadCatalog ==
  IF disk.catalog.there /\ disk.catalog.whole
  THEN LET m == disk.catalog.content
       IN  [NewCat EXCEPT !.epoch = m.epoch, !.map = m.map, !.log = m.log]
  ELSE NewCat

Restart ==
  /\ ~up
  /\ up' = TRUE
  /\ raft' = LoadRaft
  /\ cat' = LoadCatalog
  /\ UNCHANGED <<tick, call, join, disk, crashes, failures, saves, kept>>

Entry(term) == [term : OtherTerms \cap 1..term, call : Others]

Next ==
  \/ StartElection \/ BecomeLeader \/ PublishElection
  \/ \E r \in Requests, term \in OtherTerms :
       \/ \E p \in Candidates, upToDate \in BOOLEAN : HandleRequestVote(r, p, term, upToDate)
       \/ \E commit \in 0..MaxIndex : HandleAppendEntries(r, term, 0, 0, <<>>, commit)
       \/ \E prev, commit \in 0..MaxIndex, prevTerm \in 1..term, e \in Entry(term) :
            HandleAppendEntries(r, term, prev, prevTerm, <<e>>, commit)
       \/ \E index \in 1..MaxIndex, o \in Others :
            HandleRepl(r, term, [index |-> index, call |-> o])
  \/ \E r \in Requests : EndRequest(r)
  \/ \E c \in Calls :
       \/ Enter(c) \/ AppendEntry(c) \/ NoQuorum(c) \/ CommitEntry(c)
       \/ BeginSave(c) \/ SaveFile(c) \/ SaveFails(c) \/ NextFile(c) \/ Answer(c)
       \/ ActivatePeer(c) \/ InstallHangs(c) \/ InstallFails(c)
  \/ \E t \in Threads : TakeApplicable(t) \/ ApplyPut(t) \/ ApplyAddPeer(t) \/ ApplyRemovePeer(t)
  \/ Crash
  \/ Restart

Spec == Init /\ [][Next]_vars

-----------------------------------------------------------------------------
(* Properties.                                                              *)

TypeOK ==
  /\ raft.role \in {"Follower", "Candidate", "Leader"}
  /\ raft.term \in 0..MaxTerm /\ tick \in 0..MaxTerm
  /\ Range(raft.peers) \subseteq Range(Initial) \cup Joiners
  /\ \A e \in Range(raft.log) : e.term <= MaxTerm /\ e.call \in Calls \cup Others
  /\ \A e \in Range(cat.log) : IsPut(e)

\* Whenever the process ends, the files it leaves can be loaded, or were never written: a
\* restart does not begin as a new node after an old one ("Writes are atomic").
FilesLoad == \A f \in {"raft", "catalog"} : disk[f].there => disk[f].whole

\* A catalog holds an entry when its value is there, or one that was put in after it.
Holds(c, e) ==
  \E i, j \in DOMAIN c.log :
    i <= j /\ c.log[i] = e /\ <<OpOf[e.call][2], c.log[j].call>> \in c.map

\* A PUT that was answered "committed" is in the catalog that a restart loads: "a restart
\* retains the Iceberg catalog pointer".
AnsweredSurvives ==
  \A c \in Calls :
    (OpOf[c][1] = "put" /\ call[c].result = "ok") =>
      \E e \in Range(LoadCatalog.log) : e.call = c /\ Holds(LoadCatalog, e)

\* What a thread has taken to apply, its own entry or those of others, stays in the catalog
\* that a restart loads, or a value put in after it does, from the thread's own save of
\* catalog.bin on, if that save has not failed: no other thread or leader, no truncation of
\* the log, no later save that fails, crash or restart takes it away.
AppliedSurvives == \A e \in kept : Holds(LoadCatalog, e)

\* A term that one raft.bin was saved in is never again a term the node leads in after a
\* restart, whatever saves failed since, so that none of the entries it made in that term is
\* made again with the same term and index.
ReignsOnce ==
  \A s \in saves : (s.life < crashes /\ raft.role = "Leader") => raft.term > s.term

\* A vote that one raft.bin was saved with binds every later life: the node is never in an
\* earlier term, and in the same term its vote is the same ("Raft identity").
VoteKept ==
  up => \A s \in saves :
          /\ raft.term >= s.term
          /\ (raft.term = s.term /\ s.voted # NoOne) => raft.voted = s.voted

\* Through ADD_PEER and REMOVE_PEER, changes that other leaders send, the activations still
\* under way and their rollbacks, no peer counts twice in the majority, nor the node itself,
\* and the bookkeeping of a leader has one place for each peer.
PeersOnce ==
  /\ IsInjective(raft.peers)
  /\ Self \notin Range(raft.peers)
  /\ raft.role = "Leader" => Len(raft.next) = Len(raft.peers)

=============================================================================
