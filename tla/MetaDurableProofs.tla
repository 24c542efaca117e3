------------------------- MODULE MetaDurableProofs -------------------------
(***************************************************************************)
(* Proofs about MetaDurable, for any calls and requests of other leaders,  *)
(* elections, crashes, failed saves and number of calls under way.         *)
(***************************************************************************)
EXTENDS MetaDurable, SequenceTheorems, FiniteSetTheorems, TLAPS
-----------------------------------------------------------------------------
(* Sequences.                                                               *)

\* A list of peers, each of them once and none of them the node itself.
Once(list) == IsInjective(list) /\ Self \notin Range(list)

\* position finds the element, or nothing.
LEMMA PositionFound ==
  ASSUME NEW T, NEW list \in Seq(T), NEW p, Once(list)
  PROVE  Position(list, p) \in 0..Len(list)
<1> DEFINE I == {i \in 1..Len(list) : list[i] = p}
<1>1. Position(list, p) = IF I # {} THEN Min(I) ELSE 0
  BY DEF Position, SelectInSeq
<1>2. ASSUME NEW k \in I PROVE Min(I) \in I
  <2>1. \A i \in I : i = k
    BY DEF Once, IsInjective
  <2>2. k \in Int  OBVIOUS
  <2>3. \A i \in I : k =< i  BY <2>1, <2>2
  <2> HIDE DEF I
  <2> QED  BY <2>3 DEF Min
<1>3. I \subseteq 1..Len(list) /\ Len(list) \in Nat  OBVIOUS
<1>4. I # {} => Min(I) \in 1..Len(list)
  <2> HIDE DEF I
  <2> QED  BY <1>2, <1>3
<1> HIDE DEF I
<1> QED  BY <1>1, <1>3, <1>4

LEMMA WithoutIsSeq ==
  ASSUME NEW T, NEW s \in Seq(T), NEW i \in 1..Len(s)
  PROVE  /\ Without(s, i) \in Seq(T)
         /\ Len(Without(s, i)) = Len(s) - 1
         /\ \A j \in 1..(Len(s) - 1) : Without(s, i)[j] = IF j < i THEN s[j] ELSE s[j + 1]
<1> DEFINE a == SubSeq(s, 1, i - 1)
           b == SubSeq(s, i + 1, Len(s))
<1>1. a \in Seq(T) /\ Len(a) = i - 1 /\ \A j \in 1..(i - 1) : a[j] = s[j]
  OBVIOUS
<1>2. b \in Seq(T) /\ Len(b) = Len(s) - i /\ \A j \in 1..(Len(s) - i) : b[j] = s[i + j]
  OBVIOUS
<1>3. /\ a \o b \in Seq(T) /\ Len(a \o b) = Len(s) - 1
      /\ \A j \in 1..(Len(s) - 1) : (a \o b)[j] = IF j < i THEN a[j] ELSE b[j - (i - 1)]
  <2>1. Len(s) \in Nat /\ i \in Int  OBVIOUS
  <2>2. a \o b \in Seq(T) /\ Len(a \o b) = Len(a) + Len(b)
    <3> HIDE DEF a, b
    <3> QED  BY <1>1, <1>2, ConcatProperties
  <2>3. \A j \in 1..(Len(a) + Len(b)) : (a \o b)[j] = IF j <= Len(a) THEN a[j] ELSE b[j - Len(a)]
    <3> HIDE DEF a, b
    <3> QED  BY <1>1, <1>2, ConcatProperties
  <2> HIDE DEF a, b
  <2> QED  BY <1>1, <1>2, <2>1, <2>2, <2>3
<1>4. \A j \in i..(Len(s) - 1) : j - (i - 1) \in 1..(Len(s) - i) /\ b[j - (i - 1)] = s[j + 1]
  <2> HIDE DEF b
  <2> QED  BY <1>2
<1>5. Without(s, i) = a \o b  BY DEF Without
<1>6. \A j \in 1..(Len(s) - 1) : (a \o b)[j] = IF j < i THEN s[j] ELSE s[j + 1]
  <2> TAKE j \in 1..(Len(s) - 1)
  <2>0. Len(s) \in Nat /\ i \in Int /\ j \in Int  OBVIOUS
  <2> HIDE DEF a, b
  <2>1. CASE j < i
    <3>1. j \in 1..(i - 1)  BY <2>0, <2>1
    <3>2. a[j] = s[j]  BY <1>1, <3>1
    <3>3. (a \o b)[j] = a[j]  BY <1>3, <2>1
    <3> QED  BY <2>1, <3>2, <3>3
  <2>2. CASE ~(j < i)
    <3>1. j \in i..(Len(s) - 1)  BY <2>0, <2>2
    <3>2. b[j - (i - 1)] = s[j + 1]  BY <1>4, <3>1
    <3>3. (a \o b)[j] = b[j - (i - 1)]  BY <1>3, <2>2
    <3> QED  BY <2>2, <3>2, <3>3
  <2> QED  BY <2>1, <2>2
<1> HIDE DEF a, b
<1> QED  BY <1>3, <1>5, <1>6

LEMMA WithoutOnce ==
  ASSUME NEW T, NEW s \in Seq(T), NEW i \in 1..Len(s), Once(s)
  PROVE  Once(Without(s, i))
<1> DEFINE w == Without(s, i)
<1>1. /\ w \in Seq(T) /\ Len(w) = Len(s) - 1
      /\ \A j \in 1..(Len(s) - 1) : w[j] = IF j < i THEN s[j] ELSE s[j + 1]
  BY WithoutIsSeq
<1> HIDE DEF w
<1>2. DOMAIN w = 1..(Len(s) - 1) /\ DOMAIN s = 1..Len(s)  BY <1>1
<1>3. \A j, k \in DOMAIN s : s[j] = s[k] => j = k  BY DEF Once, IsInjective
<1>4. \A j \in DOMAIN s : s[j] # Self  BY DEF Once, Range
<1>5. IsInjective(w)
  <2>1. Len(s) \in Nat /\ i \in Int  OBVIOUS
  <2> SUFFICES ASSUME NEW j \in 1..(Len(s) - 1), NEW k \in 1..(Len(s) - 1), w[j] = w[k]
               PROVE  j = k
    BY <1>2 DEF IsInjective
  <2> DEFINE jj == IF j < i THEN j ELSE j + 1
             kk == IF k < i THEN k ELSE k + 1
  <2>2. jj \in 1..Len(s) /\ kk \in 1..Len(s) /\ w[j] = s[jj] /\ w[k] = s[kk]
    BY <1>1, <2>1
  <2>3. jj = kk
    BY <1>2, <1>3, <2>2
  <2> QED
    BY <2>1, <2>3
<1>6. Self \notin Range(w)
  BY <1>1, <1>2, <1>4 DEF Range
<1> QED  BY <1>5, <1>6 DEF w, Once

LEMMA AppendOnce ==
  ASSUME NEW T, NEW s \in Seq(T), NEW p \in T, Once(s), p # Self, p \notin Range(s)
  PROVE  Once(Append(s, p))
<1> DEFINE w == Append(s, p)
<1>1. /\ DOMAIN s = 1..Len(s) /\ DOMAIN w = 1..(Len(s) + 1) /\ w[Len(s) + 1] = p
      /\ \A j \in DOMAIN s : w[j] = s[j]
  OBVIOUS
<1> HIDE DEF w
<1>2. \A j, k \in DOMAIN s : s[j] = s[k] => j = k  BY DEF Once, IsInjective
<1>3. \A j \in DOMAIN s : s[j] # Self /\ s[j] # p  BY DEF Once, Range
<1>4. IsInjective(w)  BY <1>1, <1>2, <1>3 DEF IsInjective
<1>5. Self \notin Range(w)  BY <1>1, <1>3 DEF Range
<1> QED  BY <1>4, <1>5 DEF w, Once

-----------------------------------------------------------------------------
(* What kind of thing everything is.                                        *)

Nodes == Range(Initial) \cup Joiners
Voted == Nodes \cup {NoOne, Self}
Proposals == Calls \cup Others
Keys == {OpOf[o][2] : o \in Proposals}
Entries == [term : 0..MaxTerm, call : Proposals]
Taken == [index : Nat, call : Proposals]
Puts == {e \in Taken : IsPut(e)}
Values == SUBSET (Keys \X Proposals)
RaftNodes ==
  [term : 0..MaxTerm, voted : Voted, log : Seq(Entries), commit : Nat, applied : Nat,
   peers : Seq(Nodes), role : {"Follower", "Candidate", "Leader"}, next : Seq(Nat)]
NodeStates == [epoch : Nat, map : Values, log : Seq(Puts), leader : BOOLEAN]
RaftImages ==
  [term : 0..MaxTerm, voted : Voted, log : Seq(Entries), commit : Nat, applied : Nat,
   peers : Seq(Nodes)]
CatImages == [epoch : Nat, map : Values, log : Seq(Puts)]
Pcs == {"unsent", "propose", "sent", "take", "apply", "save", "saved", "answer", "ended", "lost"}
Results == {"none", "ok", "not_leader", "no_quorum", "refused"}
Handlers ==
  [pc : Pcs, index : Nat, took : Seq(Taken), pending : Seq(Taken), added : Seq(Nodes),
   file : 0..2, result : Results]
Activations == [pc : {"activate", "install", "hangs"}, todo : Seq(Nodes) \ {<<>>}]
Joins == {NoJoin} \cup Activations

RaftFiles == {Absent} \cup {Whole(m) : m \in RaftImages}
CatFiles == {Absent} \cup {Whole(m) : m \in CatImages}
DiskOK == disk \in [raft : RaftFiles, catalog : CatFiles]

TypeInv ==
  /\ raft \in RaftNodes
  /\ cat \in NodeStates
  /\ tick \in 0..MaxTerm
  /\ call \in [Threads -> Handlers]
  /\ join \in [Calls -> Joins]
  /\ crashes \in Nat /\ up \in BOOLEAN
  /\ saves \subseteq [life : Nat, term : 0..MaxTerm, voted : Voted]
  /\ kept \subseteq Puts

\* A handler that saves is at one of the two files.
FileInv == \A c \in Calls : call[c].pc \in Saving => call[c].file \in 1..2

LEMMA Bound == MaxTerm \in Nat /\ OtherTerms \subseteq 1..MaxTerm
BY MetaDurableAssumption

\* What start_inner begins with.
LEMMA NewRaftType ==
  ASSUME NEW peers \in Seq(Nodes)
  PROVE  NewRaft(peers) \in RaftNodes
<1>1. [i \in DOMAIN peers |-> 0] \in Seq(Nat)
  <2>1. DOMAIN peers = 1..Len(peers) /\ Len(peers) \in Nat  OBVIOUS
  <2> QED  BY <2>1, IsASeq
<1> QED  BY <1>1, Bound DEF NewRaft, RaftNodes, Voted

LEMMA NewCatType == NewCat \in NodeStates
<1>1. <<>> \in Seq(Puts)  OBVIOUS
<1> QED  BY <1>1 DEF NewCat, NodeStates, Values

LEMMA InitialType == Initial \in Seq(Nodes)
BY MetaDurableAssumption, SeqMonotonic DEF Nodes

\* A thread that has not come, has been answered or is lost.
LEMMA WaitingType ==
  /\ Waiting \in Handlers
  /\ \A x \in Pcs : [Waiting EXCEPT !.pc = x] \in Handlers
  /\ \A r \in Results : [Waiting EXCEPT !.pc = "ended", !.result = r] \in Handlers
<1>1. <<>> \in Seq(Taken) /\ <<>> \in Seq(Nodes)  OBVIOUS
<1>2. Waiting \in Handlers  BY <1>1 DEF Waiting, Handlers, Pcs, Results
<1>3. ASSUME NEW h \in Handlers
      PROVE  /\ \A x \in Pcs : [h EXCEPT !.pc = x] \in Handlers
             /\ \A r \in Results : [h EXCEPT !.pc = "ended", !.result = r] \in Handlers
  BY DEF Handlers, Pcs
<1> HIDE DEF Waiting
<1> QED  BY <1>2, <1>3

LEMMA TypeInit == Init => TypeInv /\ DiskOK
<1> SUFFICES ASSUME Init PROVE TypeInv /\ DiskOK  OBVIOUS
<1>1. raft \in RaftNodes
  BY InitialType, NewRaftType DEF Init
<1>2. cat \in NodeStates  BY NewCatType DEF Init
<1>3. call \in [Threads -> Handlers]  BY WaitingType DEF Init
<1>4. join \in [Calls -> Joins]  BY DEF Init, Joins
<1>5. tick \in 0..MaxTerm  BY Bound DEF Init
<1>6. DiskOK  BY DEF Init, DiskOK, RaftFiles, CatFiles
<1> QED  BY <1>1, <1>2, <1>3, <1>4, <1>5, <1>6 DEF Init, TypeInv

LEMMA LoadRaftNew ==
  ASSUME disk.raft = Absent
  PROVE  LoadRaft = NewRaft(Initial)
BY DEF LoadRaft, Absent

LEMMA LoadRaftSaved ==
  ASSUME NEW m \in RaftImages, disk.raft = Whole(m)
  PROVE  /\ LoadRaft \in RaftNodes
         /\ LoadRaft.role = "Follower"
         /\ LoadRaft.term = m.term /\ LoadRaft.voted = m.voted
         /\ LoadRaft.peers = IF m.peers = <<>> THEN Initial ELSE m.peers
<1> DEFINE peers == IF m.peers = <<>> THEN Initial ELSE m.peers
<1>1. disk.raft.there /\ disk.raft.whole /\ disk.raft.content = m
  BY DEF Whole
<1>2. peers \in Seq(Nodes)
  BY InitialType DEF RaftImages
<1>3. NewRaft(peers) \in RaftNodes
  BY <1>2, NewRaftType
<1>4. LoadRaft = [NewRaft(peers) EXCEPT !.term = m.term, !.voted = m.voted, !.log = m.log,
                                        !.commit = m.commit, !.applied = m.applied]
  BY <1>1 DEF LoadRaft
<1>5. NewRaft(peers).role = "Follower" /\ NewRaft(peers).peers = peers
  BY DEF NewRaft
<1> HIDE DEF peers
<1>6. LoadRaft \in RaftNodes
  BY <1>3, <1>4 DEF RaftNodes, RaftImages
<1>7. /\ LoadRaft.role = "Follower" /\ LoadRaft.term = m.term /\ LoadRaft.voted = m.voted
      /\ LoadRaft.peers = peers
  BY <1>3, <1>4, <1>5 DEF RaftNodes
<1> QED  BY <1>6, <1>7 DEF peers

LEMMA LoadRaftType ==
  ASSUME DiskOK
  PROVE  LoadRaft \in RaftNodes /\ LoadRaft.role = "Follower"
<1>1. CASE disk.raft = Absent
  <2>1. NewRaft(Initial).role = "Follower"  BY DEF NewRaft
  <2> QED  BY <1>1, <2>1, LoadRaftNew, InitialType, NewRaftType
<1>2. CASE \E m \in RaftImages : disk.raft = Whole(m)
  BY <1>2, LoadRaftSaved
<1> QED  BY <1>1, <1>2 DEF DiskOK, RaftFiles

LEMMA LoadCatalogSaved ==
  ASSUME NEW m \in CatImages, disk.catalog = Whole(m)
  PROVE  LoadCatalog \in NodeStates /\ LoadCatalog.log = m.log /\ LoadCatalog.map = m.map
<1>1. disk.catalog.there /\ disk.catalog.whole /\ disk.catalog.content = m
  BY DEF Whole
<1>2. LoadCatalog = [NewCat EXCEPT !.epoch = m.epoch, !.map = m.map, !.log = m.log]
  BY <1>1 DEF LoadCatalog
<1> HIDE DEF NewCat
<1> QED  BY <1>2, NewCatType DEF NodeStates, CatImages

LEMMA LoadCatalogType ==
  ASSUME DiskOK
  PROVE  LoadCatalog \in NodeStates
<1>1. CASE disk.catalog = Absent
  <2>1. LoadCatalog = NewCat  BY <1>1 DEF LoadCatalog, Absent
  <2> QED  BY <2>1, NewCatType
<1>2. CASE \E m \in CatImages : disk.catalog = Whole(m)
  BY <1>2, LoadCatalogSaved
<1> QED  BY <1>1, <1>2 DEF DiskOK, CatFiles

-----------------------------------------------------------------------------
(* What the steps do.                                                       *)

VoteStep ==
  \E r \in Requests, p \in Candidates, term \in OtherTerms, upToDate \in BOOLEAN :
    HandleRequestVote(r, p, term, upToDate)
EntriesStep ==
  \E r \in Requests, term \in OtherTerms, prev, prevTerm, commit \in Nat, entries \in Seq(Entries) :
    HandleAppendEntries(r, term, prev, prevTerm, entries, commit)
ReplStep == \E r \in Requests, epoch \in Nat, e \in Taken : HandleRepl(r, epoch, e)
CallStep(c) ==
  \/ Enter(c) \/ AppendEntry(c) \/ NoQuorum(c) \/ CommitEntry(c)
  \/ BeginSave(c) \/ SaveFile(c) \/ SaveFails(c) \/ NextFile(c) \/ Answer(c)
JoinStep(c) == ActivatePeer(c) \/ InstallHangs(c) \/ InstallFails(c)
ApplyStep(t) == TakeApplicable(t) \/ ApplyPut(t) \/ ApplyAddPeer(t) \/ ApplyRemovePeer(t)

LEMMA Steps ==
  Next => \/ StartElection \/ BecomeLeader \/ PublishElection
          \/ VoteStep \/ EntriesStep \/ ReplStep
          \/ \E r \in Requests : EndRequest(r)
          \/ \E c \in Calls : CallStep(c) \/ JoinStep(c)
          \/ \E t \in Threads : ApplyStep(t)
          \/ Crash \/ Restart
<1>1. /\ 0..MaxIndex \subseteq Nat /\ 1..MaxIndex \subseteq Nat /\ 0 \in Nat
      /\ OtherTerms \subseteq Nat /\ \A term \in OtherTerms : 1..term \subseteq Nat
  BY Bound, MetaDurableAssumption
<1>2. ASSUME NEW term \in OtherTerms, NEW e \in Entry(term) PROVE <<e>> \in Seq(Entries)
  <2>1. e \in Entries  BY Bound DEF Entry, Entries, Proposals
  <2> QED  BY <2>1
<1>3. <<>> \in Seq(Entries)  OBVIOUS
<1>4. \A index \in 1..MaxIndex, o \in Others : [index |-> index, call |-> o] \in Taken
  BY <1>1 DEF Taken, Proposals
<1>5. ASSUME NEW r \in Requests, NEW term \in OtherTerms,
             \/ \E commit \in 0..MaxIndex : HandleAppendEntries(r, term, 0, 0, <<>>, commit)
             \/ \E prev, commit \in 0..MaxIndex, prevTerm \in 1..term, e \in Entry(term) :
                  HandleAppendEntries(r, term, prev, prevTerm, <<e>>, commit)
             \/ \E index \in 1..MaxIndex, o \in Others :
                  HandleRepl(r, term, [index |-> index, call |-> o])
      PROVE  EntriesStep \/ ReplStep
  <2>1. CASE \E commit \in 0..MaxIndex : HandleAppendEntries(r, term, 0, 0, <<>>, commit)
    BY <1>1, <1>3, <2>1, Zenon DEF EntriesStep
  <2>2. CASE \E prev, commit \in 0..MaxIndex, prevTerm \in 1..term, e \in Entry(term) :
               HandleAppendEntries(r, term, prev, prevTerm, <<e>>, commit)
    <3>1. PICK prev \in 0..MaxIndex, commit \in 0..MaxIndex, prevTerm \in 1..term, e \in Entry(term) :
            HandleAppendEntries(r, term, prev, prevTerm, <<e>>, commit)
      BY <2>2, Zenon
    <3>2. prev \in Nat /\ commit \in Nat /\ prevTerm \in Nat /\ <<e>> \in Seq(Entries)
      BY <1>1, <1>2, Zenon
    <3> QED  BY <3>1, <3>2, Zenon DEF EntriesStep
  <2>3. CASE \E index \in 1..MaxIndex, o \in Others : HandleRepl(r, term, [index |-> index, call |-> o])
    BY <1>1, <1>4, <2>3, Zenon DEF ReplStep
  <2> QED  BY <1>5, <2>1, <2>2, <2>3, Zenon
<1> QED
  BY <1>5, Zenon DEF Next, VoteStep, CallStep, JoinStep, ApplyStep

LEMMA InThreads == Calls \subseteq Threads /\ Requests \subseteq Threads
BY DEF Threads

\* What goes with a later term.
LEMMA FencedIs ==
  ASSUME TypeInv, NEW term \in OtherTerms
  PROVE  /\ Fenced(term) \in RaftNodes
         /\ Fenced(term).log = raft.log /\ Fenced(term).peers = raft.peers
         /\ Fenced(term).next = raft.next
         /\ \/ Fenced(term) = raft /\ term <= raft.term
            \/ /\ term > raft.term /\ Fenced(term).term = term
               /\ Fenced(term).role = "Follower" /\ Fenced(term).voted = NoOne
<1>0. raft \in RaftNodes /\ raft.term \in Nat /\ term \in Nat /\ term \in 0..MaxTerm
  BY Bound DEF TypeInv, RaftNodes
<1>1. CASE term > raft.term
  <2>1. Fenced(term) = [raft EXCEPT !.term = term, !.role = "Follower", !.voted = NoOne]
    BY <1>1 DEF Fenced
  <2>2. NoOne \in Voted  BY DEF Voted
  <2> QED  BY <1>0, <1>1, <2>1, <2>2 DEF RaftNodes
<1>2. CASE ~(term > raft.term)
  BY <1>0, <1>2 DEF Fenced
<1> QED  BY <1>1, <1>2

\* A term does not fall, a vote in it is not changed, and who stands or leads has stood before
\* in the same term or has just begun a later one.
VoteStays ==
  /\ raft'.term >= raft.term
  /\ (raft'.term = raft.term /\ raft.voted # NoOne) => raft'.voted = raft.voted
  /\ (raft'.role # "Follower" /\ raft'.term = raft.term) => raft.role # "Follower"

LEMMA VoteIs ==
  ASSUME TypeInv, VoteStep
  PROVE  /\ raft' \in RaftNodes /\ VoteStays
         /\ raft'.peers = raft.peers /\ raft'.next = raft.next
         /\ raft'.role = "Leader" => raft.role = "Leader"
<1>1. PICK t \in Requests, p \in Candidates, term \in OtherTerms, u \in BOOLEAN :
        HandleRequestVote(t, p, term, u)
  BY DEF VoteStep
<1> DEFINE r == Fenced(term)
           granted == term = r.term /\ r.voted \in {NoOne, p} /\ u
<1>2. raft' = IF granted THEN [r EXCEPT !.voted = p] ELSE r
  BY <1>1 DEF HandleRequestVote
<1>3. /\ r \in RaftNodes /\ r.log = raft.log /\ r.peers = raft.peers /\ r.next = raft.next
      /\ \/ r = raft /\ term <= raft.term
         \/ term > raft.term /\ r.term = term /\ r.role = "Follower" /\ r.voted = NoOne
  BY FencedIs
<1>4. p \in Voted  BY MetaDurableAssumption DEF Voted, Nodes
<1>5. granted => r.voted \in {NoOne, p}  OBVIOUS
<1>6. raft \in RaftNodes /\ raft.term \in Nat /\ term \in Nat  BY Bound DEF TypeInv, RaftNodes
<1> HIDE DEF r, granted
<1>7. CASE granted
  <2>1. raft' = [r EXCEPT !.voted = p]  BY <1>2, <1>7
  <2>2. /\ raft' \in RaftNodes /\ raft'.term = r.term /\ raft'.voted = p /\ raft'.role = r.role
        /\ raft'.peers = r.peers /\ raft'.next = r.next
    BY <1>3, <1>4, <2>1 DEF RaftNodes
  <2> QED  BY <1>3, <1>5, <1>6, <1>7, <2>2 DEF VoteStays
<1>8. CASE ~granted
  <2>1. raft' = r  BY <1>2, <1>8
  <2> QED  BY <1>3, <1>6, <2>1 DEF VoteStays
<1> QED  BY <1>7, <1>8

LEMMA MergedType ==
  ASSUME NEW log \in Seq(Entries), NEW prev \in Nat, NEW entries \in Seq(Entries),
         prev = 0 \/ prev <= Len(log)
  PROVE  Merged(log, prev, entries) \in Seq(Entries)
<1>1. CASE entries = <<>> \/ (prev < Len(log) /\ log[prev + 1].term = entries[1].term)
  BY <1>1 DEF Merged
<1>2. CASE ~(entries = <<>> \/ (prev < Len(log) /\ log[prev + 1].term = entries[1].term))
  <2>1. entries[1] \in Entries  BY <1>2
  <2>2. SubSeq(log, 1, prev) \in Seq(Entries)
    <3>1. Len(log) \in Nat /\ \A i \in 1..prev : log[i] \in Entries  OBVIOUS
    <3> QED  BY <3>1
  <2> QED  BY <1>2, <2>1, <2>2 DEF Merged
<1> QED  BY <1>1, <1>2

LEMMA EntriesIs ==
  ASSUME TypeInv, EntriesStep
  PROVE  /\ raft' \in RaftNodes /\ VoteStays
         /\ raft'.peers = raft.peers /\ raft'.next = raft.next
         /\ raft'.role = "Leader" => raft.role = "Leader"
<1>1. PICK t \in Requests, term \in OtherTerms, prev \in Nat, prevTerm \in Nat, commit \in Nat,
           entries \in Seq(Entries) :
        HandleAppendEntries(t, term, prev, prevTerm, entries, commit)
  BY DEF EntriesStep
<1> DEFINE r == Fenced(term)
           prevOk == prev = 0 \/ (prev <= Len(r.log) /\ r.log[prev].term = prevTerm)
           log == Merged(r.log, prev, entries)
           last == IF commit > r.commit THEN Smaller(commit, Len(log)) ELSE r.commit
<1>2. raft' = IF term < r.term THEN r
              ELSE IF ~prevOk THEN [r EXCEPT !.role = "Follower"]
              ELSE [r EXCEPT !.role = "Follower", !.log = log, !.commit = last]
  BY <1>1 DEF HandleAppendEntries
<1>3. /\ r \in RaftNodes /\ r.log = raft.log /\ r.peers = raft.peers /\ r.next = raft.next
      /\ \/ r = raft /\ term <= raft.term
         \/ term > raft.term /\ r.term = term /\ r.role = "Follower" /\ r.voted = NoOne
  BY FencedIs
<1>4. raft \in RaftNodes /\ raft.term \in Nat /\ term \in Nat  BY Bound DEF TypeInv, RaftNodes
<1>5. prevOk => prev = 0 \/ prev <= Len(r.log)  OBVIOUS
<1> HIDE DEF r, prevOk
<1>6. r.log \in Seq(Entries) /\ r.commit \in Nat  BY <1>3 DEF RaftNodes
<1>7. prevOk => log \in Seq(Entries)  BY <1>5, <1>6, MergedType
<1> HIDE DEF log
<1>8. prevOk => last \in Nat
  <2>1. prevOk => Len(log) \in Nat  BY <1>7
  <2> QED  BY <1>6, <2>1 DEF Smaller
<1> HIDE DEF last
<1>9. CASE term < r.term
  BY <1>2, <1>3, <1>4, <1>9 DEF VoteStays
<1>10. CASE ~(term < r.term) /\ ~prevOk
  <2>1. raft' = [r EXCEPT !.role = "Follower"]  BY <1>2, <1>10
  <2>2. /\ raft' \in RaftNodes /\ raft'.term = r.term /\ raft'.voted = r.voted
        /\ raft'.role = "Follower" /\ raft'.peers = r.peers /\ raft'.next = r.next
    BY <1>3, <2>1 DEF RaftNodes
  <2> QED  BY <1>3, <1>4, <2>2 DEF VoteStays
<1>11. CASE ~(term < r.term) /\ prevOk
  <2>1. raft' = [r EXCEPT !.role = "Follower", !.log = log, !.commit = last]  BY <1>2, <1>11
  <2>2. /\ raft' \in RaftNodes /\ raft'.term = r.term /\ raft'.voted = r.voted
        /\ raft'.role = "Follower" /\ raft'.peers = r.peers /\ raft'.next = r.next
    BY <1>3, <1>7, <1>8, <1>11, <2>1 DEF RaftNodes
  <2> QED  BY <1>3, <1>4, <2>2 DEF VoteStays
<1> QED  BY <1>9, <1>10, <1>11

\* An entry of a key in the catalog.
LEMMA InsertedIs ==
  ASSUME NEW c \in NodeStates, NEW e \in Puts
  PROVE  /\ Inserted(c, e) \in NodeStates
         /\ Inserted(c, e).log = Append(c.log, e)
         /\ Inserted(c, e).map
              = {kv \in c.map : kv[1] # OpOf[e.call][2]} \cup {<<OpOf[e.call][2], e.call>>}
<1> DEFINE k == OpOf[e.call][2]
           m == {kv \in c.map : kv[1] # k} \cup {<<k, e.call>>}
<1>1. e.call \in Proposals  BY DEF Puts, Taken
<1>2. k \in Keys  BY <1>1 DEF Keys
<1> HIDE DEF k
<1>3. c.map \in Values /\ c.log \in Seq(Puts)  BY DEF NodeStates
<1>4. m \in Values  BY <1>1, <1>2, <1>3 DEF Values
<1>5. Append(c.log, e) \in Seq(Puts)  BY <1>3
<1>6. Inserted(c, e) = [c EXCEPT !.map = m, !.log = Append(c.log, e)]
  BY DEF Inserted, k
<1> HIDE DEF m
<1>7. /\ Inserted(c, e) \in NodeStates /\ Inserted(c, e).log = Append(c.log, e)
      /\ Inserted(c, e).map = m
  BY <1>4, <1>5, <1>6 DEF NodeStates
<1> QED  BY <1>7 DEF m, k

\* What the leader of a later term, or of none, has put in the catalog.
LEMMA ReplIs ==
  ASSUME TypeInv, NEW t \in Threads, NEW epoch \in Nat, NEW e \in Taken, HandleRepl(t, epoch, e)
  PROVE  /\ \/ cat' = cat
            \/ \E c \in NodeStates :
                 c.map = cat.map /\ c.log = cat.log /\ (cat' = c \/ (e \in Puts /\ cat' = Inserted(c, e)))
         /\ \/ call' = [call EXCEPT ![t] = [Waiting EXCEPT !.pc = "ended", !.result = "refused"]]
            \/ call' = [call EXCEPT ![t] = [Waiting EXCEPT !.pc = "ended", !.result = "ok"]]
            \/ call' = [call EXCEPT ![t].pc = "apply", ![t].pending = <<e>>]
<1> DEFINE fenced == [cat EXCEPT !.epoch = epoch, !.leader = FALSE]
<1>1. fenced \in NodeStates /\ fenced.map = cat.map /\ fenced.log = cat.log
  BY DEF TypeInv, NodeStates
<1>2. \/ cat' = cat /\ Ended(t, "refused")
      \/ IsPut(e) /\ cat' = Inserted(fenced, e) /\ Ended(t, "ok")
      \/ cat' = fenced /\ call' = [call EXCEPT ![t].pc = "apply", ![t].pending = <<e>>]
  BY Zenon DEF HandleRepl
<1>3. IsPut(e) => e \in Puts  BY DEF Puts
<1> HIDE DEF fenced
<1> QED  BY <1>1, <1>2, <1>3, Zenon DEF Ended

\* The entry that a thread applies next, and those behind it.
LEMMA ApplyingType ==
  ASSUME TypeInv, NEW t \in Threads, call[t].pending # <<>>
  PROVE  /\ Applying(t) \in Taken
         /\ Tail(call[t].pending) \in Seq(Taken)
         /\ OpOf[Applying(t).call][1] = "add" => OpOf[Applying(t).call][2] \in Nodes \cup {Self}
<1>1. call[t].pending \in Seq(Taken)  BY DEF TypeInv, Handlers
<1>2. Applying(t) \in Taken /\ Tail(call[t].pending) \in Seq(Taken)  BY <1>1 DEF Applying
<1>3. Applying(t).call \in Calls \cup Others  BY <1>2 DEF Taken, Proposals
<1> QED  BY <1>2, <1>3, MetaDurableAssumption DEF Nodes

LEMMA ApplicableType ==
  ASSUME TypeInv
  PROVE  Applicable \in Seq(Taken)
<1>1. /\ raft.log \in Seq(Entries) /\ Len(raft.log) \in Nat
      /\ raft.commit \in Nat /\ raft.applied \in Nat
  BY DEF TypeInv, RaftNodes
<1> DEFINE n == Smaller(raft.commit, Len(raft.log)) - raft.applied
<1>2. n \in Int /\ raft.applied + n <= Len(raft.log)  BY <1>1 DEF Smaller
<1>3. Applicable = [i \in 1..n |->
                      [index |-> raft.applied + i, call |-> raft.log[raft.applied + i].call]]
  BY DEF Applicable
<1> HIDE DEF n
<1>4. ASSUME NEW i \in 1..n
      PROVE  [index |-> raft.applied + i, call |-> raft.log[raft.applied + i].call] \in Taken
  <2>1. raft.applied + i \in Nat /\ raft.applied + i \in 1..Len(raft.log)  BY <1>1, <1>2
  <2>2. raft.log[raft.applied + i] \in Entries  BY <1>1, <2>1
  <2>3. raft.log[raft.applied + i].call \in Proposals  BY <2>2 DEF Entries
  <2> QED  BY <2>1, <2>3 DEF Taken
<1>5. CASE n \in Nat
  BY <1>3, <1>4, <1>5, IsASeq
<1>6. CASE n \notin Nat
  <2>1. 1..n = {}  BY <1>2, <1>6
  <2>2. Applicable = <<>>  BY <1>3, <2>1
  <2> QED  BY <2>2
<1> QED  BY <1>5, <1>6

LEMMA PositionIs ==
  ASSUME TypeInv, Once(raft.peers), NEW p
  PROVE  /\ Position(raft.peers, p) \in 0..Len(raft.peers)
         /\ (IF Position(raft.peers, p) > 0 THEN Without(raft.peers, Position(raft.peers, p))
             ELSE raft.peers) \in Seq(Nodes)
         /\ \A i \in Nat : (i > 0 /\ i <= Len(raft.next)) => Without(raft.next, i) \in Seq(Nat)
<1>1. raft.peers \in Seq(Nodes) /\ raft.next \in Seq(Nat)  BY DEF TypeInv, RaftNodes
<1> DEFINE i == Position(raft.peers, p)
<1>2. i \in 0..Len(raft.peers)  BY <1>1, PositionFound
<1> HIDE DEF i
<1>3. CASE i > 0
  <2>1. i \in 1..Len(raft.peers)  BY <1>1, <1>2, <1>3
  <2> QED  BY <1>1, <1>2, <1>3, <2>1, WithoutIsSeq DEF i
<1>4. CASE ~(i > 0)
  BY <1>1, <1>2, <1>4, WithoutIsSeq DEF i
<1> QED  BY <1>3, <1>4

-----------------------------------------------------------------------------
(* The types are kept.                                                      *)

LEMMA RaftType == TypeInv /\ DiskOK /\ Once(raft.peers) /\ [Next]_vars => raft' \in RaftNodes
<1> SUFFICES ASSUME TypeInv, DiskOK, Once(raft.peers), [Next]_vars PROVE raft' \in RaftNodes  OBVIOUS
<1>0. /\ raft \in RaftNodes /\ raft.log \in Seq(Entries) /\ Len(raft.log) \in Nat
      /\ raft.peers \in Seq(Nodes) /\ raft.next \in Seq(Nat)
      /\ raft.commit \in Nat /\ raft.applied \in Nat /\ raft.term \in Nat
      /\ call \in [Threads -> Handlers]
  BY Bound DEF TypeInv, RaftNodes
<1>1. ASSUME StartElection PROVE raft' \in RaftNodes
  <2>1. raft.term + 1 \in 0..MaxTerm  BY <1>0, <1>1, Bound DEF StartElection
  <2>2. Self \in Voted  BY DEF Voted
  <2>3. raft' = [raft EXCEPT !.term = raft.term + 1, !.voted = Self, !.role = "Candidate"]
    BY <1>1 DEF StartElection
  <2> QED  BY <1>0, <2>1, <2>2, <2>3 DEF RaftNodes
<1>2. ASSUME BecomeLeader PROVE raft' \in RaftNodes
  <2> DEFINE n == [i \in DOMAIN raft.peers |-> Len(raft.log) + 1]
  <2>1. n \in Seq(Nat)
    <3>1. /\ DOMAIN raft.peers = 1..Len(raft.peers) /\ Len(raft.peers) \in Nat
          /\ Len(raft.log) + 1 \in Nat
      BY <1>0
    <3> QED  BY <3>1, IsASeq
  <2>2. raft' = [raft EXCEPT !.role = "Leader", !.next = n]
    BY <1>2 DEF BecomeLeader
  <2> HIDE DEF n
  <2> QED  BY <1>0, <2>1, <2>2 DEF RaftNodes
<1>3. ASSUME NEW c \in Calls, AppendEntry(c) PROVE raft' \in RaftNodes
  <2> DEFINE e == [term |-> raft.term, call |-> c]
  <2>1. e \in Entries  BY <1>0 DEF Entries, RaftNodes, Proposals
  <2>2. raft' = raft \/ raft' = [raft EXCEPT !.log = Append(raft.log, e)]
    BY <1>3 DEF AppendEntry
  <2> HIDE DEF e
  <2>3. Append(raft.log, e) \in Seq(Entries)  BY <1>0, <2>1
  <2> QED  BY <1>0, <2>2, <2>3 DEF RaftNodes
<1>4. ASSUME NEW c \in Calls, CommitEntry(c) PROVE raft' \in RaftNodes
  <2>1. call[c].index \in Nat  BY <1>0, InThreads DEF Handlers
  <2> QED  BY <1>0, <1>4, <2>1 DEF CommitEntry, RaftNodes
<1>5. ASSUME NEW t \in Threads, TakeApplicable(t) PROVE raft' \in RaftNodes
  <2> DEFINE a == IF raft.commit > raft.applied THEN raft.commit ELSE raft.applied
  <2>1. a \in Nat  BY <1>0
  <2>2. raft' = [raft EXCEPT !.applied = a]  BY <1>5 DEF TakeApplicable
  <2> HIDE DEF a
  <2> QED  BY <1>0, <2>1, <2>2 DEF RaftNodes
<1>6. ASSUME NEW t \in Threads, ApplyAddPeer(t) PROVE raft' \in RaftNodes
  <2> DEFINE p == OpOf[Applying(t).call][2]
             list == IF ~Known(p) /\ raft.role # "Leader" THEN Append(raft.peers, p) ELSE raft.peers
  <2>1. p \in Nodes \cup {Self}  BY <1>6, ApplyingType DEF ApplyAddPeer
  <2>2. raft' = [raft EXCEPT !.peers = list]  BY <1>6 DEF ApplyAddPeer
  <2> HIDE DEF p
  <2>3. list \in Seq(Nodes)  BY <1>0, <2>1 DEF Known
  <2> HIDE DEF list
  <2> QED  BY <1>0, <2>2, <2>3 DEF RaftNodes
<1>7. ASSUME NEW t \in Threads, ApplyRemovePeer(t) PROVE raft' \in RaftNodes
  <2> DEFINE p == OpOf[Applying(t).call][2]
             i == Position(raft.peers, p)
             list == IF i > 0 THEN Without(raft.peers, i) ELSE raft.peers
             n == IF i > 0 /\ raft.role = "Leader" /\ i <= Len(raft.next)
                  THEN Without(raft.next, i) ELSE raft.next
             role == IF p = Self THEN "Follower" ELSE raft.role
  <2>1. raft' = [raft EXCEPT !.peers = list, !.next = n, !.role = role]
    BY <1>7 DEF ApplyRemovePeer
  <2> HIDE DEF p
  <2>2. /\ list \in Seq(Nodes) /\ i \in Nat
        /\ (i > 0 /\ i <= Len(raft.next)) => Without(raft.next, i) \in Seq(Nat)
    BY PositionIs
  <2> HIDE DEF i
  <2>3. n \in Seq(Nat)  BY <1>0, <2>2
  <2>4. role \in {"Follower", "Candidate", "Leader"}  BY <1>0 DEF RaftNodes
  <2> HIDE DEF list, n, role
  <2> QED  BY <1>0, <2>1, <2>2, <2>3, <2>4 DEF RaftNodes
<1>8. ASSUME NEW c \in Calls, ActivatePeer(c) PROVE raft' \in RaftNodes
  <2> DEFINE p == Head(join[c].todo)
             n == IF raft.role = "Leader" THEN Append(raft.next, Len(raft.log) + 1) ELSE raft.next
  <2>1. join[c] \in Activations  BY <1>8 DEF ActivatePeer, TypeInv, Joins, NoJoin
  <2>2. p \in Nodes  BY <2>1 DEF Activations
  <2>3. raft' = IF Known(p) THEN raft
                ELSE [raft EXCEPT !.peers = Append(raft.peers, p), !.next = n]
    BY <1>8 DEF ActivatePeer
  <2> HIDE DEF p
  <2>4. n \in Seq(Nat) /\ Append(raft.peers, p) \in Seq(Nodes)  BY <1>0, <2>2
  <2> HIDE DEF n
  <2> QED  BY <1>0, <2>3, <2>4 DEF RaftNodes
<1>9. ASSUME NEW c \in Calls, InstallFails(c) PROVE raft' \in RaftNodes
  <2> DEFINE p == Head(join[c].todo)
             i == Position(raft.peers, p)
             list == IF i > 0 THEN Without(raft.peers, i) ELSE raft.peers
             n == IF i > 0 /\ i <= Len(raft.next) THEN Without(raft.next, i) ELSE raft.next
  <2>1. raft' = [raft EXCEPT !.peers = list, !.next = n]
    BY <1>9 DEF InstallFails
  <2> HIDE DEF p
  <2>2. /\ list \in Seq(Nodes) /\ i \in Nat
        /\ (i > 0 /\ i <= Len(raft.next)) => Without(raft.next, i) \in Seq(Nat)
    BY PositionIs
  <2> HIDE DEF i
  <2>3. n \in Seq(Nat)  BY <1>0, <2>2
  <2> HIDE DEF list, n
  <2> QED  BY <1>0, <2>1, <2>2, <2>3 DEF RaftNodes
<1>10. ASSUME Crash PROVE raft' \in RaftNodes
  <2>1. <<>> \in Seq(Nodes)  OBVIOUS
  <2> QED  BY <1>10, <2>1, NewRaftType DEF Crash
<1>11. ASSUME Restart PROVE raft' \in RaftNodes
  BY <1>11, LoadRaftType DEF Restart
<1>12. ASSUME raft' = raft PROVE raft' \in RaftNodes  BY <1>0, <1>12
<1> QED
  BY <1>1, <1>2, <1>3, <1>4, <1>5, <1>6, <1>7, <1>8, <1>9, <1>10, <1>11, <1>12, Steps, VoteIs, EntriesIs,
     Zenon DEF CallStep, JoinStep, ApplyStep, ReplStep, vars, PublishElection, HandleRepl, EndRequest,
     Enter, NoQuorum, ApplyPut, BeginSave, SaveFile, SaveFails, NextFile, Answer, InstallHangs

LEMMA CatType == TypeInv /\ DiskOK /\ [Next]_vars => cat' \in NodeStates
<1> SUFFICES ASSUME TypeInv, DiskOK, [Next]_vars PROVE cat' \in NodeStates  OBVIOUS
<1>0. cat \in NodeStates /\ tick \in Nat  BY Bound DEF TypeInv
<1>1. ASSUME PublishElection PROVE cat' \in NodeStates
  BY <1>0, <1>1 DEF PublishElection, NodeStates
<1>2. ASSUME Followed PROVE cat' \in NodeStates
  <2> DEFINE l == IF raft'.role = "Follower" THEN FALSE ELSE cat.leader
  <2>1. cat' = [cat EXCEPT !.leader = l]  BY <1>2 DEF Followed
  <2>2. l \in BOOLEAN  BY <1>0 DEF NodeStates
  <2> HIDE DEF l
  <2> QED  BY <1>0, <2>1, <2>2 DEF NodeStates
<1>3. ASSUME ReplStep PROVE cat' \in NodeStates
  <2>1. PICK r \in Requests, epoch \in Nat, e \in Taken : HandleRepl(r, epoch, e)
    BY <1>3 DEF ReplStep
  <2>2. r \in Threads  BY InThreads
  <2>3. \/ cat' = cat
        \/ \E c \in NodeStates : cat' = c \/ (e \in Puts /\ cat' = Inserted(c, e))
    BY <2>1, <2>2, ReplIs, Zenon
  <2> QED  BY <1>0, <2>3, InsertedIs, Zenon
<1>4. ASSUME NEW t \in Threads, ApplyPut(t) PROVE cat' \in NodeStates
  <2>1. Applying(t) \in Puts  BY <1>4, ApplyingType DEF ApplyPut, Puts
  <2> QED  BY <1>0, <1>4, <2>1, InsertedIs DEF ApplyPut
<1>5. ASSUME Crash \/ Restart PROVE cat' \in NodeStates
  BY <1>5, NewCatType, LoadCatalogType DEF Crash, Restart
<1>6. ASSUME cat' = cat PROVE cat' \in NodeStates  BY <1>0, <1>6
<1> QED
  BY <1>1, <1>2, <1>3, <1>4, <1>5, <1>6, Steps, Zenon DEF VoteStep, EntriesStep, HandleRequestVote,
     HandleAppendEntries, CallStep, JoinStep, ApplyStep, vars, StartElection, BecomeLeader, EndRequest,
     Enter, AppendEntry, NoQuorum, CommitEntry, TakeApplicable, ApplyAddPeer, ApplyRemovePeer,
     BeginSave, SaveFile, SaveFails, NextFile, Answer, ActivatePeer, InstallHangs, InstallFails

\* What becomes of a handler: which entries it has taken, and which of them it has yet to apply.
Idle == {"unsent", "ended", "lost"}
Stays(t, h) ==
  /\ h.took = call[t].took /\ h.pending = call[t].pending /\ h.pc \notin Idle
  /\ call[t].pc = "apply" => h.pending = <<>>
Takes(h) == h.pc = "apply" /\ h.took = h.pending
Applies(t, h) ==
  /\ call[t].pc = "apply" /\ h.pc = "apply" /\ call[t].pending # <<>>
  /\ h.took = call[t].took /\ h.pending = Tail(call[t].pending)
  /\ IsPut(Applying(t)) => cat' = Inserted(cat, Applying(t))
Moves(t, h) ==
  /\ h \in Handlers
  /\ call' = [call EXCEPT ![t] = h]
  /\ h.pc \in Saving => h.file \in 1..2
  /\ \/ h.took = <<>> /\ h.pending = <<>>
     \/ Stays(t, h)
     \/ call[t].pc = "unsent" /\ h.pc = "apply" /\ h.took = call[t].took
     \/ Takes(h)
     \/ Applies(t, h)

LEMMA EndedMoves ==
  ASSUME NEW t \in Threads, NEW r \in Results, Ended(t, r)
  PROVE  \E h : Moves(t, h)
<1> DEFINE h == [Waiting EXCEPT !.pc = "ended", !.result = r]
<1>1. h \in Handlers  BY WaitingType
<1>2. h.took = <<>> /\ h.pending = <<>> /\ h.pc = "ended"  BY DEF Waiting
<1>3. call' = [call EXCEPT ![t] = h]  BY DEF Ended
<1> HIDE DEF h
<1> QED  BY <1>1, <1>2, <1>3 DEF Moves, Saving

\* Another place in the handler.
LEMMA GotoMoves ==
  ASSUME TypeInv, FileInv, NEW t \in Threads, NEW x \in Pcs \ Idle, NEW n \in 0..2,
         call' = [call EXCEPT ![t] = [@ EXCEPT !.pc = x, !.file = n]],
         x \in Saving => n \in 1..2, call[t].pc = "apply" => call[t].pending = <<>>
  PROVE  \E h : Moves(t, h)
<1> DEFINE h == [call[t] EXCEPT !.pc = x, !.file = n]
<1>1. call[t] \in Handlers  BY DEF TypeInv
<1>2. /\ h \in Handlers /\ h.pc = x /\ h.file = n
      /\ h.took = call[t].took /\ h.pending = call[t].pending
  BY <1>1 DEF Handlers
<1>3. call' = [call EXCEPT ![t] = h]  OBVIOUS
<1> HIDE DEF h
<1> QED  BY <1>2, <1>3 DEF Moves, Stays

LEMMA GotoFile ==
  ASSUME TypeInv, NEW t \in Threads, NEW x, Goto(t, x)
  PROVE  call' = [call EXCEPT ![t] = [@ EXCEPT !.pc = x, !.file = call[t].file]] /\ call[t].file \in 0..2
<1>1. call \in [Threads -> Handlers] /\ call[t] \in Handlers  BY DEF TypeInv
<1>2. call[t].file \in 0..2
      /\ [call[t] EXCEPT !.pc = x] = [call[t] EXCEPT !.pc = x, !.file = call[t].file]
  BY <1>1 DEF Handlers
<1>3. call' = [call EXCEPT ![t] = [call[t] EXCEPT !.pc = x]]  BY DEF Goto
<1> QED  BY <1>2, <1>3

LEMMA HandlerMoves ==
  ASSUME TypeInv, FileInv, [Next]_vars, ~Crash
  PROVE  call' = call \/ \E t \in Threads : \E h : Moves(t, h)
<1> DEFINE Moved == call' = call \/ \E t \in Threads : \E h : Moves(t, h)
<1> SUFFICES Moved  OBVIOUS
<1>0. /\ call \in [Threads -> Handlers] /\ \A c \in Calls : c \in Threads
      /\ \A t \in Threads : call[t] \in Handlers
  BY InThreads DEF TypeInv
<1>e. ASSUME NEW t \in Threads, NEW r \in Results, Ended(t, r) PROVE Moved
  BY <1>e, EndedMoves
<1>g. ASSUME NEW t \in Threads, NEW x \in Pcs \ Idle, Goto(t, x),
             call[t].pc = "apply" => call[t].pending = <<>>,
             x \in Saving => call[t].file \in 1..2
      PROVE  Moved
  BY <1>g, GotoFile, GotoMoves
<1>p. {"propose", "take", "answer"} \subseteq Pcs \ Idle /\ {"propose", "take", "answer"} \cap Saving = {}
      /\ "saved" \in Pcs \ Idle /\ "save" \in Pcs \ Idle
  BY DEF Pcs, Idle, Saving
<1>r. {"ok", "not_leader", "no_quorum", "refused"} \subseteq Results  BY DEF Results
<1>1. ASSUME EntriesStep PROVE Moved
  <2>1. PICK t \in Threads : Goto(t, "take") /\ call[t].pc = "unsent"
    BY <1>1, InThreads DEF EntriesStep, HandleAppendEntries
  <2> QED  BY <1>g, <1>p, <2>1
<1>2. ASSUME ReplStep PROVE Moved
  <2>1. PICK t \in Threads, epoch \in Nat, e \in Taken : HandleRepl(t, epoch, e)
    BY <1>2, InThreads, Zenon DEF ReplStep
  <2>2. call[t].pc = "unsent"  BY <2>1 DEF HandleRepl
  <2>3. \/ \E r \in Results : Ended(t, r)
        \/ call' = [call EXCEPT ![t].pc = "apply", ![t].pending = <<e>>]
    BY <1>r, <2>1, Zenon DEF HandleRepl
  <2>4. CASE call' = [call EXCEPT ![t].pc = "apply", ![t].pending = <<e>>]
    <3> DEFINE s == <<e>>
    <3>1. s \in Seq(Taken)  OBVIOUS
    <3> HIDE DEF s
    <3> DEFINE h == [call[t] EXCEPT !.pc = "apply", !.pending = s]
    <3>2. h \in Handlers /\ h.pc = "apply" /\ h.took = call[t].took
      BY <1>0, <3>1 DEF Handlers, Pcs
    <3>3. call' = [call EXCEPT ![t] = h]  BY <2>4 DEF s
    <3> HIDE DEF h
    <3> QED  BY <2>2, <3>2, <3>3 DEF Moves, Saving
  <2> QED  BY <1>e, <2>3, <2>4
<1>3. ASSUME NEW c \in Calls, Enter(c) PROVE Moved
  <2>1. call[c].pc = "unsent" /\ (Goto(c, "propose") \/ \E r \in {"ok", "not_leader"} : Ended(c, r))
    BY <1>3 DEF Enter
  <2> QED  BY <1>0, <1>e, <1>g, <1>p, <1>r, <2>1
<1>4. ASSUME NEW c \in Calls, AppendEntry(c) PROVE Moved
  <2>1. /\ call[c].pc = "propose"
        /\ \/ Ended(c, "not_leader")
           \/ call' = [call EXCEPT ![c].pc = "sent", ![c].index = Len(raft.log) + 1]
    BY <1>4 DEF AppendEntry
  <2>2. CASE call' = [call EXCEPT ![c].pc = "sent", ![c].index = Len(raft.log) + 1]
    <3> DEFINE n == Len(raft.log) + 1
    <3>1. n \in Nat
      <4>1. raft.log \in Seq(Entries)  BY DEF TypeInv, RaftNodes
      <4> QED  BY <4>1
    <3> HIDE DEF n
    <3> DEFINE h == [call[c] EXCEPT !.pc = "sent", !.index = n]
    <3>2. /\ h \in Handlers /\ h.pc = "sent" /\ h.took = call[c].took /\ h.pending = call[c].pending
      BY <1>0, <3>1 DEF Handlers, Pcs
    <3>3. call' = [call EXCEPT ![c] = h]  BY <2>2 DEF n
    <3> HIDE DEF h
    <3> QED  BY <1>0, <2>1, <3>2, <3>3 DEF Moves, Stays, Saving, Idle
  <2> QED  BY <1>0, <1>e, <1>r, <2>1, <2>2
<1>5. ASSUME NEW c \in Calls, NoQuorum(c) PROVE Moved
  BY <1>0, <1>5, <1>e, <1>r DEF NoQuorum
<1>6. ASSUME NEW c \in Calls, CommitEntry(c) PROVE Moved
  <2>1. call[c].pc = "sent" /\ (Goto(c, "take") \/ Ended(c, "not_leader"))
    BY <1>6 DEF CommitEntry
  <2> QED  BY <1>0, <1>e, <1>g, <1>p, <1>r, <2>1
<1>7. ASSUME NEW t \in Threads, TakeApplicable(t) PROVE Moved
  <2> DEFINE s == Applicable
             h == [call[t] EXCEPT !.pc = "apply", !.took = s, !.pending = s]
  <2>1. s \in Seq(Taken)  BY ApplicableType
  <2>2. call' = [call EXCEPT ![t] = h]  BY <1>7 DEF TakeApplicable
  <2> HIDE DEF s
  <2>3. h \in Handlers /\ h.pc = "apply" /\ h.took = s /\ h.pending = s
    BY <1>0, <2>1 DEF Handlers, Pcs
  <2> HIDE DEF h
  <2> QED  BY <2>2, <2>3 DEF Moves, Takes, Saving
<1>8. ASSUME NEW t \in Threads, NEW a \in Seq(Nodes), Applied(t, a), call[t].pc = "apply",
             call[t].pending # <<>>, IsPut(Applying(t)) => cat' = Inserted(cat, Applying(t))
      PROVE  Moved
  <2> DEFINE s == Tail(call[t].pending)
             b == call[t].added \o a
  <2>1. s \in Seq(Taken)  BY <1>8, ApplyingType
  <2>2. b \in Seq(Nodes)
    <3>1. call[t].added \in Seq(Nodes)  BY <1>0 DEF Handlers
    <3> QED  BY <3>1
  <2>3. call' = [call EXCEPT ![t].pending = s, ![t].added = b]  BY <1>8 DEF Applied
  <2>h. s = Tail(call[t].pending)  OBVIOUS
  <2> HIDE DEF s, b
  <2> DEFINE h == [call[t] EXCEPT !.pending = s, !.added = b]
  <2>4. /\ h \in Handlers /\ h.pc = "apply" /\ h.took = call[t].took /\ h.pending = s
    BY <1>0, <1>8, <2>1, <2>2 DEF Handlers
  <2>5. call' = [call EXCEPT ![t] = h]  BY <2>3
  <2> HIDE DEF h
  <2>6. Applies(t, h)  BY <1>8, <2>h, <2>4 DEF Applies
  <2> QED  BY <2>4, <2>5, <2>6 DEF Moves, Saving
<1>9. ASSUME NEW t \in Threads, ApplyPut(t) \/ ApplyAddPeer(t) \/ ApplyRemovePeer(t) PROVE Moved
  <2>1. <<>> \in Seq(Nodes)  OBVIOUS
  <2>2. call[t].pc = "apply" /\ call[t].pending # <<>>
    BY <1>9 DEF ApplyPut, ApplyAddPeer, ApplyRemovePeer
  <2>3. CASE ApplyPut(t)
    <3>1. Applied(t, <<>>) /\ cat' = Inserted(cat, Applying(t))  BY <2>3 DEF ApplyPut
    <3> QED  BY <1>8, <2>1, <2>2, <3>1
  <2>4. CASE ApplyRemovePeer(t)
    <3>1. Applied(t, <<>>) /\ ~IsPut(Applying(t))  BY <2>4, Zenon DEF ApplyRemovePeer, IsPut
    <3> QED  BY <1>8, <2>1, <2>2, <3>1
  <2>5. CASE ApplyAddPeer(t)
    <3> DEFINE p == OpOf[Applying(t).call][2]
    <3>1. p \in Nodes \cup {Self} /\ ~IsPut(Applying(t))
      BY <2>2, <2>5, ApplyingType DEF ApplyAddPeer, IsPut
    <3>2. Applied(t, IF ~Known(p) /\ raft.role = "Leader" THEN <<p>> ELSE <<>>)
      BY <2>5 DEF ApplyAddPeer
    <3> HIDE DEF p
    <3>3. (IF ~Known(p) /\ raft.role = "Leader" THEN <<p>> ELSE <<>>) \in Seq(Nodes)
      BY <3>1 DEF Known
    <3> QED  BY <1>8, <2>2, <3>1, <3>2, <3>3
  <2> QED  BY <1>9, <2>3, <2>4, <2>5
<1>10. ASSUME NEW r \in Requests, EndRequest(r) PROVE Moved
  BY <1>10, <1>e, <1>r, InThreads DEF EndRequest
<1>11. ASSUME NEW c \in Calls, BeginSave(c) PROVE Moved
  <2>1. call' = [call EXCEPT ![c] = [@ EXCEPT !.pc = "save", !.file = 1]] /\ call[c].pending = <<>>
    BY <1>0, <1>11 DEF BeginSave
  <2>2. \E h : Moves(c, h)
    <3>1. 1 \in 0..2 /\ 1 \in 1..2 /\ c \in Threads  BY <1>0
    <3> QED  BY <1>p, <2>1, <3>1, GotoMoves
  <2> QED  BY <1>0, <2>2
<1>12. ASSUME NEW c \in Calls, SaveFile(c) \/ SaveFails(c) PROVE Moved
  <2>1. Goto(c, "saved") /\ call[c].pc = "save"  BY <1>12 DEF SaveFile, SaveFails
  <2>2. call[c].file \in 1..2  BY <1>0, <2>1 DEF FileInv, Saving
  <2> QED  BY <1>0, <1>g, <1>p, <2>1, <2>2
<1>13. ASSUME NEW c \in Calls, NextFile(c) PROVE Moved
  <2>1. /\ call[c].pc = "saved"
        /\ \/ Goto(c, "answer")
           \/ /\ call[c].file # Len(Files)
              /\ call' = [call EXCEPT ![c] = [@ EXCEPT !.pc = "save", !.file = call[c].file + 1]]
    BY <1>0, <1>13 DEF NextFile
  <2>2. call[c].file \in 1..2 /\ Len(Files) = 2  BY <1>0, <2>1 DEF FileInv, Saving, Files
  <2>3. call[c].file # Len(Files) => call[c].file + 1 \in 1..2 /\ call[c].file + 1 \in 0..2
    BY <2>2
  <2> QED  BY <1>0, <1>g, <1>p, <2>1, <2>3, GotoMoves
<1>14. ASSUME NEW c \in Calls, Answer(c) PROVE Moved
  BY <1>0, <1>14, <1>e, <1>r DEF Answer
<1>15. ASSUME VoteStep PROVE Moved
  <2>1. PICK t \in Threads : Ended(t, "ok")
    BY <1>15, InThreads, Zenon DEF VoteStep, HandleRequestVote
  <2> QED  BY <1>e, <1>r, <2>1
<1>16. ASSUME call' = call PROVE Moved  BY <1>16
<1> HIDE DEF Moved
<1> QED
  BY <1>1, <1>2, <1>3, <1>4, <1>5, <1>6, <1>7, <1>9, <1>10, <1>11, <1>12, <1>13, <1>14, <1>15, <1>16,
     Steps, Zenon DEF CallStep, JoinStep, ApplyStep, vars, StartElection, BecomeLeader, PublishElection,
     ActivatePeer, InstallHangs, InstallFails, Restart

LEMMA CallType == TypeInv /\ FileInv /\ [Next]_vars => call' \in [Threads -> Handlers] /\ FileInv'
<1> SUFFICES ASSUME TypeInv, FileInv, [Next]_vars PROVE call' \in [Threads -> Handlers] /\ FileInv'
  OBVIOUS
<1>0. call \in [Threads -> Handlers] /\ \A c \in Calls : c \in Threads  BY InThreads DEF TypeInv
<1>1. CASE Crash
  <2> DEFINE lost == [Waiting EXCEPT !.pc = "lost"]
  <2>1. lost \in Handlers  BY WaitingType DEF Pcs
  <2>2. lost.pc = "lost"  BY DEF Waiting
  <2>3. call' = [t \in Threads |-> IF call[t].pc \in {"unsent", "ended"} THEN call[t] ELSE lost]
    BY <1>1 DEF Crash
  <2> HIDE DEF lost
  <2> QED  BY <1>0, <2>1, <2>2, <2>3 DEF FileInv, Saving
<1>2. CASE call' = call  BY <1>0, <1>2 DEF FileInv
<1>3. ASSUME NEW t \in Threads, NEW h, Moves(t, h) PROVE call' \in [Threads -> Handlers] /\ FileInv'
  BY <1>0, <1>3 DEF Moves, FileInv
<1> QED  BY <1>1, <1>2, <1>3, HandlerMoves

LEMMA JoinType == TypeInv /\ [Next]_vars => join' \in [Calls -> Joins]
<1> SUFFICES ASSUME TypeInv, [Next]_vars PROVE join' \in [Calls -> Joins]  OBVIOUS
<1>0. join \in [Calls -> Joins] /\ call \in [Threads -> Handlers] /\ \A c \in Calls : c \in Threads
  BY InThreads DEF TypeInv
<1>a. ASSUME NEW c \in Calls, NEW j \in Joins, join' = [join EXCEPT ![c] = j]
      PROVE  join' \in [Calls -> Joins]
  BY <1>0, <1>a
<1>1. ASSUME NEW c \in Calls, Answer(c) PROVE join' \in [Calls -> Joins]
  <2> DEFINE j == IF call[c].added = <<>> THEN NoJoin
                  ELSE [pc |-> "activate", todo |-> call[c].added]
  <2>1. call[c].added \in Seq(Nodes)  BY <1>0 DEF Handlers
  <2>2. j \in Joins  BY <2>1 DEF Joins, Activations
  <2>3. join' = [join EXCEPT ![c] = j]  BY <1>1 DEF Answer
  <2> HIDE DEF j
  <2> QED  BY <1>a, <2>2, <2>3
<1>2. ASSUME NEW c \in Calls, ActivatePeer(c) PROVE join' \in [Calls -> Joins]
  <2>1. join[c] \in Activations  BY <1>0, <1>2 DEF ActivatePeer, Joins, NoJoin
  <2>2. [join[c] EXCEPT !.pc = "install"] \in Joins  BY <2>1 DEF Activations, Joins
  <2> QED  BY <1>2, <1>a, <2>2 DEF ActivatePeer
<1>3. ASSUME NEW c \in Calls, InstallHangs(c) PROVE join' \in [Calls -> Joins]
  <2>1. join[c] \in Activations  BY <1>0, <1>3 DEF InstallHangs, Joins, NoJoin
  <2>2. [join[c] EXCEPT !.pc = "hangs"] \in Joins  BY <2>1 DEF Activations, Joins
  <2> QED  BY <1>3, <1>a, <2>2 DEF InstallHangs
<1>4. ASSUME NEW c \in Calls, InstallFails(c) PROVE join' \in [Calls -> Joins]
  <2> DEFINE todo == join[c].todo
             j == IF Len(todo) = 1 THEN NoJoin ELSE [pc |-> "activate", todo |-> Tail(todo)]
  <2>1. join[c] \in Activations  BY <1>0, <1>4 DEF InstallFails, Joins, NoJoin
  <2>2. todo \in Seq(Nodes) /\ todo # <<>>  BY <2>1 DEF Activations
  <2>3. join' = [join EXCEPT ![c] = j]  BY <1>4 DEF InstallFails
  <2> HIDE DEF todo
  <2>4. Len(todo) # 1 => Tail(todo) \in Seq(Nodes) /\ Tail(todo) # <<>>
    <3>1. Tail(todo) \in Seq(Nodes) /\ Len(Tail(todo)) = Len(todo) - 1  BY <2>2
    <3>2. Len(todo) # 1 => Len(Tail(todo)) # 0  BY <2>2, <3>1
    <3> QED  BY <3>1, <3>2
  <2>5. j \in Joins
    <3>1. \A s \in Seq(Nodes) \ {<<>>} : [pc |-> "activate", todo |-> s] \in Activations
      BY DEF Activations
    <3> QED  BY <2>4, <3>1 DEF Joins
  <2> HIDE DEF j
  <2> QED  BY <1>a, <2>3, <2>5
<1>5. ASSUME Crash PROVE join' \in [Calls -> Joins]
  BY <1>5 DEF Crash, Joins
<1>6. ASSUME join' = join PROVE join' \in [Calls -> Joins]  BY <1>0, <1>6
<1> QED
  BY <1>1, <1>2, <1>3, <1>4, <1>5, <1>6, Steps, Zenon DEF VoteStep, EntriesStep, ReplStep,
     CallStep, JoinStep, ApplyStep, vars, StartElection, BecomeLeader, PublishElection,
     HandleRequestVote, HandleAppendEntries, HandleRepl, EndRequest, Enter, AppendEntry, NoQuorum,
     CommitEntry, TakeApplicable, ApplyPut, ApplyAddPeer, ApplyRemovePeer, BeginSave, SaveFile, SaveFails,
     NextFile, Restart

\* A step that renames no file leaves both as they are, and the history of what was saved.
LEMMA NothingSaved ==
  ASSUME DiskOK, FileInv, [Next]_vars, \A c \in Calls : ~SaveFile(c)
  PROVE  /\ disk'.raft = disk.raft /\ disk'.catalog = disk.catalog /\ DiskOK'
         /\ saves' = saves /\ kept' = kept
<1>b. ASSUME NEW c \in Calls, BeginSave(c)
      PROVE  saves' = saves /\ kept' = kept /\ disk' = disk
  BY <1>b DEF BeginSave, Created
<1>c. ASSUME NEW c \in Calls, NextFile(c)
      PROVE  saves' = saves /\ kept' = kept /\ disk' = disk
  BY <1>c, Zenon DEF NextFile, Created
<1>1. /\ saves' = saves /\ kept' = kept
      /\ disk' = disk
  <2>1. ASSUME NEW c \in Calls, CallStep(c) \/ JoinStep(c)
        PROVE  /\ saves' = saves /\ kept' = kept
               /\ disk' = disk
    BY <2>1, <1>b, <1>c, Zenon DEF CallStep, JoinStep, Enter, AppendEntry, NoQuorum, CommitEntry,
       SaveFails, Answer, ActivatePeer, InstallHangs, InstallFails
  <2>2. ASSUME \A c \in Calls : ~(CallStep(c) \/ JoinStep(c))
        PROVE  saves' = saves /\ kept' = kept /\ disk' = disk
    BY <2>2, Steps, Zenon DEF VoteStep, EntriesStep, ReplStep, ApplyStep, vars, StartElection,
       BecomeLeader, PublishElection, HandleRequestVote, HandleAppendEntries, HandleRepl, EndRequest,
       TakeApplicable, ApplyPut, ApplyAddPeer, ApplyRemovePeer, Crash, Restart
  <2> QED  BY <2>1, <2>2, Zenon
<1> QED  BY <1>1 DEF DiskOK

LEMMA TypeStep ==
  TypeInv /\ FileInv /\ DiskOK /\ Once(raft.peers) /\ [Next]_vars => TypeInv' /\ FileInv'
<1> SUFFICES ASSUME TypeInv, FileInv, DiskOK, Once(raft.peers), [Next]_vars PROVE TypeInv' /\ FileInv'
  OBVIOUS
<1>0. /\ tick \in 0..MaxTerm /\ raft \in RaftNodes /\ crashes \in Nat /\ up \in BOOLEAN
      /\ saves \subseteq [life : Nat, term : 0..MaxTerm, voted : Voted] /\ kept \subseteq Puts
      /\ call \in [Threads -> Handlers] /\ \A c \in Calls : c \in Threads
  BY InThreads DEF TypeInv
<1>1. tick' \in 0..MaxTerm
  <2>1. raft.term \in 0..MaxTerm /\ 0 \in 0..MaxTerm  BY <1>0, Bound DEF RaftNodes
  <2>2. tick' \in {tick, 0, raft.term}
    BY Steps, Zenon DEF VoteStep, EntriesStep, ReplStep,
       CallStep, JoinStep, ApplyStep, vars, StartElection, BecomeLeader, PublishElection,
       HandleRequestVote, HandleAppendEntries, HandleRepl, EndRequest, Enter, AppendEntry, NoQuorum,
       CommitEntry, TakeApplicable, ApplyPut, ApplyAddPeer, ApplyRemovePeer, BeginSave, SaveFile,
       SaveFails, NextFile, Answer, ActivatePeer, InstallHangs, InstallFails, Crash, Restart
  <2> QED  BY <1>0, <2>1, <2>2
<1>2. crashes' \in Nat /\ up' \in BOOLEAN
  <2>1. (crashes' = crashes \/ crashes' = crashes + 1) /\ (up' = up \/ up' = TRUE \/ up' = FALSE)
    BY Steps, Zenon DEF VoteStep, EntriesStep, ReplStep,
       CallStep, JoinStep, ApplyStep, vars, StartElection, BecomeLeader, PublishElection,
       HandleRequestVote, HandleAppendEntries, HandleRepl, EndRequest, Enter, AppendEntry, NoQuorum,
       CommitEntry, TakeApplicable, ApplyPut, ApplyAddPeer, ApplyRemovePeer, BeginSave, SaveFile,
       SaveFails, NextFile, Answer, ActivatePeer, InstallHangs, InstallFails, Crash, Restart, Unlocked
  <2>2. crashes' \in Nat  BY <1>0, <2>1
  <2>3. up' \in BOOLEAN  BY <1>0, <2>1, Zenon
  <2> QED  BY <2>2, <2>3, Zenon
<1>3. ASSUME NEW c \in Calls, SaveFile(c)
      PROVE  /\ saves' \subseteq [life : Nat, term : 0..MaxTerm, voted : Voted]
             /\ kept' \subseteq Puts
  <2> DEFINE s == [life |-> crashes, term |-> raft.term, voted |-> raft.voted]
             k == {e \in Range(call[c].took) : IsPut(e)}
  <2>1. s \in [life : Nat, term : 0..MaxTerm, voted : Voted]  BY <1>0 DEF RaftNodes
  <2>2. k \subseteq Puts
    <3>1. call[c].took \in Seq(Taken)  BY <1>0 DEF Handlers
    <3>2. Range(call[c].took) \subseteq Taken  BY <3>1 DEF Range
    <3> QED  BY <3>2 DEF Puts
  <2>3. saves' \in {saves, saves \cup {s}} /\ kept' \in {kept, kept \cup k}
    BY <1>3, Zenon DEF SaveFile
  <2> HIDE DEF s, k
  <2> QED  BY <1>0, <2>1, <2>2, <2>3
<1>4. (\A c \in Calls : ~SaveFile(c)) => saves' = saves /\ kept' = kept
  BY NothingSaved
<1>5. /\ saves' \subseteq [life : Nat, term : 0..MaxTerm, voted : Voted]
      /\ kept' \subseteq Puts
  BY <1>0, <1>3, <1>4
<1> QED  BY <1>1, <1>2, <1>5, RaftType, CatType, CallType, JoinType DEF TypeInv

-----------------------------------------------------------------------------
(* The files.                                                               *)

LEMMA ImageTypes ==
  ASSUME TypeInv
  PROVE  RaftImage \in RaftImages /\ CatImage \in CatImages
BY DEF TypeInv, RaftNodes, NodeStates, RaftImage, CatImage, RaftImages, CatImages

\* SaveFile writes raft.bin and then catalog.bin.
LEMMA FileSaved ==
  ASSUME TypeInv, DiskOK, FileInv, NEW c \in Calls, SaveFile(c)
  PROVE  /\ call[c].file = 1 =>
              /\ disk'.raft = Whole(RaftImage) /\ disk'.catalog = disk.catalog /\ kept' = kept
              /\ saves' = saves \cup {[life |-> crashes, term |-> raft.term, voted |-> raft.voted]}
         /\ call[c].file = 2 =>
              /\ disk'.catalog = Whole(CatImage) /\ disk'.raft = disk.raft /\ saves' = saves
              /\ kept' = kept \cup {e \in Range(call[c].took) : IsPut(e)}
         /\ call[c].file \in 1..2 /\ DiskOK'
<1> DEFINE s == [life |-> crashes, term |-> raft.term, voted |-> raft.voted]
           k == {e \in Range(call[c].took) : IsPut(e)}
<1>1. call[c].file \in 1..2
  BY DEF SaveFile, FileInv, Saving
<1>0. /\ disk' = Renamed(Files[call[c].file])
      /\ Files[call[c].file] = "raft" => saves' = saves \cup {s} /\ kept' = kept
      /\ Files[call[c].file] # "raft" => kept' = kept \cup k /\ saves' = saves
  BY DEF SaveFile
<1> HIDE DEF s, k
<1>2. CASE call[c].file = 1
  <2>1. Files[call[c].file] = "raft"  BY <1>2 DEF Files
  <2>2. disk' = [disk EXCEPT !.raft = Whole(RaftImage)]
    BY <1>0, <2>1 DEF Renamed, Image
  <2>3. Whole(RaftImage) \in RaftFiles  BY ImageTypes DEF RaftFiles
  <2>4. disk'.raft = Whole(RaftImage) /\ disk'.catalog = disk.catalog /\ DiskOK'
    BY <2>2, <2>3 DEF DiskOK
  <2> QED  BY <1>0, <1>2, <2>1, <2>4 DEF s
<1>3. CASE call[c].file = 2
  <2>1. Files[call[c].file] = "catalog"  BY <1>3 DEF Files
  <2>2. disk' = [disk EXCEPT !.catalog = Whole(CatImage)]
    BY <1>0, <2>1 DEF Renamed, Image
  <2>3. Whole(CatImage) \in CatFiles  BY ImageTypes DEF CatFiles
  <2>4. disk'.catalog = Whole(CatImage) /\ disk'.raft = disk.raft /\ DiskOK'
    BY <2>2, <2>3 DEF DiskOK
  <2> QED  BY <1>0, <1>3, <2>1, <2>4 DEF k
<1> QED  BY <1>1, <1>2, <1>3

LEMMA DiskStep == TypeInv /\ FileInv /\ DiskOK /\ [Next]_vars => DiskOK'
BY NothingSaved, FileSaved

\* A process that has ended only starts again.
LEMMA Running ==
  ASSUME [Next]_vars, ~Crash, ~Restart
  PROVE  UNCHANGED vars \/ (up /\ up' = up /\ crashes' = crashes)
<1>1. ASSUME NEW c \in Calls, CallStep(c) \/ JoinStep(c) PROVE up /\ up' = up /\ crashes' = crashes
  BY <1>1, Zenon DEF Unlocked, CallStep, JoinStep, Enter, AppendEntry, NoQuorum, CommitEntry, BeginSave,
     SaveFile, SaveFails, NextFile, Answer, ActivatePeer, InstallHangs, InstallFails
<1>2. ASSUME NEW t \in Threads, ApplyStep(t) PROVE up /\ up' = up /\ crashes' = crashes
  BY <1>2, Zenon DEF Unlocked, ApplyStep, TakeApplicable, ApplyPut, ApplyAddPeer, ApplyRemovePeer
<1>3. ASSUME VoteStep \/ EntriesStep \/ ReplStep PROVE up /\ up' = up /\ crashes' = crashes
  BY <1>3, Zenon DEF Unlocked, VoteStep, EntriesStep, ReplStep, HandleRequestVote, HandleAppendEntries,
     HandleRepl
<1> QED
  BY <1>1, <1>2, <1>3, Steps, Zenon DEF Unlocked, StartElection, BecomeLeader, PublishElection, EndRequest

-----------------------------------------------------------------------------
(* The list of peers.                                                       *)

\* What the node has of its peers, and what it has saved of them.
PeersOf == Once(raft.peers) /\ (raft.role = "Leader" => Len(raft.next) = Len(raft.peers))
PeersInv ==
  /\ PeersOf
  /\ \A m \in RaftImages : disk.raft = Whole(m) => Once(m.peers)

LEMMA PeerTakenOut ==
  ASSUME NEW peers \in Seq(Nodes), NEW next \in Seq(Nat), NEW p, Once(peers),
         NEW i, i = Position(peers, p)
  PROVE  /\ i \in 0..Len(peers)
         /\ Once(IF i > 0 THEN Without(peers, i) ELSE peers)
         /\ Len(next) = Len(peers) =>
              /\ i <= Len(next)
              /\ Len(IF i > 0 THEN Without(next, i) ELSE next)
                   = Len(IF i > 0 THEN Without(peers, i) ELSE peers)
<1>1. i \in 0..Len(peers) /\ Len(peers) \in Nat /\ Len(next) \in Nat  BY PositionFound
<1>2. CASE i > 0
  <2>1. i \in 1..Len(peers)  BY <1>1, <1>2
  <2>2. Once(Without(peers, i)) /\ Len(Without(peers, i)) = Len(peers) - 1
    BY <2>1, WithoutOnce, WithoutIsSeq
  <2>3. ASSUME Len(next) = Len(peers) PROVE i <= Len(next) /\ Len(Without(next, i)) = Len(peers) - 1
    <3>1. i \in 1..Len(next)  BY <2>1, <2>3
    <3> QED  BY <1>1, <2>1, <2>3, <3>1, WithoutIsSeq
  <2> QED  BY <1>1, <1>2, <2>2, <2>3
<1>3. CASE ~(i > 0)
  BY <1>1, <1>3
<1> QED  BY <1>2, <1>3

LEMMA LoadedOnce ==
  ASSUME DiskOK, PeersInv
  PROVE  Once(LoadRaft.peers)
<1>1. Once(Initial)  BY MetaDurableAssumption DEF Once
<1>2. CASE disk.raft = Absent
  <2>1. LoadRaft.peers = Initial  BY <1>2, LoadRaftNew DEF NewRaft
  <2> QED  BY <1>1, <2>1
<1>3. ASSUME NEW m \in RaftImages, disk.raft = Whole(m) PROVE Once(LoadRaft.peers)
  BY <1>1, <1>3, LoadRaftSaved DEF PeersInv
<1> QED  BY <1>2, <1>3 DEF DiskOK, RaftFiles

LEMMA PeersOfStep == TypeInv /\ DiskOK /\ PeersInv /\ [Next]_vars => PeersOf'
<1> SUFFICES ASSUME TypeInv, DiskOK, PeersInv, [Next]_vars PROVE PeersOf'  OBVIOUS
<1>0. /\ raft \in RaftNodes /\ raft.peers \in Seq(Nodes) /\ raft.next \in Seq(Nat)
      /\ Len(raft.peers) \in Nat /\ Len(raft.next) \in Nat /\ Len(raft.log) \in Nat
      /\ Once(raft.peers) /\ PeersOf
  <2>1. raft \in RaftNodes  BY DEF TypeInv
  <2>2. raft.peers \in Seq(Nodes) /\ raft.next \in Seq(Nat) /\ raft.log \in Seq(Entries)
    BY <2>1 DEF RaftNodes
  <2>3. Len(raft.peers) \in Nat /\ Len(raft.next) \in Nat /\ Len(raft.log) \in Nat  BY <2>2
  <2> QED  BY <2>1, <2>2, <2>3 DEF PeersInv, PeersOf
\* The list is left alone.
<1>a. ASSUME raft'.peers = raft.peers,
             raft'.role = "Leader" => raft.role = "Leader" /\ raft'.next = raft.next
      PROVE  PeersOf'
  BY <1>0, <1>a DEF PeersOf
<1>1. ASSUME StartElection PROVE PeersOf'
  <2>1. raft'.peers = raft.peers /\ raft'.role = "Candidate"
    BY <1>0, <1>1 DEF StartElection, RaftNodes
  <2> QED  BY <1>a, <2>1
<1>2. ASSUME BecomeLeader PROVE PeersOf'
  <2> DEFINE n == [i \in DOMAIN raft.peers |-> Len(raft.log) + 1]
  <2>1. Len(n) = Len(raft.peers)
    <3>1. DOMAIN raft.peers = 1..Len(raft.peers)  BY <1>0
    <3> QED  BY <1>0, <3>1
  <2>2. raft' = [raft EXCEPT !.role = "Leader", !.next = n]
    BY <1>2, Zenon DEF BecomeLeader
  <2> HIDE DEF n
  <2>3. raft'.peers = raft.peers /\ raft'.next = n  BY <1>0, <2>2 DEF RaftNodes
  <2> QED  BY <1>0, <2>1, <2>3 DEF PeersOf
<1>3. ASSUME VoteStep \/ EntriesStep PROVE PeersOf'
  BY <1>3, <1>a, VoteIs, EntriesIs
<1>4. ASSUME NEW t \in Threads, AppendEntry(t) \/ CommitEntry(t) \/ TakeApplicable(t)
      PROVE  PeersOf'
  <2>1. raft'.peers = raft.peers /\ raft'.role = raft.role /\ raft'.next = raft.next
    <3>1. CASE AppendEntry(t)  BY <1>0, <3>1 DEF AppendEntry, RaftNodes
    <3>2. CASE CommitEntry(t)  BY <1>0, <3>2 DEF CommitEntry, RaftNodes
    <3>3. CASE TakeApplicable(t)  BY <1>0, <3>3 DEF TakeApplicable, RaftNodes
    <3> QED  BY <1>4, <3>1, <3>2, <3>3
  <2> QED  BY <1>a, <2>1
<1>5. ASSUME NEW t \in Threads, ApplyAddPeer(t) PROVE PeersOf'
  <2> DEFINE p == OpOf[Applying(t).call][2]
  <2>1. p \in Nodes \cup {Self}  BY <1>5, ApplyingType DEF ApplyAddPeer
  <2>2. raft' = [raft EXCEPT !.peers = IF ~Known(p) /\ raft.role # "Leader" THEN Append(@, p) ELSE @]
    BY <1>5 DEF ApplyAddPeer
  <2> HIDE DEF p
  <2>3. CASE ~Known(p) /\ raft.role # "Leader"
    <3>1. raft' = [raft EXCEPT !.peers = Append(raft.peers, p)]  BY <2>2, <2>3
    <3>2. raft'.peers = Append(raft.peers, p) /\ raft'.role = raft.role
      BY <1>0, <3>1 DEF RaftNodes
    <3>3. Once(Append(raft.peers, p))  BY <1>0, <2>1, <2>3, AppendOnce DEF Known
    <3> QED  BY <2>3, <3>2, <3>3 DEF PeersOf
  <2>4. CASE ~(~Known(p) /\ raft.role # "Leader")
    <3>1. raft' = [raft EXCEPT !.peers = raft.peers]  BY <2>2, <2>4
    <3>2. raft'.peers = raft.peers /\ raft'.role = raft.role /\ raft'.next = raft.next
      BY <1>0, <3>1 DEF RaftNodes
    <3> QED  BY <1>a, <3>2
  <2> QED  BY <2>3, <2>4
<1>6. ASSUME NEW t \in Threads, ApplyRemovePeer(t) PROVE PeersOf'
  <2> DEFINE p == OpOf[Applying(t).call][2]
             i == Position(raft.peers, p)
             peers == IF i > 0 THEN Without(raft.peers, i) ELSE raft.peers
             next == IF i > 0 /\ raft.role = "Leader" /\ i <= Len(raft.next)
                     THEN Without(raft.next, i) ELSE raft.next
  <2>1. raft' = [raft EXCEPT !.peers = peers, !.next = next,
                             !.role = IF p = Self THEN "Follower" ELSE raft.role]
    BY <1>6 DEF ApplyRemovePeer
  <2>2. /\ Once(peers)
        /\ Len(raft.next) = Len(raft.peers) =>
             /\ i <= Len(raft.next)
             /\ Len(IF i > 0 THEN Without(raft.next, i) ELSE raft.next) = Len(peers)
    <3> HIDE DEF i
    <3>1. i = Position(raft.peers, p)  BY DEF i
    <3> QED  BY <1>0, <3>1, PeerTakenOut
  <2> HIDE DEF p, i, peers
  <2>3. raft.role = "Leader" => Len(next) = Len(peers)
    BY <1>0, <2>2 DEF PeersOf
  <2> HIDE DEF next
  <2>4. raft'.peers = peers /\ raft'.next = next /\ (raft'.role = "Leader" => raft.role = "Leader")
    BY <1>0, <2>1 DEF RaftNodes
  <2> QED  BY <2>2, <2>3, <2>4 DEF PeersOf
<1>7. ASSUME NEW c \in Calls, ActivatePeer(c) PROVE PeersOf'
  <2> DEFINE p == Head(join[c].todo)
             next == IF raft.role = "Leader" THEN Append(raft.next, Len(raft.log) + 1) ELSE raft.next
  <2>1. p \in Nodes
    <3>1. join[c] \in Activations
      BY <1>7 DEF ActivatePeer, TypeInv, Joins, NoJoin
    <3> QED  BY <3>1 DEF Activations
  <2>2. raft' = IF Known(p) THEN raft
                ELSE [raft EXCEPT !.peers = Append(raft.peers, p), !.next = next]
    BY <1>7 DEF ActivatePeer
  <2>3. raft.role = "Leader" => Len(next) = Len(raft.next) + 1
    BY <1>0
  <2> HIDE DEF p, next
  <2>4. CASE Known(p)  BY <2>2, <2>4, <1>a
  <2>5. CASE ~Known(p)
    <3>1. raft'.peers = Append(raft.peers, p) /\ raft'.next = next /\ raft'.role = raft.role
      BY <1>0, <2>2, <2>5 DEF RaftNodes
    <3>2. Once(Append(raft.peers, p)) /\ Len(Append(raft.peers, p)) = Len(raft.peers) + 1
      BY <1>0, <2>1, <2>5, AppendOnce DEF Known
    <3> QED  BY <1>0, <2>3, <3>1, <3>2 DEF PeersOf
  <2> QED  BY <2>4, <2>5
<1>8. ASSUME NEW c \in Calls, InstallFails(c) PROVE PeersOf'
  <2> DEFINE p == Head(join[c].todo)
             i == Position(raft.peers, p)
             peers == IF i > 0 THEN Without(raft.peers, i) ELSE raft.peers
             next == IF i > 0 /\ i <= Len(raft.next) THEN Without(raft.next, i) ELSE raft.next
  <2>1. raft' = [raft EXCEPT !.peers = peers, !.next = next]
    BY <1>8 DEF InstallFails
  <2>2. /\ Once(peers)
        /\ Len(raft.next) = Len(raft.peers) =>
             /\ i <= Len(raft.next)
             /\ Len(IF i > 0 THEN Without(raft.next, i) ELSE raft.next) = Len(peers)
    <3> HIDE DEF i
    <3>1. i = Position(raft.peers, p)  BY DEF i
    <3> QED  BY <1>0, <3>1, PeerTakenOut
  <2> HIDE DEF p, i, peers
  <2>3. raft.role = "Leader" => Len(next) = Len(peers)
    BY <1>0, <2>2 DEF PeersOf
  <2> HIDE DEF next
  <2>4. raft'.peers = peers /\ raft'.next = next /\ raft'.role = raft.role
    BY <1>0, <2>1 DEF RaftNodes
  <2> QED  BY <2>2, <2>3, <2>4 DEF PeersOf
<1>9. ASSUME Crash PROVE PeersOf'
  <2>1. raft'.peers = <<>> /\ raft'.role = "Follower"  BY <1>9 DEF Crash, NewRaft
  <2>2. Once(<<>>)  BY DEF Once, IsInjective, Range
  <2> QED  BY <2>1, <2>2 DEF PeersOf
<1>10. ASSUME Restart PROVE PeersOf'
  <2>1. raft' = LoadRaft  BY <1>10 DEF Restart
  <2>2. LoadRaft.role # "Leader" /\ Once(LoadRaft.peers)  BY LoadedOnce, LoadRaftType
  <2> HIDE DEF LoadRaft
  <2> QED  BY <2>1, <2>2 DEF PeersOf
<1>11. ASSUME raft' = raft PROVE PeersOf'  BY <1>a, <1>11
<1> QED
  BY <1>1, <1>2, <1>3, <1>4, <1>5, <1>6, <1>7, <1>8, <1>9, <1>10, <1>11, Steps, InThreads, Zenon
     DEF CallStep, JoinStep, ApplyStep, ReplStep, vars, PublishElection, HandleRepl, EndRequest,
     Enter, NoQuorum, ApplyPut, BeginSave, SaveFile, SaveFails, NextFile, Answer, InstallHangs

LEMMA WholeIs == \A m, n : Whole(m) = Whole(n) => m = n
<1> TAKE m, n
<1>1. Whole(m).content = m /\ Whole(n).content = n  BY DEF Whole
<1> QED  BY <1>1

LEMMA PeersStep == TypeInv /\ DiskOK /\ FileInv /\ PeersInv /\ [Next]_vars => PeersInv'
<1> SUFFICES ASSUME TypeInv, DiskOK, FileInv, PeersInv, [Next]_vars PROVE PeersInv'  OBVIOUS
<1>1. PeersOf'  BY PeersOfStep
<1>2. ASSUME NEW m \in RaftImages, disk'.raft = Whole(m) PROVE Once(m.peers)
  <2>1. CASE disk'.raft = disk.raft  BY <1>2, <2>1 DEF PeersInv
  <2>2. CASE disk'.raft = Whole(RaftImage)
    <3>1. m = RaftImage  BY <1>2, <2>2, WholeIs
    <3> QED  BY <3>1 DEF RaftImage, PeersInv, PeersOf
  <2>3. disk'.raft = disk.raft \/ disk'.raft = Whole(RaftImage)
    <3>1. ASSUME NEW c \in Calls, SaveFile(c) PROVE disk'.raft = disk.raft \/ disk'.raft = Whole(RaftImage)
      <4>1. call[c].file = 1 \/ call[c].file = 2  BY <3>1, FileSaved
      <4> QED  BY <3>1, <4>1, FileSaved
    <3> QED  BY <3>1, NothingSaved
  <2> QED  BY <2>1, <2>2, <2>3
<1> QED  BY <1>1, <1>2 DEF PeersOf, PeersInv

-----------------------------------------------------------------------------
(* What raft.bin says of the term and the vote.                             *)

\* A node with this term and vote is bound by what was saved.
Binds(s, r) == r.term >= s.term /\ ((r.term = s.term /\ s.voted # NoOne) => r.voted = s.voted)

\* Who stands or leads does so in a later term than those of former lives.
SavesInv ==
  /\ \A s \in saves : Binds(s, LoadRaft) /\ (up => Binds(s, raft))
  /\ \A s \in saves : (s.life < crashes /\ raft.role # "Follower") => raft.term > s.term

LEMMA TermsStay ==
  ASSUME TypeInv, [Next]_vars, ~Crash, ~Restart
  PROVE  VoteStays
<1>0. raft \in RaftNodes /\ raft.term \in Nat  BY Bound DEF TypeInv, RaftNodes
<1>a. ASSUME raft'.term = raft.term, raft'.voted = raft.voted,
             raft'.role # "Follower" => raft.role # "Follower"
      PROVE  VoteStays
  BY <1>0, <1>a DEF VoteStays
<1>1. ASSUME StartElection PROVE VoteStays
  BY <1>0, <1>1 DEF StartElection, VoteStays, RaftNodes
<1>2. ASSUME BecomeLeader PROVE VoteStays
  <2> DEFINE n == [i \in DOMAIN raft.peers |-> Len(raft.log) + 1]
  <2>1. raft' = [raft EXCEPT !.role = "Leader", !.next = n] /\ raft.role = "Candidate"
    BY <1>2, Zenon DEF BecomeLeader
  <2> HIDE DEF n
  <2> QED  BY <1>0, <1>a, <2>1 DEF RaftNodes
<1>3. ASSUME NEW t \in Threads,
             \/ AppendEntry(t) \/ CommitEntry(t) \/ TakeApplicable(t) \/ ApplyAddPeer(t)
             \/ ApplyRemovePeer(t) \/ ActivatePeer(t) \/ InstallFails(t)
      PROVE  VoteStays
  <2>1. /\ raft'.term = raft.term /\ raft'.voted = raft.voted
        /\ raft'.role # "Follower" => raft.role # "Follower"
    <3>1. CASE AppendEntry(t)  BY <1>0, <3>1 DEF AppendEntry, RaftNodes
    <3>2. CASE CommitEntry(t)  BY <1>0, <3>2 DEF CommitEntry, RaftNodes
    <3>3. CASE TakeApplicable(t)  BY <1>0, <3>3 DEF TakeApplicable, RaftNodes
    <3>4. CASE ApplyAddPeer(t)  BY <1>0, <3>4 DEF ApplyAddPeer, RaftNodes
    <3>5. CASE ApplyRemovePeer(t)  BY <1>0, <3>5 DEF ApplyRemovePeer, RaftNodes
    <3>6. CASE ActivatePeer(t)  BY <1>0, <3>6 DEF ActivatePeer, RaftNodes
    <3>7. CASE InstallFails(t)  BY <1>0, <3>7 DEF InstallFails, RaftNodes
    <3> QED  BY <1>3, <3>1, <3>2, <3>3, <3>4, <3>5, <3>6, <3>7
  <2> QED  BY <1>a, <2>1
<1>4. ASSUME raft' = raft PROVE VoteStays  BY <1>a, <1>4
<1> QED
  BY <1>1, <1>2, <1>3, <1>4, Steps, VoteIs, EntriesIs, InThreads, Zenon
     DEF CallStep, JoinStep, ApplyStep, ReplStep, vars, PublishElection, HandleRepl, EndRequest,
     Enter, NoQuorum, ApplyPut, BeginSave, SaveFile, SaveFails, NextFile, Answer, InstallHangs

LEMMA LoadsRaft ==
  ASSUME TypeInv, disk'.raft = Whole(RaftImage)
  PROVE  LoadRaft'.term = raft.term /\ LoadRaft'.voted = raft.voted
<1> DEFINE m == RaftImage
           peers == IF m.peers = <<>> THEN Initial ELSE m.peers
           new == NewRaft(peers)
<1>1. disk'.raft.there /\ disk'.raft.whole /\ disk'.raft.content = m
  BY DEF Whole
<1>2. m.term = raft.term /\ m.voted = raft.voted  BY DEF RaftImage
<1>3. LoadRaft' = [new EXCEPT !.term = m.term, !.voted = m.voted, !.log = m.log,
                              !.commit = m.commit, !.applied = m.applied]
  BY <1>1 DEF LoadRaft
<1>4. new \in RaftNodes
  <2>1. peers \in Seq(Nodes)  BY InitialType DEF TypeInv, RaftNodes, RaftImage
  <2> QED  BY <2>1, NewRaftType
<1> HIDE DEF new, m
<1> QED  BY <1>2, <1>3, <1>4 DEF RaftNodes

LEMMA SavesStep ==
  TypeInv /\ TypeInv' /\ DiskOK /\ FileInv /\ SavesInv /\ [Next]_vars => SavesInv'
<1> SUFFICES ASSUME TypeInv, TypeInv', DiskOK, FileInv, SavesInv, [Next]_vars PROVE SavesInv'  OBVIOUS
<1>0. /\ raft.term \in Nat /\ raft'.term \in Nat /\ crashes \in Nat
      /\ \A s \in saves : s.term \in Nat /\ s.life \in Nat
  BY Bound DEF TypeInv, RaftNodes
<1>1. CASE Crash
  <2>1. ~up' /\ saves' = saves /\ disk' = disk /\ raft'.role = "Follower"
    BY <1>1 DEF Crash, NewRaft
  <2>2. LoadRaft' = LoadRaft  BY <2>1 DEF LoadRaft
  <2> QED  BY <2>1, <2>2 DEF SavesInv, Binds
<1>2. CASE Restart
  <2>1. saves' = saves /\ disk' = disk /\ raft' = LoadRaft  BY <1>2 DEF Restart
  <2>2. LoadRaft' = LoadRaft  BY <2>1 DEF LoadRaft
  <2>3. LoadRaft.role = "Follower"  BY LoadRaftType
  <2> HIDE DEF LoadRaft
  <2> QED  BY <2>1, <2>2, <2>3 DEF SavesInv, Binds
<1>3. CASE ~Crash /\ ~Restart
  <2>1. VoteStays  BY <1>3, TermsStay
  <2>2. CASE UNCHANGED vars
    <3>1. LoadRaft' = LoadRaft  BY <2>2 DEF LoadRaft, vars
    <3> QED  BY <2>2, <3>1 DEF SavesInv, Binds, vars
  <2>3. CASE up /\ up' = up /\ crashes' = crashes
    <3>1. ASSUME NEW s \in saves
          PROVE  /\ Binds(s, raft')
                 /\ (s.life < crashes /\ raft'.role # "Follower") => raft'.term > s.term
      BY <1>0, <2>1, <2>3, <3>1 DEF SavesInv, Binds, VoteStays
    <3>2. CASE saves' = saves /\ disk'.raft = disk.raft
      <4>1. LoadRaft' = LoadRaft  BY <3>2 DEF LoadRaft
      <4> HIDE DEF LoadRaft
      <4> QED  BY <2>3, <3>1, <3>2, <4>1 DEF SavesInv, Binds
    <3>3. ASSUME NEW c \in Calls, SaveFile(c), call[c].file = 1 PROVE SavesInv'
      <4> DEFINE n == [life |-> crashes, term |-> raft.term, voted |-> raft.voted]
      <4>1. disk'.raft = Whole(RaftImage) /\ saves' = saves \cup {n} /\ raft' = raft
        BY <3>3, FileSaved DEF SaveFile
      <4>2. LoadRaft'.term = raft.term /\ LoadRaft'.voted = raft.voted  BY <4>1, LoadsRaft
      <4>3. n.term = raft.term /\ n.voted = raft.voted /\ n.life = crashes  OBVIOUS
      <4>4. ASSUME NEW s \in saves' PROVE Binds(s, raft) /\ Binds(s, LoadRaft')
        <5>1. CASE s = n  BY <1>0, <4>2, <4>3, <5>1 DEF Binds
        <5>2. CASE s \in saves
          <6>1. Binds(s, raft)  BY <2>3, <5>2 DEF SavesInv
          <6> QED  BY <4>2, <6>1 DEF Binds
        <5> QED  BY <4>1, <4>4, <5>1, <5>2
      <4>5. ASSUME NEW s \in saves', s.life < crashes, raft.role # "Follower"
            PROVE  raft.term > s.term
        <5>1. s # n  BY <1>0, <4>3, <4>5
        <5> QED  BY <4>1, <4>5, <5>1 DEF SavesInv
      <4> HIDE DEF n
      <4> QED  BY <2>3, <4>1, <4>4, <4>5 DEF SavesInv, Binds
    <3>4. ASSUME NEW c \in Calls, SaveFile(c), call[c].file = 2
          PROVE  saves' = saves /\ disk'.raft = disk.raft
      BY <3>4, FileSaved
    <3>5. ASSUME NEW c \in Calls, SaveFile(c) PROVE call[c].file = 1 \/ call[c].file = 2
      BY <3>5, FileSaved
    <3> QED  BY <3>2, <3>3, <3>4, <3>5, NothingSaved, Zenon
  <2> QED  BY <1>3, <2>2, <2>3, Running
<1> QED  BY <1>1, <1>2, <1>3

-----------------------------------------------------------------------------
(* What catalog.bin keeps of the entries that were applied.                 *)

\* A catalog that has an entry goes on to hold it when others are inserted, and holds those.
LEMMA HoldsInserted ==
  ASSUME NEW c \in NodeStates, NEW x \in Puts, NEW e
  PROVE  /\ Holds(Inserted(c, x), x)
         /\ Holds(c, e) => Holds(Inserted(c, x), e)
<1> DEFINE d == Inserted(c, x)
           key == OpOf[x.call][2]
<1>1. d.log = Append(c.log, x) /\ d.map = {kv \in c.map : kv[1] # key} \cup {<<key, x.call>>}
  BY InsertedIs
<1>2. c.log \in Seq(Puts) /\ Len(c.log) \in Nat  BY DEF NodeStates
<1>3. /\ DOMAIN c.log = 1..Len(c.log) /\ DOMAIN d.log = 1..(Len(c.log) + 1)
      /\ d.log[Len(c.log) + 1] = x /\ \A i \in 1..Len(c.log) : d.log[i] = c.log[i]
  BY <1>1, <1>2
<1> HIDE DEF d
<1>4. Holds(d, x)
  <2>1. <<key, x.call>> \in d.map  BY <1>1
  <2>2. Len(c.log) + 1 \in DOMAIN d.log  BY <1>2, <1>3
  <2> QED  BY <1>2, <1>3, <2>1, <2>2 DEF Holds
<1>5. ASSUME Holds(c, e) PROVE Holds(d, e)
  <2> DEFINE k == OpOf[e.call][2]
  <2>1. PICK i \in DOMAIN c.log, j \in DOMAIN c.log :
          i <= j /\ c.log[i] = e /\ <<k, c.log[j].call>> \in c.map
    BY <1>5 DEF Holds
  <2>2. i \in DOMAIN d.log /\ j \in DOMAIN d.log /\ d.log[i] = e /\ d.log[j] = c.log[j]
    BY <1>2, <1>3, <2>1
  <2>3. CASE k # key
    <3>1. <<k, d.log[j].call>> \in d.map  BY <1>1, <2>1, <2>2, <2>3
    <3> QED  BY <2>1, <2>2, <3>1 DEF Holds
  <2>4. CASE k = key
    <3> DEFINE l == Len(c.log) + 1
    <3>1. l \in DOMAIN d.log /\ i <= l /\ d.log[l] = x  BY <1>2, <1>3, <2>1
    <3>2. <<k, x.call>> \in d.map  BY <1>1, <2>4
    <3> HIDE DEF l
    <3> QED  BY <2>2, <3>1, <3>2 DEF Holds
  <2> QED  BY <2>3, <2>4
<1> QED  BY <1>4, <1>5 DEF d

LEMMA HoldsSame ==
  ASSUME NEW c, NEW d, c.log = d.log, c.map = d.map, NEW e
  PROVE  Holds(c, e) <=> Holds(d, e)
BY DEF Holds

\* While the process runs its catalog goes on to hold what it holds.
LEMMA CatalogGrows ==
  ASSUME TypeInv, [Next]_vars, ~Crash, ~Restart, NEW e, Holds(cat, e)
  PROVE  Holds(cat', e)
<1>0. cat \in NodeStates  BY DEF TypeInv
<1>1. ASSUME cat'.log = cat.log, cat'.map = cat.map PROVE Holds(cat', e)
  BY <1>1, HoldsSame
<1>2. ASSUME PublishElection \/ Followed PROVE Holds(cat', e)
  <2> DEFINE l == IF raft'.role = "Follower" THEN FALSE ELSE cat.leader
  <2>1. (\E a, b : cat' = [cat EXCEPT !.leader = a, !.epoch = b]) \/ cat' = [cat EXCEPT !.leader = l]
    BY <1>2, Zenon DEF PublishElection, Followed
  <2> HIDE DEF l
  <2>2. cat'.log = cat.log /\ cat'.map = cat.map  BY <1>0, <2>1 DEF NodeStates
  <2> QED  BY <1>1, <2>2
<1>3. ASSUME ReplStep PROVE Holds(cat', e)
  <2>1. PICK t \in Threads, epoch \in Nat, x \in Taken : HandleRepl(t, epoch, x)
    BY <1>3, InThreads, Zenon DEF ReplStep
  <2>2. \/ cat' = cat
        \/ \E c \in NodeStates :
             c.map = cat.map /\ c.log = cat.log /\ (cat' = c \/ (x \in Puts /\ cat' = Inserted(c, x)))
    BY <2>1, ReplIs
  <2>3. ASSUME NEW c \in NodeStates, c.map = cat.map, c.log = cat.log,
               cat' = c \/ (x \in Puts /\ cat' = Inserted(c, x))
        PROVE  Holds(cat', e)
    <3>1. Holds(c, e)  BY <2>3, HoldsSame
    <3>2. x \in Puts => Holds(Inserted(c, x), e)  BY <3>1, HoldsInserted
    <3> QED  BY <2>3, <3>1, <3>2, Zenon
  <2> QED  BY <1>1, <2>2, <2>3
<1>4. ASSUME NEW t \in Threads, ApplyPut(t) PROVE Holds(cat', e)
  <2>1. Applying(t) \in Puts  BY <1>4, ApplyingType DEF ApplyPut, Puts
  <2>2. cat' = Inserted(cat, Applying(t))  BY <1>4 DEF ApplyPut
  <2>3. Holds(Inserted(cat, Applying(t)), e)  BY <1>0, <2>1, HoldsInserted
  <2> QED  BY <2>2, <2>3, Zenon
<1>5. ASSUME cat' = cat PROVE Holds(cat', e)  BY <1>1, <1>5
<1> QED
  BY <1>2, <1>3, <1>4, <1>5, Steps, Zenon DEF VoteStep, EntriesStep, HandleRequestVote,
     HandleAppendEntries, CallStep, JoinStep, ApplyStep, vars, StartElection, BecomeLeader, EndRequest,
     Enter, AppendEntry, NoQuorum, CommitEntry, TakeApplicable, ApplyAddPeer, ApplyRemovePeer,
     BeginSave, SaveFile, SaveFails, NextFile, Answer, ActivatePeer, InstallHangs, InstallFails

\* An entry taken is in the catalog or is still to be applied, and none is left to apply where a
\* thread saves.
TookInv ==
  /\ \A t \in Threads : call[t].pc # "apply" => call[t].pending = <<>>
  /\ \A t \in Threads : call[t].pc \in Idle => call[t].took = <<>>
  /\ \A t \in Threads : \A e \in Range(call[t].took) :
       IsPut(e) => e \in Range(call[t].pending) \/ Holds(cat, e)

\* Once the process has ended nothing of it is left.
DownInv == ~up => \A t \in Threads : call[t].pc \in Idle

\* The node's catalog holds what the saved one holds, and that what threads have saved in it.
KeptInv ==
  /\ up => \A e \in Puts : Holds(LoadCatalog, e) => Holds(cat, e)
  /\ \A e \in kept : Holds(LoadCatalog, e)

LEMMA CrashLoses ==
  ASSUME TypeInv, TookInv, Crash
  PROVE  /\ \A t \in Threads : /\ call'[t].pc \in Idle
                               /\ call'[t].pending = <<>> /\ call'[t].took = <<>>
         /\ ~up' /\ disk' = disk /\ kept' = kept
<1> DEFINE lost == [Waiting EXCEPT !.pc = "lost"]
<1>1. lost.pc = "lost" /\ lost.pending = <<>> /\ lost.took = <<>>  BY DEF Waiting
<1>2. call' = [t \in Threads |-> IF call[t].pc \in {"unsent", "ended"} THEN call[t] ELSE lost]
  BY DEF Crash
<1>3. ~up' /\ disk' = disk /\ kept' = kept  BY DEF Crash
<1> HIDE DEF lost
<1>4. ASSUME NEW t \in Threads
      PROVE  call'[t].pc \in Idle /\ call'[t].pending = <<>> /\ call'[t].took = <<>>
  <2>1. CASE call[t].pc \in {"unsent", "ended"}
    <3>1. call'[t] = call[t]  BY <1>2, <2>1
    <3> QED  BY <2>1, <3>1 DEF TookInv, Idle
  <2>2. CASE call[t].pc \notin {"unsent", "ended"}
    <3>1. call'[t] = lost  BY <1>2, <2>2
    <3> QED  BY <1>1, <3>1 DEF Idle
  <2> QED  BY <2>1, <2>2
<1> QED  BY <1>3, <1>4

LEMMA TookStep ==
  TypeInv /\ DiskOK /\ FileInv /\ TookInv /\ DownInv /\ [Next]_vars => TookInv'
<1> SUFFICES ASSUME TypeInv, DiskOK, FileInv, TookInv, DownInv, [Next]_vars PROVE TookInv'  OBVIOUS
<1>0. call \in [Threads -> Handlers] /\ Range(<<>>) = {} /\ cat \in NodeStates
  BY DEF TypeInv, Range
<1>1. CASE Crash
  <2>1. \A t \in Threads : call'[t].pc \in Idle /\ call'[t].pending = <<>> /\ call'[t].took = <<>>
    BY <1>1, CrashLoses
  <2> QED  BY <1>0, <2>1 DEF TookInv
<1>2. CASE Restart
  <2>1. call' = call /\ ~up  BY <1>2 DEF Restart
  <2>2. \A t \in Threads : call[t].took = <<>>  BY <2>1 DEF DownInv, TookInv
  <2> QED  BY <1>0, <2>1, <2>2 DEF TookInv
<1>3. CASE ~Crash /\ ~Restart
  <2>1. \A e : Holds(cat, e) => Holds(cat', e)  BY <1>3, CatalogGrows
  <2>2. CASE call' = call
    <3>1. \A t \in Threads : \A e \in Range(call[t].took) :
            IsPut(e) => e \in Range(call[t].pending) \/ Holds(cat', e)
      BY <2>1 DEF TookInv
    <3> QED  BY <2>2, <3>1 DEF TookInv, Holds
  <2>3. ASSUME NEW t \in Threads, NEW h, Moves(t, h) PROVE TookInv'
    <3>1. h \in Handlers /\ call'[t] = h /\ \A u \in Threads \ {t} : call'[u] = call[u]
      BY <1>0, <2>3 DEF Moves
    <3>2. /\ h.pc # "apply" => h.pending = <<>>
          /\ h.pc \in Idle => h.took = <<>>
      BY <2>3 DEF Moves, Stays, Takes, Applies, TookInv, Idle
    <3>3. ASSUME NEW e \in Range(h.took), IsPut(e) PROVE e \in Range(h.pending) \/ Holds(cat', e)
      <4>1. CASE h.took = <<>>  BY <1>0, <3>3, <4>1
      <4>2. CASE Stays(t, h)
        BY <2>1, <3>3, <4>2 DEF Stays, TookInv
      <4>3. CASE call[t].pc = "unsent" /\ h.took = call[t].took
        BY <1>0, <3>3, <4>3 DEF TookInv, Idle
      <4>4. CASE Takes(h)  BY <3>3, <4>4 DEF Takes
      <4>5. CASE Applies(t, h)
        <5>1. /\ e \in Range(call[t].took) /\ h.pending = Tail(call[t].pending)
              /\ call[t].pending # <<>>
              /\ IsPut(Applying(t)) => cat' = Inserted(cat, Applying(t))
          BY <3>3, <4>5 DEF Applies
        <5>2. e \in Range(call[t].pending) \/ Holds(cat, e)  BY <3>3, <5>1 DEF TookInv
        <5>3. ASSUME e \in Range(call[t].pending)
              PROVE  e = Applying(t) \/ e \in Range(Tail(call[t].pending))
          <6> DEFINE s == call[t].pending
          <6>1. s \in Seq(Taken) /\ s # <<>>  BY <1>0, <5>1 DEF Handlers
          <6>2. Applying(t) = Head(s)  BY DEF Applying
          <6> HIDE DEF s
          <6>3. PICK i \in 1..Len(s) : s[i] = e  BY <5>3, <6>1 DEF s, Range
          <6>4. CASE i = 1  BY <6>1, <6>2, <6>3, <6>4
          <6>5. CASE i # 1
            <7>1. i - 1 \in DOMAIN Tail(s) /\ Tail(s)[i - 1] = e  BY <6>1, <6>3, <6>5
            <7> QED  BY <7>1 DEF Range, s
          <6> QED  BY <6>4, <6>5
        <5>4. ASSUME e = Applying(t) PROVE Holds(cat', e)
          <6>1. e \in Puts  BY <3>3, <5>1, <5>4, ApplyingType DEF Puts
          <6>2. Holds(Inserted(cat, e), e)  BY <1>0, <6>1, HoldsInserted
          <6>3. cat' = Inserted(cat, e)  BY <3>3, <5>1, <5>4
          <6> QED  BY <6>2, <6>3, Zenon
        <5> QED  BY <2>1, <5>1, <5>2, <5>3, <5>4
      <4> QED  BY <2>3, <4>1, <4>2, <4>3, <4>4, <4>5 DEF Moves
    <3>4. ASSUME NEW u \in Threads
          PROVE  /\ call'[u].pc # "apply" => call'[u].pending = <<>>
                 /\ call'[u].pc \in Idle => call'[u].took = <<>>
      BY <3>1, <3>2 DEF TookInv
    <3>5. ASSUME NEW u \in Threads, NEW e \in Range(call'[u].took), IsPut(e)
          PROVE  e \in Range(call'[u].pending) \/ Holds(cat', e)
      BY <2>1, <3>1, <3>3, <3>5 DEF TookInv
    <3> QED  BY <3>4, <3>5 DEF TookInv, Holds
  <2> QED  BY <1>3, <2>2, <2>3, HandlerMoves
<1> QED  BY <1>1, <1>2, <1>3

LEMMA DownStep == TypeInv /\ TookInv /\ DownInv /\ [Next]_vars => DownInv'
<1> SUFFICES ASSUME TypeInv, TookInv, DownInv, [Next]_vars PROVE DownInv'  OBVIOUS
<1>1. CASE Crash  BY <1>1, CrashLoses DEF DownInv
<1>2. CASE Restart  BY <1>2 DEF Restart, DownInv
<1>3. CASE ~Crash /\ ~Restart
  <2>1. CASE UNCHANGED vars  BY <2>1 DEF vars, DownInv
  <2>2. CASE up /\ up' = up  BY <2>2 DEF DownInv
  <2> QED  BY <1>3, <2>1, <2>2, Running
<1> QED  BY <1>1, <1>2, <1>3

LEMMA LoadsCatalog ==
  ASSUME TypeInv, disk'.catalog = Whole(CatImage)
  PROVE  LoadCatalog'.log = cat.log /\ LoadCatalog'.map = cat.map
<1> DEFINE m == CatImage
<1>1. disk'.catalog.there /\ disk'.catalog.whole /\ disk'.catalog.content = m
  BY DEF Whole
<1>2. m.log = cat.log /\ m.map = cat.map  BY DEF CatImage
<1>3. LoadCatalog' = [NewCat EXCEPT !.epoch = m.epoch, !.map = m.map, !.log = m.log]
  BY <1>1 DEF LoadCatalog
<1> HIDE DEF m, NewCat
<1> QED  BY <1>2, <1>3, NewCatType DEF NodeStates

LEMMA KeptStep ==
  TypeInv /\ DiskOK /\ FileInv /\ TookInv /\ DownInv /\ KeptInv /\ [Next]_vars => KeptInv'
<1> SUFFICES ASSUME TypeInv, DiskOK, FileInv, TookInv, DownInv, KeptInv, [Next]_vars PROVE KeptInv'
  OBVIOUS
<1> DEFINE loaded == LoadCatalog
\* The file is left alone.
<1>a. ASSUME disk'.catalog = disk.catalog, kept' = kept,
             up' => \A e \in Puts : Holds(loaded, e) => Holds(cat', e)
      PROVE  KeptInv'
  <2>1. LoadCatalog' = loaded  BY <1>a DEF LoadCatalog
  <2>2. \A e \in kept : Holds(loaded, e)  BY DEF KeptInv
  <2> HIDE DEF loaded
  <2> QED  BY <1>a, <2>1, <2>2 DEF KeptInv, Holds
<1>1. CASE Crash
  <2>1. disk'.catalog = disk.catalog /\ kept' = kept /\ ~up'  BY <1>1, CrashLoses
  <2> HIDE DEF loaded
  <2> QED  BY <1>a, <2>1
<1>2. CASE Restart
  <2>1. disk'.catalog = disk.catalog /\ kept' = kept /\ cat' = loaded  BY <1>2 DEF Restart
  <2> HIDE DEF loaded
  <2> QED  BY <1>a, <2>1
<1>3. CASE ~Crash /\ ~Restart
  <2>1. \A e : Holds(cat, e) => Holds(cat', e)  BY <1>3, CatalogGrows
  <2>2. CASE UNCHANGED vars
    <3>1. disk' = disk /\ kept' = kept /\ up' = up  BY <2>2 DEF vars
    <3>2. up => \A e \in Puts : Holds(loaded, e) => Holds(cat, e)  BY DEF KeptInv
    <3> HIDE DEF loaded
    <3> QED  BY <1>a, <2>1, <3>1, <3>2
  <2>3. CASE up
    <3>1. \A e \in Puts : Holds(loaded, e) => Holds(cat', e)  BY <2>1, <2>3 DEF KeptInv
    <3>2. CASE disk'.catalog = disk.catalog /\ kept' = kept
      <4> HIDE DEF loaded
      <4> QED  BY <1>a, <3>1, <3>2
    <3>3. ASSUME NEW c \in Calls, SaveFile(c), call[c].file = 2 PROVE KeptInv'
      <4>1. /\ disk'.catalog = Whole(CatImage) /\ cat' = cat
            /\ kept' = kept \cup {e \in Range(call[c].took) : IsPut(e)}
        BY <3>3, FileSaved DEF SaveFile
      <4>2. LoadCatalog'.log = cat.log /\ LoadCatalog'.map = cat.map  BY <4>1, LoadsCatalog
      <4>3. c \in Threads /\ call[c].pc = "save"  BY <3>3, InThreads DEF SaveFile
      <4>4. ASSUME NEW e \in Range(call[c].took), IsPut(e) PROVE Holds(cat, e)
        <5>1. call[c].pending = <<>>  BY <4>3 DEF TookInv
        <5>2. Range(<<>>) = {}  BY DEF Range
        <5> QED  BY <4>3, <4>4, <5>1, <5>2 DEF TookInv
      <4>5. ASSUME NEW e \in kept PROVE Holds(cat, e)
        <5>1. e \in Puts  BY DEF TypeInv
        <5> QED  BY <2>3, <4>5, <5>1 DEF KeptInv
      <4>6. \A e \in kept' : Holds(cat, e)  BY <4>1, <4>4, <4>5
      <4> DEFINE loads == LoadCatalog'
      <4>7. \A e : Holds(loads, e) <=> Holds(cat, e)
        <5>1. loads.log = cat.log /\ loads.map = cat.map  BY <4>2
        <5> HIDE DEF loads
        <5> QED  BY <5>1, HoldsSame
      <4>8. /\ \A e \in kept' : Holds(loads, e)
            /\ \A e \in Puts : Holds(loads, e) => Holds(cat', e)
        <5> HIDE DEF loads
        <5> QED  BY <4>1, <4>6, <4>7, Zenon
      <4> QED  BY <4>8 DEF KeptInv, Holds
    <3>4. ASSUME NEW c \in Calls, SaveFile(c), call[c].file = 1 PROVE KeptInv'
      <4>1. disk'.catalog = disk.catalog /\ kept' = kept  BY <3>4, FileSaved
      <4> QED  BY <3>2, <4>1
    <3>5. ASSUME NEW c \in Calls, SaveFile(c) PROVE call[c].file = 1 \/ call[c].file = 2
      BY <3>5, FileSaved
    <3> QED  BY <3>2, <3>3, <3>4, <3>5, NothingSaved, Zenon
  <2> QED  BY <1>3, <2>2, <2>3, Running
<1> QED  BY <1>1, <1>2, <1>3

-----------------------------------------------------------------------------
(* The invariant, and what it shows.                                        *)

IInv ==
  TypeInv /\ FileInv /\ DiskOK /\ PeersInv /\ SavesInv /\ TookInv /\ DownInv /\ KeptInv

LEMMA IInvInit == Init => IInv
<1> SUFFICES ASSUME Init PROVE IInv  OBVIOUS
<1>1. TypeInv /\ DiskOK  BY TypeInit
<1>2. raft.peers = Initial /\ raft.role = "Follower" /\ cat = NewCat
  BY DEF Init, NewRaft
<1>3. \A t \in Threads : call[t].pc = "unsent" /\ call[t].pending = <<>> /\ call[t].took = <<>>
  BY DEF Init, Waiting
<1>4. disk.raft = Absent /\ disk.catalog = Absent /\ up /\ saves = {} /\ kept = {}
  BY DEF Init
<1>5. \A m : Whole(m) # Absent  BY DEF Whole, Absent
<1>6. Range(<<>>) = {}  BY DEF Range
<1>7. FileInv  BY <1>3, InThreads DEF FileInv, Saving
<1>8. PeersInv  BY <1>2, <1>4, <1>5, MetaDurableAssumption DEF PeersInv, PeersOf, Once
<1>9. SavesInv  BY <1>4 DEF SavesInv
<1>10. TookInv /\ DownInv  BY <1>3, <1>4, <1>6 DEF TookInv, DownInv
<1>11. KeptInv
  <2>1. LoadCatalog = cat  BY <1>2, <1>4 DEF LoadCatalog, Absent
  <2> QED  BY <1>4, <2>1 DEF KeptInv
<1> QED  BY <1>1, <1>7, <1>8, <1>9, <1>10, <1>11 DEF IInv

LEMMA IInvStep == IInv /\ [Next]_vars => IInv'
<1> SUFFICES ASSUME IInv, [Next]_vars PROVE IInv'  OBVIOUS
<1>1. TypeInv /\ FileInv /\ DiskOK /\ PeersInv /\ SavesInv /\ TookInv /\ DownInv /\ KeptInv
  BY DEF IInv
<1>2. TypeInv' /\ FileInv'  BY <1>1, TypeStep DEF PeersInv, PeersOf
<1>3. DiskOK'  BY <1>1, DiskStep
<1>4. PeersInv'  BY <1>1, PeersStep
<1>5. SavesInv'  BY <1>1, <1>2, SavesStep
<1>6. TookInv'  BY <1>1, TookStep
<1>7. DownInv'  BY <1>1, DownStep
<1>8. KeptInv'  BY <1>1, KeptStep
<1> QED  BY <1>2, <1>3, <1>4, <1>5, <1>6, <1>7, <1>8 DEF IInv

LEMMA Invariant == Spec => []IInv
BY IInvInit, IInvStep, PTL DEF Spec

\* Everything has its type: no peer comes from nowhere, whoever adds it, and only entries of
\* keys are in the catalog (blitz-meta raft.rs and lib.rs).
THEOREM TypesHold == Spec => []TypeOK
<1>1. IInv => TypeOK
  <2> SUFFICES ASSUME IInv PROVE TypeOK  OBVIOUS
  <2>0. raft \in RaftNodes /\ cat \in NodeStates /\ tick \in 0..MaxTerm  BY DEF IInv, TypeInv
  <2>1. /\ raft.role \in {"Follower", "Candidate", "Leader"} /\ raft.term \in 0..MaxTerm
        /\ raft.peers \in Seq(Nodes) /\ raft.log \in Seq(Entries)
    BY <2>0 DEF RaftNodes
  <2>2. Range(raft.peers) \subseteq Range(Initial) \cup Joiners
    <3>1. \A i \in DOMAIN raft.peers : raft.peers[i] \in Nodes  BY <2>1
    <3> QED  BY <3>1 DEF Range, Nodes
  <2>3. \A e \in Range(raft.log) : e.term <= MaxTerm /\ e.call \in Calls \cup Others
    <3>1. \A i \in DOMAIN raft.log : raft.log[i] \in Entries  BY <2>1
    <3>2. \A e \in Range(raft.log) : e \in Entries  BY <3>1 DEF Range
    <3> QED  BY <3>2, Bound DEF Entries, Proposals
  <2>4. \A e \in Range(cat.log) : IsPut(e)
    <3>1. cat.log \in Seq(Puts)  BY <2>0 DEF NodeStates
    <3>2. \A i \in DOMAIN cat.log : cat.log[i] \in Puts  BY <3>1
    <3> QED  BY <3>2 DEF Range, Puts
  <2> QED  BY <2>0, <2>1, <2>2, <2>3, <2>4 DEF TypeOK
<1> QED  BY <1>1, Invariant, PTL

\* Whenever the process ends, between any two steps of any number of threads and whatever saves
\* have failed, raft.bin and catalog.bin can be loaded or were never written (persist.rs
\* atomic_write).
THEOREM FilesAlwaysLoad == Spec => []FilesLoad
<1>1. IInv => FilesLoad
  <2> SUFFICES ASSUME IInv PROVE FilesLoad  OBVIOUS
  <2>1. disk.raft \in RaftFiles /\ disk.catalog \in CatFiles  BY DEF IInv, DiskOK
  <2>2. \A m : Whole(m).whole  BY DEF Whole
  <2>3. ~Absent.there  BY DEF Absent
  <2>4. /\ disk.raft.there => disk.raft.whole
        /\ disk.catalog.there => disk.catalog.whole
    BY <2>1, <2>2, <2>3 DEF RaftFiles, CatFiles
  <2> QED  BY <2>4 DEF FilesLoad
<1> QED  BY <1>1, Invariant, PTL

\* No term that one raft.bin was saved in is led in again after a restart, whatever saves failed
\* afterwards and whatever other nodes have sent (lib.rs tick, persist_now; persist.rs load_raft).
THEOREM TermsNotReused == Spec => []ReignsOnce
<1>1. IInv => ReignsOnce
  <2> SUFFICES ASSUME IInv, NEW s \in saves, s.life < crashes, raft.role = "Leader"
               PROVE  raft.term > s.term
    BY DEF ReignsOnce
  <2> QED  BY DEF IInv, SavesInv
<1> QED  BY <1>1, Invariant, PTL

\* The vote that one raft.bin was saved with is never another one in its term, through restarts,
\* failed saves, elections of the node and of others (raft.rs handle_request_vote,
\* handle_append_entries, start_election; persist.rs load_raft).
THEOREM SavedVotesBind == Spec => []VoteKept
<1>1. IInv => VoteKept  BY DEF IInv, SavesInv, Binds, VoteKept
<1> QED  BY <1>1, Invariant, PTL

\* What a thread took, applied and saved in catalog.bin stays in the catalog that a restart
\* loads, whatever other threads and leaders put into it or take off the log, whatever saves
\* fail (lib.rs apply_committed, persist_now; persist.rs load_catalog).
THEOREM AppliedKept == Spec => []AppliedSurvives
<1>1. IInv => AppliedSurvives  BY DEF IInv, KeptInv, AppliedSurvives
<1> QED  BY <1>1, Invariant, PTL

\* No peer is twice in the list that the majority is counted over, and the leader's bookkeeping
\* fits it, whatever ADD_PEER, REMOVE_PEER, changes of other leaders and activations race
\* (raft.rs apply_config_entry, activate_peer; lib.rs activate_new_peers).
THEOREM NoPeerTwice == Spec => []PeersOnce
<1>1. IInv => PeersOnce  BY DEF IInv, PeersInv, PeersOf, Once, PeersOnce
<1> QED  BY <1>1, Invariant, PTL

=============================================================================
