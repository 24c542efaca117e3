------------------------------ MODULE RampExec ------------------------------
(***************************************************************************)
(* One query of the ramped executor of blitz-exec: run_ramped on the       *)
(* coordinator, its local threads, its acceptor, a serve_worker thread for *)
(* each connection, and worker_main in each worker process.                *)
(*                                                                         *)
(* A morsel stands for the partial result of executing it, and the result  *)
(* says how often each morsel has been merged.  The queue is LIFO in the   *)
(* code; which morsel is popped makes no difference here, so it is a set.  *)
(*                                                                         *)
(* A peer is a worker, or the coordinator itself on the connection it      *)
(* makes to unblock its acceptor.  A connection is a pair of channels,     *)
(* whose ends are the server thread and the peer.  Reading from a peer     *)
(* that is gone may give what it had sent, or an error; writing to it may  *)
(* work or fail, and the code unwraps every write but the last.            *)
(***************************************************************************)
EXTENDS Integers, Sequences, FiniteSets

CONSTANTS
  Morsels,      \* what zone maps have left of the table's blocks
  NoMorsel,
  Locals,       \* local threads
  Workers,      \* worker processes
  Unblocker,    \* the coordinator's connection to itself
  Expected,     \* expected_workers
  Mortal        \* workers that may die

ASSUME MorselsAssumption == IsFiniteSet(Morsels) /\ NoMorsel \notin Morsels
ASSUME PeersAssumption ==
  /\ Unblocker \notin Workers
  /\ Mortal \subseteq Workers
  /\ Expected \in Nat

VARIABLES
  queue, result, morselsDone, doneLocal,   \* Shared
  local,              \* local threads, with their partial results
  coord,              \* the thread of run_ramped
  acceptor, joined,   \* the acceptor thread
  server,             \* one serve_worker thread a connection
  worker,             \* the other end of each connection
  toServer, toWorker  \* what is on its way

shared == <<queue, result, morselsDone, doneLocal>>
channels == <<toServer, toWorker>>
vars == <<shared, local, coord, acceptor, joined, server, worker, channels>>

Peers == Workers \cup {Unblocker}
Message == [type : {"query", "morsel", "done", "next", "partial"},
            morsel : Morsels \cup {NoMorsel}]
Msg(type, m) == [type |-> type, morsel |-> m]

Init ==
  /\ queue = Morsels
  /\ result = [m \in Morsels |-> 0]
  /\ morselsDone = 0
  /\ doneLocal = FALSE
  /\ local = [l \in Locals |-> [pc |-> "pop", part |-> {}]]
  /\ coord = "join"
  /\ acceptor = "check"
  /\ joined = 0
  /\ server = [p \in Peers |-> [pc |-> "none", morsel |-> NoMorsel]]
  /\ worker = [p \in Peers |-> [pc |-> "away", morsel |-> NoMorsel]]
  /\ toServer = [p \in Peers |-> <<>>]
  /\ toWorker = [p \in Peers |-> <<>>]

\* An aborting panic ends the coordinator's process, whose threads all stop.
Running == coord # "aborted"

\* finish, first half: under the lock of the result.
MergeInto(S) == result' = [m \in Morsels |-> result[m] + IF m \in S THEN 1 ELSE 0]
\* finish, second half: the atomic add.
Count(n) == morselsDone' = morselsDone + n

-----------------------------------------------------------------------------
(* Local threads.                                                           *)

PopMorsel(l, m) ==
  /\ local[l].pc = "pop"
  /\ m \in queue
  /\ queue' = queue \ {m}
  /\ local' = [local EXCEPT ![l].part = @ \cup {m}]
  /\ UNCHANGED <<result, morselsDone, doneLocal, coord, acceptor, joined, server, worker, channels>>

FindEmpty(l) ==
  /\ local[l].pc = "pop"
  /\ queue = {}
  /\ local' = [local EXCEPT ![l].pc = "merge"]
  /\ UNCHANGED <<shared, coord, acceptor, joined, server, worker, channels>>

MergeLocal(l) ==
  /\ local[l].pc = "merge"
  /\ MergeInto(local[l].part)
  /\ local' = [local EXCEPT ![l].pc = "count"]
  /\ UNCHANGED <<queue, morselsDone, doneLocal, coord, acceptor, joined, server, worker, channels>>

\* Variant: the thread looks at the queue again and keeps its partial result.
CountLocalAgain(l) ==
  /\ local[l].pc = "count"
  /\ Count(Cardinality(local[l].part))
  /\ local' = [local EXCEPT ![l].pc = IF queue = {} THEN "exited" ELSE "pop"]
  /\ UNCHANGED <<queue, result, doneLocal, coord, acceptor, joined, server, worker, channels>>
CountLocal(l) ==
  /\ local[l].pc = "count"
  /\ Count(Cardinality(local[l].part))
  /\ local' = [local EXCEPT ![l].pc = "exited"]
  /\ UNCHANGED <<queue, result, doneLocal, coord, acceptor, joined, server, worker, channels>>

Local(l) ==
  \/ FindEmpty(l) \/ MergeLocal(l) \/ CountLocal(l)
  \/ \E m \in Morsels : PopMorsel(l, m)

-----------------------------------------------------------------------------
(* The coordinator's own thread.                                            *)

JoinLocals ==
  /\ coord = "join"
  /\ \A l \in Locals : local[l].pc = "exited"
  /\ coord' = "wait"
  /\ UNCHANGED <<shared, local, acceptor, joined, server, worker, channels>>

\* Variant: the queue looked at instead of the count.
SeeQueueEmpty ==
  /\ coord = "wait"
  /\ queue = {}
  /\ doneLocal' = TRUE
  /\ coord' = "unblock"
  /\ UNCHANGED <<queue, result, morselsDone, local, acceptor, joined, server, worker, channels>>
SeeAllDone ==
  /\ coord = "wait"
  /\ morselsDone >= Cardinality(Morsels)
  /\ doneLocal' = TRUE
  /\ coord' = "unblock"
  /\ UNCHANGED <<queue, result, morselsDone, local, acceptor, joined, server, worker, channels>>

\* The connection is refused once the acceptor is gone; otherwise it is made and
\* closed at once.
Unblock ==
  /\ coord = "unblock"
  /\ IF acceptor = "ended"
       THEN UNCHANGED <<server, worker>>
       ELSE /\ server' = [server EXCEPT ![Unblocker].pc = "backlog"]
            /\ worker' = [worker EXCEPT ![Unblocker].pc = "gone"]
  /\ coord' = "joinAcceptor"
  /\ UNCHANGED <<shared, local, acceptor, joined, channels>>

Return ==
  /\ coord = "joinAcceptor"
  /\ acceptor = "ended"
  /\ coord' = "returned"
  /\ UNCHANGED <<shared, local, acceptor, joined, server, worker, channels>>

Coordinator == JoinLocals \/ SeeAllDone \/ Unblock \/ Return

-----------------------------------------------------------------------------
(* The acceptor thread.                                                     *)

CheckAccepting ==
  /\ acceptor = "check"
  /\ acceptor' = IF joined < Expected /\ ~doneLocal THEN "accept" ELSE "join"
  /\ UNCHANGED <<shared, local, coord, joined, server, worker, channels>>

Accept(p) ==
  /\ acceptor = "accept"
  /\ server[p].pc = "backlog"
  /\ server' = [server EXCEPT ![p].pc = "greet"]
  /\ joined' = joined + 1
  /\ acceptor' = "check"
  /\ UNCHANGED <<shared, local, coord, worker, channels>>

\* WouldBlock, after a short sleep; or another error, which ends the loop.
AcceptNothing ==
  /\ acceptor = "accept"
  /\ \/ acceptor' = "check" /\ \A p \in Peers : server[p].pc # "backlog"
     \/ acceptor' = "join"
  /\ UNCHANGED <<shared, local, coord, joined, server, worker, channels>>

\* All connection threads joined, panicked ones too; the listener is dropped.
JoinServers ==
  /\ acceptor = "join"
  /\ \A p \in Peers : server[p].pc \in {"none", "backlog", "ended", "panicked"}
  /\ acceptor' = "ended"
  /\ UNCHANGED <<shared, local, coord, joined, server, worker, channels>>

Acceptor ==
  \/ CheckAccepting \/ AcceptNothing \/ JoinServers
  \/ \E p \in Peers : Accept(p)

-----------------------------------------------------------------------------
(* serve_worker, one thread a connection.                                   *)

Gone(p) == worker[p].pc = "gone"

Greet(p) ==
  /\ server[p].pc = "greet"
  /\ toWorker' = [toWorker EXCEPT ![p] = Append(@, Msg("query", NoMorsel))]
  /\ server' = [server EXCEPT ![p].pc = "listen"]
  /\ UNCHANGED <<shared, local, coord, acceptor, joined, worker, toServer>>

\* A write to a peer that is gone fails and its unwrap panics.  Unwinding takes the
\* thread with its morsel; the release profile's panic = "abort" takes everything.
Panic(p) ==
  /\ server[p].pc \in {"greet", "send"}
  /\ Gone(p)
  /\ server' = [server EXCEPT ![p].pc = "panicked"]
  /\ coord' \in {coord, "aborted"}
  /\ UNCHANGED <<shared, local, acceptor, joined, worker, channels>>

\* Anything but MSG_NEXT ends the connection.
\* Variant: with an empty queue the worker is left waiting.
ReceiveNextPatient(p) ==
  /\ server[p].pc = "listen"
  /\ toServer[p] # <<>> /\ Head(toServer[p]).type = "next"
  /\ toServer' = [toServer EXCEPT ![p] = Tail(@)]
  /\ \E m \in queue :
       /\ queue' = queue \ {m}
       /\ server' = [server EXCEPT ![p] = [pc |-> "send", morsel |-> m]]
  /\ UNCHANGED <<result, morselsDone, doneLocal, local, coord, acceptor, joined, worker, toWorker>>
ReceiveNext(p) ==
  /\ server[p].pc = "listen"
  /\ toServer[p] # <<>>
  /\ toServer' = [toServer EXCEPT ![p] = Tail(@)]
  /\ IF Head(toServer[p]).type = "next" /\ queue # {}
       THEN \E m \in queue :
              /\ queue' = queue \ {m}
              /\ server' = [server EXCEPT ![p] = [pc |-> "send", morsel |-> m]]
              /\ UNCHANGED toWorker
       ELSE /\ server' = [server EXCEPT ![p].pc = "ended"]
            /\ toWorker' = IF Head(toServer[p]).type = "next"
                             THEN [toWorker EXCEPT ![p] = Append(@, Msg("done", NoMorsel))]
                             ELSE toWorker
            /\ UNCHANGED queue
  /\ UNCHANGED <<result, morselsDone, doneLocal, local, coord, acceptor, joined, worker>>

\* A read error between two morsels.
HangUp(p) ==
  /\ server[p].pc = "listen"
  /\ Gone(p)
  /\ server' = [server EXCEPT ![p].pc = "ended"]
  /\ UNCHANGED <<shared, local, coord, acceptor, joined, worker, channels>>

SendMorsel(p) ==
  /\ server[p].pc = "send"
  /\ toWorker' = [toWorker EXCEPT ![p] = Append(@, Msg("morsel", server[p].morsel))]
  /\ server' = [server EXCEPT ![p].pc = "await"]
  /\ UNCHANGED <<shared, local, coord, acceptor, joined, worker, toServer>>

\* From here on the thread works with the partial result it has read.
ReceivePartial(p) ==
  /\ server[p].pc = "await"
  /\ toServer[p] # <<>>
  /\ Head(toServer[p]).type = "partial"
  /\ toServer' = [toServer EXCEPT ![p] = Tail(@)]
  /\ server' = [server EXCEPT ![p] = [pc |-> "merge", morsel |-> Head(toServer[p]).morsel]]
  /\ UNCHANGED <<shared, local, coord, acceptor, joined, worker, toWorker>>

\* A read error or a bad message where a partial result should come.
ReadFails(p) ==
  \/ Gone(p)
  \/ toServer[p] # <<>> /\ Head(toServer[p]).type # "partial"

ReturnMorsel(p) ==
  /\ server[p].pc = "await"
  /\ ReadFails(p)
  /\ queue' = queue \cup {server[p].morsel}
  /\ server' = [server EXCEPT ![p] = [pc |-> "ended", morsel |-> NoMorsel]]
  /\ UNCHANGED <<result, morselsDone, doneLocal, local, coord, acceptor, joined, worker, channels>>

MergePartial(p) ==
  /\ server[p].pc = "merge"
  /\ MergeInto({server[p].morsel})
  /\ server' = [server EXCEPT ![p].pc = "count"]
  /\ UNCHANGED <<queue, morselsDone, doneLocal, local, coord, acceptor, joined, worker, channels>>

\* Variant: merged but not counted.
CountPartialNot(p) ==
  /\ server[p].pc = "count"
  /\ server' = [server EXCEPT ![p] = [pc |-> "listen", morsel |-> NoMorsel]]
  /\ UNCHANGED <<shared, local, coord, acceptor, joined, worker, channels>>
CountPartial(p) ==
  /\ server[p].pc = "count"
  /\ Count(1)
  /\ server' = [server EXCEPT ![p] = [pc |-> "listen", morsel |-> NoMorsel]]
  /\ UNCHANGED <<queue, result, doneLocal, local, coord, acceptor, joined, worker, channels>>

Server(p) ==
  \/ Greet(p) \/ Panic(p) \/ ReceiveNext(p) \/ HangUp(p) \/ SendMorsel(p)
  \/ ReceivePartial(p) \/ ReturnMorsel(p) \/ MergePartial(p) \/ CountPartial(p)

-----------------------------------------------------------------------------
(* worker_main.                                                             *)

coordinatorVars == <<shared, local, coord, acceptor, joined>>

\* The connection waits in the backlog until it is accepted.
Connect(w) ==
  /\ Running /\ acceptor # "ended"
  /\ worker[w].pc = "away"
  /\ worker' = [worker EXCEPT ![w].pc = "greet"]
  /\ server' = [server EXCEPT ![w].pc = "backlog"]
  /\ UNCHANGED <<coordinatorVars, channels>>

ReadQuery(w) ==
  /\ worker[w].pc = "greet"
  /\ toWorker[w] # <<>>
  /\ toWorker' = [toWorker EXCEPT ![w] = Tail(@)]
  /\ worker' = [worker EXCEPT ![w].pc = "ask"]
  /\ UNCHANGED <<coordinatorVars, server, toServer>>

AskNext(w) ==
  /\ worker[w].pc = "ask"
  /\ toServer' = [toServer EXCEPT ![w] = Append(@, Msg("next", NoMorsel))]
  /\ worker' = [worker EXCEPT ![w].pc = "wait"]
  /\ UNCHANGED <<coordinatorVars, server, toWorker>>

ReadAnswer(w) ==
  /\ worker[w].pc = "wait"
  /\ toWorker[w] # <<>>
  /\ toWorker' = [toWorker EXCEPT ![w] = Tail(@)]
  /\ worker' = [worker EXCEPT ![w] =
       IF Head(toWorker[w]).type = "morsel"
         THEN [pc |-> "exec", morsel |-> Head(toWorker[w]).morsel]
         ELSE [pc |-> "gone", morsel |-> NoMorsel]]
  /\ UNCHANGED <<coordinatorVars, server, toServer>>

SendPartial(w) ==
  /\ worker[w].pc = "exec"
  /\ toServer' = [toServer EXCEPT ![w] = Append(@, Msg("partial", worker[w].morsel))]
  /\ worker' = [worker EXCEPT ![w] = [pc |-> "ask", morsel |-> NoMorsel]]
  /\ UNCHANGED <<coordinatorVars, server, toWorker>>

Connected(w) == worker[w].pc \notin {"away", "gone"}
Leave(w) == worker' = [worker EXCEPT ![w] = [pc |-> "gone", morsel |-> NoMorsel]]

\* The worker finds its connection closed: its thread has ended, the listener was
\* dropped before it was accepted, or the coordinator has aborted.
FindClosed(w) ==
  /\ Connected(w)
  /\ \/ server[w].pc \in {"ended", "panicked"}
     \/ server[w].pc = "backlog" /\ acceptor = "ended"
     \/ ~Running
  /\ Leave(w)
  /\ UNCHANGED <<coordinatorVars, server, channels>>

Die(w) ==
  /\ w \in Mortal
  /\ Connected(w)
  /\ Leave(w)
  /\ UNCHANGED <<coordinatorVars, server, channels>>

Worker(w) ==
  ReadQuery(w) \/ AskNext(w) \/ ReadAnswer(w) \/ SendPartial(w) \/ FindClosed(w)

-----------------------------------------------------------------------------
Process ==
  /\ Running
  /\ \/ Coordinator \/ Acceptor
     \/ \E l \in Locals : Local(l)
     \/ \E p \in Peers : Server(p)

Next ==
  \/ Process
  \/ \E w \in Workers : Connect(w) \/ Worker(w) \/ Die(w)

Spec == Init /\ [][Next]_vars

-----------------------------------------------------------------------------
(* Properties.                                                              *)

\* The values the variables take.
TypeOK ==
  /\ queue \subseteq Morsels
  /\ result \in [Morsels -> Nat]
  /\ morselsDone \in Nat
  /\ doneLocal \in BOOLEAN
  /\ local \in [Locals -> [pc : {"pop", "merge", "count", "exited"}, part : SUBSET Morsels]]
  /\ coord \in {"join", "wait", "unblock", "joinAcceptor", "returned", "aborted"}
  /\ acceptor \in {"check", "accept", "join", "ended"}
  /\ joined \in 0..Expected
  /\ server \in [Peers -> [pc : {"none", "backlog", "greet", "listen", "send", "await",
                                 "merge", "count", "ended", "panicked"},
                           morsel : Morsels \cup {NoMorsel}]]
  /\ worker \in [Peers -> [pc : {"away", "greet", "ask", "wait", "exec", "gone"},
                           morsel : Morsels \cup {NoMorsel}]]
  /\ toServer \in [Peers -> Seq(Message)]
  /\ toWorker \in [Peers -> Seq(Message)]

\* Who may have taken a morsel: a local thread, or the thread of a connection.
Holders == ({"local"} \X Locals) \cup ({"server"} \X Peers)

\* The morsels a thread has taken and neither merged nor returned; a thread that has
\* panicked never will.
Hand(h) ==
  IF h[1] = "local"
    THEN IF local[h[2]].pc \in {"pop", "merge"} THEN local[h[2]].part ELSE {}
    ELSE IF server[h[2]].pc \in {"send", "await", "merge", "panicked"}
           THEN {server[h[2]].morsel} \ {NoMorsel} ELSE {}
InHand == UNION {Hand(h) : h \in Holders}

\* run_ramped keeps the promise of TaskPool: whatever threads and workers join, die
\* and return, an answer has every morsel in it once.
Pool == INSTANCE TaskPool WITH
  Tasks <- Morsels, todo <- queue, taken <- InHand, counted <- result,
  outcome <- IF coord = "returned" THEN "answered"
             ELSE IF coord = "aborted" THEN "failed" ELSE "running"
PoolSpec == Pool!Spec

\* A morsel is in one place: in the queue, in one thread's hands, or in the result,
\* there once.
OnePlace ==
  /\ \A h \in Holders : Hand(h) \cap queue = {}
  /\ \A h, k \in Holders : h # k => Hand(h) \cap Hand(k) = {}
  /\ \A m \in Morsels : result[m] = IF m \in queue \cup InHand THEN 0 ELSE 1

FairSpec ==
  /\ Spec
  /\ WF_vars(Running /\ Coordinator)
  /\ WF_vars(Running /\ Acceptor)
  /\ \A l \in Locals : WF_vars(Running /\ Local(l))
  /\ \A p \in Peers : WF_vars(Running /\ Server(p))
  /\ \A w \in Workers : WF_vars(Worker(w))

\* A morsel that a panicked thread holds, or that was returned after all local threads
\* had left.
Stranded ==
  \/ \E p \in Peers : server[p].pc = "panicked" /\ server[p].morsel # NoMorsel
  \/ queue # {} /\ \A l \in Locals : local[l].pc # "pop"

\* The query comes to an end, however many workers join and however late, unless a
\* morsel stays stranded: nothing else can hang it.
QueryReturns == <>(coord \in {"returned", "aborted"}) \/ <>[]Stranded

\* A worker that has connected, accepted or not, is let go in the end.
WorkersReleased == \A w \in Workers : Connected(w) ~> worker[w].pc = "gone"

\* ARCHITECTURE.md:34: "a worker that dies mid-morsel has its morsel returned to the
\* queue", from where somebody takes it.
QueuedMorselsTaken == \A m \in Morsels : (m \in queue) ~> (m \notin queue)

\* lib.rs:621: "Worker died mid-morsel: return it to the queue", ARCHITECTURE.md:34.
\* A thread that has taken a morsel for a worker lives to return it.
WorkerDeathSurvived ==
  \A w \in Workers : server[w].pc = "panicked" => server[w].morsel = NoMorsel

=============================================================================
