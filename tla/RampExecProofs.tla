--------------------------- MODULE RampExecProofs ---------------------------
(***************************************************************************)
(* Theorems about RampExec, for every number of morsels, threads and       *)
(* workers, whichever of them die: its types, that a morsel is in one      *)
(* place, and that it implements TaskPool.                                 *)
(***************************************************************************)
EXTENDS RampExec, FiniteSetTheorems, TLAPS

-----------------------------------------------------------------------------
(* The invariant, in four parts.                                           *)

LocalRecords == [pc : {"pop", "merge", "count", "exited"}, part : SUBSET Morsels]
ServerPcs ==
  {"none", "backlog", "greet", "listen", "send", "await", "merge", "count", "ended", "panicked"}
ServerRecords == [pc : ServerPcs, morsel : Morsels \cup {NoMorsel}]
WorkerRecords ==
  [pc : {"away", "greet", "ask", "wait", "exec", "gone"}, morsel : Morsels \cup {NoMorsel}]

\* Before a connection thread asks for a morsel it has none, and then it has one.
Serving ==
  \A p \in Peers :
    /\ server[p].pc \in {"none", "backlog", "greet", "listen"} => server[p].morsel = NoMorsel
    /\ server[p].pc \in {"send", "await", "merge", "count"} => server[p].morsel \in Morsels

\* Which threads are still at work, and when the acceptor may try to accept.
Course ==
  /\ acceptor = "accept" => joined < Expected
  /\ server[Unblocker].pc # "none" => coord \in {"joinAcceptor", "returned", "aborted"}
  /\ \A p \in Peers : worker[p].pc = "away" => server[p].pc = "none"
  /\ coord \notin {"join", "aborted"} => \A l \in Locals : local[l].pc = "exited"
  /\ acceptor = "ended" =>
       \A p \in Peers : server[p].pc \in {"none", "backlog", "ended", "panicked"}
  /\ coord = "returned" => acceptor = "ended"

\* The exchange on the connection of p: request and answer alternate, and the partial
\* result that arrives is the one of the morsel that was sent.
Empty(p) == toServer[p] = <<>> /\ toWorker[p] = <<>>
Asking(p) ==
  /\ toWorker[p] = <<>>
  /\ \/ toServer[p] = <<>> /\ worker[p].pc \in {"ask", "gone"}
     \/ toServer[p] = <<Msg("next", NoMorsel)>> /\ worker[p].pc \in {"wait", "gone"}
Answering(p, m) ==
  \/ /\ toWorker[p] = <<Msg("morsel", m)>> /\ toServer[p] = <<>>
     /\ worker[p].pc \in {"wait", "gone"}
  \/ /\ Empty(p)
     /\ \/ worker[p].pc = "exec" /\ worker[p].morsel = m
        \/ worker[p].pc = "gone"
  \/ /\ toWorker[p] = <<>> /\ toServer[p] = <<Msg("partial", m)>>
     /\ worker[p].pc \in {"ask", "gone"}
  \/ /\ toWorker[p] = <<>> /\ toServer[p] = <<Msg("partial", m), Msg("next", NoMorsel)>>
     /\ worker[p].pc \in {"wait", "gone"}

Exchange(p) ==
  /\ server[p].pc \in {"none", "backlog", "greet"} =>
       Empty(p) /\ worker[p].pc \in {"away", "greet", "gone"}
  /\ server[p].pc = "listen" =>
       \/ /\ toWorker[p] = <<Msg("query", NoMorsel)>> /\ toServer[p] = <<>>
          /\ worker[p].pc \in {"greet", "gone"}
       \/ Asking(p)
  /\ server[p].pc = "send" => Empty(p) /\ worker[p].pc \in {"wait", "gone"}
  /\ server[p].pc = "await" => Answering(p, server[p].morsel)
  /\ server[p].pc \in {"merge", "count"} => Asking(p)
Exchanges == \A p \in Peers : Exchange(p)

\* A thread owns its morsels until it has counted them, which is after merging them.
Own(h) ==
  IF h[1] = "local"
    THEN IF local[h[2]].pc # "exited" THEN local[h[2]].part ELSE {}
    ELSE IF server[h[2]].pc \in {"send", "await", "merge", "count", "panicked"}
           THEN {server[h[2]].morsel} \ {NoMorsel} ELSE {}

Counted == {m \in Morsels \ queue : \A h \in Holders : m \notin Own(h)}

\* Every morsel has one place, and morselsDone counts those that are done.
Places ==
  /\ \A h \in Holders : Hand(h) \subseteq Own(h) /\ Own(h) \cap queue = {}
  /\ \A h, k \in Holders : h # k => Own(h) \cap Own(k) = {}
  /\ \A m \in Morsels : result[m] = IF m \in queue \cup InHand THEN 0 ELSE 1
  /\ morselsDone = Cardinality(Counted)
  /\ coord \in {"unblock", "joinAcceptor", "returned"} => Counted = Morsels

Inv == TypeOK /\ Serving /\ Course /\ Exchanges /\ Places

-----------------------------------------------------------------------------
(* What one holder's step does to the places of morsels, and what it is    *)
(* for TaskPool.                                                           *)

\* All holders but h keep what they have.
OthersKeep(h) == \A k \in Holders \ {h} : Own(k)' = Own(k) /\ Hand(k)' = Hand(k)

LEMMA CountedFinite == IsFiniteSet(Counted) /\ Cardinality(Counted) \in Nat
BY MorselsAssumption, FS_Subset, FS_CardinalityType DEF Counted

LEMMA InHandMember == \A m : m \in InHand <=> \E h \in Holders : m \in Hand(h)
BY DEF InHand

LEMMA AllKept ==
  ASSUME Places, UNCHANGED <<queue, result, morselsDone>>,
         \A h \in Holders : Own(h)' = Own(h) /\ Hand(h)' = Hand(h),
         coord' \in {"unblock", "joinAcceptor", "returned"} =>
           coord \in {"unblock", "joinAcceptor", "returned"}
  PROVE  Places' /\ InHand' = InHand
<1>1. InHand' = InHand
  BY DEF InHand
<1>2. Counted' = Counted
  BY DEF Counted
<1>3. QED
  BY <1>1, <1>2 DEF Places

LEMMA TakePlaces ==
  ASSUME TypeOK, Places, NEW h \in Holders, NEW m \in queue,
         queue' = queue \ {m}, UNCHANGED <<result, morselsDone, coord>>,
         Own(h)' = Own(h) \cup {m}, Hand(h)' = Hand(h) \cup {m}, OthersKeep(h),
         coord \notin {"returned", "aborted"}
  PROVE  Places' /\ Pool!Next
<1> USE DEF OthersKeep
<1>1. m \in Morsels /\ \A k \in Holders : m \notin Own(k) /\ m \notin Hand(k)
  BY DEF TypeOK, Places
<1>2. InHand' = InHand \cup {m}
  BY DEF InHand
<1>3. Counted' = Counted
  <2>1. \A x \in Morsels : x \in Counted' <=> x \in Counted
    BY <1>1 DEF Counted
  <2>2. QED
    BY <2>1 DEF Counted
<1>4. Places'
  <2>1. \A k \in Holders : Hand(k)' \subseteq Own(k)' /\ Own(k)' \cap queue' = {}
    BY <1>1 DEF Places
  <2>2. \A k, j \in Holders : k # j => Own(k)' \cap Own(j)' = {}
    BY <1>1 DEF Places
  <2>3. \A x \in Morsels : result'[x] = IF x \in queue' \cup InHand' THEN 0 ELSE 1
    <3>1. \A x : x \in queue' \cup InHand' <=> x \in queue \cup InHand
      BY <1>2
    <3>2. QED
      BY <3>1 DEF Places
  <2>4. QED
    BY <1>3, <2>1, <2>2, <2>3 DEF Places
<1>5. Pool!Take(m)
  BY <1>1, <1>2 DEF Pool!Take
<1>6. QED
  BY <1>1, <1>4, <1>5 DEF Pool!Next

LEMMA MergePlaces ==
  ASSUME TypeOK, Places, NEW h \in Holders, MergeInto(Own(h)),
         UNCHANGED <<queue, morselsDone, coord>>,
         Hand(h) = Own(h), Own(h)' = Own(h), Hand(h)' = {}, OthersKeep(h),
         Own(h) \subseteq Morsels, coord \notin {"returned", "aborted"}
  PROVE  Places' /\ Pool!Next
<1> USE DEF OthersKeep
<1>1. \A k \in Holders \ {h} : Hand(k) \cap Own(h) = {}
  BY DEF Places
<1>2. InHand' = InHand \ Own(h) /\ Own(h) \subseteq InHand
  BY <1>1 DEF InHand
<1>3. Counted' = Counted
  BY DEF Counted
<1>4. Places'
  <2>1. \A k \in Holders : Hand(k)' \subseteq Own(k)' /\ Own(k)' \cap queue' = {}
    BY DEF Places
  <2>2. \A k, j \in Holders : k # j => Own(k)' \cap Own(j)' = {}
    BY DEF Places
  <2>3. ASSUME NEW x \in Morsels
        PROVE  result'[x] = IF x \in queue' \cup InHand' THEN 0 ELSE 1
    <3>1. /\ result'[x] = result[x] + IF x \in Own(h) THEN 1 ELSE 0
          /\ result[x] = IF x \in queue \cup InHand THEN 0 ELSE 1
      BY DEF MergeInto, Places
    <3>2. x \in Own(h) => x \notin queue /\ x \in InHand /\ x \notin InHand'
      BY <1>2 DEF Places
    <3>3. x \notin Own(h) => (x \in InHand' <=> x \in InHand)
      BY <1>2
    <3>4. QED
      BY <3>1, <3>2, <3>3
  <2>4. QED
    BY <1>3, <2>1, <2>2, <2>3 DEF Places
<1>5. \E S \in SUBSET Morsels : Pool!Merge(S)
  <2>1. PICK S \in SUBSET Morsels : S = Own(h)
    OBVIOUS
  <2>2. Pool!Merge(S)
    BY <1>2, <2>1 DEF Pool!Merge, MergeInto
  <2>3. QED
    BY <2>2
<1>6. QED
  BY <1>4, <1>5 DEF Pool!Next

LEMMA CountPlaces ==
  ASSUME TypeOK, Places, NEW h \in Holders, Count(Cardinality(Own(h))),
         UNCHANGED <<queue, result, coord>>,
         Hand(h) = {}, Own(h)' = {}, Hand(h)' = {}, OthersKeep(h),
         Own(h) \subseteq Morsels
  PROVE  Places' /\ InHand' = InHand
<1> USE DEF OthersKeep
<1>1. InHand' = InHand
  BY DEF InHand
<1>2. Counted' = Counted \cup Own(h) /\ Counted \cap Own(h) = {}
  <2>1. \A x \in Morsels : x \in Counted' <=> x \in Counted \/ x \in Own(h)
    BY DEF Counted, Places
  <2>2. QED
    BY <2>1 DEF Counted
<1>3. morselsDone' = Cardinality(Counted')
  <2>1. IsFiniteSet(Own(h)) /\ Cardinality(Own(h)) \in Nat
    BY MorselsAssumption, FS_Subset, FS_CardinalityType
  <2>2. Cardinality(Counted \cup Own(h)) = Cardinality(Counted) + Cardinality(Own(h))
        - Cardinality(Counted \cap Own(h))
    BY <2>1, CountedFinite, FS_Union
  <2>3. Cardinality(Counted \cap Own(h)) = 0
    BY <1>2, FS_EmptySet
  <2>4. Cardinality(Counted') = Cardinality(Counted) + Cardinality(Own(h))
    BY <1>2, <2>1, <2>2, <2>3, CountedFinite
  <2>5. QED
    BY <2>4 DEF Count, Places
<1>4. coord' \in {"unblock", "joinAcceptor", "returned"} => Counted' = Morsels
  BY <1>2 DEF Places
<1>5. /\ \A k \in Holders : Hand(k)' \subseteq Own(k)' /\ Own(k)' \cap queue' = {}
      /\ \A k, j \in Holders : k # j => Own(k)' \cap Own(j)' = {}
      /\ \A x \in Morsels : result'[x] = IF x \in queue' \cup InHand' THEN 0 ELSE 1
  BY <1>1 DEF Places
<1>6. QED
  BY <1>1, <1>3, <1>4, <1>5 DEF Places

LEMMA ReturnPlaces ==
  ASSUME TypeOK, Places, NEW h \in Holders, NEW m \in Morsels,
         Own(h) = {m}, Hand(h) = {m}, queue' = queue \cup {m},
         Own(h)' = {}, Hand(h)' = {}, OthersKeep(h),
         UNCHANGED <<result, morselsDone, coord>>, coord \notin {"returned", "aborted"}
  PROVE  Places' /\ Pool!Next
<1> USE DEF OthersKeep
<1>1. \A k \in Holders \ {h} : m \notin Own(k) /\ m \notin Hand(k)
  BY DEF Places
<1>2. InHand' = InHand \ {m} /\ m \in InHand
  BY <1>1 DEF InHand
<1>3. Counted' = Counted
  <2>1. \A x \in Morsels : x \in Counted' <=> x \in Counted
    BY <1>1 DEF Counted
  <2>2. QED
    BY <2>1 DEF Counted
<1>4. Places'
  <2>1. \A k \in Holders : Hand(k)' \subseteq Own(k)' /\ Own(k)' \cap queue' = {}
    BY <1>1 DEF Places
  <2>2. \A k, j \in Holders : k # j => Own(k)' \cap Own(j)' = {}
    BY DEF Places
  <2>3. \A x \in Morsels : result'[x] = IF x \in queue' \cup InHand' THEN 0 ELSE 1
    <3>1. \A x : x \in queue' \cup InHand' <=> x \in queue \cup InHand
      BY <1>2
    <3>2. QED
      BY <3>1 DEF Places
  <2>4. QED
    BY <1>3, <2>1, <2>2, <2>3 DEF Places
<1>5. Pool!GiveBack(m)
  BY <1>2 DEF Pool!GiveBack
<1>6. QED
  BY <1>4, <1>5 DEF Pool!Next

-----------------------------------------------------------------------------
(* Local threads.                                                          *)

LEMMA LocalHands ==
  ASSUME TypeOK, NEW l \in Locals, NEW r \in LocalRecords,
         local' = [local EXCEPT ![l] = r], UNCHANGED server
  PROVE  LET h == <<"local", l>> IN
         /\ h \in Holders
         /\ Own(h) = IF local[l].pc # "exited" THEN local[l].part ELSE {}
         /\ Hand(h) = IF local[l].pc \in {"pop", "merge"} THEN local[l].part ELSE {}
         /\ Own(h)' = IF r.pc # "exited" THEN r.part ELSE {}
         /\ Hand(h)' = IF r.pc \in {"pop", "merge"} THEN r.part ELSE {}
         /\ OthersKeep(h)
<1> DEFINE h == <<"local", l>>
<1>1. /\ local'[l] = r /\ \A k \in Locals \ {l} : local'[k] = local[k]
      /\ h \in Holders /\ h[1] = "local" /\ h[2] = l
  BY DEF TypeOK, LocalRecords, Holders
<1>2. ASSUME NEW k \in Holders \ {h}
      PROVE  Own(k)' = Own(k) /\ Hand(k)' = Hand(k)
  <2>1. CASE k \in {"local"} \X Locals
    <3>1. k = <<"local", k[2]>> /\ k[2] \in Locals
      BY <2>1
    <3>2. k[2] # l
      BY <3>1
    <3>3. QED
      BY <1>1, <3>1, <3>2 DEF Own, Hand
  <2>2. CASE k \in {"server"} \X Peers
    BY <2>2 DEF Own, Hand
  <2>3. QED
    BY <2>1, <2>2 DEF Holders
<1>3. QED
  BY <1>1, <1>2 DEF Own, Hand, OthersKeep

\* Before its last step a local thread keeps the coordinator joining.
LEMMA LocalFrame ==
  ASSUME Inv, Running, NEW l \in Locals, NEW r \in LocalRecords,
         local[l].pc # "exited", local' = [local EXCEPT ![l] = r],
         UNCHANGED <<doneLocal, coord, acceptor, joined, server, worker, channels>>,
         queue' \subseteq Morsels, result' \in [Morsels -> Nat], morselsDone' \in Nat
  PROVE  TypeOK' /\ Serving' /\ Course' /\ Exchanges' /\ coord = "join"
<1>1. coord = "join"
  BY DEF Inv, Course, Running
<1>2. TypeOK'
  BY DEF Inv, TypeOK, LocalRecords, channels
<1>3. Serving' /\ Course'
  BY <1>1 DEF Inv, Serving, Course
<1>4. Exchanges'
  BY DEF Inv, Exchanges, Exchange, Empty, Asking, Answering, channels
<1>5. QED
  BY <1>1, <1>2, <1>3, <1>4

LEMMA LocalStep ==
  ASSUME Inv, Running, NEW l \in Locals, Local(l)
  PROVE  Inv' /\ [Pool!Next]_(Pool!vars)
<1> DEFINE h == <<"local", l>>
<1>0. /\ local[l] \in LocalRecords /\ local[l].part \subseteq Morsels
      /\ TypeOK /\ Places /\ queue \subseteq Morsels /\ result \in [Morsels -> Nat]
      /\ morselsDone \in Nat
  BY DEF Inv, TypeOK, LocalRecords
<1>1. ASSUME NEW m \in Morsels, PopMorsel(l, m) PROVE Inv' /\ Pool!Next
  <2> DEFINE r == [local[l] EXCEPT !.part = local[l].part \cup {m}]
  <2>1. /\ r \in LocalRecords /\ r.pc = "pop" /\ r.part = local[l].part \cup {m}
        /\ local' = [local EXCEPT ![l] = r] /\ local[l].pc = "pop"
    BY <1>0, <1>1 DEF PopMorsel, LocalRecords
  <2> HIDE DEF r
  <2>2. TypeOK' /\ Serving' /\ Course' /\ Exchanges' /\ coord = "join"
    BY <1>0, <1>1, <2>1, LocalFrame DEF PopMorsel
  <2>3. /\ h \in Holders /\ OthersKeep(h)
        /\ Own(h)' = Own(h) \cup {m} /\ Hand(h)' = Hand(h) \cup {m}
    <3>1. TypeOK /\ UNCHANGED server
      BY <1>0, <1>1 DEF PopMorsel
    <3>2. QED
      BY <2>1, <3>1, LocalHands
  <2>4. m \in queue /\ queue' = queue \ {m} /\ UNCHANGED <<result, morselsDone, coord>>
    BY <1>1 DEF PopMorsel
  <2> HIDE DEF h
  <2>5. Places' /\ Pool!Next
    BY <1>0, <2>2, <2>3, <2>4, TakePlaces
  <2>6. QED
    BY <2>2, <2>5 DEF Inv
<1>2. CASE FindEmpty(l)
  <2> DEFINE r == [local[l] EXCEPT !.pc = "merge"]
  <2>1. /\ r \in LocalRecords /\ r.pc = "merge" /\ r.part = local[l].part
        /\ local' = [local EXCEPT ![l] = r] /\ local[l].pc = "pop"
    BY <1>0, <1>2 DEF FindEmpty, LocalRecords
  <2> HIDE DEF r
  <2>2. TypeOK' /\ Serving' /\ Course' /\ Exchanges' /\ coord = "join"
    BY <1>0, <1>2, <2>1, LocalFrame DEF FindEmpty, shared
  <2>3. /\ h \in Holders /\ OthersKeep(h) /\ Own(h)' = Own(h) /\ Hand(h)' = Hand(h)
    <3>1. TypeOK /\ UNCHANGED server
      BY <1>0, <1>2 DEF FindEmpty
    <3>2. QED
      BY <2>1, <3>1, LocalHands
  <2>4. Places' /\ InHand' = InHand
    BY <1>0, <1>2, <2>3, AllKept DEF FindEmpty, shared, OthersKeep
  <2>5. QED
    BY <1>2, <2>2, <2>4 DEF Inv, Pool!vars, FindEmpty, shared
<1>3. CASE MergeLocal(l)
  <2> DEFINE r == [local[l] EXCEPT !.pc = "count"]
  <2>1. /\ r \in LocalRecords /\ r.pc = "count" /\ r.part = local[l].part
        /\ local' = [local EXCEPT ![l] = r] /\ local[l].pc = "merge"
    BY <1>0, <1>3 DEF MergeLocal, LocalRecords
  <2> HIDE DEF r
  <2>2. result' \in [Morsels -> Nat]
    BY <1>0, <1>3 DEF MergeLocal, MergeInto
  <2>3. TypeOK' /\ Serving' /\ Course' /\ Exchanges' /\ coord = "join"
    BY <1>0, <1>3, <2>1, <2>2, LocalFrame DEF MergeLocal
  <2>4. /\ h \in Holders /\ OthersKeep(h) /\ Hand(h) = Own(h)
        /\ Own(h) = local[l].part /\ Own(h)' = Own(h) /\ Hand(h)' = {}
    <3>1. TypeOK /\ UNCHANGED server
      BY <1>0, <1>3 DEF MergeLocal
    <3>2. QED
      BY <2>1, <3>1, LocalHands
  <2>5. MergeInto(local[l].part) /\ UNCHANGED <<queue, morselsDone, coord>>
    BY <1>3 DEF MergeLocal
  <2>6. MergeInto(Own(h))
    BY <2>4, <2>5 DEF MergeInto
  <2> HIDE DEF h
  <2>7. Places' /\ Pool!Next
    BY <1>0, <2>3, <2>4, <2>5, <2>6, MergePlaces
  <2>8. QED
    BY <2>3, <2>7 DEF Inv
<1>4. CASE CountLocal(l)
  <2> DEFINE r == [local[l] EXCEPT !.pc = "exited"]
  <2>1. /\ r \in LocalRecords /\ r.pc = "exited" /\ local[l].pc = "count"
        /\ local' = [local EXCEPT ![l] = r]
    BY <1>0, <1>4 DEF CountLocal, LocalRecords
  <2> HIDE DEF r
  <2>2. morselsDone' \in Nat
    <3>1. Cardinality(local[l].part) \in Nat
      BY <1>0, MorselsAssumption, FS_Subset, FS_CardinalityType
    <3>2. QED
      BY <1>0, <1>4, <3>1 DEF CountLocal, Count
  <2>3. TypeOK' /\ Serving' /\ Course' /\ Exchanges' /\ coord = "join"
    BY <1>0, <1>4, <2>1, <2>2, LocalFrame DEF CountLocal
  <2>4. /\ h \in Holders /\ OthersKeep(h) /\ Hand(h) = {}
        /\ Own(h) = local[l].part /\ Own(h)' = {} /\ Hand(h)' = {}
    <3>1. TypeOK /\ UNCHANGED server
      BY <1>0, <1>4 DEF CountLocal
    <3>2. QED
      BY <2>1, <3>1, LocalHands
  <2>5. Count(Cardinality(local[l].part)) /\ UNCHANGED <<queue, result, coord>>
    BY <1>4 DEF CountLocal
  <2>6. Count(Cardinality(Own(h)))
    BY <2>4, <2>5 DEF Count
  <2> HIDE DEF h
  <2>7. Places' /\ InHand' = InHand
    BY <1>0, <2>4, <2>5, <2>6, CountPlaces
  <2>8. QED
    BY <2>3, <2>5, <2>7 DEF Inv, Pool!vars
<1>5. QED
  BY <1>1, <1>2, <1>3, <1>4 DEF Local

-----------------------------------------------------------------------------
(* The threads of connections.                                             *)

LEMMA ServerHands ==
  ASSUME TypeOK, NEW p \in Peers, NEW r \in ServerRecords,
         server' = [server EXCEPT ![p] = r], UNCHANGED local
  PROVE  LET h == <<"server", p>>
             owning == {"send", "await", "merge", "count", "panicked"}
             handling == {"send", "await", "merge", "panicked"} IN
         /\ h \in Holders
         /\ Own(h) = IF server[p].pc \in owning THEN {server[p].morsel} \ {NoMorsel} ELSE {}
         /\ Hand(h) = IF server[p].pc \in handling THEN {server[p].morsel} \ {NoMorsel} ELSE {}
         /\ Own(h)' = IF r.pc \in owning THEN {r.morsel} \ {NoMorsel} ELSE {}
         /\ Hand(h)' = IF r.pc \in handling THEN {r.morsel} \ {NoMorsel} ELSE {}
         /\ OthersKeep(h)
<1> DEFINE h == <<"server", p>>
<1>1. /\ server'[p] = r /\ \A q \in Peers \ {p} : server'[q] = server[q]
      /\ h \in Holders /\ h[1] = "server" /\ h[2] = p
  BY DEF TypeOK, ServerRecords, Holders
<1>2. ASSUME NEW k \in Holders \ {h}
      PROVE  Own(k)' = Own(k) /\ Hand(k)' = Hand(k)
  <2>1. CASE k \in {"server"} \X Peers
    <3>1. k = <<"server", k[2]>> /\ k[2] \in Peers
      BY <2>1
    <3>2. k[2] # p
      BY <3>1
    <3>3. QED
      BY <1>1, <3>1, <3>2 DEF Own, Hand
  <2>2. CASE k \in {"local"} \X Locals
    BY <2>2 DEF Own, Hand
  <2>3. QED
    BY <2>1, <2>2 DEF Holders
<1>3. QED
  BY <1>1, <1>2 DEF Own, Hand, OthersKeep

\* A step on the connection of p changes the exchange there only.
LEMMA OneExchange ==
  ASSUME Exchanges, NEW p \in Peers, Exchange(p)',
         \A q \in Peers \ {p} :
           /\ server'[q] = server[q] /\ worker'[q] = worker[q]
           /\ toServer'[q] = toServer[q] /\ toWorker'[q] = toWorker[q]
  PROVE  Exchanges'
<1>1. ASSUME NEW q \in Peers \ {p} PROVE Exchange(q)'
  BY DEF Exchanges, Exchange, Empty, Asking, Answering
<1>2. QED
  BY <1>1 DEF Exchanges

Idle == {"none", "backlog", "ended", "panicked"}

\* While a connection thread is at work run_ramped has not returned.
LEMMA ServerFrame ==
  ASSUME Inv, Running, NEW p \in Peers, NEW r \in ServerRecords,
         server[p].pc \notin Idle, r.pc \notin {"none", "backlog"},
         server' = [server EXCEPT ![p] = r],
         r.pc \in {"greet", "listen"} => r.morsel = NoMorsel,
         r.pc \in {"send", "await", "merge", "count"} => r.morsel \in Morsels,
         UNCHANGED <<doneLocal, local, acceptor, joined, worker>>,
         coord' \in {coord, "aborted"},
         queue' \subseteq Morsels, result' \in [Morsels -> Nat], morselsDone' \in Nat,
         NEW s \in Seq(Message), toServer' = [toServer EXCEPT ![p] = s],
         NEW t \in Seq(Message), toWorker' = [toWorker EXCEPT ![p] = t],
         Exchange(p)'
  PROVE  TypeOK' /\ Serving' /\ Course' /\ Exchanges' /\ coord \notin {"returned", "aborted"}
<1> USE DEF Inv
<1>1. coord \notin {"returned", "aborted"}
  BY DEF Course, Running, Idle
<1>2. /\ server'[p] = r /\ \A q \in Peers \ {p} : server'[q] = server[q]
      /\ server' \in [Peers -> ServerRecords]
  BY DEF TypeOK, ServerRecords, ServerPcs
<1>3. TypeOK'
  BY <1>2 DEF TypeOK, ServerRecords, ServerPcs
<1>4. Serving'
  BY <1>2 DEF Serving
<1>5. Course'
  BY <1>1, <1>2 DEF Course, Idle, Peers
<1>6. Exchanges'
  BY <1>2, OneExchange DEF TypeOK
<1>7. QED
  BY <1>1, <1>3, <1>4, <1>5, <1>6

LEMMA PeerTypes ==
  ASSUME Inv, NEW p \in Peers
  PROVE  /\ TypeOK /\ Places /\ Exchange(p)
         /\ server[p] \in ServerRecords /\ worker[p] \in WorkerRecords
         /\ queue \subseteq Morsels /\ result \in [Morsels -> Nat] /\ morselsDone \in Nat
         /\ toServer[p] \in Seq(Message) /\ toServer = [toServer EXCEPT ![p] = toServer[p]]
         /\ toWorker[p] \in Seq(Message) /\ toWorker = [toWorker EXCEPT ![p] = toWorker[p]]
         /\ server = [server EXCEPT ![p] = server[p]]
BY DEF Inv, TypeOK, Exchanges, ServerRecords, ServerPcs, WorkerRecords

LEMMA ShortSequences ==
  ASSUME NEW x \in Message, NEW y \in Message
  PROVE  /\ Append(<<>>, x) = <<x>> /\ Append(<<x>>, y) = <<x, y>>
         /\ Head(<<x>>) = x /\ Head(<<x, y>>) = x
         /\ Tail(<<x>>) = <<>> /\ Tail(<<x, y>>) = <<y>>
<1> DEFINE a == Append(<<x>>, y)
<1>1. <<x>> \in Seq(Message) /\ Len(<<x>>) = 1 /\ <<x>>[1] = x
  OBVIOUS
<1>2. <<x, y>> \in Seq(Message) /\ Len(<<x, y>>) = 2 /\ <<x, y>>[1] = x /\ <<x, y>>[2] = y
  OBVIOUS
<1>3. a \in Seq(Message) /\ Len(a) = 2 /\ a[1] = x /\ a[2] = y
  BY <1>1
<1> HIDE DEF a
<1>4. a = <<x, y>>
  BY <1>2, <1>3
<1>5. Append(<<>>, x) = <<x>> /\ Tail(<<x>>) = <<>> /\ Tail(<<x, y>>) = <<y>>
  OBVIOUS
<1>6. QED
  BY <1>4, <1>5 DEF a

\* What is said on a connection.
LEMMA Messages ==
  ASSUME NEW x \in {"query", "morsel", "done", "next", "partial"},
         NEW m \in Morsels \cup {NoMorsel}
  PROVE  /\ Msg(x, m) \in Message /\ Msg(x, m).type = x /\ Msg(x, m).morsel = m
         /\ <<Msg(x, m)>> \in Seq(Message)
<1>1. Msg(x, m) \in Message
  BY DEF Msg, Message
<1>2. QED
  BY <1>1 DEF Msg

LEMMA Kept ==
  ASSUME Inv, UNCHANGED <<queue, result, morselsDone, coord>>,
         NEW h \in Holders, Own(h)' = Own(h), Hand(h)' = Hand(h), OthersKeep(h)
  PROVE  Places' /\ UNCHANGED Pool!vars
<1>1. Places' /\ InHand' = InHand
  BY AllKept DEF Inv, OthersKeep
<1>2. QED
  BY <1>1 DEF Pool!vars

LEMMA GreetStep ==
  ASSUME Inv, Running, NEW p \in Peers, Greet(p)
  PROVE  Inv' /\ [Pool!Next]_(Pool!vars)
<1> DEFINE h == <<"server", p>>
<1> DEFINE r == [server[p] EXCEPT !.pc = "listen"]
<1> DEFINE t == Append(toWorker[p], Msg("query", NoMorsel))
<1>1. server[p].pc = "greet" /\ server[p].morsel = NoMorsel /\ Empty(p)
      /\ worker[p].pc \in {"away", "greet", "gone"} /\ worker[p].pc # "away"
  BY PeerTypes DEF Greet, Inv, Serving, Exchange, Course
<1>2. /\ r \in ServerRecords /\ r.pc = "listen" /\ r.morsel = NoMorsel
      /\ server' = [server EXCEPT ![p] = r] /\ server'[p] = r
  <2>1. server[p] \in ServerRecords /\ server \in [Peers -> ServerRecords]
    BY PeerTypes DEF Inv, TypeOK, ServerRecords, ServerPcs
  <2>2. QED
    BY <1>1, <2>1 DEF Greet, ServerRecords, ServerPcs
<1>3. /\ t = <<Msg("query", NoMorsel)>> /\ t \in Seq(Message)
      /\ toWorker' = [toWorker EXCEPT ![p] = t] /\ toWorker'[p] = t
  BY <1>1, PeerTypes, Messages DEF Greet, Empty, Inv, TypeOK
<1> HIDE DEF r, t
<1>4. Exchange(p)'
  BY <1>1, <1>2, <1>3 DEF Exchange, Greet, Empty
<1>5. TypeOK' /\ Serving' /\ Course' /\ Exchanges'
  <2>1. toServer' = [toServer EXCEPT ![p] = toServer[p]] /\ toServer[p] \in Seq(Message)
    BY PeerTypes DEF Greet
  <2>2. /\ queue' \subseteq Morsels /\ result' \in [Morsels -> Nat] /\ morselsDone' \in Nat
        /\ UNCHANGED <<doneLocal, local, acceptor, joined, worker>> /\ coord' = coord
    BY PeerTypes DEF Greet, shared
  <2>3. QED
    BY <1>1, <1>2, <1>3, <1>4, <2>1, <2>2, ServerFrame DEF Idle
<1>6. h \in Holders /\ OthersKeep(h) /\ Own(h)' = Own(h) /\ Hand(h)' = Hand(h)
  BY <1>1, <1>2, PeerTypes, ServerHands DEF Greet
<1> HIDE DEF h
<1>7. Places' /\ UNCHANGED Pool!vars
  BY <1>6, Kept DEF Greet, shared
<1>8. QED
  BY <1>5, <1>7 DEF Inv

\* The morsel is lost with the thread, or the whole run fails.
LEMMA PanicStep ==
  ASSUME Inv, Running, NEW p \in Peers, Panic(p)
  PROVE  Inv' /\ [Pool!Next]_(Pool!vars)
<1> DEFINE h == <<"server", p>>
<1> DEFINE r == [server[p] EXCEPT !.pc = "panicked"]
<1>1. /\ server[p].pc \in {"greet", "send"} /\ UNCHANGED channels
      /\ server[p].pc = "greet" => server[p].morsel = NoMorsel
  BY DEF Panic, Inv, Serving
<1>2. /\ r \in ServerRecords /\ r.pc = "panicked" /\ r.morsel = server[p].morsel
      /\ server' = [server EXCEPT ![p] = r] /\ server'[p] = r
  <2>1. server[p] \in ServerRecords /\ server \in [Peers -> ServerRecords]
    BY PeerTypes DEF Inv, TypeOK, ServerRecords, ServerPcs
  <2>2. QED
    BY <2>1 DEF Panic, ServerRecords, ServerPcs
<1> HIDE DEF r
<1>3. Exchange(p)'
  BY <1>2 DEF Exchange
<1>4. coord' \in {coord, "aborted"}
  BY DEF Panic
<1>5. TypeOK' /\ Serving' /\ Course' /\ Exchanges' /\ coord \notin {"returned", "aborted"}
  <2>1. /\ toServer' = [toServer EXCEPT ![p] = toServer[p]] /\ toServer[p] \in Seq(Message)
        /\ toWorker' = [toWorker EXCEPT ![p] = toWorker[p]] /\ toWorker[p] \in Seq(Message)
    BY <1>1, PeerTypes DEF channels
  <2>2. /\ queue' \subseteq Morsels /\ result' \in [Morsels -> Nat] /\ morselsDone' \in Nat
        /\ UNCHANGED <<doneLocal, local, acceptor, joined, worker>>
    BY PeerTypes DEF Panic, shared
  <2>3. QED
    BY <1>1, <1>2, <1>3, <1>4, <2>1, <2>2, ServerFrame DEF Idle
<1>6. h \in Holders /\ OthersKeep(h) /\ Own(h)' = Own(h) /\ Hand(h)' = Hand(h)
  <2>1. TypeOK /\ UNCHANGED local
    BY DEF Inv, Panic
  <2>2. /\ h \in Holders /\ OthersKeep(h)
        /\ Own(h)' = {r.morsel} \ {NoMorsel} /\ Hand(h)' = {r.morsel} \ {NoMorsel}
        /\ server[p].pc = "greet" => Own(h) = {} /\ Hand(h) = {}
        /\ server[p].pc = "send" => /\ Own(h) = {server[p].morsel} \ {NoMorsel}
                                   /\ Hand(h) = {server[p].morsel} \ {NoMorsel}
    BY <1>2, <2>1, ServerHands
  <2>3. {NoMorsel} \ {NoMorsel} = {}
    OBVIOUS
  <2>4. QED
    BY <1>1, <1>2, <2>2, <2>3
<1> HIDE DEF h
<1>7. Places' /\ InHand' = InHand
  <2>1. UNCHANGED <<queue, result, morselsDone>>
    BY DEF Panic, shared
  <2>2. QED
    BY <1>4, <1>6, <2>1, AllKept DEF Inv, OthersKeep
<1>8. [Pool!Next]_(Pool!vars)
  <2>1. CASE coord' = "aborted"
    <3>1. Pool!Fail
      BY <1>7, <2>1 DEF Pool!Fail, Panic, shared
    <3>2. QED
      BY <1>5, <3>1 DEF Pool!Next
  <2>2. CASE coord' = coord
    BY <1>7, <2>2 DEF Pool!vars, Panic, shared
  <2>3. QED
    BY <1>4, <2>1, <2>2
<1>9. QED
  BY <1>5, <1>7, <1>8 DEF Inv

LEMMA ReceiveNextStep ==
  ASSUME Inv, Running, NEW p \in Peers, ReceiveNext(p)
  PROVE  Inv' /\ [Pool!Next]_(Pool!vars)
<1> DEFINE h == <<"server", p>>
<1> DEFINE s == Tail(toServer[p])
<1>1. /\ server[p].pc = "listen" /\ server[p].morsel = NoMorsel
      /\ toServer[p] = <<Msg("next", NoMorsel)>> /\ toWorker[p] = <<>>
      /\ worker[p].pc \in {"wait", "gone"}
  BY PeerTypes DEF ReceiveNext, Inv, Serving, Exchange, Asking
<1>2. Head(toServer[p]).type = "next"
  BY <1>1, NoMorsel \in Morsels \cup {NoMorsel}, Messages
<1>3. /\ s = <<>> /\ s \in Seq(Message)
      /\ toServer' = [toServer EXCEPT ![p] = s] /\ toServer'[p] = s
  BY <1>1, PeerTypes DEF ReceiveNext, Inv, TypeOK
<1> HIDE DEF s
<1>4. ASSUME NEW m \in queue, queue' = queue \ {m},
             server' = [server EXCEPT ![p] = [pc |-> "send", morsel |-> m]], UNCHANGED toWorker
      PROVE  Inv' /\ Pool!Next
  <2> DEFINE r == [pc |-> "send", morsel |-> m]
  <2>1. /\ r \in ServerRecords /\ r.pc = "send" /\ r.morsel = m /\ m \in Morsels /\ m # NoMorsel
        /\ server' = [server EXCEPT ![p] = r] /\ server'[p] = r
    BY <1>4, PeerTypes, MorselsAssumption DEF ServerRecords, ServerPcs, Inv, TypeOK
  <2> HIDE DEF r
  <2>2. Exchange(p)'
    BY <1>1, <1>3, <1>4, <2>1 DEF Exchange, ReceiveNext, Empty
  <2>3. queue' \subseteq Morsels
    BY <1>4, PeerTypes
  <2>4. TypeOK' /\ Serving' /\ Course' /\ Exchanges' /\ coord \notin {"returned", "aborted"}
    BY <1>1, <1>3, <1>4, <2>1, <2>2, <2>3, PeerTypes, ServerFrame DEF ReceiveNext, Idle
  <2>5. /\ h \in Holders /\ OthersKeep(h)
        /\ Own(h)' = Own(h) \cup {m} /\ Hand(h)' = Hand(h) \cup {m}
    <3>1. TypeOK /\ UNCHANGED local
      BY DEF Inv, ReceiveNext
    <3>2. /\ h \in Holders /\ OthersKeep(h) /\ Own(h) = {} /\ Hand(h) = {}
          /\ Own(h)' = {m} \ {NoMorsel} /\ Hand(h)' = {m} \ {NoMorsel}
      BY <1>1, <2>1, <3>1, ServerHands
    <3>3. {m} \ {NoMorsel} = {} \cup {m}
      BY <2>1
    <3>4. QED
      BY <3>2, <3>3
  <2> HIDE DEF h
  <2>6. UNCHANGED <<result, morselsDone, coord>>
    BY DEF ReceiveNext
  <2>7. Places' /\ Pool!Next
    BY <1>4, <2>4, <2>5, <2>6, PeerTypes, TakePlaces
  <2>8. QED
    BY <2>4, <2>7 DEF Inv
<1>5. ASSUME server' = [server EXCEPT ![p].pc = "ended"], UNCHANGED queue,
             toWorker' = [toWorker EXCEPT ![p] = Append(toWorker[p], Msg("done", NoMorsel))]
      PROVE  Inv' /\ UNCHANGED Pool!vars
  <2> DEFINE r == [server[p] EXCEPT !.pc = "ended"]
  <2> DEFINE t == Append(toWorker[p], Msg("done", NoMorsel))
  <2>1. /\ r \in ServerRecords /\ r.pc = "ended" /\ r.morsel = NoMorsel
        /\ server' = [server EXCEPT ![p] = r] /\ server'[p] = r
    BY <1>1, <1>5, PeerTypes DEF ServerRecords, ServerPcs, Inv, TypeOK
  <2>2. t \in Seq(Message) /\ toWorker' = [toWorker EXCEPT ![p] = t]
    BY <1>1, <1>5, PeerTypes, Messages
  <2> HIDE DEF r, t
  <2>3. Exchange(p)'
    BY <2>1 DEF Exchange
  <2>4. TypeOK' /\ Serving' /\ Course' /\ Exchanges'
    BY <1>1, <1>3, <1>5, <2>1, <2>2, <2>3, PeerTypes, ServerFrame DEF ReceiveNext, Idle
  <2>5. h \in Holders /\ OthersKeep(h) /\ Own(h)' = Own(h) /\ Hand(h)' = Hand(h)
    BY <1>1, <2>1, PeerTypes, ServerHands DEF ReceiveNext
  <2> HIDE DEF h
  <2>6. Places' /\ UNCHANGED Pool!vars
    BY <1>5, <2>5, Kept DEF ReceiveNext
  <2>7. QED
    BY <2>4, <2>6 DEF Inv
<1>6. QED
  BY <1>2, <1>4, <1>5 DEF ReceiveNext

LEMMA HangUpStep ==
  ASSUME Inv, Running, NEW p \in Peers, HangUp(p)
  PROVE  Inv' /\ [Pool!Next]_(Pool!vars)
<1> DEFINE h == <<"server", p>>
<1> DEFINE r == [server[p] EXCEPT !.pc = "ended"]
<1>1. server[p].pc = "listen" /\ server[p].morsel = NoMorsel /\ UNCHANGED channels
  BY DEF HangUp, Inv, Serving
<1>2. /\ r \in ServerRecords /\ r.pc = "ended" /\ r.morsel = NoMorsel
      /\ server' = [server EXCEPT ![p] = r] /\ server'[p] = r
  <2>1. server[p] \in ServerRecords /\ server \in [Peers -> ServerRecords]
    BY PeerTypes DEF Inv, TypeOK, ServerRecords, ServerPcs
  <2>2. QED
    BY <1>1, <2>1 DEF HangUp, ServerRecords, ServerPcs
<1> HIDE DEF r
<1>3. Exchange(p)'
  BY <1>2 DEF Exchange
<1>4. TypeOK' /\ Serving' /\ Course' /\ Exchanges'
  BY <1>1, <1>2, <1>3, PeerTypes, ServerFrame DEF HangUp, shared, Idle, channels
<1>5. h \in Holders /\ OthersKeep(h) /\ Own(h)' = Own(h) /\ Hand(h)' = Hand(h)
  BY <1>1, <1>2, PeerTypes, ServerHands DEF HangUp
<1> HIDE DEF h
<1>6. Places' /\ UNCHANGED Pool!vars
  BY <1>5, Kept DEF HangUp, shared
<1>7. QED
  BY <1>4, <1>6 DEF Inv

LEMMA SendMorselStep ==
  ASSUME Inv, Running, NEW p \in Peers, SendMorsel(p)
  PROVE  Inv' /\ [Pool!Next]_(Pool!vars)
<1> DEFINE h == <<"server", p>>
<1> DEFINE r == [server[p] EXCEPT !.pc = "await"]
<1> DEFINE t == Append(toWorker[p], Msg("morsel", server[p].morsel))
<1>1. /\ server[p].pc = "send" /\ server[p].morsel \in Morsels /\ Empty(p)
      /\ worker[p].pc \in {"wait", "gone"}
  BY PeerTypes DEF SendMorsel, Inv, Serving, Exchange
<1>2. /\ r \in ServerRecords /\ r.pc = "await" /\ r.morsel = server[p].morsel
      /\ server' = [server EXCEPT ![p] = r] /\ server'[p] = r
  <2>1. server[p] \in ServerRecords /\ server \in [Peers -> ServerRecords]
    BY PeerTypes DEF Inv, TypeOK, ServerRecords, ServerPcs
  <2>2. QED
    BY <1>1, <2>1 DEF SendMorsel, ServerRecords, ServerPcs
<1>3. /\ t = <<Msg("morsel", server[p].morsel)>> /\ t \in Seq(Message)
      /\ toWorker' = [toWorker EXCEPT ![p] = t] /\ toWorker'[p] = t
  BY <1>1, PeerTypes, Messages DEF SendMorsel, Empty, Inv, TypeOK
<1> HIDE DEF r, t
<1>4. Exchange(p)'
  BY <1>1, <1>2, <1>3 DEF Exchange, SendMorsel, Empty, Answering
<1>5. TypeOK' /\ Serving' /\ Course' /\ Exchanges'
  <2>1. toServer' = [toServer EXCEPT ![p] = toServer[p]] /\ toServer[p] \in Seq(Message)
    BY PeerTypes DEF SendMorsel
  <2>2. /\ queue' \subseteq Morsels /\ result' \in [Morsels -> Nat] /\ morselsDone' \in Nat
        /\ UNCHANGED <<doneLocal, local, acceptor, joined, worker>> /\ coord' = coord
    BY PeerTypes DEF SendMorsel, shared
  <2>3. QED
    BY <1>1, <1>2, <1>3, <1>4, <2>1, <2>2, ServerFrame DEF Idle
<1>6. h \in Holders /\ OthersKeep(h) /\ Own(h)' = Own(h) /\ Hand(h)' = Hand(h)
  <2>1. TypeOK /\ UNCHANGED local
    BY DEF Inv, SendMorsel
  <2>2. QED
    BY <1>1, <1>2, <2>1, ServerHands
<1> HIDE DEF h
<1>7. Places' /\ UNCHANGED Pool!vars
  BY <1>6, Kept DEF SendMorsel, shared
<1>8. QED
  BY <1>5, <1>7 DEF Inv

\* The partial result that arrives is the one of the morsel the thread holds.
LEMMA ReceivePartialStep ==
  ASSUME Inv, Running, NEW p \in Peers, ReceivePartial(p)
  PROVE  Inv' /\ [Pool!Next]_(Pool!vars)
<1> DEFINE h == <<"server", p>>
<1> DEFINE r == [pc |-> "merge", morsel |-> Head(toServer[p]).morsel]
<1> DEFINE s == Tail(toServer[p])
<1> DEFINE n == Msg("next", NoMorsel)
<1>1. /\ server[p].pc = "await" /\ server[p].morsel \in Morsels
      /\ Answering(p, server[p].morsel) /\ toServer[p] # <<>>
  BY PeerTypes DEF ReceivePartial, Inv, Serving, Exchange
<1>2. PICK m \in Morsels : m = server[p].morsel
  BY <1>1
<1>3. /\ toWorker[p] = <<>>
      /\ \/ toServer[p] = <<Msg("partial", m)>> /\ worker[p].pc \in {"ask", "gone"}
         \/ toServer[p] = <<Msg("partial", m), n>> /\ worker[p].pc \in {"wait", "gone"}
  BY <1>1, <1>2 DEF Answering, Empty
<1>4. Msg("partial", m) \in Message /\ Msg("partial", m).morsel = m /\ n \in Message
  BY Messages
<1> HIDE DEF n
<1>5. Head(toServer[p]).morsel = m
  <2>1. \A x, y : Head(<<x>>) = x /\ Head(<<x, y>>) = x
    OBVIOUS
  <2>2. QED
    BY <1>3, <1>4, <2>1
<1> DEFINE a == Msg("partial", m)
<1> HIDE DEF a
<1>6. \/ s = <<>> /\ worker[p].pc \in {"ask", "gone"}
      \/ s = <<n>> /\ worker[p].pc \in {"wait", "gone"}
  <2>1. Tail(<<a>>) = <<>> /\ Tail(<<a, n>>) = <<n>>
    OBVIOUS
  <2>2. QED
    BY <1>3, <2>1 DEF a
<1>7. s \in Seq(Message)
  <2>1. toServer[p] \in Seq(Message)
    BY PeerTypes
  <2>2. QED
    BY <1>1, <2>1
<1>8. toServer' = [toServer EXCEPT ![p] = s] /\ toServer'[p] = s
  BY PeerTypes DEF ReceivePartial, Inv, TypeOK
<1>9. /\ r \in ServerRecords /\ r.pc = "merge" /\ r.morsel = m
      /\ server' = [server EXCEPT ![p] = r] /\ server'[p] = r
  <2>1. server[p] \in ServerRecords /\ server \in [Peers -> ServerRecords]
    BY PeerTypes DEF Inv, TypeOK, ServerRecords, ServerPcs
  <2>2. QED
    BY <1>5, <2>1 DEF ReceivePartial, ServerRecords, ServerPcs
<1> HIDE DEF r, s
<1>10. Exchange(p)'
  BY <1>3, <1>6, <1>8, <1>9 DEF Exchange, ReceivePartial, Asking, n
<1>11. TypeOK' /\ Serving' /\ Course' /\ Exchanges'
  <2>1. toWorker' = [toWorker EXCEPT ![p] = toWorker[p]] /\ toWorker[p] \in Seq(Message)
    BY PeerTypes DEF ReceivePartial
  <2>2. /\ queue' \subseteq Morsels /\ result' \in [Morsels -> Nat] /\ morselsDone' \in Nat
        /\ UNCHANGED <<doneLocal, local, acceptor, joined, worker>> /\ coord' = coord
    BY PeerTypes DEF ReceivePartial, shared
  <2>3. QED
    BY <1>1, <1>7, <1>8, <1>9, <1>10, <2>1, <2>2, ServerFrame DEF Idle
<1>12. h \in Holders /\ OthersKeep(h) /\ Own(h)' = Own(h) /\ Hand(h)' = Hand(h)
  <2>1. TypeOK /\ UNCHANGED local
    BY DEF Inv, ReceivePartial
  <2>2. QED
    BY <1>1, <1>2, <1>9, <2>1, ServerHands
<1> HIDE DEF h
<1>13. Places' /\ UNCHANGED Pool!vars
  BY <1>12, Kept DEF ReceivePartial, shared
<1>14. QED
  BY <1>11, <1>13 DEF Inv

LEMMA ReturnMorselStep ==
  ASSUME Inv, Running, NEW p \in Peers, ReturnMorsel(p)
  PROVE  Inv' /\ [Pool!Next]_(Pool!vars)
<1> DEFINE h == <<"server", p>>
<1> DEFINE r == [pc |-> "ended", morsel |-> NoMorsel]
<1>1. PICK m \in Morsels : m = server[p].morsel
  BY PeerTypes DEF ReturnMorsel, Inv, Serving
<1>2. /\ server[p].pc = "await" /\ queue' = queue \cup {m}
      /\ UNCHANGED <<result, morselsDone, doneLocal, local, coord, acceptor, joined, worker, channels>>
  BY <1>1 DEF ReturnMorsel
<1>3. /\ r \in ServerRecords /\ r.pc = "ended" /\ r.morsel = NoMorsel
      /\ server' = [server EXCEPT ![p] = r] /\ server'[p] = r
  <2>1. server[p] \in ServerRecords /\ server \in [Peers -> ServerRecords]
    BY PeerTypes DEF Inv, TypeOK, ServerRecords, ServerPcs
  <2>2. QED
    BY <2>1 DEF ReturnMorsel, ServerRecords, ServerPcs
<1> HIDE DEF r
<1>4. Exchange(p)'
  BY <1>3 DEF Exchange
<1>5. TypeOK' /\ Serving' /\ Course' /\ Exchanges' /\ coord \notin {"returned", "aborted"}
  <2>1. /\ toServer' = [toServer EXCEPT ![p] = toServer[p]] /\ toServer[p] \in Seq(Message)
        /\ toWorker' = [toWorker EXCEPT ![p] = toWorker[p]] /\ toWorker[p] \in Seq(Message)
    BY <1>2, PeerTypes DEF channels
  <2>2. /\ queue' \subseteq Morsels /\ result' \in [Morsels -> Nat] /\ morselsDone' \in Nat
    BY <1>2, PeerTypes
  <2>3. QED
    BY <1>2, <1>3, <1>4, <2>1, <2>2, ServerFrame DEF Idle
<1>6. /\ h \in Holders /\ OthersKeep(h)
      /\ Own(h) = {m} /\ Hand(h) = {m} /\ Own(h)' = {} /\ Hand(h)' = {}
  <2>1. TypeOK /\ {m} \ {NoMorsel} = {m}
    BY MorselsAssumption DEF Inv
  <2>2. QED
    BY <1>1, <1>2, <1>3, <2>1, ServerHands
<1> HIDE DEF h
<1>7. Places' /\ Pool!Next
  BY <1>2, <1>5, <1>6, PeerTypes, ReturnPlaces
<1>8. QED
  BY <1>5, <1>7 DEF Inv

LEMMA MergePartialStep ==
  ASSUME Inv, Running, NEW p \in Peers, MergePartial(p)
  PROVE  Inv' /\ [Pool!Next]_(Pool!vars)
<1> DEFINE h == <<"server", p>>
<1> DEFINE r == [server[p] EXCEPT !.pc = "count"]
<1>1. PICK m \in Morsels : m = server[p].morsel
  BY PeerTypes DEF MergePartial, Inv, Serving
<1>2. /\ server[p].pc = "merge" /\ MergeInto({m}) /\ Asking(p)
      /\ UNCHANGED <<queue, morselsDone, doneLocal, local, coord, acceptor, joined, worker, channels>>
  BY <1>1, PeerTypes DEF MergePartial, MergeInto, Exchange
<1>3. /\ r \in ServerRecords /\ r.pc = "count" /\ r.morsel = m
      /\ server' = [server EXCEPT ![p] = r] /\ server'[p] = r
  <2>1. server[p] \in ServerRecords /\ server \in [Peers -> ServerRecords]
    BY PeerTypes DEF Inv, TypeOK, ServerRecords, ServerPcs
  <2>2. QED
    BY <1>1, <2>1 DEF MergePartial, ServerRecords, ServerPcs
<1> HIDE DEF r
<1>4. Exchange(p)'
  BY <1>2, <1>3 DEF Exchange, Asking, channels
<1>5. TypeOK' /\ Serving' /\ Course' /\ Exchanges' /\ coord \notin {"returned", "aborted"}
  <2>1. /\ toServer' = [toServer EXCEPT ![p] = toServer[p]] /\ toServer[p] \in Seq(Message)
        /\ toWorker' = [toWorker EXCEPT ![p] = toWorker[p]] /\ toWorker[p] \in Seq(Message)
    BY <1>2, PeerTypes DEF channels
  <2>2. /\ queue' \subseteq Morsels /\ result' \in [Morsels -> Nat] /\ morselsDone' \in Nat
    BY <1>2, PeerTypes DEF MergeInto
  <2>3. QED
    BY <1>2, <1>3, <1>4, <2>1, <2>2, ServerFrame DEF Idle
<1>6. /\ h \in Holders /\ OthersKeep(h)
      /\ Own(h) = {m} /\ Hand(h) = {m} /\ Own(h)' = {m} /\ Hand(h)' = {}
  <2>1. TypeOK /\ {m} \ {NoMorsel} = {m}
    BY MorselsAssumption DEF Inv
  <2>2. QED
    BY <1>1, <1>2, <1>3, <2>1, ServerHands
<1> HIDE DEF h
<1>7. Places' /\ Pool!Next
  <2>1. MergeInto(Own(h))
    BY <1>2, <1>6 DEF MergeInto
  <2>2. QED
    BY <1>2, <1>5, <1>6, <2>1, PeerTypes, MergePlaces
<1>8. QED
  BY <1>5, <1>7 DEF Inv

LEMMA CountPartialStep ==
  ASSUME Inv, Running, NEW p \in Peers, CountPartial(p)
  PROVE  Inv' /\ [Pool!Next]_(Pool!vars)
<1> DEFINE h == <<"server", p>>
<1> DEFINE r == [pc |-> "listen", morsel |-> NoMorsel]
<1>1. PICK m \in Morsels : m = server[p].morsel
  BY PeerTypes DEF CountPartial, Inv, Serving
<1>2. /\ server[p].pc = "count" /\ Count(1) /\ Asking(p)
      /\ UNCHANGED <<queue, result, doneLocal, local, coord, acceptor, joined, worker, channels>>
  BY PeerTypes DEF CountPartial, Exchange
<1>3. /\ r \in ServerRecords /\ r.pc = "listen" /\ r.morsel = NoMorsel
      /\ server' = [server EXCEPT ![p] = r] /\ server'[p] = r
  <2>1. server[p] \in ServerRecords /\ server \in [Peers -> ServerRecords]
    BY PeerTypes DEF Inv, TypeOK, ServerRecords, ServerPcs
  <2>2. QED
    BY <2>1 DEF CountPartial, ServerRecords, ServerPcs
<1> HIDE DEF r
<1>4. Exchange(p)'
  BY <1>2, <1>3 DEF Exchange, Asking, channels
<1>5. TypeOK' /\ Serving' /\ Course' /\ Exchanges'
  <2>1. /\ toServer' = [toServer EXCEPT ![p] = toServer[p]] /\ toServer[p] \in Seq(Message)
        /\ toWorker' = [toWorker EXCEPT ![p] = toWorker[p]] /\ toWorker[p] \in Seq(Message)
    BY <1>2, PeerTypes DEF channels
  <2>2. /\ queue' \subseteq Morsels /\ result' \in [Morsels -> Nat] /\ morselsDone' \in Nat
    BY <1>2, PeerTypes DEF Count
  <2>3. QED
    BY <1>2, <1>3, <1>4, <2>1, <2>2, ServerFrame DEF Idle
<1>6. /\ h \in Holders /\ OthersKeep(h)
      /\ Own(h) = {m} /\ Hand(h) = {} /\ Own(h)' = {} /\ Hand(h)' = {}
  <2>1. TypeOK /\ {m} \ {NoMorsel} = {m}
    BY MorselsAssumption DEF Inv
  <2>2. QED
    BY <1>1, <1>2, <1>3, <2>1, ServerHands
<1> HIDE DEF h
<1>7. Places' /\ InHand' = InHand
  <2>1. Cardinality({m}) = 1
    BY FS_Singleton
  <2>2. Count(Cardinality(Own(h)))
    BY <1>2, <1>6, <2>1 DEF Count
  <2>3. QED
    BY <1>2, <1>6, <2>2, PeerTypes, CountPlaces
<1>8. QED
  BY <1>2, <1>5, <1>7 DEF Inv, Pool!vars

LEMMA ServerStep ==
  ASSUME Inv, Running, NEW p \in Peers, Server(p)
  PROVE  Inv' /\ [Pool!Next]_(Pool!vars)
BY GreetStep, PanicStep, ReceiveNextStep, HangUpStep, SendMorselStep, ReceivePartialStep,
   ReturnMorselStep, MergePartialStep, CountPartialStep DEF Server

-----------------------------------------------------------------------------
(* The coordinator and the acceptor.                                       *)

LEMMA HandsKept ==
  ASSUME UNCHANGED local,
         \A p \in Peers : \/ server'[p] = server[p]
                          \/ server[p].pc \in Idle \ {"panicked"} /\ server'[p].pc \in {"backlog", "greet"}
  PROVE  \A h \in Holders : Own(h)' = Own(h) /\ Hand(h)' = Hand(h)
<1> SUFFICES ASSUME NEW h \in Holders PROVE Own(h)' = Own(h) /\ Hand(h)' = Hand(h)
  OBVIOUS
<1>1. CASE h \in {"local"} \X Locals
  BY <1>1 DEF Own, Hand
<1>2. CASE h \in {"server"} \X Peers
  <2>1. h = <<"server", h[2]>> /\ h[2] \in Peers /\ h[1] = "server"
    BY <1>2
  <2>2. QED
    BY <2>1 DEF Own, Hand, Idle
<1>3. QED
  BY <1>1, <1>2 DEF Holders

LEMMA SameHands ==
  ASSUME UNCHANGED <<local, server>>
  PROVE  \A h \in Holders : Own(h)' = Own(h) /\ Hand(h)' = Hand(h)
BY HandsKept

LEMMA JoinLocalsStep ==
  ASSUME Inv, Running, JoinLocals
  PROVE  Inv' /\ [Pool!Next]_(Pool!vars)
<1>1. TypeOK' /\ Serving' /\ Course' /\ Exchanges'
  BY DEF JoinLocals, shared, channels, Inv, TypeOK, Serving, Course, Exchanges, Exchange,
         Empty, Asking, Answering
<1>2. Places' /\ InHand' = InHand
  BY SameHands, AllKept DEF Inv, JoinLocals, shared
<1>3. QED
  BY <1>1, <1>2 DEF Inv, Pool!vars, JoinLocals, shared

\* All morsels are counted when as many are.
LEMMA SeeAllDoneStep ==
  ASSUME Inv, Running, SeeAllDone
  PROVE  Inv' /\ [Pool!Next]_(Pool!vars)
<1>1. TypeOK' /\ Serving' /\ Course' /\ Exchanges'
  BY DEF SeeAllDone, channels, Inv, TypeOK, Serving, Course, Exchanges, Exchange,
         Empty, Asking, Answering
<1>2. Counted = Morsels
  <2>1. Counted \subseteq Morsels /\ Cardinality(Counted) >= Cardinality(Morsels)
    BY DEF SeeAllDone, Inv, Places, Counted
  <2>2. /\ Cardinality(Counted) <= Cardinality(Morsels)
        /\ Cardinality(Counted) = Cardinality(Morsels) => Counted = Morsels
    BY <2>1, MorselsAssumption, FS_Subset
  <2>3. Cardinality(Counted) \in Nat /\ Cardinality(Morsels) \in Nat
    BY CountedFinite, MorselsAssumption, FS_CardinalityType
  <2>4. QED
    BY <2>1, <2>2, <2>3
<1>3. InHand' = InHand /\ Counted' = Counted
  BY SameHands DEF InHand, Counted, SeeAllDone
<1>4. Places'
  BY <1>2, <1>3, SameHands DEF Inv, Places, SeeAllDone
<1>5. QED
  BY <1>1, <1>3, <1>4 DEF Inv, Pool!vars, SeeAllDone

LEMMA UnblockStep ==
  ASSUME Inv, Running, Unblock
  PROVE  Inv' /\ [Pool!Next]_(Pool!vars)
<1>1. /\ coord = "unblock" /\ coord' = "joinAcceptor" /\ server[Unblocker].pc = "none"
      /\ UNCHANGED <<queue, result, morselsDone, doneLocal, local, acceptor, joined, toServer, toWorker>>
      /\ Unblocker \in Peers
  BY DEF Unblock, Inv, Course, shared, channels, Peers
<1>2. /\ \A p \in Peers \ {Unblocker} : server'[p] = server[p] /\ worker'[p] = worker[p]
      /\ \/ server'[Unblocker] = server[Unblocker] /\ worker'[Unblocker] = worker[Unblocker]
         \/ server'[Unblocker].pc = "backlog" /\ worker'[Unblocker].pc = "gone"
            /\ server'[Unblocker].morsel = server[Unblocker].morsel /\ acceptor # "ended"
      /\ server' \in [Peers -> ServerRecords] /\ worker' \in [Peers -> WorkerRecords]
  <2>1. CASE acceptor = "ended"
    BY <2>1 DEF Unblock, Inv, TypeOK, ServerRecords, ServerPcs, WorkerRecords
  <2>2. CASE acceptor # "ended"
    <3> DEFINE r == [server[Unblocker] EXCEPT !.pc = "backlog"]
    <3> DEFINE k == [worker[Unblocker] EXCEPT !.pc = "gone"]
    <3>1. /\ r \in ServerRecords /\ r.pc = "backlog" /\ r.morsel = server[Unblocker].morsel
          /\ k \in WorkerRecords /\ k.pc = "gone"
      BY <1>1, PeerTypes DEF ServerRecords, ServerPcs, WorkerRecords
    <3>2. /\ server' = [server EXCEPT ![Unblocker] = r]
          /\ worker' = [worker EXCEPT ![Unblocker] = k]
      BY <2>2 DEF Unblock
    <3> HIDE DEF r, k
    <3>3. server \in [Peers -> ServerRecords] /\ worker \in [Peers -> WorkerRecords]
      BY DEF Inv, TypeOK, ServerRecords, ServerPcs, WorkerRecords
    <3>4. QED
      BY <1>1, <2>2, <3>1, <3>2, <3>3
  <2>3. QED
    BY <2>1, <2>2
<1>3. TypeOK'
  BY <1>1, <1>2 DEF Inv, TypeOK, ServerRecords, ServerPcs, WorkerRecords
<1>4. Serving'
  BY <1>1, <1>2 DEF Inv, Serving
<1>5. Course'
  BY <1>1, <1>2 DEF Inv, Course
<1>6. Exchange(Unblocker)'
  BY <1>1, <1>2 DEF Inv, Exchanges, Exchange, Empty
<1>7. Exchanges'
  BY <1>1, <1>2, <1>6, OneExchange DEF Inv
<1>8. \A h \in Holders : Own(h)' = Own(h) /\ Hand(h)' = Hand(h)
  BY <1>1, <1>2, HandsKept DEF Idle
<1>9. Places' /\ InHand' = InHand
  BY <1>1, <1>8, AllKept DEF Inv
<1>10. QED
  BY <1>1, <1>3, <1>4, <1>5, <1>7, <1>9 DEF Inv, Pool!vars

\* run_ramped returns when all morsels are counted, with each of them in the result once.
LEMMA ReturnStep ==
  ASSUME Inv, Running, Return
  PROVE  Inv' /\ [Pool!Next]_(Pool!vars)
<1>1. TypeOK' /\ Serving' /\ Course' /\ Exchanges'
  BY DEF Return, shared, channels, Inv, TypeOK, Serving, Course, Exchanges, Exchange,
         Empty, Asking, Answering
<1>2. Places' /\ InHand' = InHand
  BY SameHands, AllKept DEF Inv, Return, shared
<1>3. \A m \in Morsels : result[m] = 1
  <2>1. Counted = Morsels
    BY DEF Return, Inv, Places
  <2>2. \A m \in Morsels : m \notin queue /\ m \notin InHand
    BY <2>1 DEF Counted, InHand, Inv, Places
  <2>3. QED
    BY <2>2 DEF Inv, Places
<1>4. Pool!Answer
  BY <1>2, <1>3 DEF Pool!Answer, Return, shared
<1>5. QED
  BY <1>1, <1>2, <1>4 DEF Inv, Pool!Next, Return

LEMMA CoordinatorStep ==
  ASSUME Inv, Running, Coordinator
  PROVE  Inv' /\ [Pool!Next]_(Pool!vars)
BY JoinLocalsStep, SeeAllDoneStep, UnblockStep, ReturnStep DEF Coordinator

LEMMA AcceptStep ==
  ASSUME Inv, Running, NEW p \in Peers, Accept(p)
  PROVE  Inv' /\ [Pool!Next]_(Pool!vars)
<1> DEFINE r == [server[p] EXCEPT !.pc = "greet"]
<1>1. /\ acceptor = "accept" /\ acceptor' = "check" /\ server[p].pc = "backlog" /\ joined < Expected
      /\ server[p].morsel = NoMorsel /\ Empty(p) /\ worker[p].pc \in {"greet", "gone"}
      /\ joined' = joined + 1
      /\ UNCHANGED <<queue, result, morselsDone, doneLocal, local, coord, worker, toServer, toWorker>>
  BY PeerTypes DEF Accept, Inv, Course, Serving, Exchange, shared, channels
<1>2. /\ r \in ServerRecords /\ r.pc = "greet" /\ r.morsel = NoMorsel
      /\ server' = [server EXCEPT ![p] = r] /\ server'[p] = r
  <2>1. server[p] \in ServerRecords /\ server \in [Peers -> ServerRecords]
    BY PeerTypes DEF Inv, TypeOK, ServerRecords, ServerPcs
  <2>2. QED
    BY <1>1, <2>1 DEF Accept, ServerRecords, ServerPcs
<1> HIDE DEF r
<1>3. /\ \A q \in Peers \ {p} : server'[q] = server[q]
      /\ server' \in [Peers -> ServerRecords]
  BY <1>2 DEF Inv, TypeOK, ServerRecords, ServerPcs
<1>4. TypeOK'
  <2>1. joined' \in 0..Expected
    BY <1>1, PeersAssumption DEF Inv, TypeOK
  <2>2. QED
    BY <1>1, <1>3, <2>1 DEF Inv, TypeOK, ServerRecords, ServerPcs
<1>5. Serving'
  BY <1>2, <1>3 DEF Inv, Serving
<1>6. Course'
  BY <1>1, <1>2, <1>3 DEF Inv, Course
<1>7. Exchange(p)'
  BY <1>1, <1>2 DEF Exchange, Empty
<1>8. Exchanges'
  BY <1>1, <1>3, <1>7, OneExchange DEF Inv
<1>9. \A h \in Holders : Own(h)' = Own(h) /\ Hand(h)' = Hand(h)
  BY <1>1, <1>2, <1>3, HandsKept DEF Idle
<1>10. Places' /\ InHand' = InHand
  BY <1>1, <1>9, AllKept DEF Inv
<1>11. QED
  BY <1>1, <1>4, <1>5, <1>6, <1>8, <1>10 DEF Inv, Pool!vars

LEMMA AcceptorStep ==
  ASSUME Inv, Running, Acceptor
  PROVE  Inv' /\ [Pool!Next]_(Pool!vars)
<1>1. ASSUME CheckAccepting \/ AcceptNothing \/ JoinServers
      PROVE  Inv' /\ UNCHANGED Pool!vars
  <2>1. UNCHANGED <<queue, result, morselsDone, doneLocal, local, coord, joined, server, worker, toServer, toWorker>>
    BY <1>1 DEF CheckAccepting, AcceptNothing, JoinServers, shared, channels
  <2>2. TypeOK' /\ Serving' /\ Exchanges'
    BY <1>1, <2>1 DEF CheckAccepting, AcceptNothing, JoinServers, Inv, TypeOK, Serving, Exchanges,
                      Exchange, Empty, Asking, Answering
  <2>3. Course'
    BY <1>1, <2>1 DEF CheckAccepting, AcceptNothing, JoinServers, Inv, Course
  <2>4. Places' /\ InHand' = InHand
    BY <2>1, SameHands, AllKept DEF Inv
  <2>5. QED
    BY <2>1, <2>2, <2>3, <2>4 DEF Inv, Pool!vars
<1>2. QED
  BY <1>1, AcceptStep DEF Acceptor

-----------------------------------------------------------------------------
(* Workers.                                                                *)

LEMMA WorkerFrame ==
  ASSUME Inv, NEW w \in Workers, NEW k \in WorkerRecords,
         worker[w].pc # "away", k.pc # "away", worker' = [worker EXCEPT ![w] = k],
         UNCHANGED <<coordinatorVars, server>>,
         NEW s \in Seq(Message), toServer' = [toServer EXCEPT ![w] = s],
         NEW t \in Seq(Message), toWorker' = [toWorker EXCEPT ![w] = t],
         Exchange(w)'
  PROVE  Inv' /\ [Pool!Next]_(Pool!vars)
<1>1. /\ UNCHANGED <<queue, result, morselsDone, doneLocal, local, coord, acceptor, joined, server>>
      /\ w \in Peers
  BY DEF coordinatorVars, shared, Peers
<1>2. /\ worker'[w] = k /\ \A q \in Peers \ {w} : worker'[q] = worker[q]
      /\ worker' \in [Peers -> WorkerRecords]
      /\ toServer' \in [Peers -> Seq(Message)] /\ toWorker' \in [Peers -> Seq(Message)]
      /\ \A q \in Peers \ {w} : toServer'[q] = toServer[q] /\ toWorker'[q] = toWorker[q]
  BY <1>1 DEF Inv, TypeOK, WorkerRecords
<1>3. TypeOK' /\ Serving'
  BY <1>1, <1>2 DEF Inv, TypeOK, Serving, WorkerRecords
<1>4. Course'
  BY <1>1, <1>2 DEF Inv, Course
<1>5. Exchanges'
  BY <1>1, <1>2, OneExchange DEF Inv
<1>6. Places' /\ InHand' = InHand
  BY <1>1, SameHands, AllKept DEF Inv
<1>7. QED
  BY <1>1, <1>3, <1>4, <1>5, <1>6 DEF Inv, Pool!vars

LEMMA ConnectStep ==
  ASSUME Inv, NEW w \in Workers, Connect(w)
  PROVE  Inv' /\ [Pool!Next]_(Pool!vars)
<1> DEFINE k == [worker[w] EXCEPT !.pc = "greet"]
<1> DEFINE r == [server[w] EXCEPT !.pc = "backlog"]
<1>1. /\ w \in Peers /\ w # Unblocker /\ acceptor # "ended"
      /\ worker[w].pc = "away" /\ server[w].pc = "none" /\ server[w].morsel = NoMorsel /\ Empty(w)
      /\ UNCHANGED <<queue, result, morselsDone, doneLocal, local, coord, acceptor, joined, toServer, toWorker>>
  BY PeersAssumption, PeerTypes
  DEF Connect, Inv, Course, Serving, Exchange, coordinatorVars, shared, channels, Peers
<1>2. /\ r \in ServerRecords /\ r.pc = "backlog" /\ r.morsel = NoMorsel
      /\ k \in WorkerRecords /\ k.pc = "greet"
      /\ server' = [server EXCEPT ![w] = r] /\ worker' = [worker EXCEPT ![w] = k]
  BY <1>1, PeerTypes DEF Connect, ServerRecords, ServerPcs, WorkerRecords
<1> HIDE DEF r, k
<1>3. /\ server'[w] = r /\ worker'[w] = k
      /\ \A q \in Peers \ {w} : server'[q] = server[q] /\ worker'[q] = worker[q]
      /\ server' \in [Peers -> ServerRecords] /\ worker' \in [Peers -> WorkerRecords]
  BY <1>1, <1>2 DEF Inv, TypeOK, ServerRecords, ServerPcs, WorkerRecords
<1>4. TypeOK'
  BY <1>1, <1>3 DEF Inv, TypeOK, ServerRecords, ServerPcs, WorkerRecords
<1>5. Serving'
  BY <1>2, <1>3 DEF Inv, Serving
<1>6. Course'
  BY <1>1, <1>2, <1>3 DEF Inv, Course, Peers
<1>7. Exchange(w)'
  BY <1>1, <1>2, <1>3 DEF Exchange, Empty
<1>8. Exchanges'
  BY <1>1, <1>3, <1>7, OneExchange DEF Inv
<1>9. \A h \in Holders : Own(h)' = Own(h) /\ Hand(h)' = Hand(h)
  BY <1>1, <1>2, <1>3, HandsKept DEF Idle
<1>10. Places' /\ InHand' = InHand
  BY <1>1, <1>9, AllKept DEF Inv
<1>11. QED
  BY <1>1, <1>4, <1>5, <1>6, <1>8, <1>10 DEF Inv, Pool!vars

LEMMA ReadQueryStep ==
  ASSUME Inv, NEW w \in Workers, ReadQuery(w)
  PROVE  Inv' /\ [Pool!Next]_(Pool!vars)
<1> DEFINE k == [worker[w] EXCEPT !.pc = "ask"]
<1> DEFINE t == Tail(toWorker[w])
<1>1. /\ w \in Peers /\ worker[w].pc = "greet" /\ toWorker[w] # <<>>
      /\ toServer' = toServer /\ server' = server /\ UNCHANGED coordinatorVars
  BY DEF ReadQuery, Peers
<1>2. /\ k \in WorkerRecords /\ k.pc = "ask"
      /\ worker' = [worker EXCEPT ![w] = k] /\ worker'[w] = k
  <2>1. worker[w] \in WorkerRecords /\ worker \in [Peers -> WorkerRecords]
    BY <1>1, PeerTypes DEF Inv, TypeOK, WorkerRecords
  <2>2. QED
    BY <1>1, <2>1 DEF ReadQuery, WorkerRecords
<1>3. /\ t \in Seq(Message)
      /\ toWorker' = [toWorker EXCEPT ![w] = t] /\ toWorker'[w] = t
  BY <1>1, PeerTypes DEF ReadQuery, Inv, TypeOK
<1>4. /\ server[w].pc \in {"listen", "ended", "panicked"}
      /\ server[w].pc = "listen" =>
           toWorker[w] = <<Msg("query", NoMorsel)>> /\ toServer[w] = <<>>
  BY <1>1, PeerTypes DEF Exchange, Empty, Asking, Answering, ServerRecords, ServerPcs
<1>5. server[w].pc = "listen" => t = <<>>
  <2> DEFINE a == Msg("query", NoMorsel)
  <2>1. server[w].pc = "listen" => toWorker[w] = <<a>>
    BY <1>4
  <2> HIDE DEF a
  <2>2. a \in Message => Tail(<<a>>) = <<>>
    BY ShortSequences
  <2>3. a \in Message
    BY Messages DEF a
  <2>4. QED
    BY <2>1, <2>2, <2>3
<1> HIDE DEF k, t
<1>6. Exchange(w)'
  BY <1>1, <1>2, <1>3, <1>4, <1>5 DEF Exchange, Asking
<1>7. toServer' = [toServer EXCEPT ![w] = toServer[w]] /\ toServer[w] \in Seq(Message)
  BY <1>1, PeerTypes
<1>8. QED
  BY <1>1, <1>2, <1>3, <1>6, <1>7, WorkerFrame

LEMMA AskNextStep ==
  ASSUME Inv, NEW w \in Workers, AskNext(w)
  PROVE  Inv' /\ [Pool!Next]_(Pool!vars)
<1> DEFINE k == [worker[w] EXCEPT !.pc = "wait"]
<1> DEFINE n == Msg("next", NoMorsel)
<1> DEFINE s == Append(toServer[w], n)
<1>1. /\ w \in Peers /\ worker[w].pc = "ask"
      /\ toWorker' = toWorker /\ server' = server /\ UNCHANGED coordinatorVars
  BY DEF AskNext, Peers
<1>2. /\ k \in WorkerRecords /\ k.pc = "wait"
      /\ worker' = [worker EXCEPT ![w] = k] /\ worker'[w] = k
  <2>1. worker[w] \in WorkerRecords /\ worker \in [Peers -> WorkerRecords]
    BY <1>1, PeerTypes DEF Inv, TypeOK, WorkerRecords
  <2>2. QED
    BY <1>1, <2>1 DEF AskNext, WorkerRecords
<1>3. n \in Message
  BY Messages
<1> HIDE DEF n
<1>4. /\ s \in Seq(Message)
      /\ toServer' = [toServer EXCEPT ![w] = s] /\ toServer'[w] = s
  BY <1>1, <1>3, PeerTypes DEF AskNext, Inv, TypeOK, n
<1>5. /\ server[w].pc \in {"listen", "await", "merge", "count", "ended", "panicked"}
      /\ server[w].pc \in {"listen", "merge", "count"} => Empty(w)
      /\ server[w].pc = "await" => /\ toWorker[w] = <<>>
                                  /\ toServer[w] = <<Msg("partial", server[w].morsel)>>
  BY <1>1, PeerTypes DEF Exchange, Empty, Asking, Answering, ServerRecords, ServerPcs
<1>6. /\ server[w].pc \in {"listen", "merge", "count"} => s = <<n>>
      /\ server[w].pc = "await" => s = <<Msg("partial", server[w].morsel), n>>
  <2>1. CASE server[w].pc = "await"
    <3>1. PICK m \in Morsels : m = server[w].morsel
      BY <1>1, <2>1 DEF Inv, Serving
    <3>2. Msg("partial", m) \in Message
      BY Messages
    <3>3. QED
      BY <1>3, <1>5, <2>1, <3>1, <3>2, ShortSequences
  <2>2. CASE server[w].pc \in {"listen", "merge", "count"}
    BY <1>3, <1>5, <2>2, ShortSequences DEF Empty
  <2>3. QED
    BY <2>1, <2>2
<1> HIDE DEF k, s
<1>7. Exchange(w)'
  BY <1>1, <1>2, <1>4, <1>5, <1>6 DEF Exchange, Asking, Answering, Empty, n
<1>8. toWorker' = [toWorker EXCEPT ![w] = toWorker[w]] /\ toWorker[w] \in Seq(Message)
  BY <1>1, PeerTypes
<1>9. QED
  BY <1>1, <1>2, <1>4, <1>7, <1>8, WorkerFrame

LEMMA ReadAnswerStep ==
  ASSUME Inv, NEW w \in Workers, ReadAnswer(w)
  PROVE  Inv' /\ [Pool!Next]_(Pool!vars)
<1> DEFINE k == IF Head(toWorker[w]).type = "morsel"
                  THEN [pc |-> "exec", morsel |-> Head(toWorker[w]).morsel]
                  ELSE [pc |-> "gone", morsel |-> NoMorsel]
<1> DEFINE t == Tail(toWorker[w])
<1>1. /\ w \in Peers /\ worker[w].pc = "wait" /\ toWorker[w] # <<>>
      /\ toServer' = toServer /\ server' = server /\ UNCHANGED coordinatorVars
  BY DEF ReadAnswer, Peers
<1>2. Head(toWorker[w]) \in Message
  BY <1>1, PeerTypes
<1>3. /\ k \in WorkerRecords /\ k.pc # "away"
      /\ worker' = [worker EXCEPT ![w] = k] /\ worker'[w] = k
  <2>1. worker[w] \in WorkerRecords /\ worker \in [Peers -> WorkerRecords]
    BY <1>1, PeerTypes DEF Inv, TypeOK, WorkerRecords
  <2>2. QED
    BY <1>1, <1>2, <2>1 DEF ReadAnswer, WorkerRecords, Message
<1>4. /\ t \in Seq(Message)
      /\ toWorker' = [toWorker EXCEPT ![w] = t] /\ toWorker'[w] = t
  BY <1>1, PeerTypes DEF ReadAnswer, Inv, TypeOK
<1>5. /\ server[w].pc \in {"await", "ended", "panicked"}
      /\ server[w].pc = "await" => /\ toWorker[w] = <<Msg("morsel", server[w].morsel)>>
                                  /\ toServer[w] = <<>> /\ server[w].morsel \in Morsels
  BY <1>1, PeerTypes
  DEF Exchange, Empty, Asking, Answering, ServerRecords, ServerPcs, Inv, Serving
<1>6. server[w].pc = "await" => k = [pc |-> "exec", morsel |-> server[w].morsel] /\ t = <<>>
  <2>1. SUFFICES ASSUME server[w].pc = "await"
                 PROVE  k = [pc |-> "exec", morsel |-> server[w].morsel] /\ t = <<>>
    OBVIOUS
  <2>2. PICK m \in Morsels : m = server[w].morsel
    BY <1>5, <2>1
  <2> DEFINE a == Msg("morsel", m)
  <2>3. a \in Message /\ a.type = "morsel" /\ a.morsel = m /\ toWorker[w] = <<a>>
    BY <1>5, <2>1, <2>2, Messages
  <2> HIDE DEF a
  <2>4. Head(toWorker[w]) = a /\ t = <<>>
    BY <2>3, ShortSequences
  <2>5. QED
    BY <2>2, <2>3, <2>4
<1> HIDE DEF k, t
<1>7. Exchange(w)'
  BY <1>1, <1>3, <1>4, <1>5, <1>6 DEF Exchange, Answering, Empty
<1>8. toServer' = [toServer EXCEPT ![w] = toServer[w]] /\ toServer[w] \in Seq(Message)
  BY <1>1, PeerTypes
<1>9. QED
  BY <1>1, <1>3, <1>4, <1>7, <1>8, WorkerFrame

LEMMA SendPartialStep ==
  ASSUME Inv, NEW w \in Workers, SendPartial(w)
  PROVE  Inv' /\ [Pool!Next]_(Pool!vars)
<1> DEFINE k == [pc |-> "ask", morsel |-> NoMorsel]
<1> DEFINE s == Append(toServer[w], Msg("partial", worker[w].morsel))
<1>1. /\ w \in Peers /\ worker[w].pc = "exec"
      /\ toWorker' = toWorker /\ server' = server /\ UNCHANGED coordinatorVars
  BY DEF SendPartial, Peers
<1>2. /\ k \in WorkerRecords /\ k.pc = "ask"
      /\ worker' = [worker EXCEPT ![w] = k] /\ worker'[w] = k
  <2>1. worker[w] \in WorkerRecords /\ worker \in [Peers -> WorkerRecords]
    BY <1>1, PeerTypes DEF Inv, TypeOK, WorkerRecords
  <2>2. QED
    BY <1>1, <2>1 DEF SendPartial, WorkerRecords
<1>3. worker[w].morsel \in Morsels \cup {NoMorsel}
  BY <1>1, PeerTypes DEF WorkerRecords
<1>4. /\ s \in Seq(Message)
      /\ toServer' = [toServer EXCEPT ![w] = s] /\ toServer'[w] = s
  BY <1>1, <1>3, PeerTypes, Messages DEF SendPartial, Inv, TypeOK
<1>5. /\ server[w].pc \in {"await", "ended", "panicked"}
      /\ server[w].pc = "await" => Empty(w) /\ worker[w].morsel = server[w].morsel
  BY <1>1, PeerTypes DEF Exchange, Empty, Asking, Answering, ServerRecords, ServerPcs
<1>6. server[w].pc = "await" => s = <<Msg("partial", server[w].morsel)>>
  <2> DEFINE a == Msg("partial", worker[w].morsel)
  <2>1. a \in Message
    BY <1>3, Messages
  <2>2. s = Append(toServer[w], a)
    OBVIOUS
  <2> HIDE DEF a
  <2>3. Append(<<>>, a) = <<a>>
    BY <2>1, ShortSequences
  <2>4. server[w].pc = "await" => s = <<a>>
    BY <1>5, <2>2, <2>3 DEF Empty
  <2>5. QED
    BY <1>5, <2>4 DEF a
<1> HIDE DEF k, s
<1>7. Exchange(w)'
  BY <1>1, <1>2, <1>4, <1>5, <1>6 DEF Exchange, Answering, Empty
<1>8. toWorker' = [toWorker EXCEPT ![w] = toWorker[w]] /\ toWorker[w] \in Seq(Message)
  BY <1>1, PeerTypes
<1>9. QED
  BY <1>1, <1>2, <1>4, <1>7, <1>8, WorkerFrame

\* A worker may leave at any time; the exchange takes it into account.
LEMMA LeaveStep ==
  ASSUME Inv, NEW w \in Workers, Connected(w), Leave(w),
         UNCHANGED <<coordinatorVars, server, channels>>
  PROVE  Inv' /\ [Pool!Next]_(Pool!vars)
<1> DEFINE k == [pc |-> "gone", morsel |-> NoMorsel]
<1>1. w \in Peers /\ worker[w].pc # "away" /\ toServer' = toServer /\ toWorker' = toWorker
  BY DEF Connected, Peers, channels
<1>2. /\ k \in WorkerRecords /\ k.pc = "gone"
      /\ worker' = [worker EXCEPT ![w] = k] /\ worker'[w] = k
  <2>1. worker[w] \in WorkerRecords /\ worker \in [Peers -> WorkerRecords]
    BY <1>1, PeerTypes DEF Inv, TypeOK, WorkerRecords
  <2>2. QED
    BY <1>1, <2>1 DEF Leave, WorkerRecords
<1> HIDE DEF k
<1>3. Exchange(w)'
  BY <1>1, <1>2, PeerTypes DEF Exchange, Asking, Answering, Empty
<1>4. /\ toServer' = [toServer EXCEPT ![w] = toServer[w]] /\ toServer[w] \in Seq(Message)
      /\ toWorker' = [toWorker EXCEPT ![w] = toWorker[w]] /\ toWorker[w] \in Seq(Message)
  BY <1>1, PeerTypes
<1>5. QED
  BY <1>1, <1>2, <1>3, <1>4, WorkerFrame

LEMMA WorkerStep ==
  ASSUME Inv, NEW w \in Workers, Connect(w) \/ Worker(w) \/ Die(w)
  PROVE  Inv' /\ [Pool!Next]_(Pool!vars)
<1>1. CASE FindClosed(w) \/ Die(w)
  BY <1>1, LeaveStep DEF FindClosed, Die
<1>2. QED
  BY <1>1, ConnectStep, ReadQueryStep, AskNextStep, ReadAnswerStep, SendPartialStep DEF Worker

-----------------------------------------------------------------------------
(* The theorems.                                                           *)

LEMMA StutterStep ==
  ASSUME Inv, UNCHANGED vars
  PROVE  Inv' /\ [Pool!Next]_(Pool!vars)
<1>1. UNCHANGED <<queue, result, morselsDone, doneLocal, local, coord, acceptor, joined,
                  server, worker, toServer, toWorker>>
  BY DEF vars, shared, channels
<1>2. TypeOK' /\ Serving' /\ Course' /\ Exchanges'
  BY <1>1 DEF Inv, TypeOK, Serving, Course, Exchanges, Exchange, Empty, Asking, Answering
<1>3. Places' /\ InHand' = InHand
  BY <1>1, SameHands, AllKept DEF Inv
<1>4. QED
  BY <1>1, <1>2, <1>3 DEF Inv, Pool!vars

LEMMA NextStep == Inv /\ [Next]_vars => Inv' /\ [Pool!Next]_(Pool!vars)
<1> SUFFICES ASSUME Inv, [Next]_vars PROVE Inv' /\ [Pool!Next]_(Pool!vars)
  OBVIOUS
<1>1. CASE Process
  BY <1>1, CoordinatorStep, AcceptorStep, LocalStep, ServerStep DEF Process
<1>2. ASSUME NEW w \in Workers, Connect(w) \/ Worker(w) \/ Die(w)
      PROVE  Inv' /\ [Pool!Next]_(Pool!vars)
  BY <1>2, WorkerStep
<1>3. CASE UNCHANGED vars
  BY <1>3, StutterStep
<1>4. QED
  BY <1>1, <1>2, <1>3 DEF Next

LEMMA InitInv == Init => Inv /\ Pool!Init
<1> SUFFICES ASSUME Init PROVE Inv /\ Pool!Init
  OBVIOUS
<1>1. TypeOK
  <2>1. joined \in 0..Expected
    BY PeersAssumption DEF Init
  <2>2. [pc |-> "pop", part |-> {}] \in LocalRecords
    BY DEF LocalRecords
  <2>3. [pc |-> "none", morsel |-> NoMorsel] \in ServerRecords
    BY DEF ServerRecords, ServerPcs
  <2>4. [pc |-> "away", morsel |-> NoMorsel] \in WorkerRecords
    BY DEF WorkerRecords
  <2>5. /\ local \in [Locals -> LocalRecords] /\ server \in [Peers -> ServerRecords]
        /\ worker \in [Peers -> WorkerRecords]
    BY <2>2, <2>3, <2>4 DEF Init
  <2>6. toServer \in [Peers -> Seq(Message)] /\ toWorker \in [Peers -> Seq(Message)]
    BY DEF Init
  <2>7. QED
    BY <2>1, <2>5, <2>6 DEF Init, TypeOK, LocalRecords, ServerRecords, ServerPcs, WorkerRecords
<1>2. Serving /\ Exchanges
  BY DEF Init, Serving, Exchanges, Exchange, Empty
<1>3. Course
  BY DEF Init, Course, Peers
<1>4. \A h \in Holders : Own(h) = {} /\ Hand(h) = {}
  BY DEF Init, Holders, Own, Hand
<1>5. InHand = {} /\ Counted = {} /\ Cardinality(Counted) = 0
  BY <1>4, FS_EmptySet DEF InHand, Counted, Init
<1>6. Places
  BY <1>4, <1>5 DEF Init, Places
<1>7. Pool!Init
  BY <1>5 DEF Init, Pool!Init
<1>8. QED
  BY <1>1, <1>2, <1>3, <1>6, <1>7 DEF Inv

LEMMA InvInvariant == Spec => []Inv
BY InitInv, NextStep, PTL DEF Spec

\* The values of the variables; the acceptor takes at most expected_workers connections.
THEOREM TypeCorrect == Spec => []TypeOK
<1>1. Inv => TypeOK
  BY DEF Inv
<1>2. QED
  BY <1>1, InvInvariant, PTL

\* Whichever threads and workers take morsels, die and give them back, a morsel is in one
\* place, and in the result once when it is in no other.
THEOREM MorselsInOnePlace == Spec => []OnePlace
<1>1. Inv => OnePlace
  BY DEF Inv, Places, OnePlace
<1>2. QED
  BY <1>1, InvInvariant, PTL

\* run_ramped implements TaskPool: it answers with each morsel in the result once, or
\* not at all.
THEOREM RampImplementsPool == Spec => PoolSpec
<1>1. Init => Pool!Init
  BY InitInv
<1>2. Inv /\ [Next]_vars => [Pool!Next]_(Pool!vars)
  BY NextStep
<1>3. QED
  BY <1>1, <1>2, InvInvariant, PTL DEF Spec, PoolSpec, Pool!Spec

=============================================================================
