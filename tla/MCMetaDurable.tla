--------------------------- MODULE MCMetaDurable ---------------------------
(* MetaDurable for TLC: what the calls are. *)
EXTENDS MetaDurable, TLC

CONSTANTS n1, n2, j1, c1, c2, o1, o2, o3, r1

MCInitial == <<n2>>

\* A PUT and an ADD_PEER; another leader has a PUT of the same key, and adds or removes the
\* same node.
MemberOps ==
  c1 :> <<"put", "k">> @@ c2 :> <<"add", j1>>
    @@ o1 :> <<"put", "k">> @@ o2 :> <<"remove", j1>> @@ o3 :> <<"add", j1>>

\* PUTs of one key.
PutOps == c1 :> <<"put", "k">> @@ c2 :> <<"put", "k">>

=============================================================================
