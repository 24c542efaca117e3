------------------------------ MODULE TaskPool ------------------------------
(***************************************************************************)
(* What the two ramped schedulers of this repository promise, whoever does *)
(* the work and whenever they join: every task is counted once in the      *)
(* answer.  A task that was taken may be given back, a run may fail, but   *)
(* an answer that misses a task or counts one twice is never given.        *)
(***************************************************************************)
EXTENDS Naturals

CONSTANT Tasks

VARIABLES
  todo,      \* tasks nobody has taken
  taken,     \* tasks in somebody's hands, or lost with them
  counted,   \* how often each task is in the result
  outcome    \* of the run

vars == <<todo, taken, counted, outcome>>

Init ==
  /\ todo = Tasks
  /\ taken = {}
  /\ counted = [x \in Tasks |-> 0]
  /\ outcome = "running"

Take(x) ==
  /\ x \in todo
  /\ todo' = todo \ {x}
  /\ taken' = taken \cup {x}
  /\ UNCHANGED <<counted, outcome>>

GiveBack(x) ==
  /\ x \in taken
  /\ todo' = todo \cup {x}
  /\ taken' = taken \ {x}
  /\ UNCHANGED <<counted, outcome>>

\* Tasks executed by one thread enter the result together.
Merge(S) ==
  /\ S \subseteq taken
  /\ taken' = taken \ S
  /\ counted' = [x \in Tasks |-> counted[x] + IF x \in S THEN 1 ELSE 0]
  /\ UNCHANGED <<todo, outcome>>

Answer ==
  /\ \A x \in Tasks : counted[x] = 1
  /\ outcome' = "answered"
  /\ UNCHANGED <<todo, taken, counted>>

Fail ==
  /\ outcome' = "failed"
  /\ UNCHANGED <<todo, taken, counted>>

Next ==
  /\ outcome = "running"
  /\ \/ \E x \in Tasks : Take(x) \/ GiveBack(x)
     \/ \E S \in SUBSET Tasks : Merge(S)
     \/ Answer
     \/ Fail

Spec == Init /\ [][Next]_vars

=============================================================================
