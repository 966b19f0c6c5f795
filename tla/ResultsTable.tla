---------------------------- MODULE ResultsTable ----------------------------
(***************************************************************************)
(* What runs.csv promises its readers, whatever happens to the drivers     *)
(* that write it: a run has at most one final result, ok or oom, and once  *)
(* it has one it keeps it.                                                 *)
(***************************************************************************)
CONSTANT Run

VARIABLE outcome    \* "open" until a final result is recorded

Final == {"ok", "oom"}

Init == outcome = [r \in Run |-> "open"]

Record(r, status) ==
    /\ outcome[r] = "open"
    /\ outcome' = [outcome EXCEPT ![r] = status]

Next == \E r \in Run, status \in Final : Record(r, status)

Spec == Init /\ [][Next]_outcome
=============================================================================
