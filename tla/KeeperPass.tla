----------------------------- MODULE KeeperPass -----------------------------
(***************************************************************************)
(* What a keeper promises of a polling pass, whatever it does with batches *)
(* and channels: every job it found due gets exactly one verdict (the      *)
(* outcome it is counted under), a verdict is final, and the pass ends     *)
(* once all are given.                                                     *)
(***************************************************************************)
CONSTANTS
    Jobs,
    Verdicts,
    Open        \* a due job that has no verdict yet

VARIABLES
    running,    \* whether a pass is in progress
    due,        \* the jobs this pass found due
    verdict     \* per job, its verdict in this pass, or Open

passVars == <<running, due, verdict>>

Init == running = FALSE /\ due = {} /\ verdict = [j \in Jobs |-> Open]

\* Jobs that are set aside get their verdict at once.
Begin ==
    /\ ~ running /\ running' = TRUE
    /\ due' \in SUBSET Jobs
    /\ verdict' \in [Jobs -> Verdicts \cup {Open}]
    /\ \A j \in Jobs \ due' : verdict'[j] = Open

Decide ==
    /\ running /\ UNCHANGED <<running, due>>
    /\ verdict' \in [Jobs -> Verdicts \cup {Open}]
    /\ \A j \in Jobs : verdict'[j] # verdict[j] => j \in due /\ verdict[j] = Open

End ==
    /\ running /\ running' = FALSE
    /\ \A j \in due : verdict[j] # Open
    /\ due' = {} /\ verdict' = [j \in Jobs |-> Open]

Next == Begin \/ Decide \/ End

\* Every verdict is given once, and all of them before the pass ends.
Steps == Init /\ [][Next]_passVars

Spec == Steps /\ (running ~> ~ running)
=============================================================================
