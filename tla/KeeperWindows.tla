---------------------------- MODULE KeeperWindows ----------------------------
(***************************************************************************)
(* Assigned keeper windows: the registry with a history variable that says *)
(* what a missed window ought to mean.  `since` is how long the keeper     *)
(* assigned to a job's run has been able to run it without interruption.   *)
(* The contract does not keep it: it reconstructs the answer from          *)
(* job_touched, windows_reset and target_resumed (had_whole_window).       *)
(***************************************************************************)
EXTENDS Registry

VARIABLE
    since           \* per job: when its assigned keeper became able to run it, or None

\* The job's assigned keeper exists and could run it now, were the executor
\* connected.
AssigneeCanRun(j) ==
    /\ Live(j)
    /\ ensure_due(j)
    /\ ensure_not_paused
    /\ spec[j].target \notin halted
    /\ assigned_keeper(j) # None

\* The turn a run of j belongs to: who is assigned, and which run it is.
Turn(j) == <<assigned_keeper(j), state[j].runs>>

InitWindows == Init /\ since = [j \in JobIds |-> None]

ObserveWindows ==
    since' = [j \in JobIds |->
        IF ~ AssigneeCanRun(j)' THEN None
        ELSE IF AssigneeCanRun(j) /\ Turn(j)' = Turn(j) THEN since[j]
        ELSE now']

SpecWindows == InitWindows /\ [][Next /\ ObserveWindows]_<<vars, since>>

-----------------------------------------------------------------------------

\* Whether this step charges k with missing its window for the run of j.
Charges(k, j) ==
    /\ keepers[k] # None /\ keepers'[k] # None
    /\ keepers'[k].missed > keepers[k].missed
    /\ Live(j) /\ state'[j] # None /\ state'[j].runs # state[j].runs

\* A keeper is charged with a miss only if it was the one assigned to the run
\* and could have run it, without interruption and with nobody else assigned in
\* between, for a whole grace period: through pausing, halting, funding,
\* withdrawing, updates, changes of the rotation, of eligibility and of the
\* window itself, and although the timestamps it is judged by expire.
MissNeedsWholeWindow ==
    [][\A k \in Keepers, j \in JobIds :
          Charges(k, j) =>
              /\ assigned_keeper(j) = k
              /\ since[j] # None
              /\ now >= since[j] + config.grace_period]_<<vars, since>>
=============================================================================
