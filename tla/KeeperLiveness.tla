--------------------------- MODULE KeeperLiveness ---------------------------
(***************************************************************************)
(* Progress of due jobs.  One keeper keeps polling and executing what it   *)
(* may run (the keeper bots do so every few seconds); every other party    *)
(* may do anything or nothing.                                             *)
(***************************************************************************)
EXTENDS Registry

CONSTANT Diligent   \* the keeper that keeps polling

ASSUME DiligentAssumption == Diligent \in Keepers

\* Ledgers keep closing, and the diligent keeper executes a job that stays
\* executable.
Fairness ==
    /\ WF_vars(Tick)
    /\ \A j \in JobIds : WF_vars(\E success \in BOOLEAN : execute(Diligent, j, success))

SpecLive == Spec /\ Fairness

\* A job the diligent keeper could run now or as soon as the reservation of
\* another keeper ends, within the bounded time of the model.
Overdue(j) ==
    /\ is_due(j, TRUE)
    /\ ~ is_forbidden_target(spec[j].target)
    /\ spec[j].keepers # None => Contains(spec[j].keepers, Diligent)
    /\ Eligible(Diligent)
    /\ state[j].next_run + MAX_GRACE_PERIOD <= world.until

\* No job stays overdue for ever: an assigned keeper that is gone, asleep or
\* unwilling delays a run by one grace period at most, and nobody can hold a
\* job back by changing the rotation or the windows again and again
\* (run_job's reservation counts from the due time only).
DueJobsGetRun == \A j \in JobIds : []<>(~ Overdue(j))
=============================================================================
