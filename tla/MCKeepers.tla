------------------------------ MODULE MCKeepers ------------------------------
(* Assigned windows and upgrade notice, observed in the worlds of MCWorlds. *)
EXTENDS KeeperWindows, UpgradeNotice, MCWorlds

InitObserved == InitWindows /\ InitNotice

SpecObserved ==
    /\ InitObserved
    /\ [][Next /\ ObserveWindows /\ ObserveNotice]_<<vars, since, reacted>>
=============================================================================
