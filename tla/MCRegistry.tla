----------------------------- MODULE MCRegistry -----------------------------
(* The registry, and the progress of its jobs, in the worlds of MCWorlds. *)
EXTENDS KeeperLiveness, MCWorlds
=============================================================================
