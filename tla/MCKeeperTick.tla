---------------------------- MODULE MCKeeperTick ----------------------------
(* Ticks over three jobs. *)
EXTENDS KeeperTick

CONSTANTS j1, j2, j3

MCJobList == <<j1, j2, j3>>

Setup(size, count, dry, kinds) ==
    [batch_size |-> size, channels |-> count, dry_run |-> dry, kinds |-> kinds]

\* One batch of any mixture; one that is only simulated; batches that wait for the
\* channel of another, part of which does not run, so that one job may be left to
\* bear the cost of its batch; and several batches that share channels.
TickSetups ==
    {Setup(3, 1, FALSE, Kinds \ {"blocked"}), Setup(3, 1, TRUE, {"plain", "archived"}),
     Setup(2, 1, FALSE, {"plain", "blocked"}), Setup(1, 2, FALSE, {"plain", "bad"})}
=============================================================================
