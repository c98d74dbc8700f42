----------------------------- MODULE MCKeeperRs -----------------------------
(* Ticks of the Rust keeper over three jobs of any kinds. *)
EXTENDS KeeperRs

CONSTANTS j1, j2, j3

MCJobList == <<j1, j2, j3>>

Setup(size, native, dry, kinds) ==
    [batch_size |-> size, fee_is_native |-> native, dry_run |-> dry, kinds |-> kinds]

\* One batch of any mixture, with fees in XLM; fees in another token; batches of
\* two with a rest; a size that is clamped.
MCSetups ==
    {Setup(3, TRUE, FALSE, Kinds), Setup(3, FALSE, FALSE, {"plain", "costly"}),
     Setup(2, TRUE, FALSE, {"plain", "bad"}), Setup(0, TRUE, TRUE, {"plain", "blocked"})}
=============================================================================
