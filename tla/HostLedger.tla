----------------------------- MODULE HostLedger -----------------------------
(***************************************************************************)
(* What every contract of contracts/examples reads from its host: the      *)
(* ledger's timestamp, and u64 arithmetic that saturates where the code    *)
(* says so.  Elsewhere an overflow traps (overflow-checks = true in        *)
(* Cargo.toml) and the call fails, which is no step.                       *)
(***************************************************************************)
EXTENDS Integers, Sequences, FiniteSets

CONSTANTS
    None,       \* the Rust None; also the storage of a contract not deployed
    U64Max      \* the largest u64, and the last ledger time

VARIABLE now    \* env.ledger().timestamp()

U64 == 0..U64Max

SatAdd(a, b) == IF a + b > U64Max THEN U64Max ELSE a + b

SatSub(a, b) == IF a < b THEN 0 ELSE a - b

\* Ledgers close: time goes on, and nothing else changes by itself.
Tick == now < U64Max /\ now' = now + 1
=============================================================================
