------------------------------ MODULE JobFeed ------------------------------
(***************************************************************************)
(* The registry as a follower off the chain sees it through an RPC server: *)
(* the jobs, and the events their calls publish                            *)
(* (contracts/registry/src/lib.rs, every `publish` about a job).           *)
(*                                                                         *)
(* A ledger applies its transactions at once: a server answers from closed *)
(* ledgers only, so reads happen while no ledger is `open`.  A job's fee   *)
(* stands for all its settings, which only update_job changes; next_run is *)
(* the number of its slot.                                                 *)
(***************************************************************************)
EXTENDS Integers, Sequences

CONSTANTS
    None,
    Fees,                   \* fees a job can be created with or updated to
    Deposit,                \* what a job is created with and funded by
    MaxJobs,                \* bound: jobs ever created
    MaxEvents,              \* bound: events ever published
    MaxLedger               \* bound: the last ledger, which holds no transaction

VARIABLES
    jobs,       \* per job id what the registry stores, or None
    next_id,    \* job_count
    log,        \* every event published so far, in order
    ledger,     \* number of the last ledger
    open        \* whether that ledger is still being applied

feedVars == <<jobs, next_id, log, ledger, open>>

JobIds == 0..(MaxJobs - 1)

Job == [next_run : Nat, active : BOOLEAN, balance : Int, fee : Fees, runs : Nat]

ASSUME FeedAssumption ==
    /\ MaxJobs \in Nat /\ MaxEvents \in Nat /\ MaxLedger \in Nat
    /\ Fees \subseteq (Nat \ {0}) /\ Deposit \in Nat
    /\ \A f \in Fees : f <= Deposit
    /\ None \notin Job /\ None \notin Nat

FeedInit ==
    /\ jobs = [j \in JobIds |-> None]
    /\ next_id = 0
    /\ log = <<>>
    /\ ledger = 1
    /\ open = FALSE

BeginLedger ==
    /\ ~ open
    /\ ledger < MaxLedger
    /\ ledger' = ledger + 1
    /\ open' = TRUE
    /\ UNCHANGED <<jobs, next_id, log>>

EndLedger ==
    /\ open
    /\ open' = FALSE
    /\ UNCHANGED <<jobs, next_id, log, ledger>>

\* A call that succeeds: it leaves job j as `new` and publishes `events`.
Publish(j, new, events) ==
    /\ open /\ ledger < MaxLedger
    /\ Len(log) + Len(events) <= MaxEvents
    /\ jobs' = [jobs EXCEPT ![j] = new]
    /\ log' = log \o [n \in 1..Len(events) |->
                        [job |-> j, ledger |-> ledger, data |-> events[n]]]
    /\ UNCHANGED <<ledger, open>>

create_job(fee) ==
    /\ next_id < MaxJobs
    /\ next_id' = next_id + 1
    /\ Publish(next_id,
               [next_run |-> 0, active |-> TRUE, balance |-> Deposit, fee |-> fee, runs |-> 0],
               <<[type |-> "job_created"]>>)

update_job(j, fee) ==
    /\ Publish(j, [jobs[j] EXCEPT !.fee = fee], <<[type |-> "job_updated"]>>)
    /\ UNCHANGED next_id

cancel_job(j) ==
    /\ Publish(j, None, <<[type |-> "job_cancelled"]>>)
    /\ UNCHANGED next_id

fund_job(j) ==
    LET balance == jobs[j].balance + Deposit
    IN  /\ Publish(j, [jobs[j] EXCEPT !.balance = balance],
                   <<[type |-> "job_funded", balance |-> balance]>>)
        /\ UNCHANGED next_id

withdraw_job_balance(j) ==
    /\ jobs[j].balance > 0
    /\ Publish(j, [jobs[j] EXCEPT !.balance = @ - 1],
               <<[type |-> "job_withdrawn", balance |-> jobs[j].balance - 1]>>)
    /\ UNCHANGED next_id

set_job_active(j, active) ==
    /\ Publish(j, [jobs[j] EXCEPT !.active = active],
               <<[type |-> "job_active_set", active |-> active]>>)
    /\ UNCHANGED next_id

\* A run, which may end in the job's deactivation after too many failures.  The
\* event about a balance that has run out is published before the receipt.
run_job(j, deactivates) ==
    LET new == [jobs[j] EXCEPT !.runs = @ + 1, !.next_run = @ + 1,
                               !.balance = @ - jobs[j].fee,
                               !.active = ~ deactivates]
        receipt == [type |-> "job_executed", next_run |-> new.next_run, run |-> new.runs,
                    fee |-> jobs[j].fee]
    IN  /\ jobs[j].active /\ jobs[j].balance >= jobs[j].fee
        /\ Publish(j, new,
               (IF deactivates THEN <<[type |-> "job_deactivated"]>> ELSE <<>>)
               \o (IF new.balance < new.fee
                   THEN <<[type |-> "job_exhausted", balance |-> new.balance]>> ELSE <<>>)
               \o <<receipt>>)
        /\ UNCHANGED next_id

FeedNext ==
    \/ BeginLedger
    \/ EndLedger
    \/ \E f \in Fees : create_job(f)
    \/ \E j \in {i \in JobIds : jobs[i] # None} :
          \/ \E f \in Fees : update_job(j, f)
          \/ cancel_job(j)
          \/ fund_job(j)
          \/ withdraw_job_balance(j)
          \/ \E a \in BOOLEAN : set_job_active(j, a)
          \/ \E d \in BOOLEAN : run_job(j, d)
=============================================================================
