------------------------------ MODULE KeeperRs ------------------------------
(***************************************************************************)
(* The keeper in Rust (keeper-rs/src/main.rs, registry.rs): it asks is_due *)
(* of every job, cuts the due ones into batches and handles them one after *)
(* the other on one account.  A batch that a job stops is taken apart into *)
(* single jobs; one that does not pay is halved.                           *)
(*                                                                         *)
(* Every await is a step, so other keepers may act between is_due, the     *)
(* simulation, the reading of fees and the sending.  A job has a kind,     *)
(* which decides what simulating it does; a call may also fail by itself.  *)
(* The counters of TickSummary are the numbers of jobs that landed in each *)
(* outcome.                                                                *)
(***************************************************************************)
EXTENDS JobBatches, SequencesExt

CONSTANTS
    JobList,            \* the jobs by id
    Setups,             \* configurations, and the kinds of jobs met with them
    MAX_BATCH,          \* the largest batch the registry takes
    Budget,             \* heavy jobs that fit one transaction
    MIN_PROFIT, MAX_COST_PER_JOB,
    TICKS               \* ticks a job sits out

VARIABLES
    kind,           \* what each job is like; never changes
    batch_size, fee_is_native, dry_run,     \* configuration; never changes
    ready,          \* the jobs is_due would report
    phase,          \* "idle", "scan" or "run"
    scanned,        \* is_due answers so far in this tick
    due,            \* the jobs found due in this tick
    queue,          \* batches left; the head is being handled
    at,             \* what the head awaits
    ran,            \* the jobs of the head its simulation ran
    resource_fee,   \* what the network asks for the whole head, from its simulation
    until,          \* Quarantine: ticks each job still sits out, 0 when it does not
    landed,         \* per job the outcomes it was counted in
    gone,           \* history: jobs that somebody ran since the tick began
    trouble         \* history: a call failed by itself in this tick

fixed == <<kind, batch_size, fee_is_native, dry_run>>
vars == <<fixed, ready, phase, scanned, due, queue, at, ran, resource_fee, until, landed, gone, trouble>>

Jobs == ToSet(JobList)
Kinds == {"plain", "heavy", "costly", "blocked", "bad"}
Outcomes == {"executed", "skipped", "unprofitable", "failed"}

ASSUME KeeperRsAssumption ==
    /\ JobList \in Seq(Jobs) /\ IsInjective(JobList)
    /\ {TICKS, MAX_BATCH, Budget} \subseteq Nat \ {0}
    /\ \A s \in Setups : /\ s.batch_size \in Nat /\ s.kinds \subseteq Kinds
                         /\ s.fee_is_native \in BOOLEAN /\ s.dry_run \in BOOLEAN

\* What makes a job plain or heavy: alone, paying 3 for a cost of 2, it is worth
\* running.
ASSUME KeeperRsPayAssumption ==
    /\ MIN_PROFIT \in Int /\ 3 - 2 >= MIN_PROFIT
    /\ MAX_COST_PER_JOB \in Nat /\ (MAX_COST_PER_JOB > 0 => 2 <= MAX_COST_PER_JOB)

Init ==
    /\ \E s \in Setups :
          /\ batch_size = s.batch_size /\ kind \in [Jobs -> s.kinds]
          /\ fee_is_native = s.fee_is_native /\ dry_run = s.dry_run
    /\ ready = Jobs
    /\ phase = "idle" /\ scanned = 0 /\ due = <<>>
    /\ queue = <<>> /\ at = "none" /\ ran = <<>> /\ resource_fee = 0
    /\ until = [j \in Jobs |-> 0]
    /\ landed = [j \in Jobs |-> <<>>]
    /\ gone = {} /\ trouble = FALSE

-----------------------------------------------------------------------------
(* Batches, and what simulating one says. *)

\* size.clamp(1, 20)
chunk_size == IF batch_size < 1 THEN 1 ELSE IF batch_size > MAX_BATCH THEN MAX_BATCH ELSE batch_size

\* Mutated form: the jobs after the last full batch are forgotten.
WholeBatches(ids) == chunks(SubSeq(ids, 1, chunk_size * (Len(ids) \div chunk_size)), chunk_size)

batches(ids) == chunks(ids, chunk_size)

CountKind(ids, k) == Cardinality({j \in ToSet(ids) : kind[j] = k})

\* A job that asks for the keeper's authorization (check_auth) or exhausts the
\* budget stops its batch, and so do heavy jobs that only together are too much.
JobProblem(ids) ==
    LET running == Filter(ids, ready)
    IN  CountKind(running, "bad") > 0 \/ CountKind(running, "heavy") > Budget

\* ran_flags
Runnable(ids) == Filter(ids, {j \in ready : kind[j] # "blocked"})

\* Jobs pay 3, costly ones 1.
fees(ids) == 3 * Len(ids) - 2 * CountKind(ids, "costly")

\* sim.min_resource_fee of a batch, what will not run included: 1 for each job, and
\* 3 more for one that is costly or whose resolver, asked in vain, is.
min_resource_fee(ids) ==
    LET asked == Filter(ids, ready)
    IN  Len(ids) + 3 * (CountKind(asked, "costly") + CountKind(asked, "blocked"))

\* Inclusion costs 1.
cost == 1 + resource_fee

profitable(earned, spent) == earned - spent >= MIN_PROFIT

\* With unread the jobs whose current_fee could not be read, taken for 0.
Unprofitable(unread) ==
    IF fee_is_native THEN ~ profitable(fees(Filter(ran, Jobs \ unread)), cost)
    ELSE MAX_COST_PER_JOB > 0 /\ cost > MAX_COST_PER_JOB * Len(ran)

-----------------------------------------------------------------------------
(* A tick. *)

\* Quarantine.next
next == [j \in Jobs |-> IF until[j] = 0 THEN 0 ELSE until[j] - 1]

tick_starts ==
    /\ phase = "idle"
    /\ phase' = "scan" /\ scanned' = 0 /\ due' = <<>>
    /\ until' = next
    /\ gone' = {} /\ trouble' = FALSE
    /\ landed' = [j \in Jobs |-> <<>>]
    /\ UNCHANGED <<fixed, ready, queue, at, ran, resource_fee>>

\* job_count is read with the first answer.
is_due ==
    /\ phase = "scan" /\ scanned < Len(JobList)
    /\ scanned' = scanned + 1
    /\ due' = IF JobList[scanned + 1] \in ready THEN Append(due, JobList[scanned + 1]) ELSE due
    /\ UNCHANGED <<fixed, ready, phase, queue, at, ran, resource_fee, until, landed, gone, trouble>>

\* The tick fails as a whole when a job cannot be read: nothing is run.
scan_fails ==
    /\ phase = "scan"
    /\ phase' = "idle" /\ due' = <<>>
    /\ UNCHANGED <<fixed, ready, scanned, queue, at, ran, resource_fee, until, landed, gone, trouble>>

begin_batches ==
    /\ phase = "scan" /\ scanned = Len(JobList)
    /\ phase' = "run"
    /\ queue' = batches(Filter(due, {j \in Jobs : until[j] = 0}))
    /\ landed' = [j \in Jobs |-> IF Contains(due, j) /\ until[j] > 0 THEN <<"skipped">> ELSE <<>>]
    /\ at' = "simulate"
    /\ UNCHANGED <<fixed, ready, scanned, due, ran, resource_fee, until, gone, trouble>>

tick_ends ==
    /\ phase = "run" /\ queue = <<>>
    /\ phase' = "idle" /\ at' = "none"
    /\ UNCHANGED <<fixed, ready, scanned, due, queue, ran, resource_fee, until, landed, gone, trouble>>

-----------------------------------------------------------------------------
(* execute_batch for the first batch of the queue, and tick's reading of its *)
(* result.                                                                   *)

Handling(stage) == phase = "run" /\ queue # <<>> /\ at = stage

\* The jobs of the sets given land in their outcomes; the queue goes on.
Land(skipped, others, outcome, rest) ==
    /\ landed' = [j \in Jobs |-> IF j \in others THEN Append(landed[j], outcome)
                                 ELSE IF j \in skipped THEN Append(landed[j], "skipped")
                                 ELSE landed[j]]
    /\ queue' = rest
    /\ at' = "simulate" /\ ran' = <<>> /\ resource_fee' = 0

\* Mutated form: the whole batch is set aside.
SetBatchAside ==
    /\ Handling("simulate") /\ JobProblem(Head(queue))
    /\ until' = [j \in Jobs |-> IF Contains(Head(queue), j) THEN TICKS ELSE until[j]]
    /\ Land(ToSet(Head(queue)), {}, "skipped", Tail(queue))
    /\ UNCHANGED <<fixed, ready, phase, scanned, due, gone, trouble>>

job_problem ==
    LET batch == Head(queue)
    IN  /\ Handling("simulate") /\ JobProblem(batch)
        /\ IF Len(batch) > 1
           THEN /\ Land({}, {}, "skipped", Tail(queue) \o [i \in 1..Len(batch) |-> <<batch[i]>>])
                /\ UNCHANGED until
           ELSE /\ Land({batch[1]}, {}, "skipped", Tail(queue))
                /\ until' = [until EXCEPT ![batch[1]] = TICKS]
        /\ UNCHANGED <<fixed, ready, phase, scanned, due, gone, trouble>>

\* A registry error that concerns every job (paused, not staked).
registry_error ==
    /\ Handling("simulate")
    /\ Land(ToSet(Head(queue)), {}, "skipped", Tail(queue))
    /\ trouble' = TRUE
    /\ UNCHANGED <<fixed, ready, phase, scanned, due, until, gone>>

\* What would run; a batch of which nothing would is skipped.
simulate ==
    LET batch == Head(queue)
    IN  /\ Handling("simulate") /\ ~ JobProblem(batch)
        /\ IF Runnable(batch) = <<>> THEN Land(ToSet(batch), {}, "skipped", Tail(queue))
           ELSE /\ ran' = Runnable(batch) /\ resource_fee' = min_resource_fee(batch)
                /\ at' = "fees" /\ UNCHANGED <<queue, landed>>
        /\ UNCHANGED <<fixed, ready, phase, scanned, due, until, gone, trouble>>

\* The fees of the jobs that would run, read one by one: another keeper may have
\* run one for the last time since the simulation.
current_fees(unread) ==
    LET batch == Head(queue)
        rest == ToSet(batch) \ ToSet(ran)
    IN  /\ Handling("fees") /\ unread \subseteq ToSet(ran) \ ready
        /\ IF Unprofitable(unread)
           THEN IF Len(ran) > 1
                THEN Land(rest, {}, "skipped", halves(ran) \o Tail(queue))
                ELSE Land(rest, ToSet(ran), "unprofitable", Tail(queue))
           ELSE IF dry_run THEN Land(rest, ToSet(ran), "executed", Tail(queue))
           ELSE at' = "send" /\ UNCHANGED <<queue, ran, resource_fee, landed>>
        /\ UNCHANGED <<fixed, ready, phase, scanned, due, until, gone, trouble>>

\* The transaction runs what can still run; the summary counts what the
\* simulation said.
send ==
    LET batch == Head(queue)
    IN  /\ Handling("send")
        /\ gone' = gone \cup ToSet(Runnable(batch)) /\ ready' = ready \ ToSet(Runnable(batch))
        /\ Land(ToSet(batch) \ ToSet(ran), ToSet(ran), "executed", Tail(queue))
        /\ UNCHANGED <<fixed, phase, scanned, due, until, trouble>>

\* A call of execute_batch does not come back, or the transaction did not apply;
\* one that was lost while being sent may have run.
execute_batch_fails(applied) ==
    LET batch == Head(queue)
        runs == IF applied THEN ToSet(Runnable(batch)) ELSE {}
    IN  /\ phase = "run" /\ queue # <<>>
        /\ applied => at = "send"
        /\ gone' = gone \cup runs /\ ready' = ready \ runs
        /\ Land({}, ToSet(batch), "failed", Tail(queue))
        /\ trouble' = TRUE
        /\ UNCHANGED <<fixed, phase, scanned, due, until>>

-----------------------------------------------------------------------------
(* The rest of the world. *)

\* Another keeper runs a job.
Rival(j) ==
    /\ phase # "idle" /\ j \in ready
    /\ ready' = ready \ {j}
    /\ gone' = gone \cup {j}
    /\ UNCHANGED <<fixed, phase, scanned, due, queue, at, ran, resource_fee, until, landed, trouble>>

\* The next run of a job falls due; intervals are longer than a tick.
FallsDue(j) ==
    /\ phase = "idle" /\ j \notin ready
    /\ ready' = ready \cup {j}
    /\ UNCHANGED <<fixed, phase, scanned, due, queue, at, ran, resource_fee, until, landed, gone, trouble>>

Keeper ==
    \/ tick_starts \/ is_due \/ begin_batches \/ tick_ends
    \/ job_problem \/ registry_error \/ simulate \/ send
    \/ \E unread \in SUBSET Jobs : current_fees(unread)
    \/ \E applied \in BOOLEAN : execute_batch_fails(applied)

Next == Keeper \/ scan_fails \/ \E j \in Jobs : Rival(j) \/ FallsDue(j)

\* Calls return, and a tick follows another.
Spec == Init /\ [][Next]_vars /\ WF_vars(Keeper)

-----------------------------------------------------------------------------

\* "Every due job lands in exactly one outcome" (TickSummary), whatever became of
\* its batch, no outcome is taken back, and every tick that gets as far as
\* running batches ends: the keeper implements KeeperPass.
Pass == INSTANCE KeeperPass WITH
    Verdicts <- {<<o>> : o \in Outcomes}, Open <- <<>>,
    running <- phase = "run",
    due <- IF phase = "run" THEN ToSet(due) ELSE {},
    verdict <- IF phase = "run" THEN landed ELSE [j \in Jobs |-> <<>>]
ImplementsPass == Pass!Spec

\* Taking batches apart finds the culprit: only a job that stops its batch by
\* itself is ever set aside, and at the end of a tick in which no call failed by
\* itself every due job that works and pays was run, by this keeper or by another
\* since it was found due, whatever bad, heavy or costly job shared its batch.  The
\* exception is the code's: where skipped jobs, blocked ones or ones that another
\* keeper was faster on, leave a single job to bear what its whole batch costs, it is
\* not simulated alone but counted as unprofitable.  So a good job may be unprofitable
\* only in a tick that skips another for one of these reasons.
GoodJobsRun ==
    /\ \A j \in Jobs : until[j] > 0 => kind[j] = "bad"
    /\ (phase = "run" /\ queue = <<>> /\ ~ trouble /\ ~ dry_run) =>
          \A j \in ToSet(due) : kind[j] \in {"plain", "heavy"} =>
              \/ j \in gone
              \/ /\ landed[j] = <<"unprofitable">>
                 /\ \E i \in ToSet(due) \ {j} : /\ landed[i] = <<"skipped">>
                                                /\ kind[i] = "blocked" \/ i \in gone
=============================================================================
