----------------------------- MODULE KeeperTick -----------------------------
(***************************************************************************)
(* One polling pass of the keeper bot after another                        *)
(* (keeper-bot/src/tick.ts, channels.ts, quarantine.ts, fees.ts): the due  *)
(* jobs are cut into batches, every batch is simulated and sent by a task  *)
(* of its own on a channel account, and a batch that fails because of one  *)
(* of its jobs, or does not pay, is halved until that job is alone.        *)
(*                                                                         *)
(* Each await is a step: tasks interleave with one another and with other  *)
(* keepers.  A job has a kind, which decides what simulating it does;      *)
(* calls may fail for reasons of their own as well.  The counters of       *)
(* TickSummary are the lengths of the buckets jobs land in.                *)
(***************************************************************************)
EXTENDS JobBatches, SequencesExt

CONSTANTS
    JobList,            \* the jobs, earliest due first
    None,
    Setups,             \* the bot's batch size, channels and --dry-run switch, and the
                        \* kinds of jobs it meets
    MaxRestoreFee,      \* archived jobs a keeper pays to restore at once; 0 for never
    FeeIsNative,        \* whether job fees can be compared with network costs
    MinProfit, MaxCostPerJob,
    QuarantineLength,   \* ticks a job sits out
    TopLevel            \* highest step of the fee bids

VARIABLES
    kind,       \* what each job is like; never changes
    dry_run,    \* the --dry-run switch; never changes
    batch_size, \* never changes
    channels,   \* how many channel accounts there are; never changes
    running,    \* whether a tick is in progress
    due,        \* the jobs the index reported due in this tick
    tasks,      \* per batch: what is left of it, its channel, bid and simulated jobs,
                \* and what it awaits: acquire, prepare, restore, again, send, retry,
                \* resend, done
    free,       \* ChannelPool.free
    waiting,    \* ChannelPool.waiting, as task numbers
    gone,       \* jobs that ran since this tick's sync
    restored,   \* archived jobs that were restored
    aside,      \* Quarantine: ticks each job still sits out, 0 when it does not
    level,      \* FeeStrategy.level
    landed,     \* per job the buckets of the summary it was counted in
    trouble     \* history: a call failed in this tick for a reason of its own

fixed == <<kind, dry_run, batch_size, channels>>
pool == <<free, waiting>>
vars == <<fixed, running, due, tasks, pool, gone, restored, aside, level, landed, trouble>>

Jobs == ToSet(JobList)
Kinds == {"plain", "costly", "blocked", "bad", "archived"}
Buckets == {"executed", "skipped", "unprofitable", "failed", "dry_run"}

ASSUME TickAssumption ==
    /\ \A s \in Setups : /\ s.batch_size \in Nat \ {0} /\ s.channels \in Nat \ {0}
                          /\ s.kinds \subseteq Kinds /\ s.dry_run \in BOOLEAN
    /\ JobList \in Seq(Jobs) /\ IsInjective(JobList) /\ None \notin Nat
    /\ QuarantineLength \in Nat \ {0} /\ TopLevel \in Nat /\ MaxRestoreFee \in Nat

\* What makes a job plain: alone it pays for itself, however high the bid.
ASSUME PayAssumption ==
    /\ FeeIsNative \in BOOLEAN /\ MinProfit \in Int /\ MaxCostPerJob \in Nat
    /\ \A bid \in 1..(TopLevel + 1) :
          IF FeeIsNative THEN 3 - (bid + 1) >= MinProfit
          ELSE MaxCostPerJob # 0 => bid + 1 <= MaxCostPerJob

Init ==
    /\ \E s \in Setups :
          /\ batch_size = s.batch_size /\ channels = s.channels /\ dry_run = s.dry_run
          /\ kind \in [Jobs -> s.kinds]
    /\ running = FALSE /\ due = {} /\ tasks = <<>>
    /\ free = [c \in 1..channels |-> c] /\ waiting = <<>>
    /\ gone = {} /\ restored = {}
    /\ aside = [j \in Jobs |-> 0]
    /\ level = 0
    /\ landed = [j \in Jobs |-> <<>>] /\ trouble = FALSE

-----------------------------------------------------------------------------
(* What simulating and sending a batch says about its jobs. *)

\* A job alone makes the simulation of its batch fail.
Spoils(ids) == \E j \in ToSet(ids) : kind[j] = "bad"

Archived(ids) == {j \in ToSet(ids) : kind[j] = "archived" /\ j \notin restored}

\* The jobs of a batch that would run.
Runnable(ids) == Filter(ids, {j \in Jobs : kind[j] # "blocked" /\ j \notin gone})

Costly(ids) == Cardinality({j \in ToSet(ids) : kind[j] = "costly"})

\* The jobs of a batch that take up much of its resources: the costly ones, and
\* the blocked ones, whose resolver is asked.  One that already ran takes little.
Dear(ids) ==
    Cardinality({j \in ToSet(ids) : kind[j] \in {"costly", "blocked"} /\ j \notin gone})

\* A job pays 3, a costly one pays 1.
earned(runs) == 3 * Len(runs) - 2 * Costly(runs)

\* The network charges for the whole batch, also for what will not run: 1 for
\* each job and 3 more for a dear one, with what the keeper bids for inclusion.
cost(ids, bid) == bid + Len(ids) + 3 * Dear(ids)

\* A batch, of which some would run, that the keeper won't pay for.
refusal(ids, runs, bid) ==
    IF FeeIsNative THEN earned(runs) - cost(ids, bid) < MinProfit
    ELSE MaxCostPerJob # 0 /\ cost(ids, bid) > MaxCostPerJob * Len(runs)

Count(ids, bucket) ==
    [j \in Jobs |-> IF j \in ToSet(ids) THEN Append(landed[j], bucket) ELSE landed[j]]

-----------------------------------------------------------------------------
(* FeeStrategy. *)

escalate == IF level < TopLevel THEN level + 1 ELSE level

\* The inclusion fee bid at a level.
current(lvl) == 1 + lvl

-----------------------------------------------------------------------------
(* Channels. *)

\* Mutated form: a released channel is not handed on.
ReleaseForgetsWaiters(channel, ts) ==
    free' = Append(free, channel) /\ tasks' = ts /\ UNCHANGED waiting

\* Mutated form: a released channel is handed on and kept free as well.
ReleaseTwice(channel, ts) ==
    /\ free' = Append(free, channel)
    /\ IF waiting = <<>> THEN tasks' = ts /\ UNCHANGED waiting
       ELSE /\ waiting' = Tail(waiting)
            /\ tasks' = [ts EXCEPT ![Head(waiting)].channel = channel,
                                   ![Head(waiting)].at = "prepare",
                               ![Head(waiting)].bid = current(level')]

\* Hands the channel to the task that waits longest, if any.
release(channel, ts) ==
    IF waiting = <<>> THEN
        /\ free' = Append(free, channel)
        /\ tasks' = ts
        /\ UNCHANGED waiting
    ELSE
        /\ waiting' = Tail(waiting)
        /\ tasks' = [ts EXCEPT ![Head(waiting)].channel = channel,
                               ![Head(waiting)].at = "prepare",
                               ![Head(waiting)].bid = current(level')]
        /\ UNCHANGED free

\* Task t goes on with what is left to do, or returns its channel.  Every batch
\* takes the bid of the moment it starts: level' is assigned before.
Continue(t, todo) ==
    IF todo # <<>>
    THEN /\ tasks' = [tasks EXCEPT ![t].todo = todo, ![t].at = "prepare",
                                   ![t].bid = current(level'), ![t].ids = <<>>, ![t].runnable = <<>>]
         /\ UNCHANGED pool
    ELSE release(tasks[t].channel,
                 [tasks EXCEPT ![t] = [todo |-> <<>>, at |-> "done", channel |-> None,
                                       bid |-> 0, ids |-> <<>>, runnable |-> <<>>]])

Await(t, stage) == tasks' = [tasks EXCEPT ![t].at = stage] /\ UNCHANGED pool

-----------------------------------------------------------------------------
(* A tick. *)

Batches(jobs) == chunks(jobs, batch_size)

\* Mutated form: nobody's time is ever up.
QuarantineForever == aside

\* Quarantine.next
quarantine_next == [j \in Jobs |-> IF aside[j] = 0 THEN 0 ELSE aside[j] - 1]

\* The tick starts a task per batch; the first ones find a channel free.
tick(all_due) ==
    LET sits_out == {j \in all_due : quarantine_next[j] > 0}
        batches == Batches(Filter(JobList, all_due \ sits_out))
        served == IF Len(batches) < Len(free) THEN Len(batches) ELSE Len(free)
    IN  /\ ~ running
        /\ running' = TRUE
        /\ due' = all_due
        /\ aside' = quarantine_next
        /\ landed' = [j \in Jobs |-> IF j \in sits_out THEN <<"skipped">> ELSE <<>>]
        /\ tasks' = [b \in 1..Len(batches) |->
              [todo |-> <<batches[b]>>,
               at |-> IF b <= served THEN "prepare" ELSE "acquire",
               channel |-> IF b <= served THEN free[Len(free) + 1 - b] ELSE None,
               bid |-> IF b <= served THEN current(level) ELSE 0,
               ids |-> <<>>, runnable |-> <<>>]]
        /\ free' = SubSeq(free, 1, Len(free) - served)
        /\ waiting' = [n \in 1..(Len(batches) - served) |-> served + n]
        /\ gone' = {}
        /\ trouble' = FALSE
        /\ UNCHANGED <<fixed, restored, level>>

\* Promise.all
tick_ends ==
    /\ running
    /\ \A t \in 1..Len(tasks) : tasks[t].at = "done"
    /\ running' = FALSE
    /\ tasks' = <<>>
    /\ UNCHANGED <<fixed, due, pool, gone, restored, aside, level, landed, trouble>>

-----------------------------------------------------------------------------
(* runBatch, for the first batch task t has left. *)

Batch(t) == Head(tasks[t].todo)
Later(t) == Tail(tasks[t].todo)

\* Mutated form: the first job of a failing batch is blamed.
BlameFirst(t, job_specific) ==
    LET ids == Batch(t)
    IN  /\ aside' = IF job_specific THEN [aside EXCEPT ![ids[1]] = QuarantineLength] ELSE aside
        /\ landed' = Count(ids, "skipped")
        /\ Continue(t, Later(t))

\* A failed simulation: a batch is halved to find the job it belongs to, and
\* that job is set aside once it is alone.
simulation_fails(t, job_specific) ==
    LET ids == Batch(t)
    IN  IF job_specific /\ Len(ids) > 1
        THEN /\ Continue(t, halves(ids) \o Later(t))
             /\ UNCHANGED <<aside, landed>>
        ELSE /\ aside' = IF job_specific THEN [aside EXCEPT ![ids[1]] = QuarantineLength]
                         ELSE aside
             /\ landed' = Count(ids, "skipped")
             /\ Continue(t, Later(t))

\* A simulation that succeeds: what will not run is skipped, and a batch that is
\* refused is halved.
simulation_succeeds(t) ==
    LET ids == Batch(t)
        runs == Runnable(ids)
        skipped == Filter(ids, Jobs \ ToSet(runs))
        count(bucket) == [j \in Jobs |-> IF Contains(runs, j) THEN Append(landed[j], bucket)
                                         ELSE Count(skipped, "skipped")[j]]
    IN  CASE runs = <<>> ->
               landed' = Count(skipped, "skipped") /\ Continue(t, Later(t))
          [] runs # <<>> /\ refusal(ids, runs, tasks[t].bid) /\ Len(runs) > 1 ->
               landed' = Count(skipped, "skipped") /\ Continue(t, halves(runs) \o Later(t))
          [] runs # <<>> /\ refusal(ids, runs, tasks[t].bid) /\ Len(runs) = 1 ->
               landed' = count("unprofitable") /\ Continue(t, Later(t))
          [] runs # <<>> /\ ~ refusal(ids, runs, tasks[t].bid) /\ dry_run ->
               landed' = count("dry_run") /\ Continue(t, Later(t))
          [] OTHER ->
               /\ landed' = Count(skipped, "skipped")
               /\ tasks' = [tasks EXCEPT ![t].at = "send", ![t].ids = ids, ![t].runnable = runs]
               /\ UNCHANGED pool

\* Simulates the batch, before and after restoring archived state.
prepare(t) ==
    /\ tasks[t].at \in {"prepare", "again"}
    /\ UNCHANGED level
    /\ LET ids == Batch(t)
           fee == Cardinality(Archived(ids))
       IN  CASE Spoils(ids) -> simulation_fails(t, TRUE)
             [] ~ Spoils(ids) /\ fee = 0 -> simulation_succeeds(t) /\ UNCHANGED aside
             [] ~ Spoils(ids) /\ fee > 0 /\ fee > MaxRestoreFee -> simulation_fails(t, TRUE)
             [] ~ Spoils(ids) /\ fee \in 1..MaxRestoreFee /\ dry_run -> simulation_fails(t, FALSE)
             [] OTHER -> Await(t, "restore") /\ UNCHANGED <<aside, landed>>
    /\ UNCHANGED <<fixed, running, due, gone, restored, trouble>>

\* The simulation, or the restore, fails for a reason that concerns every job.
prepare_fails(t) ==
    /\ tasks[t].at \in {"prepare", "restore", "again"}
    /\ UNCHANGED level
    /\ simulation_fails(t, FALSE)
    /\ trouble' = TRUE
    /\ UNCHANGED <<fixed, running, due, gone, restored>>

restore(t) ==
    /\ tasks[t].at = "restore"
    /\ restored' = restored \cup Archived(Batch(t))
    /\ Await(t, "again")
    /\ UNCHANGED <<fixed, running, due, gone, aside, level, landed, trouble>>

\* The transaction runs what can still run; the summary counts what the first
\* simulation said.
send(t) ==
    /\ tasks[t].at \in {"send", "resend"}
    /\ gone' = gone \cup ToSet(Runnable(tasks[t].ids))
    /\ level' = 0
    /\ landed' = Count(tasks[t].runnable, "executed")
    /\ Continue(t, Later(t))
    /\ UNCHANGED <<fixed, running, due, restored, aside, trouble>>

\* A refused or lost transaction; a lost one may have run all the same.  The bid
\* rises when a higher one might help.
send_fails(t, ran, fee_related) ==
    /\ tasks[t].at \in {"send", "retry", "resend"}
    /\ ran => tasks[t].at # "retry"
    /\ gone' = IF ran THEN gone \cup ToSet(Runnable(tasks[t].ids)) ELSE gone
    /\ level' = IF fee_related THEN escalate ELSE level
    /\ landed' = Count(tasks[t].runnable, "failed")
    /\ trouble' = TRUE
    /\ Continue(t, Later(t))
    /\ UNCHANGED <<fixed, running, due, restored, aside>>

\* A stale sequence number: the batch is simulated again and sent, once.
sequence_error(t) ==
    /\ tasks[t].at = "send"
    /\ Await(t, "retry")
    /\ UNCHANGED <<fixed, running, due, gone, restored, aside, level, landed, trouble>>

resimulate(t) ==
    /\ tasks[t].at = "retry"
    /\ Await(t, "resend")
    /\ UNCHANGED <<fixed, running, due, gone, restored, aside, level, landed, trouble>>

\* Another keeper runs a job.
Rival(j) ==
    /\ running /\ j \in due \ gone
    /\ gone' = gone \cup {j}
    /\ UNCHANGED <<fixed, running, due, tasks, pool, restored, aside, level, landed, trouble>>

-----------------------------------------------------------------------------

Step(t) ==
    \/ prepare(t) \/ prepare_fails(t) \/ restore(t)
    \/ send(t) \/ sequence_error(t) \/ resimulate(t)
    \/ \E ran, fee_related \in BOOLEAN : send_fails(t, ran, fee_related)

Bot ==
    \/ \E all_due \in SUBSET Jobs : tick(all_due)
    \/ \E t \in 1..Len(tasks) : Step(t)
    \/ tick_ends

Next == Bot \/ \E j \in Jobs : Rival(j)

\* Calls return or time out, one after another, and the keeper keeps polling.
Fairness == WF_vars(Bot)

Spec == Init /\ [][Next]_vars /\ Fairness

-----------------------------------------------------------------------------

\* No channel account ever has two transactions in flight and none is lost:
\* every channel is either free, once, or held by exactly one unfinished task,
\* and tasks wait only while none is free (acquire, release).
ChannelsExclusive ==
    LET holders(c) == {t \in 1..Len(tasks) : tasks[t].channel = c}
    IN  /\ IsInjective(free)
        /\ \A c \in 1..channels :
              IF Contains(free, c) THEN holders(c) = {} ELSE Cardinality(holders(c)) = 1
        /\ waiting # <<>> => free = <<>>

\* TickSummary: every due job lands in exactly one bucket, however its batch was
\* halved, skipped, refused, restored, sent and sent again; no bucket is taken
\* back, and every tick ends, so no task waits for a channel or for another task
\* for ever.  The bot implements KeeperPass.
Pass == INSTANCE KeeperPass WITH
    Verdicts <- {<<b>> : b \in Buckets}, Open <- <<>>,
    due <- IF running THEN due ELSE {},
    verdict <- IF running THEN landed ELSE [j \in Jobs |-> <<>>]
ImplementsPass == Pass!Spec

\* Only a job that stops its batch on its own is ever set aside, never one that
\* shared its batch (halves, quarantine.add).
OnlyCulpritsSetAside ==
    \A j \in Jobs : aside[j] > 0 =>
        kind[j] = "bad" \/ (kind[j] = "archived" /\ MaxRestoreFee = 0)

\* Halving finds the culprit: at the end of a tick in which no call failed by
\* itself, every job that would run and pays for itself was executed, or had been
\* run by somebody else, whatever bad, costly or archived job shared its batch.
\* The one exception is the code's: where skipped jobs, blocked ones or ones that
\* another keeper was faster on, leave a single job to bear what its whole batch
\* costs, it is not simulated alone but counted as unprofitable.  So a job that pays
\* may be unprofitable only in a tick that skips another for one of these reasons.
PayingJobsRun ==
    ~ running /\ ~ trouble /\ ~ dry_run =>
        \A j \in due : kind[j] = "plain" =>
            \/ j \in gone
            \/ /\ landed[j] = <<"unprofitable">>
               /\ \E i \in due \ {j} : /\ landed[i] = <<"skipped">>
                                       /\ kind[i] = "blocked" \/ i \in gone

\* A job that was set aside gets another chance (Quarantine.next).  It is said of
\* the first job; the others differ from it in their place only.
SetAsideReturns == aside[Head(JobList)] > 0 ~> aside[Head(JobList)] = 0
=============================================================================
