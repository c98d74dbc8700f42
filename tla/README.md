# SoroCron in TLA+

SoroCron runs scheduled calls on Stellar. Owners escrow money for *jobs* in a
registry contract; *keepers* stake tokens, watch for jobs that fall due and run
them for a fee. This directory holds a TLA+ model of the registry contract, of
the two keeper programs that drive it and of the contracts that jobs call and
ask, the TLC configurations that check it on small instances, and proofs checked
by TLAPS.

All paths are relative to the repository root.

## 1. The system

| Part | State | Operations | Talks to |
|---|---|---|---|
| Schedule arithmetic (`contracts/registry/src/schedule.rs`) | none | next slot, calendar slots, ramped fee, fee split, moving average, release date | called by the registry |
| Registry: jobs (`contracts/registry/src/lib.rs`) | specs, states, owner lists, pending handovers, escrowed balances | create (alone, in batches), update, fund, withdraw, cancel, switch, hand over | token contract |
| Registry: execution | runs, slots, failures, keeper records and averages | `execute`, `execute_batch`, `is_due` | executor, target, resolver, token |
| Registry: keepers | stakes, unbonding dates, the rotation | stake, unbond, withdraw (alone, in lists) | token |
| Registry: admin | settings, emergency switch, halted targets, admin handover, pending upgrade | one call each | |
| Registry storage (`storage.rs`, `types.rs`) | persistent entries, and three timestamps that decide about missed windows, two of them temporary | | ledger |
| Keeper bot: job index (`keeper-bot/src/jobIndex.ts`) | local copy of all jobs, event cursor | `load`, `sync`, `apply`, `due` | RPC server |
| Keeper bot: tick (`tick.ts`, `channels.ts`, `quarantine.ts`, `fees.ts`) | tasks in flight, free channels, waiting tasks, quarantined jobs, bid level | one pass over the due jobs | RPC server, registry |
| Keeper bot: main loop and failover (`keeper.ts`, `endpoints.ts`) | endpoint health, failure counts | probe, choose, reconnect | RPC servers |
| Keeper bot: alerts, watches, top-ups | what was notified and when | | |
| Keeper in Rust (`keeper-rs`) | jobs set aside, tick count | poll, batch, split, halve, send | RPC server |
| Example targets (`contracts/examples`): DCA vault, limit order, subscription, vesting, timelock, self-extending storage | a plan, an order, subscriptions, schedules, a queue, an index of keys | set up by an owner, run by anybody, asked by `should_run` | tokens, router, targets |
| Example resolvers: price, floor, oracle, rebalance, flag, composite, timelock | one setting each, registered proposals | set by an admin, asked by `should_run` | oracles, pools, each other |
| TTL guardian (`contracts/ttl-guardian`) | none | `extend`, `extend_many` | host |
| Executor (`contracts/executor`) | the registry's address | forwards one call | target |
| SDK, React hooks, web app, deployment | | | |

What is hard here, and what has to be right:

* **Money.** Fees and stakes may be the same token, so one balance holds jobs'
  deposits, stakes and fees in flight. The registry must always hold what it
  owes (`BooksBalance`), and a run must cost what the owner allowed
  (`OneRunPerSlot`, the arithmetic sweep).
* **Blame.** A keeper that misses a window reserved for it loses reputation.
  Whether it had the whole window is reconstructed afterwards from timestamps
  that every interrupting call has to leave (`MissNeedsWholeWindow`).
* **Notice.** Keepers get time to leave before new code runs, whatever the
  admin changes meanwhile (`LeaversOutBeforeUpgrade`).
* **Two entries about one thing.** Owner lists and specs, rotation and keeper
  records, followers and leaders, a record loaded by a batch and the stored one.
* **Terms.** The targets are called by anybody, at any time and any number of
  times: the owner's interval, price, period, cliff or window must hold all the
  same (`TranchesKeepThePlan`, `OneChargePerPeriod`, `CallsRunInTheirWindow`),
  and work must be done only while `should_run` says so, once per answer
  (`RunsOnlyWhenDue`).
* **Progress.** A keeper that sleeps must not hold a job back (`DueJobsGetRun`).
* **Interleaving.** The bot reads jobs and events in many calls while ledgers
  close, and runs batches concurrently on a pool of accounts; every `await` is a
  place where the world changes and where a call may fail.
* **Endpoints.** RPC servers go down, fall behind, answer probes and nothing
  else, and come back; the bot chooses among them from what it remembers.

The hazards, each at its line, are listed in `PROJECT.json`.

## 2. Modules

| Module | Models |
|---|---|
| `Schedule` | every function of `schedule.rs`, with the integer widths as constants |
| `ScheduleSweep` | a clock that sweeps time and compares them with independent definitions |
| `RegistryState` | storage entries as variables, constructor, storage helpers |
| `RegistryJobs`, `RegistryExecution`, `RegistryKeepers`, `RegistryAdmin` | the calls, one action each |
| `Registry` | all calls in any order, the clock, expiry of temporary entries; safety properties |
| `KeeperWindows`, `UpgradeNotice` | history variables that say what a missed window and a notice ought to mean, and the properties about them |
| `KeeperLiveness` | fairness and progress |
| `JobFeed` | the registry as its events show it to a follower |
| `JobIndex` | the bot's job index on top of it |
| `KeeperTick` | the bot's polling pass |
| `KeeperPass` | abstract: what a polling pass promises of every due job |
| `KeeperRs` | the Rust keeper's ticks |
| `Failover` | the bot's main loop as far as it chooses endpoints |
| `DueTarget`, `Escrow` | abstract: what a target promises its keepers, and what a contract that holds money promises its holders |
| `HostLedger` | the clock and the u64 arithmetic that the contracts below share |
| `DcaVault`, `LimitOrder`, `Subscription`, `Vesting`, `Timelock` | the example targets, one each |
| `TimelockResolver`, `Resolvers` | the example resolvers |
| `Lifetimes` | self-extending storage and the TTL guardian |
| `Targets` | all of them on one ledger |
| `JobBatches` | lists of jobs cut into batches, as both keepers do it |
| `ScheduleProofs`, `RegistryProofs` | theorems about the registry: its arithmetic; its types, jobs, runs, keepers and their windows, upgrades, books and owner lists |
| `SweepProofs` | theorems about the functions of `Schedule` against their definitions in `ScheduleSweep` |
| `TargetProofs` | theorems about the contracts of `Targets` |
| `TickProofs`, `RsProofs` | theorems about the polling passes of the bot and of the Rust keeper |
| `IndexProofs` | the theorem about the bot's job index |
| `ListProofs` | induction and recursion over numbers, stated with sets; lists filtered, halved and cut in batches |
| `MC...` | instances for TLC; `MCWorlds` holds the worlds the registry is checked in |

**Registry.** A contract call is a transaction: it takes effect as a whole or
not at all, so a failing call is no step, and a call is one action. The three
calls that loop (`create_jobs`, `execute_batch`, `withdraw_stakes`) take one
step per turn of the loop; `tx` holds their locals and nothing else moves until
they return. Variables have the names of the storage entries. The target, the
resolver and the token are other contracts and are modelled by their outcome: a
target succeeds or fails, a resolver answers anything, a transfer fits the
balances or the call fails. Signatures are left out: an action stands for the
call signed by the party it needs. The widths of u32, u64 and i128 are
constants, and all arithmetic saturates or is guarded as in the code. Arguments
come from the record `world`, one set per parameter, chosen from `Worlds` at
the start.

**Job index.** A ledger is applied at once, so a server answers from closed
ledgers only (`open`). Every `await` of `load`, `sync` and `apply` is a step,
and each may fail. A cursor is a position in the log of events; servers may
return none with an empty page. A job's fee stands for all the settings that
only `update_job` changes.

**Tick.** Each batch is a task; a step is the time between two awaits. A job
has a kind that decides what simulating it does: it runs and pays, costs more
than it pays, would not run, spoils the simulation of its batch, or needs a
restore. A batch is charged for all its jobs, for those that will not run too
(`cost`, `Dear`), and earns what the runnable ones pay. Rivals run jobs at any
time. The buckets of `TickSummary` are sequences per job, so that double counting
shows.

`PayingJobsRun` says that every due job that would run and pays for itself has run
at the end of a tick without failing calls, whatever bad, expensive or archived job
shared its batch, with one exception, which is the code's: a refused batch with one
runnable job is final (`tick.ts:202-210`), so where its other jobs are skipped that
job bears the cost of all and is counted as unprofitable. The exception is allowed
in a tick that skips another due job as blocked or already run; that the two were
in one batch is not part of the property.

**Rust keeper.** One loop, one account: `queue` is the `VecDeque` of batches, its
head the batch in hand. The await points are `is_due` for each job, simulating,
reading the fees and sending; rivals run jobs between them. A job's kind decides
what simulating it does, as above; heavy jobs exhaust the budget only together.
`resource_fee` is the simulation's `min_resource_fee`, of the whole batch.
`landed` is the sequence of outcomes a job was counted in. `GoodJobsRun` is
`PayingJobsRun` for this keeper, with the same exception (`main.rs:134`), and says
of the jobs set aside that each stops a batch by itself.

**Failover.** An endpoint has a condition, which may change while the bot waits:
whether it serves calls, and what ledger its probe reports. The counters stop at
the limits they are compared with. A process that cannot connect exits and is
started again (`deploy/systemd`, the compose file), without what it remembered.

**Targets and resolvers.** Each contract is a module with one action per call,
signed by the party it needs. Oracles, pools, routers and tokens are external:
they answer anything they could, late, or not at all. The contracts share only
the clock, so a behaviour of `Targets` deploys one of them, chosen at the start
(`focus`). Arguments include the ones the code refuses. Ledger time runs up to
the largest u64 (7 here), where additions saturate or trap as in the code.

**Refinements.** `KeeperTick` and `KeeperRs` implement `KeeperPass`: every job a
pass finds due gets exactly one verdict, none is taken back, and the pass ends.
`DcaVault`, `LimitOrder`, `Subscription` and `Vesting` implement `DueTarget`;
`LimitOrder` and `Vesting` implement `Escrow`. Each mapping is an
`INSTANCE ... WITH` at the end of the module, and a run checks the abstract
specification as a property.

## 3. Runs

| Run | Asks | Result |
|---|---|---|
| `schedule_arithmetic` | does every function of `schedule.rs` compute what it is for, up to the end of u64 time | holds, 13,923 states |
| `registry` | seven worlds: escrow, owners, rotation, followers, settings, halting, upgrades | holds, 1.4 M states |
| `keepers` | five worlds: owner, admin and keepers interrupt reserved runs, batches, upgrade notice | holds, 0.7 M states |
| `progress` | does every due job get run | holds, 0.2 M states |
| `job_index` | is the index sound whatever ledgers close and calls fail, and does it heal | holds, 1.15 M states |
| `tick` | one batch of every mixture of jobs; several batches on two channels; the refinement of `KeeperPass` | holds, 0.2 M states |
| `keeper_rs` | the Rust keeper over every mixture of three jobs; the refinement of `KeeperPass` | holds, 0.7 M states |
| `targets` | do the targets and resolvers keep their owners' terms, hold what they owe, run only when they said so, and finish | holds, 0.19 M states |
| `failover` | does the bot settle on the best endpoint once all serve again | holds, 0.1 M states |
| `zero_min_stake`, `index_gap`, `failover_stuck` | does the code do what this comment or doc says | violated, see section 6 |

**Worlds.** The properties of the registry need different callers: three
keepers to fill a rotation, two owners to hand jobs over, two jobs to follow one
another. Every combination at once is out of reach and would add little, so a
behaviour of `registry` and `keepers` picks one *world* at the start: a set of
arguments and its own bounds on time, jobs and money (`MCWorlds`). `world`
never changes, so each world is an instance of `Registry` of its own; the proofs
hold for every set of well-typed worlds.

**Bounds, and why they are enough.**

* Time: 3 to 4 ledger times for jobs with intervals of 1 to 3 and windows of up
  to 2, so that a window can open, be interrupted, reopen, pass and be missed;
  7 for upgrades, so that a keeper with a period of 1 and epochs of up to 4 can
  leave before and after.
* Jobs: 3 for owner lists, 2 for followers (a follower that changes leader and a
  cycle), 1 for windows (windows of different jobs share only the timestamps
  that belong to the whole registry).
* Keepers: 3 around a rotation with room for 2; 2 for windows, the assigned one
  and another one.
* Calendar: minutes, hours, days and weeks are 1 to 3 units long, so that every
  boundary is crossed within the bounded time. The code reads them as constants.
* Money: each world has so much of each token (`supply`); a transfer of more than
  there is fails, as the token would make it fail.
* Events: 3 in 4 ledgers, pages of 1 job and 2 events, one failing call, a
  reload every 3 syncs. Every page boundary and every race between a snapshot
  and the log needs no more than two events.
* Tick: 3 jobs, so that halves are uneven, quarantine of 2 ticks, 2 bid levels.
* Rust keeper: 3 jobs in batches of 3, of 2 with a rest, and of a size that is
  clamped; fees in XLM and in another token; a dry run.
* Targets: 8 ledger times for intervals, periods, cliffs, windows and delays of
  0 to 3, so that each opens, closes and comes round again, and one interval or
  end that reaches the u64 limit; 2 beneficiaries and 2 queued calls with room
  for 1 per run; 2 composites that may contain each other; at most 2 settings
  changed per behaviour of the resolvers, which share one feed and one pool.
* Failover: 2 endpoints whose conditions change 6 times, with limits of 2
  failures, 1 ledger of lag and 3 probes.

`Rest` lets time end without hiding real deadlocks: TLC's
deadlock check stays on and would report a looping call that cannot return. It
is off only for `schedule_arithmetic`, which ends when its sweep does.

**Fairness.** `progress` assumes that ledgers keep closing and that one keeper
executes a job that stays executable: `keeper.ts` and `keeper-rs` poll for ever.
Nobody else has to do anything. The liveness of the index and of the tick
assumes that calls return, by an answer or a timeout (`retry.ts`), that the main
loop polls again, and for the index that ledgers keep closing. `job_index`
asks for healing once the registry is quiet and failing calls have ended, which
the bound on events and failures provides. `keeper_rs` and `failover` assume
the same of their loops: calls return, and another round follows. `targets`
assumes that ledgers close and that a keeper runs `release_vested` and
`execute_ready` while their resolver goes on answering true, of the latter only
that it is called, though every target fails; users, admins, markets and oracles
need do nothing. Lifetimes are checked for keepers that run a job at least every
`Gap` ledgers (`KeeperOnTime`), which is what the property is conditional on.

Every property has a mutant: a plausible slip in the code (a forgotten
timestamp, a dropped check, an off-by-one) that TLC finds to violate it. The
mutated forms stand next to the definitions they change.

## 4. Proofs

`ScheduleProofs` proves the arithmetic the registry relies on, for every width
and every calendar: results stay in u64 and i128, a fee lies between the base
fee and the larger of base fee and cap and never exceeds the balance it is taken
from (`FeeBounds`), the two shares of a fee add up to it (`SplitExact`).

`SweepProofs` proves, for every width, calendar, interval, fee and time, that
they compute what they should:

    CalendarSafe     Spec => []FirstRunIsEarliestMatch         SweepProofs
    GridSafe         Spec => []NextRunIsLeastLaterSlot
    ReleaseSafe      Spec => []ReleaseWithinOneEpoch
    FeeMonotonic     Spec => FeeNeverFalls

The sweep's own invariant is its types (`SweepType`); the work is in lemmas on
division with remainder: what a multiple plus a remainder is divided by, which
multiples lie between two numbers, and that the rounded-down fee ramp is monotonic.

`RegistryProofs` proves, for every set of accounts, keepers, contracts and
worlds and every value of the limits,

    TypeCorrect      Spec => []TypeOK                          RegistryProofs
    PausedSafe       Spec => PausedOnlyPaysOut
    FollowersSafe    Spec => []FollowersBehindLeaders
    BatchRecordSafe  Spec => []BatchRecordCurrent
    RunsReported     Spec => RunsWereReportedDue
    FollowersWait    Spec => FollowerWaitsForLeader
    SlotsSafe        Spec => OneRunPerSlot
    MissShareSafe    Spec => []MissShareBounded
    RotationSafe     Spec => []RotationSound
    NoticeSafe       SpecNotice => []LeaversFitNotice
    LeaversOut       SpecNotice => LeaversOutBeforeUpgrade
    UpgradeDates     SpecNotice => UpgradeNeverMovesForward
    BooksSafe        Spec => []BooksBalance
    OwnersSafe       Spec => []OwnerIndexExact
    MissesSafe       SpecWindows /\ [](config.min_stake > 0) => MissNeedsWholeWindow

`TypeOK` is not inductive. Three facts are missing, and the invariant `IInv` adds them:

* `PartsTogether`: a job's spec and state exist together, so that a call that
  finds one may use the other;
* `CreateJobsSound`: what the loop of `create_jobs` has validated so far is
  storable and there are ids for what is left; otherwise the storing loop, which
  validates nothing, could store a job with interval 0 or a negative deposit;
* `WithdrawStakesSound`: the loop of `withdraw_stakes` stops before its list is
  empty.

All other theorems build on `IInv`. What each of them needs besides:

* `PausedSafe`: `LoopsUnpaused`, no loop that runs or creates jobs is under way
  while the switch is on. The switch is read once, at the start of the loop.
* `FollowersSafe`: `IdsUsed`, existing jobs and the leaders they name have ids
  below `next_job_id`, so that a new job is never the lost leader of an old one;
  and `BatchLeaders`, the leaders that `create_jobs` has checked still exist when
  it stores their followers.
* `RunsReported`, `FollowersWait`, `SlotsSafe`: `RunInv`. A batch that runs was
  let in by an unpaused registry with its executor in place (`LoopsUnpaused`,
  `LoopsConnected`), since only its first step looks at either; a follower's
  leader exists (`FInv`). A run is then one step, and the rest is arithmetic of
  `next_run_after` and `run_fee` from `ScheduleProofs`.
* `MissShareSafe`: the bound also on the copy a batch carries, or the write-back
  could break it.
* `RotationSafe`: `BatchRecordCurrent`, or the write-back could bring an old
  `unbonding_at` back. `UnbondingSteps` then says how a record can change:
  it disappears only when its unbonding is over and leaves only by
  `begin_unbonding`, which takes the keeper off the list (`RemoveOnce`: once is
  enough because nobody is listed twice).
* `NoticeSafe` and its two companions: `UInv`, the pending upgrade waits at
  least `min_upgrade_delay` of the epoch now in force, counted from its
  announcement. The property alone is not inductive, since the next keeper to
  leave is measured against the current epoch. `LeavesInTime` is the arithmetic: waiting
  for the end of an epoch and then a period takes at most an epoch and a period,
  also where one of the sums saturates.
* `BooksSafe`: `BInv` adds that the total `create_jobs` transfers is the sum of the
  deposits it has validated (`BatchTotal`), and that without a treasury there is
  no protocol fee, also not in a batch's hands (`TreasuryShare`). `IdsUsed` says
  that a new job's id carries no balance, `BatchRecordCurrent` that a batch's
  write-back undoes no stake. The sums over jobs and keepers are the community modules' folds. That such a fold obeys
  its recursion is proved by induction on the size of the set (`SumsExist`), and
  that a changed entry changes the sum by the difference (`SumChange`) is what
  every call needs.
* `OwnersSafe`: `IdsUsed`, so that the id appended to a list is not on it; then
  `RemoveOnce`, because a job is listed once.
* `MissesSafe`: `WindowInv`. The observer's `since`, from when the assigned keeper
  could run the job, is at most the time `had_whole_window` counts from (`Opened`,
  the latest of the four timestamps), or so long ago that a timestamp may have
  expired since (`WindowOK`). Every step lets the window of a job go on, with nobody
  else assigned and a timestamp that is no earlier or has expired (`GoesOn`), or sets
  a timestamp to now (`Opens`); a change of the rotation, of the eligible keepers or
  of whether a job can run that did neither would show here. Needed besides:
  `RunInv`, since a batch that charges was let in by an unpaused registry with its
  executor in place, and `BatchRecordCurrent`, since the miss is written to the copy
  a batch carries. The worlds of `keepers` satisfy the hypothesis: with a minimum of 0 the
  first stake opens a window without a timestamp, the finding `zero_min_stake`.

`TargetProofs` proves, for every argument the callers may pass, any number of
subscribers, beneficiaries and proposals and any largest u64,

    TranchesSafe     Spec => []TranchesKeepThePlan             TargetProofs
    ChargesSafe      Spec => []OneChargePerPeriod
    CallsSafe        Spec => []CallsRunInTheirWindow
    FeedsSafe        Spec => []StaleFeedsStaySilent
    LivesSafe        Spec => []NothingArchived
    WindowsSafe      Spec => WindowClosesForGood
    MoneySafe        Spec => MoneyStaysWithItsOwner
    DueSafe          Spec => RunsOnlyWhenDue

`OneContract` splits a step of `Targets` into one call of one contract, which
leaves the clock alone, or the clock's. Then:

* `TranchesSafe`: `DcaInv`, the plan's next date is an interval after every
  tranche so far; `RoundedDown` is the price after the division that rounds.
* `ChargesSafe`: `BillingInv`, the period charged last is at least the period of
  every charge so far, so that a later one is later than all of them; without a
  plan nobody has subscribed, so no period is computed under another plan.
* `CallsSafe`: `TimelockInv`, ids asked for are below `next_id`, so that a new one
  is not in the queue, and the stored ETA is the one asked for and at least the
  delay after the asking. What removing several ids at once leaves of the queue is
  shown by induction on its length.
* `FeedsSafe`: `FeedInv`, the feed's last timestamp is at most `Skew` ahead of the
  moment it was heard, so an answer that is fresh by its timestamp is fresh. The
  property and the proof follow a composite to its own parts; what it means for a
  composite inside a composite, which the code allows, is only in the model.
* `LivesSafe`: `LifeInv`, whatever is looked after is indexed and lives a whole
  `Gap` beyond the last run, because a run extends what is nearer its end than the
  threshold and a new entry is given more than a `Gap`.
* `WindowsSafe`: the types alone, since a proposal's date and window are stored
  once and time does not run backwards.
* `MoneySafe`, the refinement of `Escrow`: what has vested never exceeds the total
  (`VestedBound`), so a release takes no more than the beneficiary owns.
* `DueSafe`, the four refinements of `DueTarget`: an open order has not been
  filled (`Unfilled`), and a wallet pays nothing before there is a plan and only
  its price afterwards (`WalletInv`), since the runs of a subscriber are counted
  by what was paid.

`TickProofs` proves, for every list of jobs of any kinds, every batch size, number
of channels and height of bids, and every interleaving of tasks and rivals,

    ChannelsSafe     Spec => []ChannelsExclusive               TickProofs
    BlameSafe        Spec => []OnlyCulpritsSetAside
    PayingSafe       Spec => []PayingJobsRun
    TickPassSteps    Spec => Pass!Steps

* `ChannelsSafe`: `TaskInv` says which stage goes with holding a channel, with
  waiting and with having batches left. Without it a task that ends might return
  a channel it does not hold, or hand it to a task that does not wait.
* `BlameSafe`: a batch that fails is halved until its job is alone (`Halves`:
  both halves hold jobs and no job is lost), and a job alone in a batch that fails
  because of its jobs spoiled it (`Blamed`).
* `PayingSafe`: `WorkInv`, a plain job that has been counted has run or is sunk, that
  is, unprofitable beside a skipped one (`Sunk`). Uncounted jobs are in a batch some
  task has left (`LandInv`, below), so the end of the tick leaves none. A failed
  simulation counts a plain job only if a call failed (`FailsWork`); one that succeeds
  skips it only when it is gone, and refuses it for good only if it is the one runnable
  job of a batch with others, which are then skipped (`SucceedsWork`), since a plain job
  that is the whole batch is never refused (`PlainPays`).
* `TickPassSteps`, the steps of `KeeperPass` without its fairness: `LandInv`, each
  due job is counted or in exactly one batch that exactly one task has left to count.
  That is not what the task has left to do: while it sends, the jobs its simulation
  did not run are counted already and their batch is still there (`Left`), so a
  failed sending counts only the others. A task that gets a channel from another has
  as much left as before (`ReleaseLeft`).

`RsProofs` proves, for every list of jobs of any kinds, every batch size, prices in
either token, dry or not, and every rival,

    GoodJobsSafe     Spec => []GoodJobsRun                     RsProofs
    RsPassSteps      Spec => Pass!Steps

* `GoodJobsSafe`: `WorkInv`, a due job that works and pays is gone, in the queue or
  sunk. It is kept because behind the simulation nothing that works and is
  still due is missing from what ran, and a good job that is the whole batch costs
  what a job alone does (`StageInv`), because a heavy or an expensive
  batch is halved rather than dropped, and because only a bad job sits out
  (`BlameInv`), so no good one is missing from the due list.
* `RsPassSteps`, the steps of `KeeperPass` without its fairness: `LandInv`, the
  queue holds exactly the due jobs that are not counted yet, each once, so that a
  batch counts nobody twice and an empty queue means that everyone is counted.

`IndexProofs` proves, for any number of jobs, events, ledgers, failing calls and
reloads and any page sizes,

    IndexSafe        Spec => []IndexSound                      IndexProofs

`IndexSound` speaks of an index that has caught up; the invariant has to say what
one that has not may hold. `Near` says it of a job and a position of the log:
whatever the index has wrong about the job, an event behind the position puts right
(a `Resets` event everything, a run the next run and the count, a switch the flag,
a `Totals` event the balance). The balance is the hard part, since a replayed run is
subtracted twice: it is held against the balance an index may count on behind each
event, a function that exists for every log (`FeedOK`) and that the invariant
quantifies over. Two facts carry the proof:

* (`Advance`, `Again`) `Near` behind one event implies, with the event applied, `Near` behind the next,
  and also behind the same one, so events may be seen twice but not skipped;
* a job read from a server is `Near` at every position up to the snapshot, because
  the last event about it tells what the registry has (`LastWord`). A load that
  fails half-way leaves a new index with the old cursor, which is no later
  (`PlaceInv`); a page that fails leaves a half applied one (`PageInv`).

Only the dropped first event of the finding `index_gap` is outside: it sets `gap`.

There is one lemma per group of calls and one step per call. The assumptions are
the named ASSUMEs of the modules: limits are naturals that fit their widths,
special addresses are in their sets, `None` is none of the values it is mixed
with, arguments have their types. Those that say more:

* `KeepersAssumption`: there are finitely many keepers, since stakes are summed;
* `BoundsAssumption`: the clock ends below the largest u64, which no ledger reaches;
* `SweepAssumption`: the swept times end a week before the largest u64, where a
  calendar would saturate;
* `LifetimesAssumption`: the `Gap` fits the thresholds and the lifetime of a new
  entry, the condition under which the documentation promises that nothing is
  archived;
* `TtlAssumption`: a temporary entry lives at least as long as the longest window
  (two days and one, `storage.rs:25`, `lib.rs:72`), without which a forgotten
  timestamp could make a window look longer;
* `PayAssumption` and `KeeperRsPayAssumption`: a plain job alone pays for itself, at
  the bot's highest bid and under the Rust keeper's limits (there also a heavy one),
  which is what these words mean.

TLC evaluates them in every run of a module that uses them.

The provers cannot instantiate the library's induction theorems, whose parameter
is an operator. `ListProofs` states the same with a set: a set of naturals that
contains 0 and with each number the next is all of them, and for a step that is a
function there is a function that obeys the recursion. Whatever is said of a filtered
list, a queue with ids removed, a list cut in halves or batches, a log or a sum
uses them.

Only model-checked: everything under fairness, which the prover cannot reason
about: that jobs run, passes end, quarantine ends, the index heals, a healthy
endpoint is chosen and what is vested or decided is paid. Only those halves of
`ImplementsPass` are not theorems.

## 5. Not modelled

* Lifetime of the registry's persistent entries: an archived entry is restored
  before it is read. The two temporary timestamps do expire.
* The always-zero slashing fields, function names and argument values.
* Views that copy entries; events and error codes of the contract, except those
  the job index follows.
* `fetchEvents`' silent move to a later start ledger when the requested one has
  left the server's retention.
* The inside of the executor (it holds one address and forwards one call), the
  counter example, `tx.rs` (encoding and signing), configuration, metrics,
  logging, alerts and top-ups, the SDK and the user interface: input parsing,
  formatting and I/O with no protocol of their own.
* Everything else `PROJECT.json` lists as `not_modelled`, with the reason.

## 6. Where code and text disagree

Shown by a run:

* `zero_min_stake`: with a minimum stake of 0, a keeper made assignable by its
  first stake while the rotation is full is charged with a window that opened
  before it staked (`docs/security.md:70`).
* `index_gap`: `load` drops the first event after its snapshot
  (`jobIndex.ts:2`). The passing run shows that this is the only way the index
  loses a job, and that a reload repairs it.
* `failover_stuck`: when the chosen endpoint answers probes but cannot be
  connected to, the failure is charged to the one still connected, so the broken
  one is chosen in every round (`endpoints.ts:8`).

Met while modelling, smaller, and without a run of their own:

* Time before an executor was connected counts as a keeper's window
  (`docs/architecture.md:84`), and `is_due` goes on reporting a job whose target
  became the executor (`lib.rs:960`).
* Replaying an execution takes its fee off the index's copy twice
  (`jobIndex.ts:97`): it errs on the side of thinking a job poorer.
* The retry after a stale sequence number sends a batch that its own simulation
  says would do nothing (`tick.ts:8`).
* The Rust keeper counts a job as executed, and its fee as earned, from the
  simulation, also when another keeper was faster (`keeper-rs/src/main.rs:47`).
* `is_billable` of the subscription ("whether charge would succeed now") looks
  at the allowance and not at the wallet.
* A vesting schedule that ends beyond the largest u64 can never be released: the
  addition traps.
* The bot says that batches that cost more than they earn are split "so an
  expensive job doesn't hold back cheap ones" (`tick.ts:9`), and that "an
  unprofitable batch is split the same way, so jobs that pay for themselves still
  run" (`tick.ts:159`). It splits only while two jobs are runnable: the fee is
  that of the whole batch (`tick.ts:192`), and a single runnable job whose
  neighbours are skipped is refused without a try of its own (`tick.ts:202`) though it would pay
  alone, in every tick in which the same jobs meet. The Rust keeper does the same
  (`registry.rs:349`, `main.rs:134`). `PayingJobsRun` and `GoodJobsRun` show that
  this is the only way.
* The vesting contract says it implements `should_run(job_id)`
  (`vesting/src/lib.rs:8`); it exposes only `should_run_for(beneficiary)`, which a
  job cannot name as its resolver. `due` is that answer.

## 7. Plan

1. Done: schedule, registry, job index, tick, Rust keeper, failover, targets and
   resolvers; the refinements of section 2; the theorems of section 4.
2. The registry as an `Escrow`: an account per job and per keeper, and the
   refinement mapping from stored balances.
3. The main loop composed with the job index: whether a switch of servers whose
   event logs differ loses events.
