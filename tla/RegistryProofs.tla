--------------------------- MODULE RegistryProofs ---------------------------
(***************************************************************************)
(* Theorems about the registry, for every set of accounts, keepers,        *)
(* contracts, jobs and worlds and for every value of the limits: types;    *)
(* runs and their slots, batches and loops, keepers' records and the       *)
(* rotation, and the notice keepers get of an upgrade, whatever unbonding  *)
(* period, epoch and delay the admin sets; and the books: the registry     *)
(* holds exactly what it owes, for any number of keepers and jobs, and the *)
(* list kept per owner names every live job of its owner exactly once; and *)
(* that no keeper is charged for a window it did not have.                 *)
(***************************************************************************)
EXTENDS UpgradeNotice, KeeperWindows, ScheduleProofs, SequenceTheorems, FiniteSetTheorems,
        ListProofs

-----------------------------------------------------------------------------
(* The inductive invariant behind TypeOK. *)

\* A job's spec and state are created and deleted together.
PartsTogether == \A j \in JobIds : spec[j] = None <=> state[j] = None

\* What validation has established about a job that a batch will store.
Checked(new) ==
    /\ effective_interval(new.params) \in U64 \ {0}
    /\ new.params.fee_per_run \in Amount \ {0}
    /\ new.params.max_fee_per_run \in Amount
    /\ new.deposit \in Amount

\* The locals of create_jobs: what is validated so far is storable, and there
\* are ids for what is still to be stored.
CreateJobsSound ==
    tx.call = "create_jobs" =>
        /\ tx.i <= Len(tx.batch) + 1
        /\ \A n \in 1..Len(tx.batch) : (tx.paid \/ n < tx.i) => Checked(tx.batch[n])
        /\ tx.paid => tx.i <= Len(tx.batch)
        /\ ~ tx.paid => next_job_id + Len(tx.batch) <= MaxJobs /\ 1 <= Len(tx.batch)
        /\ tx.paid => next_job_id + (Len(tx.batch) - tx.i) < MaxJobs

WithdrawStakesSound == tx.call = "withdraw_stakes" => tx.todo # <<>>

IInv == TypeOK /\ PartsTogether /\ CreateJobsSound /\ WithdrawStakesSound

LEMMA WorldOK == TypeOK => world \in WorldType
  BY WorldsAssumption DEF TypeOK

LEMMA NowU64 == TypeOK => now \in U64
  BY ScheduleAssumption, BoundsAssumption DEF TypeOK, U64

LEMMA InitIInv == Init => IInv
<1> SUFFICES ASSUME Init PROVE IInv
  OBVIOUS
<1>1. TypeOK
  BY ScheduleAssumption, BoundsAssumption, AddressAssumption
  DEF TypeOK, Init, Config, KeeperRecent, Option, U64, U32, Amount, Idle
<1> QED
  BY <1>1 DEF IInv, PartsTogether, CreateJobsSound, WithdrawStakesSound, Init, Idle

LEMMA LedgerIInv == IInv /\ Ledger => IInv'
<1> SUFFICES ASSUME IInv, Ledger PROVE IInv'
  OBVIOUS
<1> USE DEF IInv, jobVars, keeperVars, windowVars, adminVars
<1>1. CASE Tick
  <2>1. world.until \in 1..MaxTime
    BY WorldOK DEF WorldType
  <2> QED
    BY <1>1, <2>1, BoundsAssumption
    DEF Tick, TypeOK, PartsTogether, CreateJobsSound, WithdrawStakesSound
<1>2. CASE Rest
  BY <1>2 DEF Rest, vars, TypeOK, PartsTogether, CreateJobsSound, WithdrawStakesSound
<1>3. ASSUME NEW j \in JobIds, ExpireJobTouched(j) PROVE IInv'
  BY <1>3, ScheduleAssumption DEF ExpireJobTouched, TypeOK, PartsTogether, CreateJobsSound, WithdrawStakesSound, U64
<1>4. ASSUME NEW t \in Contracts, ExpireTargetResumed(t) PROVE IInv'
  BY <1>4, ScheduleAssumption DEF ExpireTargetResumed, TypeOK, PartsTogether, CreateJobsSound, WithdrawStakesSound, U64
<1> QED
  BY <1>1, <1>2, <1>3, <1>4 DEF Ledger

-----------------------------------------------------------------------------
(* The admin's calls. *)

LEMMA UpgradeTypes ==
  ASSUME NEW delay \in U64, NEW epoch \in U64, NEW from \in U64
  PROVE  SatAdd(from, upgrade_delay_for(delay, epoch)) \in U64
<1>1. SatAdd(UnbondingPeriod, epoch) \in U64
  BY AddressAssumption, SatAddType DEF U64
<1>2. upgrade_delay_for(delay, epoch) \in U64
  BY <1>1 DEF upgrade_delay_for, min_upgrade_delay, Larger
<1> QED
  BY <1>2, SatAddType DEF U64

LEMMA PushBackType ==
  ASSUME NEW pending \in Option(PendingUpgrade), NEW delay \in U64, NEW epoch \in U64
  PROVE  push_back_pending_upgrade(pending, delay, epoch) \in Option(PendingUpgrade)
<1>1. CASE pending = None
  BY <1>1 DEF push_back_pending_upgrade, Option
<1>2. CASE pending \in PendingUpgrade
  <2>1. SatAdd(pending.proposed_at, upgrade_delay_for(delay, epoch)) \in U64
    BY <1>2, UpgradeTypes DEF PendingUpgrade
  <2> QED
    BY <1>2, <2>1 DEF push_back_pending_upgrade, Option, PendingUpgrade, Larger
<1> QED
  BY <1>1, <1>2 DEF Option

LEMMA EpochType ==
  ASSUME TypeOK
  PROVE  config.unbonding_epoch \in U64 /\ upgrade_delay \in U64
<1>1. config \in Config /\ upgrade_delay \in U64
  BY DEF TypeOK
<1>2. config.unbonding_epoch \in 0..MAX_UNBONDING_EPOCH
  BY <1>1 DEF Config
<1> QED
  BY <1>1, <1>2, ScheduleAssumption, BoundsAssumption DEF U64

\* A step that finds no call in progress and leaves none keeps its bookkeeping.
LEMMA IdleSound ==
  ASSUME tx = Idle, tx' = tx
  PROVE  CreateJobsSound' /\ WithdrawStakesSound'
  BY DEF CreateJobsSound, WithdrawStakesSound, Idle

LEMMA AdminIInv == IInv /\ AdminCall => IInv'
<1> SUFFICES ASSUME IInv, AdminCall PROVE IInv'
  OBVIOUS
<1>w. world \in WorldType
  BY WorldOK DEF IInv
<1> USE <1>w DEF IInv, WorldType, jobVars, keeperVars, windowVars, adminVars,
        PartsTogether, CreateJobsSound, WithdrawStakesSound
<1>0. now \in U64
  BY NowU64
<1>1. ASSUME NEW e \in world.executors, set_executor(e) PROVE IInv'
  <2>1. config \in Config /\ e \in Contracts
    BY DEF TypeOK
  <2>2. config' = [config EXCEPT !.executor = e] /\ tx' = tx /\ tx = Idle
    BY <1>1 DEF set_executor
  <2>3. config' \in Config
    BY <2>1, <2>2 DEF Config, Option
  <2>4. UNCHANGED <<now, world, jobVars, keeperVars, windowVars, adminVars, held, tx>>
    BY <1>1 DEF set_executor
  <2>5. TypeOK'
    BY <2>3, <2>4 DEF TypeOK
  <2>6. PartsTogether'
    BY <2>4
  <2>7. CreateJobsSound' /\ WithdrawStakesSound'
    BY <2>2, IdleSound
  <2> QED
    BY <2>5, <2>6, <2>7
<1>2. ASSUME NEW a \in world.admins, propose_admin(a) PROVE IInv'
  BY <1>2 DEF propose_admin, TypeOK, Option
<1>3. CASE accept_admin
  BY <1>3 DEF accept_admin, TypeOK, Config, Option
<1>4. CASE cancel_admin_proposal
  BY <1>4 DEF cancel_admin_proposal, TypeOK, Option
<1>5. ASSUME NEW p \in world.paused_flags, set_paused(p) PROVE IInv'
  BY <1>0, <1>5 DEF set_paused, TypeOK, Config
<1>6. ASSUME NEW t \in world.halts, NEW h \in BOOLEAN, set_target_halted(t, h) PROVE IInv'
  BY <1>0, <1>6 DEF set_target_halted, TypeOK
<1>7. ASSUME NEW s \in world.min_stakes, set_min_stake(s) PROVE IInv'
  <2>1. s \in Amount
    BY <1>7, ScheduleAssumption DEF set_min_stake, I128, Amount
  <2> QED
    BY <1>0, <1>7, <2>1 DEF set_min_stake, reset_windows, TypeOK, Config
<1>8. ASSUME NEW i \in world.min_intervals, set_min_interval(i) PROVE IInv'
  BY <1>8 DEF set_min_interval, TypeOK, Config
<1>9. ASSUME NEW n \in world.max_args, set_max_args(n) PROVE IInv'
  BY <1>9 DEF set_max_args, TypeOK, Config
<1>10. ASSUME NEW f \in world.protocol_fees, set_protocol_fee(f[1], f[2]) PROVE IInv'
  <2>1. f[1] \in 0..MAX_BPS /\ f[2] \in Option(Accounts)
    BY <1>10, BoundsAssumption DEF set_protocol_fee, protocol_fee_valid, U32
  <2> QED
    BY <1>10, <2>1 DEF set_protocol_fee, TypeOK, Config
<1>11. ASSUME NEW n \in world.max_failures, set_max_failures(n) PROVE IInv'
  BY <1>11 DEF set_max_failures, TypeOK, Config
<1>12. ASSUME NEW g \in world.grace_periods, set_keeper_windows(g) PROVE IInv'
  <2>1. g \in 0..MAX_GRACE_PERIOD
    BY <1>12, ScheduleAssumption, BoundsAssumption DEF set_keeper_windows, U64
  <2> QED
    BY <1>0, <1>12, <2>1 DEF set_keeper_windows, reset_windows, TypeOK, Config
<1>13. ASSUME NEW e \in world.epochs, set_unbonding_epoch(e) PROVE IInv'
  <2>1. e \in 0..MAX_UNBONDING_EPOCH /\ e \in U64
    BY <1>13, ScheduleAssumption, BoundsAssumption DEF set_unbonding_epoch, U64
  <2>2. pending_upgrade' \in Option(PendingUpgrade)
    BY <1>13, <2>1, PushBackType DEF set_unbonding_epoch, TypeOK
  <2> QED
    BY <1>13, <2>1, <2>2 DEF set_unbonding_epoch, TypeOK, Config
<1>14. ASSUME NEW d \in world.delays, set_upgrade_delay(d) PROVE IInv'
  <2>1. d \in U64 /\ config.unbonding_epoch \in U64
    BY EpochType
  <2>2. pending_upgrade' \in Option(PendingUpgrade)
    BY <1>14, <2>1, PushBackType DEF set_upgrade_delay, TypeOK
  <2> QED
    BY <1>14, <2>1, <2>2 DEF set_upgrade_delay, TypeOK
<1>15. ASSUME NEW w \in world.wasm_hashes, propose_upgrade(w) PROVE IInv'
  <2>1. upgrade_delay \in U64 /\ config.unbonding_epoch \in U64
    BY EpochType
  <2>2. pending_upgrade' \in Option(PendingUpgrade)
    BY <1>0, <1>15, <2>1, UpgradeTypes DEF propose_upgrade, PendingUpgrade, Option
  <2> QED
    BY <1>15, <2>2 DEF propose_upgrade, TypeOK
<1>16. CASE apply_upgrade
  BY <1>16 DEF apply_upgrade, TypeOK, Option, PendingUpgrade
<1>17. CASE cancel_upgrade
  BY <1>17 DEF cancel_upgrade, TypeOK, Option
<1> QED
  BY <1>1, <1>2, <1>3, <1>4, <1>5, <1>6, <1>7, <1>8, <1>9, <1>10, <1>11, <1>12, <1>13,
     <1>14, <1>15, <1>16, <1>17 DEF AdminCall

-----------------------------------------------------------------------------
(* Keepers' calls. *)

\* A non-empty set of naturals has a least element.
LEMMA MinOfNats ==
  ASSUME NEW T \in SUBSET Nat, T # {}
  PROVE  Min(T) \in T /\ \A y \in T : Min(T) <= y
<1> DEFINE R == {ss \in Nat \X Nat : ss[1] < ss[2]}
<1>1. IsWellFoundedOn(R, Nat)
  BY NatLessThanWellFounded DEF OpToRel
<1>2. PICK x \in T : \A y \in T : ~ (<<y, x>> \in R)
  <2> HIDE DEF R
  <2> QED
    BY <1>1, WFMin
<1>3. ASSUME NEW y \in T PROVE x <= y
  <2>1. x \in Nat /\ y \in Nat /\ <<y, x>> \notin R
    BY <1>2
  <2>2. ~ (y < x)
    BY <2>1
  <2> QED
    BY <2>1, <2>2
<1> QED
  BY <1>3 DEF Min

\* Removing an element from a sequence.
LEMMA RemoveFirstType ==
  ASSUME NEW S, NEW s \in Seq(S), NEW e
  PROVE  RemoveFirst(s, e) \in Seq(S)
<1>1. CASE ~ \E i \in 1..Len(s) : s[i] = e
  BY <1>1 DEF RemoveFirst
<1>2. CASE \E i \in 1..Len(s) : s[i] = e
  <2> DEFINE I == {i \in 1..Len(s) : s[i] = e}
  <2>1. Len(s) \in Nat /\ I \in SUBSET Nat /\ I # {}
    BY <1>2, LenProperties
  <2>2. Min(I) \in 1..Len(s)
    BY <2>1, MinOfNats
  <2>3. RemoveFirst(s, e) = RemoveAt(s, Min(I))
    BY <1>2, <2>1 DEF RemoveFirst, SelectInSeq
  <2>4. RemoveAt(s, Min(I)) \in Seq(S)
    <3> DEFINE m == Min(I)
    <3> HIDE DEF I
    <3>1. SubSeq(s, 1, m - 1) \in Seq(S) /\ SubSeq(s, m + 1, Len(s)) \in Seq(S)
      BY <2>1, <2>2, SubSeqProperties
    <3> QED
      BY <3>1, ConcatProperties DEF RemoveAt
  <2> QED
    BY <2>3, <2>4
<1> QED
  BY <1>1, <1>2

LEMMA TransferInType ==
  ASSUME TypeOK, NEW token \in Tokens, NEW amount \in Nat, TransferIn(token, amount)
  PROVE  held' \in [Tokens -> Amount]
<1>1. world.supply[token] \in Amount
  BY WorldOK DEF WorldType
<1>2. held[token] + amount \in Amount
  BY <1>1, ScheduleAssumption DEF TypeOK, TransferIn, Amount
<1> QED
  BY <1>2 DEF TypeOK, TransferIn

LEMMA TransferOutType ==
  ASSUME TypeOK, NEW token \in Tokens, NEW amount \in Nat, TransferOut(token, amount)
  PROVE  held' \in [Tokens -> Amount]
  BY ScheduleAssumption DEF TypeOK, TransferOut, Amount

LEMMA ReleaseType ==
  ASSUME NEW time \in U64, NEW epoch \in Nat
  PROVE  unbonding_release(time, UnbondingPeriod, epoch) \in U64
<1>1. UnbondingPeriod \in Nat /\ time \in Nat
  BY AddressAssumption DEF U64
<1>2. CASE epoch = 0
  BY <1>1, <1>2, SatAddType DEF unbonding_release
<1>3. CASE epoch # 0
  <2> DEFINE q == time \div epoch
  <2>1. q \in Nat
    BY <1>1, <1>3, QuotientRemainder
  <2>2. unbonding_release(time, UnbondingPeriod, epoch)
          = SatAdd(SatMul(SatAdd(q, 1), epoch), UnbondingPeriod)
    BY <1>3 DEF unbonding_release
  <2> HIDE DEF q
  <2>3. SatAdd(q, 1) \in Nat
    BY <2>1, ScheduleAssumption DEF SatAdd
  <2>4. SatMul(SatAdd(q, 1), epoch) \in Nat
    <3>1. SatMul(SatAdd(q, 1), epoch) \in U64
      BY <2>3, SatMulType
    <3> QED
      BY <3>1 DEF U64
  <2> QED
    BY <1>1, <2>2, <2>4, SatAddType
<1> QED
  BY <1>2, <1>3

\* Paying a stake back and forgetting the keeper.
LEMMA ReleaseStakeType ==
  ASSUME TypeOK, NEW k \in Keepers, Withdrawable(k), release_stake(k)
  PROVE  /\ keepers' \in [Keepers -> Option(Keeper)]
         /\ recent' \in [Keepers -> KeeperRecent]
         /\ held' \in [Tokens -> Amount]
<1>1. keepers[k] \in Keeper
  BY DEF TypeOK, Withdrawable, Option
<1>2. keepers' \in [Keepers -> Option(Keeper)]
  BY DEF TypeOK, release_stake, Option
<1>3. recent' \in [Keepers -> KeeperRecent]
  BY ScheduleAssumption DEF TypeOK, release_stake, KeeperRecent, U64
<1>4. held' \in [Tokens -> Amount]
  BY <1>1, ScheduleAssumption, TransferOutType DEF release_stake, Keeper, Tokens, Amount
<1> QED
  BY <1>2, <1>3, <1>4

\* What the locals of a call are, by its name.
LEMMA TxTypes ==
  ASSUME TypeOK
  PROVE  /\ tx.call = "create_jobs" => tx \in CreateJobsTx
         /\ tx.call = "execute_batch" => tx \in ExecuteBatchTx
         /\ tx.call = "withdraw_stakes" => tx \in WithdrawStakesTx
  BY DEF TypeOK, Idle, CreateJobsTx, ExecuteBatchTx, WithdrawStakesTx

LEMMA KeeperIInv == IInv /\ KeeperCall => IInv'
<1> SUFFICES ASSUME IInv, KeeperCall PROVE IInv'
  OBVIOUS
<1>w. world \in WorldType
  BY WorldOK DEF IInv
<1> USE <1>w DEF IInv, WorldType, jobVars, keeperVars, windowVars, adminVars, PartsTogether
<1>0. now \in U64
  BY NowU64
<1>1. ASSUME NEW k \in Keepers, NEW a \in world.stakes, stake(k, a) PROVE IInv'
  <2> DEFINE info == IF keepers[k] = None THEN NewKeeper ELSE keepers[k]
  <2>1. info \in Keeper
    BY ScheduleAssumption, BoundsAssumption
    DEF TypeOK, Option, NewKeeper, Keeper, Amount, U64, U32
  <2>2. a \in Nat /\ info.stake + a \in Amount
    <3>1. a \in I128 /\ info.stake \in Amount
      BY <2>1 DEF Keeper
    <3>2. a > 0 /\ info.stake + a <= I128Max
      BY <1>1 DEF stake
    <3> HIDE <1>w DEF info
    <3> QED
      BY <3>1, <3>2, ScheduleAssumption DEF I128, Amount
  <2>3. keepers' = [keepers EXCEPT ![k] = [info EXCEPT !.stake = @ + a]]
    BY <1>1 DEF stake
  <2>4. [info EXCEPT !.stake = @ + a] \in Keeper
    BY <2>1, <2>2 DEF Keeper
  <2>5. keepers' \in [Keepers -> Option(Keeper)]
    <3> HIDE DEF info
    <3> QED
      BY <2>3, <2>4 DEF TypeOK, Option
  <2>6. active_keepers' \in Seq(Keepers)
    BY <1>1 DEF stake, add_active_keeper, TypeOK
  <2>7. held' \in [Tokens -> Amount]
    BY <1>1, <2>2, TransferInType DEF stake, Tokens
  <2>8. windows_reset' \in U64
    BY <1>0, <1>1 DEF stake, TypeOK
  <2> QED
    BY <1>1, <2>5, <2>6, <2>7, <2>8
    DEF stake, TypeOK, CreateJobsSound, WithdrawStakesSound
<1>2. ASSUME NEW k \in world.unbonders, begin_unbonding(k) PROVE IInv'
  <2>1. k \in Keepers /\ keepers[k] \in Keeper /\ config.unbonding_epoch \in Nat
    BY <1>2, BoundsAssumption DEF begin_unbonding, TypeOK, Option, Config
  <2>2. unbonding_release(now, UnbondingPeriod, config.unbonding_epoch) \in U64
    BY <1>0, <2>1, ReleaseType
  <2>3. keepers' \in [Keepers -> Option(Keeper)]
    BY <1>2, <2>1, <2>2 DEF begin_unbonding, TypeOK, Option, Keeper
  <2>4. active_keepers' \in Seq(Keepers)
    BY <1>2, RemoveFirstType DEF begin_unbonding, TypeOK
  <2> QED
    BY <1>0, <1>2, <2>3, <2>4
    DEF begin_unbonding, reset_windows, TypeOK, CreateJobsSound, WithdrawStakesSound
<1>3. ASSUME NEW k \in Keepers, withdraw_stake(k) PROVE IInv'
  <2>1. /\ keepers' \in [Keepers -> Option(Keeper)]
        /\ recent' \in [Keepers -> KeeperRecent]
        /\ held' \in [Tokens -> Amount]
    BY <1>3, ReleaseStakeType DEF withdraw_stake
  <2> QED
    BY <1>3, <2>1 DEF withdraw_stake, TypeOK, CreateJobsSound, WithdrawStakesSound
<1>4. ASSUME NEW list \in world.stake_batches, withdraw_stakes(list) PROVE IInv'
  <2>1. list \in Seq(Keepers) /\ list # <<>>
    BY <1>4, BoundsAssumption DEF withdraw_stakes
  <2>2. tx' \in WithdrawStakesTx /\ tx'.call = "withdraw_stakes" /\ tx'.todo # <<>>
    BY <1>4, <2>1 DEF withdraw_stakes, WithdrawStakesTx
  <2> QED
    BY <1>4, <2>2 DEF withdraw_stakes, TypeOK, CreateJobsSound, WithdrawStakesSound
<1>5. CASE withdraw_stakes_next
  <2>1. tx \in WithdrawStakesTx /\ tx.todo # <<>>
    BY <1>5, TxTypes DEF withdraw_stakes_next, WithdrawStakesSound
  <2>2. tx.todo \in Seq(Keepers) /\ Head(tx.todo) \in Keepers
    BY <2>1, HeadTailProperties DEF WithdrawStakesTx
  <2>3. /\ keepers' \in [Keepers -> Option(Keeper)]
        /\ recent' \in [Keepers -> KeeperRecent]
        /\ held' \in [Tokens -> Amount]
    <3>1. CASE Withdrawable(Head(tx.todo))
      BY <1>5, <2>2, <3>1, ReleaseStakeType DEF withdraw_stakes_next
    <3>2. CASE ~ Withdrawable(Head(tx.todo))
      BY <1>5, <3>2 DEF withdraw_stakes_next, TypeOK
    <3> QED
      BY <3>1, <3>2
  <2>4. \/ tx' = Idle
        \/ tx' \in WithdrawStakesTx /\ tx'.call = "withdraw_stakes" /\ tx'.todo # <<>>
    <3>1. CASE Len(tx.todo) = 1
      BY <1>5, <3>1 DEF withdraw_stakes_next
    <3>2. CASE Len(tx.todo) # 1
      <4>1. Tail(tx.todo) \in Seq(Keepers) /\ Len(Tail(tx.todo)) = Len(tx.todo) - 1
        BY <2>1, <2>2, HeadTailProperties
      <4>2. Tail(tx.todo) # <<>>
        <5>1. Len(tx.todo) \in Nat /\ Len(tx.todo) # 0
          BY <2>1, <2>2, EmptySeq, LenProperties
        <5>2. Len(Tail(tx.todo)) # 0
          BY <3>2, <4>1, <5>1
        <5> QED
          BY <4>1, <5>2, EmptySeq
      <4>3. tx' = [tx EXCEPT !.todo = Tail(@)]
        BY <1>5, <3>2 DEF withdraw_stakes_next
      <4> QED
        BY <2>1, <4>1, <4>2, <4>3 DEF WithdrawStakesTx
    <3> QED
      BY <3>1, <3>2
  <2> QED
    BY <1>5, <2>3, <2>4
    DEF withdraw_stakes_next, TypeOK, CreateJobsSound, WithdrawStakesSound, Idle
<1> QED
  BY <1>1, <1>2, <1>3, <1>4, <1>5 DEF KeeperCall

-----------------------------------------------------------------------------
(* Owners' calls. *)

\* What validate_schedule lets through can be stored.
LEMMA ValidSettings ==
  ASSUME NEW job, job.interval \in U64, job.schedule \in ScheduleType,
         job.fee_per_run \in I128, job.max_fee_per_run \in I128, validate_schedule(job)
  PROVE  /\ effective_interval(job) \in U64 \ {0}
         /\ job.fee_per_run \in Amount \ {0}
         /\ job.max_fee_per_run \in Amount
<1>1. effective_interval(job) \in U64 \ {0}
  BY PeriodType DEF validate_schedule, effective_interval
<1>2. job.fee_per_run \in Amount \ {0} /\ job.max_fee_per_run \in Amount
  BY ScheduleAssumption DEF validate_schedule, I128, Amount
<1> QED
  BY <1>1, <1>2

LEMMA ValidJob ==
  ASSUME NEW new \in NewJob, validate_job(new.params, new.deposit)
  PROVE  Checked(new)
<1> DEFINE p == new.params
<1>1. /\ p.interval \in U64 /\ p.schedule \in ScheduleType /\ p.fee_per_run \in I128
      /\ p.max_fee_per_run \in I128 /\ new.deposit \in I128 /\ validate_schedule(p)
      /\ new.deposit >= p.fee_per_run
  BY DEF NewJob, JobParams, validate_job
<1> HIDE DEF p
<1>2. /\ effective_interval(p) \in U64 \ {0} /\ p.fee_per_run \in Amount \ {0}
      /\ p.max_fee_per_run \in Amount
  BY <1>1, ValidSettings
<1>3. new.deposit \in Amount
  BY <1>1, <1>2, ScheduleAssumption DEF I128, Amount
<1> QED
  BY <1>2, <1>3 DEF Checked, p

LEMMA LeaderRunsType ==
  ASSUME TypeOK, NEW after \in Option(JobIds)
  PROVE  leader_runs(after) \in U32
<1>1. CASE after = None \/ ~ Live(after)
  BY <1>1, BoundsAssumption DEF leader_runs, U32
<1>2. CASE after # None /\ Live(after)
  <2>1. state[after] \in JobState
    BY <1>2 DEF Live, TypeOK, Option
  <2> QED
    BY <1>2, <2>1 DEF leader_runs, JobState
<1> QED
  BY <1>1, <1>2

LEMMA InsertJobType ==
  ASSUME TypeOK, PartsTogether, NEW owner \in Accounts, NEW new \in NewJob, Checked(new),
         next_job_id \in JobIds, insert_job(owner, new.params, new.deposit)
  PROVE  /\ spec' \in [JobIds -> Option(JobSpec)]
         /\ state' \in [JobIds -> Option(JobState)]
         /\ next_job_id' = next_job_id + 1 /\ next_job_id' \in 0..MaxJobs
         /\ owner_jobs' \in [Accounts -> Seq(JobIds)]
         /\ PartsTogether'
         /\ spec'[next_job_id] \in JobSpec /\ state'[next_job_id] \in JobState
<1> DEFINE id == next_job_id
           params == new.params
           sp == [owner |-> owner, target |-> params.target, args |-> params.args,
                  interval |-> effective_interval(params), schedule |-> params.schedule,
                  fee_per_run |-> params.fee_per_run,
                  max_fee_per_run |-> params.max_fee_per_run,
                  max_runs |-> params.max_runs, end_at |-> params.end_at,
                  resolver |-> params.resolver, keepers |-> params.keepers,
                  after |-> params.after]
           first == first_calendar_run(params.schedule, Larger(params.start_at, now))
           st == [next_run |-> first, balance |-> new.deposit, runs |-> 0, failures |-> 0,
                  active |-> TRUE, leader_runs |-> leader_runs(params.after)]
<1>1. params \in JobParams /\ now \in U64
  BY NowU64 DEF NewJob
<1>2. sp \in JobSpec
  BY <1>1 DEF JobParams, JobSpec, Checked
<1>3. first \in U64
  <2>1. Larger(params.start_at, now) \in U64 /\ params.schedule \in ScheduleType
    BY <1>1 DEF JobParams, Larger
  <2> QED
    BY <2>1, FirstRunType
<1>4. leader_runs(params.after) \in U32
  BY <1>1, LeaderRunsType DEF JobParams
<1>5. st \in JobState
  <2> HIDE DEF first
  <2> QED
    BY <1>3, <1>4, BoundsAssumption DEF JobState, Checked, U32
<1>6. spec' = [spec EXCEPT ![id] = sp] /\ state' = [state EXCEPT ![id] = st]
  BY DEF insert_job
<1>7. next_job_id' = next_job_id + 1 /\ next_job_id' \in 0..MaxJobs
  BY BoundsAssumption DEF insert_job, JobIds
<1>8. owner_jobs' \in [Accounts -> Seq(JobIds)]
  BY DEF insert_job, add_owner_job, TypeOK
<1>9. sp # None /\ st # None
  BY <1>2, <1>5, AddressAssumption
<1> HIDE DEF sp, st
<1>10. spec'[id] \in JobSpec /\ state'[id] \in JobState
  BY <1>2, <1>5, <1>6 DEF TypeOK
<1> QED
  BY <1>2, <1>5, <1>6, <1>7, <1>8, <1>9, <1>10 DEF TypeOK, Option, PartsTogether

\* A live job has both its parts.
LEMMA LiveParts ==
  ASSUME TypeOK, PartsTogether, NEW j \in JobIds, Live(j)
  PROVE  spec[j] \in JobSpec /\ state[j] \in JobState
  BY DEF TypeOK, PartsTogether, Live, Option

LEMMA TouchType ==
  ASSUME TypeOK, NEW j \in JobIds, touch(j)
  PROVE  job_touched' \in [JobIds -> U64]
  BY NowU64 DEF TypeOK, touch

LEMMA CreateJobIInv ==
  ASSUME IInv, NEW o \in Accounts, NEW p \in world.job_params, NEW d \in world.amounts,
         create_job(o, p, d)
  PROVE  IInv'
<1> DEFINE new == [params |-> p, deposit |-> d]
<1>1. new \in NewJob /\ TypeOK /\ PartsTogether
  BY WorldOK DEF WorldType, NewJob, IInv
<1>2. Checked(new)
  BY <1>1, ValidJob DEF create_job
<1>3. next_job_id \in JobIds
  BY <1>1, WorldOK, BoundsAssumption DEF WorldType, create_job, TypeOK, JobIds
<1>4. insert_job(o, new.params, new.deposit) /\ TransferIn(FeeToken, d)
  BY DEF create_job
<1>5. /\ spec' \in [JobIds -> Option(JobSpec)]
      /\ state' \in [JobIds -> Option(JobState)]
      /\ next_job_id' \in 0..MaxJobs
      /\ owner_jobs' \in [Accounts -> Seq(JobIds)]
      /\ PartsTogether'
  <2> HIDE DEF new
  <2> QED
    BY <1>1, <1>2, <1>3, <1>4, InsertJobType
<1>6. held' \in [Tokens -> Amount]
  <2>1. d \in Nat
    BY <1>2 DEF Checked, Amount
  <2> QED
    BY <1>1, <1>4, <2>1, TransferInType DEF Tokens
<1> QED
  BY <1>5, <1>6
  DEF IInv, create_job, TypeOK, keeperVars, windowVars, adminVars, CreateJobsSound,
      WithdrawStakesSound, Idle

LEMMA CreateJobsIInv ==
  ASSUME IInv, NEW o \in Accounts, NEW b \in world.job_batches, create_jobs(o, b)
  PROVE  IInv'
<1>1. b \in Seq(NewJob) /\ Len(b) \in Nat /\ Len(b) >= 1 /\ next_job_id + Len(b) <= MaxJobs
  BY WorldOK, BoundsAssumption DEF IInv, TypeOK, WorldType, create_jobs
<1>2. tx' = [call |-> "create_jobs", owner |-> o, batch |-> b, i |-> 1, total |-> 0, paid |-> FALSE]
  BY DEF create_jobs
<1>3. tx' \in CreateJobsTx
  BY <1>1, <1>2, ScheduleAssumption DEF CreateJobsTx, Amount
<1>4. CreateJobsSound' /\ WithdrawStakesSound'
  BY <1>1, <1>2 DEF CreateJobsSound, WithdrawStakesSound, create_jobs, jobVars
<1> QED
  BY <1>3, <1>4
  DEF IInv, create_jobs, TypeOK, jobVars, keeperVars, windowVars, adminVars, PartsTogether

LEMMA CreateJobsValidateIInv ==
  ASSUME IInv, create_jobs_validate
  PROVE  IInv'
<1> DEFINE new == tx.batch[tx.i]
<1>0. UNCHANGED <<now, world, config, jobVars, keeperVars, windowVars, adminVars, held>>
  BY DEF create_jobs_validate
<1>1. /\ tx \in CreateJobsTx /\ tx.i \in 1..Len(tx.batch) /\ tx.batch \in Seq(NewJob)
      /\ Len(tx.batch) \in Nat /\ tx.total \in Amount /\ tx.call = "create_jobs" /\ ~ tx.paid
  BY TxTypes DEF IInv, create_jobs_validate, CreateJobsTx
<1>2. new \in NewJob
  BY <1>1, ElementOfSeq
<1>3. \/ tx' = Idle
      \/ /\ validate_job(new.params, new.deposit) /\ tx.total + new.deposit <= I128Max
         /\ tx' = [tx EXCEPT !.i = @ + 1, !.total = @ + new.deposit]
  BY DEF create_jobs_validate
<1>4. CASE tx' = Idle
  BY <1>0, <1>4
  DEF IInv, TypeOK, jobVars, keeperVars, windowVars, adminVars,
      PartsTogether, CreateJobsSound, WithdrawStakesSound, Idle
<1>5. CASE /\ validate_job(new.params, new.deposit) /\ tx.total + new.deposit <= I128Max
           /\ tx' = [tx EXCEPT !.i = @ + 1, !.total = @ + new.deposit]
  <2>1. Checked(new)
    BY <1>2, <1>5, ValidJob
  <2>2. tx.total + new.deposit \in Amount
    <3>1. new.deposit \in 0..I128Max /\ tx.total \in 0..I128Max
      BY <1>1, <2>1 DEF Checked, Amount
    <3> HIDE DEF new
    <3> QED
      BY <1>5, <3>1, ScheduleAssumption DEF Amount
  <2> HIDE DEF new
  <2>3. tx' \in CreateJobsTx
    <3>1. tx.i + 1 \in Nat \ {0}
      BY <1>1
    <3> QED
      BY <1>1, <1>5, <2>2, <3>1 DEF CreateJobsTx
  <2>4. /\ tx'.call = "create_jobs" /\ tx'.i = tx.i + 1 /\ tx'.batch = tx.batch
        /\ tx'.paid = tx.paid
    BY <1>1, <1>5 DEF CreateJobsTx
  <2>5. \A n \in 1..Len(tx.batch) : n < tx.i + 1 => Checked(tx.batch[n])
    BY <1>1, <2>1 DEF IInv, CreateJobsSound, new
  <2>6. CreateJobsSound' /\ WithdrawStakesSound'
    <3> HIDE DEF Checked
    <3>1. next_job_id' = next_job_id
      BY <1>0 DEF jobVars
    <3>2. next_job_id + Len(tx.batch) <= MaxJobs /\ 1 <= Len(tx.batch)
      BY <1>1 DEF IInv, CreateJobsSound
    <3>3. \A n \in 1..Len(tx.batch) : Checked(tx.batch[n])' <=> Checked(tx.batch[n])
      BY <2>4 DEF Checked, effective_interval
    <3> QED
      BY <1>1, <2>4, <2>5, <3>1, <3>2, <3>3 DEF CreateJobsSound, WithdrawStakesSound
  <2> QED
    BY <1>0, <2>3, <2>6
    DEF IInv, TypeOK, jobVars, keeperVars, windowVars, adminVars,
        PartsTogether
<1> QED
  BY <1>3, <1>4, <1>5

LEMMA CreateJobsTransferIInv ==
  ASSUME IInv, create_jobs_transfer
  PROVE  IInv'
<1>0. UNCHANGED <<now, world, config, jobVars, keeperVars, windowVars, adminVars>>
  BY DEF create_jobs_transfer
<1>1. /\ tx \in CreateJobsTx /\ tx.total \in Nat /\ tx.i \in Nat /\ tx.batch \in Seq(NewJob)
      /\ Len(tx.batch) \in Nat /\ tx.call = "create_jobs" /\ ~ tx.paid /\ tx.i > Len(tx.batch)
  BY TxTypes DEF IInv, create_jobs_transfer, CreateJobsTx, Amount
<1>2. CASE held[FeeToken] + tx.total <= world.supply[FeeToken]
  <2>1. held' \in [Tokens -> Amount]
    BY <1>1, <1>2, TransferInType DEF create_jobs_transfer, IInv, Tokens
  <2>2. tx' = [tx EXCEPT !.i = 1, !.paid = TRUE]
    BY <1>2 DEF create_jobs_transfer
  <2>3. tx' \in CreateJobsTx
    <3>1. 1 \in Nat \ {0} /\ TRUE \in BOOLEAN
      OBVIOUS
    <3>2. tx' = [call |-> tx.call, owner |-> tx.owner, batch |-> tx.batch, i |-> 1,
                 total |-> tx.total, paid |-> TRUE]
      BY <1>1, <2>2 DEF CreateJobsTx
    <3> QED
      BY <1>1, <3>1, <3>2 DEF CreateJobsTx
  <2>4. tx'.call = "create_jobs" /\ tx'.i = 1 /\ tx'.paid /\ tx'.batch = tx.batch
    BY <1>1, <2>2 DEF CreateJobsTx
  <2>5. \A n \in 1..Len(tx.batch) : Checked(tx.batch[n])
    BY <1>1 DEF IInv, CreateJobsSound
  <2>6. next_job_id' = next_job_id /\ next_job_id \in Nat /\ MaxJobs \in Nat
        /\ next_job_id + Len(tx.batch) <= MaxJobs /\ 1 <= Len(tx.batch)
    BY <1>0, <1>1, BoundsAssumption DEF jobVars, IInv, TypeOK, CreateJobsSound
  <2>7. \A n \in 1..Len(tx.batch) : Checked(tx.batch[n])' <=> Checked(tx.batch[n])
    BY <2>4 DEF Checked, effective_interval
  <2>8. CreateJobsSound' /\ WithdrawStakesSound'
    BY <1>1, <2>4, <2>5, <2>6, <2>7 DEF CreateJobsSound, WithdrawStakesSound
  <2> QED
    BY <1>0, <2>1, <2>3, <2>8
    DEF IInv, TypeOK, jobVars, keeperVars, windowVars, adminVars, PartsTogether
<1>3. CASE ~ (held[FeeToken] + tx.total <= world.supply[FeeToken])
  <2>1. tx' = Idle /\ held' = held
    BY <1>3 DEF create_jobs_transfer
  <2> QED
    BY <1>0, <2>1
    DEF IInv, TypeOK, jobVars, keeperVars, windowVars, adminVars, PartsTogether,
        CreateJobsSound, WithdrawStakesSound, Idle
<1> QED
  BY <1>2, <1>3

LEMMA CreateJobsInsertIInv ==
  ASSUME IInv, create_jobs_insert
  PROVE  IInv'
<1> DEFINE new == tx.batch[tx.i]
<1>0. UNCHANGED <<now, world, config, pending_owner, keeperVars, windowVars, adminVars, held>>
  BY DEF create_jobs_insert
<1>1. /\ tx \in CreateJobsTx /\ tx.owner \in Accounts /\ tx.batch \in Seq(NewJob)
      /\ Len(tx.batch) \in Nat /\ tx.call = "create_jobs" /\ tx.paid
      /\ tx.i \in 1..Len(tx.batch) /\ next_job_id + (Len(tx.batch) - tx.i) < MaxJobs
  BY TxTypes DEF IInv, create_jobs_insert, CreateJobsTx, CreateJobsSound
<1>2. \A n \in 1..Len(tx.batch) : Checked(tx.batch[n])
  BY <1>1 DEF IInv, CreateJobsSound
<1>3. new \in NewJob /\ Checked(new)
  BY <1>1, <1>2, ElementOfSeq
<1>4. next_job_id \in JobIds
  BY <1>1, BoundsAssumption DEF IInv, TypeOK, JobIds
<1>5. /\ spec' \in [JobIds -> Option(JobSpec)]
      /\ state' \in [JobIds -> Option(JobState)]
      /\ next_job_id' = next_job_id + 1 /\ next_job_id' \in 0..MaxJobs
      /\ owner_jobs' \in [Accounts -> Seq(JobIds)]
      /\ PartsTogether'
  <2>1. insert_job(tx.owner, new.params, new.deposit)
    BY DEF create_jobs_insert
  <2> HIDE DEF new
  <2> QED
    BY <1>1, <1>3, <1>4, <2>1, InsertJobType DEF IInv
<1>6. tx' \in {Idle} \cup CreateJobsTx /\ CreateJobsSound' /\ WithdrawStakesSound'
  <2>1. CASE tx.i = Len(tx.batch)
    BY <2>1 DEF create_jobs_insert, CreateJobsSound, WithdrawStakesSound, Idle
  <2>2. CASE tx.i # Len(tx.batch)
    <3>1. tx' = [tx EXCEPT !.i = @ + 1] /\ tx.i + 1 \in Nat \ {0}
      BY <1>1, <2>2 DEF create_jobs_insert
    <3>2. /\ tx' \in CreateJobsTx /\ tx'.call = "create_jobs" /\ tx'.i = tx.i + 1
          /\ tx'.batch = tx.batch /\ tx'.paid
      BY <1>1, <3>1 DEF CreateJobsTx
    <3>3. \A n \in 1..Len(tx.batch) : Checked(tx.batch[n])' <=> Checked(tx.batch[n])
      BY <3>2 DEF Checked, effective_interval
    <3>4. next_job_id \in Nat /\ MaxJobs \in Nat
      BY BoundsAssumption DEF IInv, TypeOK
    <3>5. CreateJobsSound'
      BY <1>1, <1>2, <1>5, <2>2, <3>2, <3>3, <3>4 DEF CreateJobsSound
    <3> QED
      BY <3>2, <3>5 DEF WithdrawStakesSound
  <2> QED
    BY <2>1, <2>2
<1> HIDE DEF new
<1> QED
  BY <1>0, <1>5, <1>6 DEF IInv, TypeOK, keeperVars, windowVars, adminVars

LEMMA UpdateJobIInv ==
  ASSUME IInv, NEW j \in JobIds, NEW u \in world.job_updates, update_job(j, u)
  PROVE  IInv' /\ spec'[j] \in JobSpec /\ state'[j] \in JobState
<1> DEFINE sp == [owner |-> spec[j].owner, target |-> spec[j].target, args |-> u.args,
                  interval |-> effective_interval(u), schedule |-> u.schedule,
                  fee_per_run |-> u.fee_per_run, max_fee_per_run |-> u.max_fee_per_run,
                  max_runs |-> u.max_runs, end_at |-> u.end_at,
                  resolver |-> u.resolver, keepers |-> u.keepers, after |-> u.after]
           st == [state[j] EXCEPT
                    !.next_run = IF u.schedule \notin {Interval, spec[j].schedule}
                                 THEN first_calendar_run(u.schedule, now) ELSE @,
                    !.leader_runs = IF u.after # spec[j].after
                                    THEN leader_runs(u.after) ELSE @]
<1>0. UNCHANGED <<now, world, config, next_job_id, owner_jobs, pending_owner, keeperVars,
                  halted, target_resumed, windows_reset, adminVars, held, tx>> /\ tx = Idle
  BY DEF update_job
<1>1. TypeOK /\ PartsTogether /\ u \in JobUpdate /\ now \in U64
      /\ spec[j] \in JobSpec /\ state[j] \in JobState
  BY WorldOK, LiveParts, NowU64 DEF IInv, WorldType, update_job
<1>2. sp \in JobSpec
  <2>1. /\ u.interval \in U64 /\ u.schedule \in ScheduleType /\ u.fee_per_run \in I128
        /\ u.max_fee_per_run \in I128 /\ validate_schedule(u)
    BY <1>1 DEF JobUpdate, update_job
  <2>2. /\ effective_interval(u) \in U64 \ {0} /\ u.fee_per_run \in Amount \ {0}
        /\ u.max_fee_per_run \in Amount
    BY <2>1, ValidSettings
  <2> QED
    BY <1>1, <2>2 DEF JobUpdate, JobSpec
<1>3. st \in JobState
  <2>1. first_calendar_run(u.schedule, now) \in U64
    BY <1>1, FirstRunType DEF JobUpdate
  <2>2. leader_runs(u.after) \in U32
    BY <1>1, LeaderRunsType DEF JobUpdate
  <2> QED
    BY <1>1, <2>1, <2>2 DEF JobState
<1>4. spec' = [spec EXCEPT ![j] = sp] /\ state' = [state EXCEPT ![j] = st]
  BY <1>1 DEF update_job, TypeOK
<1>5. sp # None /\ st # None
  BY <1>2, <1>3, AddressAssumption
<1>6. job_touched' \in [JobIds -> U64]
  BY <1>1, TouchType DEF update_job
<1> HIDE DEF sp, st
<1>7. PartsTogether' /\ spec' \in [JobIds -> Option(JobSpec)]
      /\ state' \in [JobIds -> Option(JobState)]
  BY <1>1, <1>2, <1>3, <1>4, <1>5 DEF PartsTogether, TypeOK, Option
<1>8. spec'[j] \in JobSpec /\ state'[j] \in JobState
  BY <1>1, <1>2, <1>3, <1>4 DEF TypeOK
<1> QED
  BY <1>0, <1>6, <1>7, <1>8, IdleSound DEF IInv, TypeOK, keeperVars, adminVars

\* Replacing a live job's state by another keeps the two parts together.
LEMMA SetStateTypes ==
  ASSUME TypeOK, PartsTogether, NEW j \in JobIds, Live(j), NEW st \in JobState,
         state' = [state EXCEPT ![j] = st], spec' = spec
  PROVE  state' \in [JobIds -> Option(JobState)] /\ PartsTogether'
<1>1. st # None
  BY AddressAssumption
<1> QED
  BY <1>1 DEF TypeOK, Option, PartsTogether, Live

LEMMA JobIInv == IInv /\ JobCall => IInv'
<1> SUFFICES ASSUME IInv, JobCall PROVE IInv'
  OBVIOUS
<1>0. /\ TypeOK /\ PartsTogether
      /\ \A a \in world.amounts : a \in I128
      /\ \A f \in world.active_flags : f \in BOOLEAN
      /\ \A o \in world.new_owners : o \in Accounts
      /\ \A o \in world.owners : o \in Accounts
  BY WorldOK DEF IInv, WorldType
<1>1. ASSUME NEW j \in JobIds, NEW a \in world.amounts, fund_job(j, a) PROVE IInv'
  <2> DEFINE st == [state[j] EXCEPT !.balance = @ + a]
  <2>1. spec[j] \in JobSpec /\ state[j] \in JobState /\ Live(j)
    BY <1>0, <1>1, LiveParts DEF fund_job
  <2>2. a \in Nat /\ state[j].balance + a \in Amount
    BY <1>0, <1>1, <2>1, ScheduleAssumption DEF fund_job, I128, Amount, JobState
  <2>3. st \in JobState /\ state' = [state EXCEPT ![j] = st]
    BY <1>0, <1>1, <2>1, <2>2 DEF JobState, fund_job, TypeOK
  <2>4. held' \in [Tokens -> Amount]
    BY <1>0, <1>1, <2>2, TransferInType DEF fund_job, Tokens
  <2>5. job_touched' \in [JobIds -> U64]
    BY <1>0, <1>1, TouchType DEF fund_job
  <2>6. CreateJobsSound' /\ WithdrawStakesSound'
    BY <1>1, IdleSound DEF fund_job
  <2>7. UNCHANGED <<now, world, config, spec, next_job_id, owner_jobs, pending_owner, keeperVars,
                    halted, target_resumed, windows_reset, adminVars, tx>>
    BY <1>1 DEF fund_job
  <2> HIDE DEF st
  <2>8. state' \in [JobIds -> Option(JobState)] /\ PartsTogether'
    BY <1>0, <2>1, <2>3, <2>7, SetStateTypes
  <2> QED
    BY <1>0, <2>4, <2>5, <2>6, <2>7, <2>8 DEF IInv, TypeOK, keeperVars, adminVars
<1>2. ASSUME NEW j \in JobIds, NEW a \in world.amounts, withdraw_job_balance(j, a) PROVE IInv'
  <2> DEFINE st == [state[j] EXCEPT !.balance = @ - a]
  <2>1. spec[j] \in JobSpec /\ state[j] \in JobState /\ Live(j)
    BY <1>0, <1>2, LiveParts DEF withdraw_job_balance
  <2>2. a \in Nat /\ state[j].balance - a \in Amount
    BY <1>0, <1>2, <2>1, ScheduleAssumption DEF withdraw_job_balance, I128, Amount, JobState
  <2>3. st \in JobState /\ state' = [state EXCEPT ![j] = st]
    BY <1>0, <1>2, <2>1, <2>2 DEF JobState, withdraw_job_balance, TypeOK
  <2>4. held' \in [Tokens -> Amount]
    BY <1>0, <1>2, <2>2, TransferOutType DEF withdraw_job_balance, Tokens
  <2>5. job_touched' \in [JobIds -> U64]
    BY <1>0, <1>2, TouchType DEF withdraw_job_balance
  <2>6. CreateJobsSound' /\ WithdrawStakesSound'
    BY <1>2, IdleSound DEF withdraw_job_balance
  <2>7. UNCHANGED <<now, world, config, spec, next_job_id, owner_jobs, pending_owner, keeperVars,
                    halted, target_resumed, windows_reset, adminVars, tx>>
    BY <1>2 DEF withdraw_job_balance
  <2> HIDE DEF st
  <2>8. state' \in [JobIds -> Option(JobState)] /\ PartsTogether'
    BY <1>0, <2>1, <2>3, <2>7, SetStateTypes
  <2> QED
    BY <1>0, <2>4, <2>5, <2>6, <2>7, <2>8 DEF IInv, TypeOK, keeperVars, adminVars
<1>3. ASSUME NEW j \in JobIds, cancel_job(j) PROVE IInv'
  <2>1. spec[j] \in JobSpec /\ state[j] \in JobState
    BY <1>0, <1>3, LiveParts DEF cancel_job
  <2>2. held' \in [Tokens -> Amount]
    <3>1. state[j].balance \in Nat
      BY <2>1 DEF JobState, Amount
    <3> QED
      BY <1>0, <1>3, <3>1, TransferOutType DEF cancel_job, Tokens
  <2>3. owner_jobs' \in [Accounts -> Seq(JobIds)]
    <3>1. RemoveFirst(owner_jobs[spec[j].owner], j) \in Seq(JobIds)
      BY <1>0, <2>1, RemoveFirstType DEF JobSpec, TypeOK
    <3> QED
      BY <1>0, <1>3, <3>1 DEF cancel_job, remove_owner_job, TypeOK
  <2>4. CreateJobsSound' /\ WithdrawStakesSound'
    BY <1>3, IdleSound DEF cancel_job
  <2> QED
    BY <1>0, <1>3, <2>2, <2>3, <2>4
    DEF IInv, TypeOK, PartsTogether, Option, cancel_job, keeperVars, windowVars, adminVars
<1>4. ASSUME NEW j \in JobIds, NEW f \in world.active_flags, set_job_active(j, f) PROVE IInv'
  <2> DEFINE st == [state[j] EXCEPT !.active = f, !.failures = IF f THEN 0 ELSE @]
  <2>1. spec[j] \in JobSpec /\ state[j] \in JobState /\ Live(j)
    BY <1>0, <1>4, LiveParts DEF set_job_active
  <2>2. f \in BOOLEAN /\ (IF f THEN 0 ELSE state[j].failures) \in U32
    BY <1>0, <2>1, BoundsAssumption DEF JobState, U32
  <2>3. st \in JobState
    BY <2>1, <2>2 DEF JobState
  <2>4. state' = [state EXCEPT ![j] = st]
    BY <1>0, <1>4, <2>1 DEF set_job_active, TypeOK, JobState
  <2>5. job_touched' \in [JobIds -> U64]
    BY <1>0, <1>4, TouchType DEF set_job_active
  <2>6. CreateJobsSound' /\ WithdrawStakesSound'
    BY <1>4, IdleSound DEF set_job_active
  <2>7. UNCHANGED <<now, world, config, spec, next_job_id, owner_jobs, pending_owner, keeperVars,
                    halted, target_resumed, windows_reset, adminVars, held, tx>>
    BY <1>4 DEF set_job_active
  <2> HIDE DEF st
  <2>8. state' \in [JobIds -> Option(JobState)] /\ PartsTogether'
    BY <1>0, <2>1, <2>3, <2>4, <2>7, SetStateTypes
  <2> QED
    BY <1>0, <2>5, <2>6, <2>7, <2>8 DEF IInv, TypeOK, keeperVars, adminVars
<1>5. ASSUME NEW j \in JobIds, NEW o \in world.new_owners, propose_job_owner(j, o) PROVE IInv'
  <2>1. CreateJobsSound' /\ WithdrawStakesSound'
    BY <1>5, IdleSound DEF propose_job_owner
  <2> QED
    BY <1>0, <1>5, <2>1
    DEF IInv, TypeOK, PartsTogether, Option, propose_job_owner, keeperVars, windowVars, adminVars
<1>6. ASSUME NEW j \in JobIds, accept_job_owner(j) PROVE IInv'
  <2> DEFINE sp == [spec[j] EXCEPT !.owner = pending_owner[j]]
  <2>1. spec[j] \in JobSpec /\ state[j] \in JobState /\ pending_owner[j] \in Accounts
    BY <1>0, <1>6, LiveParts DEF accept_job_owner, TypeOK, Option
  <2>2. sp \in JobSpec /\ sp # None /\ spec' = [spec EXCEPT ![j] = sp]
    <3>1. sp \in JobSpec
      BY <2>1 DEF JobSpec
    <3>2. spec' = [spec EXCEPT ![j] = sp]
      BY <1>6 DEF accept_job_owner
    <3>3. sp # None
      BY <3>1, AddressAssumption
    <3> QED
      BY <3>1, <3>2, <3>3
  <2>3. owner_jobs' \in [Accounts -> Seq(JobIds)]
    <3>1. RemoveFirst(owner_jobs[spec[j].owner], j) \in Seq(JobIds)
      BY <1>0, <2>1, RemoveFirstType DEF JobSpec, TypeOK
    <3>2. remove_owner_job(owner_jobs, spec[j].owner, j) \in [Accounts -> Seq(JobIds)]
      BY <1>0, <3>1 DEF remove_owner_job, TypeOK
    <3> QED
      BY <1>0, <1>6, <2>1, <3>2 DEF accept_job_owner, add_owner_job, TypeOK
  <2>4. CreateJobsSound' /\ WithdrawStakesSound'
    BY <1>6, IdleSound DEF accept_job_owner
  <2>5. /\ UNCHANGED <<now, world, config, state, next_job_id, keeperVars, windowVars, adminVars, held, tx>>
        /\ pending_owner' = [pending_owner EXCEPT ![j] = None] /\ state[j] # None
    BY <1>6 DEF accept_job_owner, Live
  <2> HIDE DEF sp
  <2> QED
    BY <1>0, <2>2, <2>3, <2>4, <2>5
    DEF IInv, TypeOK, PartsTogether, Option, keeperVars, windowVars, adminVars
<1> QED
  BY <1>0, <1>1, <1>2, <1>3, <1>4, <1>5, <1>6, CreateJobIInv, CreateJobsIInv, CreateJobsValidateIInv,
     CreateJobsTransferIInv, CreateJobsInsertIInv, UpdateJobIInv
  DEF JobCall

-----------------------------------------------------------------------------
(* Execution. *)

LEMMA SatAdd32Type ==
  ASSUME NEW n \in U32
  PROVE  SatAdd32(n, 1) \in U32
  BY BoundsAssumption DEF SatAdd32, U32

\* The assigned keeper, if there is one, has a record.
LEMMA AssignedType ==
  ASSUME TypeOK, PartsTogether, NEW j \in JobIds, Live(j), assigned_keeper(j) # None
  PROVE  assigned_keeper(j) \in Keepers /\ keepers[assigned_keeper(j)] \in Keeper
<1> DEFINE candidates == IF spec[j].keepers # None THEN spec[j].keepers ELSE active_keepers
           n == Digest[j][state[j].runs] % Len(candidates)
           chosen == candidates[n + 1]
<1>1. spec[j] \in JobSpec /\ state[j] \in JobState
  BY LiveParts
<1>2. candidates \in Seq(Keepers)
  BY <1>1 DEF JobSpec, Option, TypeOK
<1>3. candidates # <<>> /\ assigned_keeper(j) = chosen /\ Eligible(chosen)
  BY DEF assigned_keeper
<1>4. Len(candidates) \in Nat \ {0}
  <2> HIDE DEF candidates
  <2> QED
    BY <1>2, <1>3, EmptySeq
<1>5. Digest[j][state[j].runs] \in Nat
  BY <1>1, AddressAssumption DEF JobState
<1>6. n + 1 \in 1..Len(candidates)
  <2>1. \A x \in Nat, l \in Nat \ {0} : (x % l) + 1 \in 1..l
    OBVIOUS
  <2> HIDE DEF candidates
  <2> QED
    BY <1>4, <1>5, <2>1
<1>7. chosen \in Keepers
  <2> HIDE DEF candidates, n
  <2> QED
    BY <1>2, <1>6, ElementOfSeq
<1> HIDE DEF chosen
<1> QED
  BY <1>3, <1>7 DEF Eligible, TypeOK, Option

\* Recording a miss, or none.
LEMMA MissTypes ==
  ASSUME TypeOK, PartsTogether, NEW j \in JobIds, Live(j), NEW k \in Keepers
  PROVE  LET m == missed_by(j, k)
         IN  /\ (IF m = None THEN keepers ELSE record_miss(m, keepers))
                   \in [Keepers -> Option(Keeper)]
             /\ (IF m = None THEN recent ELSE record_recent_miss(m, recent))
                   \in [Keepers -> KeeperRecent]
<1> DEFINE m == missed_by(j, k)
<1>1. CASE m = None
  BY <1>1 DEF TypeOK
<1>2. CASE m # None
  <2>1. m = assigned_keeper(j) /\ assigned_keeper(j) # None
    BY <1>2 DEF missed_by, assigned_other
  <2>2. m \in Keepers /\ keepers[m] \in Keeper
    BY <2>1, AssignedType
  <2> HIDE DEF m
  <2>3. SatAdd32(keepers[m].missed, 1) \in U32
    BY <2>2, SatAdd32Type DEF Keeper
  <2>4. record_miss(m, keepers) \in [Keepers -> Option(Keeper)]
    BY <2>2, <2>3 DEF record_miss, TypeOK, Keeper, Option
  <2>5. smooth(recent[m].misses, BPS_SCALE) \in U64
    BY <2>2, ScheduleAssumption, SmoothType DEF TypeOK, KeeperRecent
  <2>6. record_recent_miss(m, recent) \in [Keepers -> KeeperRecent]
    BY <2>2, <2>5 DEF record_recent_miss, TypeOK, KeeperRecent
  <2> QED
    BY <1>2, <2>4, <2>6 DEF m
<1> QED
  BY <1>1, <1>2

LEMMA LatenessType ==
  ASSUME TypeOK, NEW j \in JobIds, state[j] \in JobState
  PROVE  lateness(j) \in U64
  BY NowU64, SatSubType DEF lateness, JobState

\* The caller's record after a run.
LEMMA RecordTypes ==
  ASSUME TypeOK, NEW j \in JobIds, state[j] \in JobState,
         NEW info \in Keeper, NEW r \in KeeperRecent
  PROVE  info_after_run(info, j) \in Keeper /\ recent_after_run(r, j) \in KeeperRecent
<1>1. lateness(j) \in U64 /\ lateness(j) \in Nat
  BY LatenessType DEF U64
<1>2. SatAdd32(info.executions, 1) \in U32
  BY SatAdd32Type DEF Keeper
<1>3. SatAdd(info.total_lateness, lateness(j)) \in U64
  BY <1>1, SatAddType DEF Keeper, U64
<1>4. smooth(r.lateness, lateness(j)) \in U64
  BY <1>1, SmoothType DEF KeeperRecent
<1>5. smooth(r.misses, 0) \in U64
  BY SmoothType DEF KeeperRecent
<1> QED
  BY <1>2, <1>3, <1>4, <1>5 DEF info_after_run, recent_after_run, Keeper, KeeperRecent

\* The fee of a run lies within the balance, and both its parts are amounts.
LEMMA RunFeeTypes ==
  ASSUME TypeOK, PartsTogether, NEW j \in JobIds, Live(j)
  PROVE  LET fees == split_fee(run_fee(j), config.protocol_fee_bps)
         IN  /\ run_fee(j) \in 0..state[j].balance
             /\ fees.rest \in Nat /\ fees.share \in Nat
             /\ fees.rest + fees.share = run_fee(j)
<1>1. spec[j] \in JobSpec /\ state[j] \in JobState /\ now \in U64
  BY LiveParts, NowU64
<1>2. run_fee(j) \in 0..state[j].balance
  <2>1. /\ spec[j].fee_per_run \in Amount /\ spec[j].max_fee_per_run \in Amount
        /\ spec[j].interval \in U64 \ {0}
        /\ state[j].next_run \in U64 /\ state[j].balance \in Amount
    BY <1>1 DEF JobSpec, JobState
  <2> QED
    BY <1>1, <2>1, FeeBounds DEF run_fee
<1>3. config.protocol_fee_bps \in 0..BPS_SCALE
  BY ScheduleAssumption, BoundsAssumption DEF TypeOK, Config
<1>4. run_fee(j) \in Nat
  BY <1>2
<1> QED
  BY <1>2, <1>3, <1>4, SplitExact

LEMMA StateAfterRunType ==
  ASSUME TypeOK, PartsTogether, NEW j \in JobIds, Live(j), dependency_met(j),
         NEW success \in BOOLEAN
  PROVE  state_after_run(j, success) \in JobState
<1>1. spec[j] \in JobSpec /\ state[j] \in JobState /\ now \in U64
  BY LiveParts, NowU64
<1>2. next_run_after(state[j].next_run, spec[j].interval, now) \in U64
  BY <1>1, NextRunType DEF JobSpec, JobState
<1>3. state[j].balance - run_fee(j) \in Amount
  <2>1. run_fee(j) \in 0..state[j].balance /\ state[j].balance \in 0..I128Max
    BY <1>1, RunFeeTypes DEF JobState, Amount
  <2> QED
    BY <2>1, ScheduleAssumption DEF Amount
<1>4. SatAdd32(state[j].runs, 1) \in U32 /\ SatAdd32(state[j].failures, 1) \in U32 /\ 0 \in U32
  BY <1>1, SatAdd32Type, BoundsAssumption DEF JobState, U32
<1>5. (IF spec[j].after = None THEN state[j].leader_runs ELSE state[spec[j].after].runs) \in U32
  <2>1. CASE spec[j].after = None
    BY <1>1, <2>1 DEF JobState
  <2>2. CASE spec[j].after # None
    <3>1. state[spec[j].after] \in JobState
      BY <2>2 DEF dependency_met, Live, TypeOK, Option
    <3> QED
      BY <2>2, <3>1 DEF JobState
  <2> QED
    BY <2>1, <2>2
<1> DEFINE failures == IF success THEN 0 ELSE SatAdd32(state[j].failures, 1)
           active == state[j].active
                     /\ ~ (~ success /\ config.max_failures # 0
                           /\ failures >= config.max_failures)
<1>6. failures \in U32 /\ active \in BOOLEAN
  BY <1>4
<1>7. state_after_run(j, success) =
        [next_run |-> next_run_after(state[j].next_run, spec[j].interval, now),
         balance |-> state[j].balance - run_fee(j), runs |-> SatAdd32(state[j].runs, 1),
         failures |-> failures, active |-> active,
         leader_runs |-> IF spec[j].after = None THEN state[j].leader_runs
                         ELSE state[spec[j].after].runs]
  BY DEF state_after_run
<1> HIDE DEF failures, active
<1> QED
  BY <1>2, <1>3, <1>4, <1>5, <1>6, <1>7 DEF JobState

LEMMA SettleType ==
  ASSUME TypeOK, NEW a \in Nat, NEW b \in Nat, settle(a, b)
  PROVE  held' \in [Tokens -> Amount]
<1> DEFINE paid == a + (IF config.treasury = None THEN 0 ELSE b)
<1>1. paid \in Nat /\ TransferOut(FeeToken, paid)
  BY DEF settle
<1> HIDE DEF paid
<1> QED
  BY <1>1, TransferOutType DEF Tokens

\* What every run does to the job, whoever makes it.
LEMMA RunTypes ==
  ASSUME IInv, NEW j \in JobIds, NEW k \in Keepers, NEW verdict, can_run(k, j, verdict),
         NEW success \in BOOLEAN, state' = [state EXCEPT ![j] = state_after_run(j, success)],
         spec' = spec
  PROVE  /\ Live(j) /\ state[j] \in JobState
         /\ state' \in [JobIds -> Option(JobState)] /\ PartsTogether'
<1>1. Live(j) /\ dependency_met(j) /\ TypeOK /\ PartsTogether
  BY DEF can_run, IInv
<1>2. state_after_run(j, success) \in JobState /\ state[j] \in JobState
  BY <1>1, StateAfterRunType, LiveParts
<1> QED
  BY <1>1, <1>2, SetStateTypes

LEMMA ExecuteIInv ==
  ASSUME IInv, NEW k \in Keepers, NEW j \in JobIds, NEW success \in BOOLEAN,
         execute(k, j, success)
  PROVE  IInv'
<1> DEFINE m == missed_by(j, k)
           ks == IF m = None THEN keepers ELSE record_miss(m, keepers)
           rs == IF m = None THEN recent ELSE record_recent_miss(m, recent)
           fees == split_fee(run_fee(j), config.protocol_fee_bps)
<1>0. /\ tx = Idle /\ Eligible(k)
      /\ UNCHANGED <<now, world, config, spec, next_job_id, owner_jobs, pending_owner,
                     active_keepers, windowVars, adminVars, tx>>
      /\ state' = [state EXCEPT ![j] = state_after_run(j, success)]
  BY DEF execute, authorize_keeper
<1>1. PICK verdict \in Verdicts(j) : can_run(k, j, verdict)
  BY DEF execute
<1>2. /\ Live(j) /\ state[j] \in JobState /\ TypeOK /\ PartsTogether
      /\ state' \in [JobIds -> Option(JobState)] /\ PartsTogether'
  BY <1>0, <1>1, RunTypes DEF IInv
<1>3. ks \in [Keepers -> Option(Keeper)] /\ rs \in [Keepers -> KeeperRecent]
  BY <1>2, MissTypes
<1>4. /\ info_after_run(keepers[k], j) \in Keeper
      /\ recent_after_run(recent[k], j) \in KeeperRecent
  <2>1. keepers[k] \in Keeper /\ recent[k] \in KeeperRecent
    BY <1>0, <1>2 DEF Eligible, TypeOK, Option
  <2> QED
    BY <1>2, <2>1, RecordTypes
<1>5. /\ keepers' = [ks EXCEPT ![k] = info_after_run(keepers[k], j)]
      /\ recent' = [rs EXCEPT ![k] = recent_after_run(recent[k], j)]
      /\ settle(fees.rest, fees.share)
  BY DEF execute
<1>6. held' \in [Tokens -> Amount]
  <2>1. fees.rest \in Nat /\ fees.share \in Nat
    BY <1>2, RunFeeTypes
  <2> HIDE DEF fees
  <2> QED
    BY <1>2, <1>5, <2>1, SettleType
<1> HIDE DEF ks, rs, fees
<1>7. keepers' \in [Keepers -> Option(Keeper)] /\ recent' \in [Keepers -> KeeperRecent]
  BY <1>3, <1>4, <1>5 DEF Option
<1> QED
  BY <1>0, <1>2, <1>6, <1>7, IdleSound DEF IInv, TypeOK, windowVars, adminVars

LEMMA ExecuteBatchRunIInv ==
  ASSUME IInv, NEW success \in BOOLEAN, execute_batch_run(success)
  PROVE  IInv'
<1> DEFINE j == Head(tx.todo)
           m == missed_by(j, tx.keeper)
           ks == IF m = None THEN keepers ELSE record_miss(m, keepers)
           rs == IF m = None THEN recent ELSE record_recent_miss(m, recent)
           fees == split_fee(run_fee(j), config.protocol_fee_bps)
<1>0. /\ UNCHANGED <<now, world, config, spec, next_job_id, owner_jobs, pending_owner,
                     active_keepers, windowVars, adminVars, held>>
      /\ state' = [state EXCEPT ![j] = state_after_run(j, success)]
      /\ keepers' = ks /\ recent' = rs
      /\ tx.keeper_fees + fees.rest <= I128Max /\ tx.protocol_fees + fees.share <= I128Max
      /\ tx' = [tx EXCEPT !.todo = Tail(@), !.info = info_after_run(@, j),
                          !.recent = recent_after_run(@, j),
                          !.keeper_fees = @ + fees.rest,
                          !.protocol_fees = @ + fees.share]
  BY DEF execute_batch_run
<1>1. PICK verdict \in Verdicts(j) : can_run(tx.keeper, j, verdict)
  BY DEF execute_batch_run
<1>2. /\ tx \in ExecuteBatchTx /\ tx.todo \in Seq(JobIds) /\ tx.todo # <<>>
      /\ tx.keeper \in Keepers /\ tx.info \in Keeper /\ tx.recent \in KeeperRecent
      /\ tx.keeper_fees \in 0..I128Max /\ tx.protocol_fees \in 0..I128Max
  BY TxTypes DEF IInv, execute_batch_run, ExecuteBatchTx, Amount
<1>3. j \in JobIds /\ Tail(tx.todo) \in Seq(JobIds)
  BY <1>2, HeadTailProperties
<1> HIDE DEF j
<1>4. /\ Live(j) /\ state[j] \in JobState /\ TypeOK /\ PartsTogether
      /\ state' \in [JobIds -> Option(JobState)] /\ PartsTogether'
  BY <1>0, <1>1, <1>2, <1>3, RunTypes DEF IInv
<1>5. ks \in [Keepers -> Option(Keeper)] /\ rs \in [Keepers -> KeeperRecent]
  BY <1>2, <1>3, <1>4, MissTypes
<1>6. info_after_run(tx.info, j) \in Keeper /\ recent_after_run(tx.recent, j) \in KeeperRecent
  BY <1>2, <1>3, <1>4, RecordTypes
<1>7. fees.rest \in Nat /\ fees.share \in Nat
  BY <1>3, <1>4, RunFeeTypes
<1> HIDE DEF ks, rs, fees
<1>8. tx.keeper_fees + fees.rest \in Amount /\ tx.protocol_fees + fees.share \in Amount
  <2>1. \A a \in 0..I128Max, b \in Nat : a + b <= I128Max => a + b \in 0..I128Max
    BY ScheduleAssumption
  <2> QED
    BY <1>0, <1>2, <1>7, <2>1 DEF Amount
<1>9. tx' \in ExecuteBatchTx /\ tx'.call = "execute_batch"
  <2>1. tx' = [call |-> tx.call, keeper |-> tx.keeper, todo |-> Tail(tx.todo),
               info |-> info_after_run(tx.info, j), recent |-> recent_after_run(tx.recent, j),
               keeper_fees |-> tx.keeper_fees + fees.rest,
               protocol_fees |-> tx.protocol_fees + fees.share]
    BY <1>0, <1>2 DEF ExecuteBatchTx
  <2> QED
    BY <1>2, <1>3, <1>6, <1>8, <2>1 DEF ExecuteBatchTx
<1> QED
  BY <1>0, <1>4, <1>5, <1>9
  DEF IInv, TypeOK, windowVars, adminVars, CreateJobsSound, WithdrawStakesSound

LEMMA ExecuteCallIInv == IInv /\ ExecuteCall => IInv'
<1> SUFFICES ASSUME IInv, ExecuteCall PROVE IInv'
  OBVIOUS
<1>1. ASSUME NEW k \in Keepers, NEW ids \in world.run_batches, execute_batch(k, ids)
      PROVE  IInv'
  <2>1. ids \in Seq(JobIds) /\ keepers[k] \in Keeper /\ recent[k] \in KeeperRecent
    BY <1>1, WorldOK
    DEF WorldType, IInv, TypeOK, execute_batch, authorize_keeper, Eligible, Option
  <2>2. tx' \in ExecuteBatchTx /\ tx'.call = "execute_batch"
    BY <1>1, <2>1, ScheduleAssumption DEF execute_batch, ExecuteBatchTx, Amount
  <2> QED
    BY <1>1, <2>2
    DEF execute_batch, IInv, TypeOK, PartsTogether, CreateJobsSound, WithdrawStakesSound,
        jobVars, keeperVars, windowVars, adminVars
<1>2. CASE execute_batch_skip
  <2>1. tx \in ExecuteBatchTx /\ tx.todo \in Seq(JobIds) /\ tx.todo # <<>>
    BY <1>2, TxTypes DEF IInv, execute_batch_skip, ExecuteBatchTx
  <2>2. Tail(tx.todo) \in Seq(JobIds)
    BY <2>1, HeadTailProperties
  <2>3. tx' = [tx EXCEPT !.todo = Tail(@)]
        /\ UNCHANGED <<now, world, config, jobVars, keeperVars, windowVars, adminVars, held>>
    BY <1>2 DEF execute_batch_skip
  <2>4. tx' \in ExecuteBatchTx /\ tx'.call = "execute_batch"
    BY <2>1, <2>2, <2>3 DEF ExecuteBatchTx
  <2> QED
    BY <2>3, <2>4
    DEF IInv, TypeOK, PartsTogether, CreateJobsSound, WithdrawStakesSound,
        jobVars, keeperVars, windowVars, adminVars
<1>3. CASE execute_batch_settle
  <2>1. /\ tx \in ExecuteBatchTx /\ tx.keeper \in Keepers /\ tx.info \in Keeper
        /\ tx.recent \in KeeperRecent /\ tx.keeper_fees \in Nat /\ tx.protocol_fees \in Nat
    BY <1>3, TxTypes DEF IInv, execute_batch_settle, ExecuteBatchTx, Amount
  <2>2. held' \in [Tokens -> Amount]
    BY <1>3, <2>1, SettleType DEF execute_batch_settle, IInv
  <2>3. keepers' \in [Keepers -> Option(Keeper)] /\ recent' \in [Keepers -> KeeperRecent]
    BY <1>3, <2>1 DEF execute_batch_settle, IInv, TypeOK, Option
  <2>4. tx' = Idle /\ UNCHANGED <<now, world, config, jobVars, active_keepers, windowVars, adminVars>>
    BY <1>3 DEF execute_batch_settle
  <2> QED
    BY <2>2, <2>3, <2>4
    DEF IInv, TypeOK, PartsTogether, CreateJobsSound, WithdrawStakesSound, jobVars,
        windowVars, adminVars, Idle
<1> QED
  BY <1>1, <1>2, <1>3, ExecuteIInv, ExecuteBatchRunIInv DEF ExecuteCall

-----------------------------------------------------------------------------

\* Every step keeps the inductive invariant.
THEOREM StepIInv == IInv /\ [Next]_vars => IInv'
<1>1. ASSUME IInv, UNCHANGED vars PROVE IInv'
  BY <1>1
  DEF vars, jobVars, keeperVars, windowVars, adminVars, IInv, TypeOK, PartsTogether,
      CreateJobsSound, WithdrawStakesSound
<1> QED
  BY <1>1, JobIInv, ExecuteCallIInv, KeeperIInv, AdminIInv, LedgerIInv DEF Next

\* The registry's storage keeps its types, and its integers their widths: no
\* balance, stake or total goes negative or beyond i128, no time or counter
\* beyond its width, whatever the callers do (state_after_run, settle,
\* release_stake, validate_job).
THEOREM TypeCorrect == Spec => []TypeOK
<1>1. IInv => TypeOK
  BY DEF IInv
<1> QED
  BY <1>1, InitIInv, StepIInv, PTL DEF Spec

-----------------------------------------------------------------------------
(* The emergency switch. *)

\* A looping call that takes funds or runs jobs began while the registry was
\* not paused, and the switch does not move before it returns.
LoopsUnpaused == tx.call \in {"create_jobs", "execute_batch"} => ~ config.paused

\* No loop is in progress at first.
LEMMA InitLoopsUnpaused == Init => LoopsUnpaused
  BY DEF Init, LoopsUnpaused, Idle

\* While a looping call of one of these kinds goes on, it began before.
LEMMA LoopsGoOn ==
  ASSUME IInv, [Next]_vars
  PROVE  \/ tx' = Idle
         \/ /\ tx'.call \in {"create_jobs", "execute_batch"} /\ ensure_not_paused
            /\ tx'.call = "execute_batch" => config.executor # None
            /\ config' = config
         \/ tx'.call = "withdraw_stakes"
         \/ tx'.call = tx.call /\ config' = config
<1>1. CASE JobCall
  <2>1. CASE create_jobs_validate \/ create_jobs_transfer \/ create_jobs_insert
    <3>1. tx \in CreateJobsTx /\ config' = config
      BY <2>1, TxTypes
      DEF IInv, create_jobs_validate, create_jobs_transfer, create_jobs_insert
    <3> QED
      BY <2>1, <3>1
      DEF create_jobs_validate, create_jobs_transfer, create_jobs_insert, CreateJobsTx
  <2>2. ASSUME NEW o \in world.owners, NEW b \in world.job_batches, create_jobs(o, b)
        PROVE  tx'.call = "create_jobs" /\ ensure_not_paused /\ config' = config
    BY <2>2 DEF create_jobs
  <2>3. ASSUME ~ (create_jobs_validate \/ create_jobs_transfer \/ create_jobs_insert),
               ~ \E o \in world.owners, b \in world.job_batches : create_jobs(o, b)
        PROVE  tx' = Idle
    BY <1>1, <2>3, ZenonT(40)
    DEF JobCall, create_job, update_job, fund_job, withdraw_job_balance, cancel_job,
        set_job_active, propose_job_owner, accept_job_owner
  <2> QED
    BY <2>1, <2>2, <2>3
<1>2. CASE ExecuteCall
  <2>1. ASSUME NEW k \in Keepers, NEW ids \in world.run_batches, execute_batch(k, ids)
        PROVE  /\ tx'.call = "execute_batch" /\ ensure_not_paused
               /\ config.executor # None /\ config' = config
    BY <2>1 DEF execute_batch, authorize_keeper
  <2>2. ASSUME NEW success \in BOOLEAN, execute_batch_run(success)
        PROVE  tx'.call = tx.call /\ config' = config
    <3>1. tx \in ExecuteBatchTx
      BY <2>2, TxTypes DEF IInv, execute_batch_run
    <3> QED
      BY <2>2, <3>1 DEF execute_batch_run, ExecuteBatchTx
  <2>3. CASE execute_batch_skip
    <3>1. tx \in ExecuteBatchTx
      BY <2>3, TxTypes DEF IInv, execute_batch_skip
    <3> QED
      BY <2>3, <3>1 DEF execute_batch_skip, ExecuteBatchTx
  <2>4. ASSUME NEW k \in Keepers, NEW j \in JobIds, NEW success \in BOOLEAN,
               execute(k, j, success)
        PROVE  tx' = Idle
    BY <2>4 DEF execute
  <2> QED
    BY <1>2, <2>1, <2>2, <2>3, <2>4 DEF ExecuteCall, execute_batch_settle
<1>3. CASE KeeperCall
  <2>1. CASE withdraw_stakes_next
    <3>1. tx \in WithdrawStakesTx
      BY <2>1, TxTypes DEF IInv, withdraw_stakes_next
    <3> QED
      BY <2>1, <3>1 DEF withdraw_stakes_next, WithdrawStakesTx
  <2>2. ASSUME NEW list \in world.stake_batches, withdraw_stakes(list)
        PROVE  tx'.call = "withdraw_stakes"
    BY <2>2 DEF withdraw_stakes
  <2> QED
    BY <1>3, <2>1, <2>2 DEF KeeperCall, stake, begin_unbonding, withdraw_stake
<1>4. CASE AdminCall
  BY <1>4
  DEF AdminCall, set_executor, propose_admin, accept_admin, cancel_admin_proposal,
      set_paused, set_target_halted, set_min_stake, set_min_interval, set_max_args,
      set_protocol_fee, set_max_failures, set_keeper_windows, set_unbonding_epoch,
      set_upgrade_delay, propose_upgrade, apply_upgrade, cancel_upgrade
<1>5. CASE Ledger
  BY <1>5 DEF Ledger, Tick, Rest, ExpireJobTouched, ExpireTargetResumed, vars
<1>6. CASE UNCHANGED vars
  BY <1>6 DEF vars
<1> QED
  BY <1>1, <1>2, <1>3, <1>4, <1>5, <1>6 DEF Next

\* Only loops that were let in by an unpaused registry go on.
LEMMA StepLoopsUnpaused == IInv /\ LoopsUnpaused /\ [Next]_vars => LoopsUnpaused'
<1> SUFFICES ASSUME IInv, LoopsUnpaused, [Next]_vars PROVE LoopsUnpaused'
  OBVIOUS
<1> QED
  BY LoopsGoOn DEF LoopsUnpaused, ensure_not_paused, Idle

\* What each call can do to balances and runs while the registry is paused.
PaysOut ==
    /\ \A t \in Tokens : held'[t] <= held[t]
    /\ \A j \in JobIds : (Live(j) /\ state'[j] # None) => state'[j].runs = state[j].runs
    /\ next_job_id' = next_job_id

\* Calls that move no token.
LEMMA SameBalances ==
  ASSUME IInv, held' = held
  PROVE  \A t \in Tokens : held'[t] <= held[t]
<1>1. \A t \in Tokens : held[t] \in Nat
  BY ScheduleAssumption DEF IInv, TypeOK, Amount
<1> QED
  BY <1>1

\* A transfer to somebody leaves the registry with less.
LEMMA TransferOutPays ==
  ASSUME IInv, NEW token \in Tokens, NEW amount \in Nat, TransferOut(token, amount)
  PROVE  \A t \in Tokens : held'[t] <= held[t]
<1>1. \A t \in Tokens : held[t] \in Nat
  BY ScheduleAssumption DEF IInv, TypeOK, Amount
<1> QED
  BY <1>1 DEF TransferOut, IInv, TypeOK

\* A step of a paused registry.
LEMMA PausedStep ==
  ASSUME IInv, LoopsUnpaused, [Next]_vars, config.paused, config'.paused
  PROVE  PaysOut
<1> USE DEF PaysOut
<1>1. CASE JobCall
  <2>1. ASSUME NEW j \in JobIds, cancel_job(j) PROVE PaysOut
    <3>1. state[j].balance \in Nat
      BY <2>1, LiveParts, ScheduleAssumption DEF IInv, cancel_job, JobState, Amount
    <3>2. \A t \in Tokens : held'[t] <= held[t]
      BY <2>1, <3>1, TransferOutPays DEF cancel_job, Tokens
    <3> QED
      BY <2>1, <3>2 DEF cancel_job, IInv, TypeOK
  <2>2. ASSUME NEW j \in JobIds, NEW a \in world.amounts, withdraw_job_balance(j, a)
        PROVE  PaysOut
    <3>1. a \in Nat
      BY <2>2, WorldOK, ScheduleAssumption
      DEF IInv, WorldType, withdraw_job_balance, I128
    <3>2. \A t \in Tokens : held'[t] <= held[t]
      BY <2>2, <3>1, TransferOutPays DEF withdraw_job_balance, Tokens
    <3>3. state[j] \in JobState
      BY <2>2, LiveParts DEF IInv, withdraw_job_balance
    <3> QED
      BY <2>2, <3>2, <3>3 DEF withdraw_job_balance, IInv, TypeOK, JobState
  <2>3. ASSUME NEW j \in JobIds, NEW f \in world.active_flags, set_job_active(j, f)
        PROVE  PaysOut
    <3>1. state[j] \in JobState /\ held' = held
      BY <2>3, LiveParts DEF IInv, set_job_active
    <3> QED
      BY <2>3, <3>1, SameBalances DEF set_job_active, IInv, TypeOK, JobState
  <2>4. ASSUME NEW j \in JobIds, NEW o \in world.new_owners, propose_job_owner(j, o)
        PROVE  PaysOut
    BY <2>4, SameBalances DEF propose_job_owner
  <2>5. ASSUME NEW j \in JobIds, accept_job_owner(j) PROVE PaysOut
    BY <2>5, SameBalances DEF accept_job_owner
  <2>6. ~ (create_jobs_validate \/ create_jobs_transfer \/ create_jobs_insert)
    BY DEF LoopsUnpaused, create_jobs_validate, create_jobs_transfer, create_jobs_insert
  <2>7. /\ \A o \in world.owners, p \in world.job_params, d \in world.amounts :
              ~ create_job(o, p, d)
        /\ \A o \in world.owners, b \in world.job_batches : ~ create_jobs(o, b)
        /\ \A j \in JobIds :
              /\ \A u \in world.job_updates : ~ update_job(j, u)
              /\ \A a \in world.amounts : ~ fund_job(j, a)
    BY DEF create_job, create_jobs, update_job, fund_job, ensure_not_paused
  <2> QED
    BY <1>1, <2>1, <2>2, <2>3, <2>4, <2>5, <2>6, <2>7 DEF JobCall
<1>2. CASE ExecuteCall
  BY <1>2
  DEF ExecuteCall, execute, execute_batch, execute_batch_run, execute_batch_skip,
      execute_batch_settle, authorize_keeper, ensure_not_paused, LoopsUnpaused
<1>3. CASE KeeperCall
  <2>1. ASSUME NEW k \in Keepers, Withdrawable(k), release_stake(k)
        PROVE  \A t \in Tokens : held'[t] <= held[t]
    <3>1. keepers[k].stake \in Nat
      BY <2>1, ScheduleAssumption DEF Withdrawable, IInv, TypeOK, Option, Keeper, Amount
    <3> QED
      BY <2>1, <3>1, TransferOutPays DEF release_stake, Tokens
  <2>2. UNCHANGED <<state, next_job_id>>
    BY <1>3
    DEF KeeperCall, stake, begin_unbonding, withdraw_stake, withdraw_stakes,
        withdraw_stakes_next, jobVars
  <2>3. \A t \in Tokens : held'[t] <= held[t]
    <3>1. ASSUME NEW k \in Keepers, withdraw_stake(k)
          PROVE  \A t \in Tokens : held'[t] <= held[t]
      BY <2>1, <3>1 DEF withdraw_stake
    <3>2. CASE withdraw_stakes_next
      <4>1. Head(tx.todo) \in Keepers
        BY <3>2, TxTypes, HeadTailProperties
        DEF IInv, WithdrawStakesSound, WithdrawStakesTx, withdraw_stakes_next
      <4>2. CASE Withdrawable(Head(tx.todo))
        BY <2>1, <3>2, <4>1, <4>2 DEF withdraw_stakes_next
      <4>3. CASE ~ Withdrawable(Head(tx.todo))
        BY <3>2, <4>3, SameBalances DEF withdraw_stakes_next
      <4> QED
        BY <4>2, <4>3
    <3>3. ASSUME NEW k \in world.unbonders, begin_unbonding(k)
          PROVE  \A t \in Tokens : held'[t] <= held[t]
      BY <3>3, SameBalances DEF begin_unbonding
    <3>4. ASSUME NEW list \in world.stake_batches, withdraw_stakes(list)
          PROVE  \A t \in Tokens : held'[t] <= held[t]
      BY <3>4, SameBalances DEF withdraw_stakes
    <3>5. \A k \in world.stakers, a \in world.stakes : ~ stake(k, a)
      BY DEF stake, ensure_not_paused
    <3> QED
      BY <1>3, <3>1, <3>2, <3>3, <3>4, <3>5 DEF KeeperCall
  <2> QED
    BY <2>2, <2>3
<1>4. CASE AdminCall
  <2>1. UNCHANGED <<held, state, next_job_id>>
    BY <1>4
    DEF AdminCall, set_executor, propose_admin, accept_admin, cancel_admin_proposal,
        set_paused, set_target_halted, set_min_stake, set_min_interval, set_max_args,
        set_protocol_fee, set_max_failures, set_keeper_windows, set_unbonding_epoch,
        set_upgrade_delay, propose_upgrade, apply_upgrade, cancel_upgrade, jobVars
  <2> QED
    BY <2>1, SameBalances
<1>5. CASE Ledger
  <2>1. UNCHANGED <<held, state, next_job_id>>
    BY <1>5 DEF Ledger, Tick, Rest, ExpireJobTouched, ExpireTargetResumed, vars, jobVars
  <2> QED
    BY <2>1, SameBalances
<1>6. CASE UNCHANGED vars
  BY <1>6, SameBalances DEF vars, jobVars
<1> QED
  BY <1>1, <1>2, <1>3, <1>4, <1>5, <1>6 DEF Next

\* The emergency switch does what it is for in every execution: while it is on
\* no call runs a job, creates one or takes funds in (ensure_not_paused and
\* authorize_keeper are where they must be), not even a loop that began before.
THEOREM PausedSafe == Spec => PausedOnlyPaysOut
<1> DEFINE SInv == IInv /\ LoopsUnpaused
<1>1. Init => SInv
  BY InitIInv, InitLoopsUnpaused
<1>2. SInv /\ [Next]_vars => SInv'
  BY StepIInv, StepLoopsUnpaused
<1>3. SInv /\ [Next]_vars =>
        [(config.paused /\ config'.paused) =>
          /\ \A t \in Tokens : held'[t] <= held[t]
          /\ \A j \in JobIds : (Live(j) /\ state'[j] # None) =>
                                  state'[j].runs = state[j].runs
          /\ next_job_id' = next_job_id]_vars
  BY PausedStep DEF PaysOut
<1> QED
  BY <1>1, <1>2, <1>3, PTL DEF Spec, PausedOnlyPaysOut

-----------------------------------------------------------------------------
(* Followers. *)

\* Ids are never used again, and a job follows only a job that exists or did.
IdsUsed ==
    \A j \in JobIds :
        Live(j) => /\ j < next_job_id
                   /\ spec[j].after # None => spec[j].after < next_job_id

\* The leader of a job that create_jobs has validated exists until it is stored.
BatchLeaders ==
    tx.call = "create_jobs" =>
        \A n \in 1..Len(tx.batch) :
            ((tx.paid \/ n < tx.i) /\ tx.batch[n].params.after # None) =>
                Live(tx.batch[n].params.after)

FInv == FollowersBehindLeaders /\ IdsUsed /\ BatchLeaders

\* No job follows another at first.
LEMMA InitFInv == Init => FInv
  BY DEF Init, FInv, FollowersBehindLeaders, IdsUsed, BatchLeaders, Live, Idle

\* Whether job x exists after the step.
Alive(x) == x \in JobIds /\ state'[x] # None

\* Deleting jobs and running them keeps followers behind their leaders.
LEMMA FollowersKept ==
  ASSUME IInv, IInv', FInv, next_job_id' = next_job_id,
         \A j \in JobIds : Live(j)' =>
            /\ Live(j)
            /\ spec'[j].after = spec[j].after
            /\ state'[j].runs >= state[j].runs
            /\ \/ state'[j].leader_runs = state[j].leader_runs
               \/ /\ spec[j].after # None
                  /\ state'[j].leader_runs = state[spec[j].after].runs
  PROVE  FollowersBehindLeaders' /\ IdsUsed'
<1>1. IdsUsed'
  BY DEF FInv, IdsUsed
<1>2. ASSUME NEW j \in JobIds, Live(j)', spec'[j].after # None
      PROVE  /\ spec'[j].after # j
             /\ Alive(spec'[j].after) =>
                   state'[j].leader_runs <= state'[spec'[j].after].runs
  <2> DEFINE a == spec[j].after
  <2>1. Live(j) /\ a = spec'[j].after /\ a # None /\ a # j
    BY <1>2 DEF FInv, FollowersBehindLeaders
  <2>2. ASSUME Alive(a) PROVE state'[j].leader_runs <= state'[a].runs
    <3>1. a \in JobIds /\ Live(a)
      BY <2>2 DEF Live, Alive
    <3>2. state[j] \in JobState /\ state'[j] \in JobState
          /\ state[a] \in JobState /\ state'[a] \in JobState
      BY <1>2, <2>1, <2>2, <3>1 DEF IInv, TypeOK, Option, Live, Alive
    <3>3. state[j].leader_runs <= state[a].runs /\ state'[a].runs >= state[a].runs
      BY <2>1, <2>2, <3>1 DEF FInv, FollowersBehindLeaders, Live, Alive
    <3>4. state'[j].leader_runs = state[j].leader_runs \/ state'[j].leader_runs = state[a].runs
      BY <1>2
    <3>5. state[j].leader_runs \in Nat /\ state[a].runs \in Nat /\ state'[a].runs \in Nat
      BY <3>2, BoundsAssumption DEF JobState, U32
    <3> HIDE DEF a
    <3> QED
      BY <3>3, <3>4, <3>5
  <2> QED
    BY <2>1, <2>2
<1> QED
  BY <1>1, <1>2 DEF FollowersBehindLeaders, Live, Alive

\* A step that leaves the jobs alone.
LEMMA JobsKept ==
  ASSUME IInv, FInv, UNCHANGED <<spec, state, next_job_id>>
  PROVE  FollowersBehindLeaders' /\ IdsUsed'
  BY DEF FInv, FollowersBehindLeaders, IdsUsed, Live

\* The next id is free, so nobody follows it yet.
LEMMA InsertFInv ==
  ASSUME IInv, IInv', FInv, next_job_id \in JobIds,
         NEW o \in Accounts, NEW p \in JobParams, NEW d \in Amount,
         p.after # None => Live(p.after), insert_job(o, p, d)
  PROVE  /\ FollowersBehindLeaders' /\ IdsUsed'
         /\ \A i \in JobIds : Live(i) => Live(i)'
<1> DEFINE id == next_job_id
<1>1. /\ next_job_id' = id + 1 /\ id \in Nat
      /\ \A i \in JobIds : i # id => spec'[i] = spec[i] /\ state'[i] = state[i]
      /\ spec'[id].after = p.after
      /\ state'[id].leader_runs = leader_runs(p.after)
  BY BoundsAssumption DEF insert_job, IInv, TypeOK
<1>2. ~ Live(id)
  BY <1>1 DEF FInv, IdsUsed
<1>3. p.after # None => p.after \in JobIds /\ p.after < id /\ p.after # id
  BY <1>1, <1>2 DEF FInv, IdsUsed, Live
<1>4. \A i \in JobIds : Live(i) => Live(i)'
  BY <1>1, <1>2 DEF Live
<1>5. \A i \in JobIds : i # id => (Live(i)' <=> Live(i))
  BY <1>1 DEF Live
<1>6. IdsUsed'
  <2>0. next_job_id' = id + 1
    BY <1>1
  <2> SUFFICES ASSUME NEW i \in JobIds, Live(i)'
               PROVE  i < id + 1 /\ (spec'[i].after # None => spec'[i].after < id + 1)
    BY <2>0, Zenon DEF IdsUsed
  <2>1. CASE i = id
    <3>1. p.after # None => p.after \in Nat /\ p.after < id
      BY <1>3, BoundsAssumption DEF JobIds
    <3> QED
      BY <1>1, <2>1, <3>1
  <2>2. CASE i # id
    <3>1. i < id /\ (spec[i].after # None => spec[i].after < id) /\ i \in Nat
      BY <1>5, <2>2, BoundsAssumption DEF FInv, IdsUsed, JobIds
    <3>2. spec[i].after # None => spec[i].after \in Nat
      BY <1>5, <2>2, LiveParts, BoundsAssumption DEF IInv, JobSpec, Option, JobIds
    <3> QED
      BY <1>1, <2>2, <3>1, <3>2
  <2> QED
    BY <2>1, <2>2
<1>7. FollowersBehindLeaders'
  <2> SUFFICES ASSUME NEW i \in JobIds, Live(i)', spec'[i].after # None
               PROVE  /\ spec'[i].after # i
                      /\ Alive(spec'[i].after) =>
                            state'[i].leader_runs <= state'[spec'[i].after].runs
    BY DEF FollowersBehindLeaders, Live, Alive
  <2>1. CASE i = id
    <3>1. p.after # id /\ p.after \in JobIds /\ Live(p.after)
      BY <1>1, <1>3, <2>1
    <3>2. state[p.after] \in JobState /\ state'[p.after] = state[p.after]
      BY <1>1, <3>1, LiveParts DEF IInv
    <3>3. state'[i].leader_runs = state[p.after].runs
      BY <1>1, <2>1, <3>1 DEF leader_runs, Live, insert_job
    <3>4. state[p.after].runs \in Nat
      BY <3>2, BoundsAssumption DEF JobState, U32
    <3> QED
      BY <1>1, <2>1, <3>1, <3>2, <3>3, <3>4
  <2>2. CASE i # id
    <3>1. Live(i) /\ spec'[i] = spec[i] /\ state'[i] = state[i]
      BY <1>1, <1>5, <2>2
    <3>2. spec[i].after # id
      <4>1. spec[i].after < id
        BY <3>1 DEF FInv, IdsUsed
      <4> QED
        BY <1>1, <4>1
    <3>3. Alive(spec[i].after) =>
              Live(spec[i].after) /\ state'[spec[i].after] = state[spec[i].after]
      BY <1>1, <3>2 DEF Live, Alive
    <3> QED
      BY <3>1, <3>3 DEF FInv, FollowersBehindLeaders
  <2> QED
    BY <2>1, <2>2
<1> QED
  BY <1>4, <1>6, <1>7

\* Calls other than create_jobs end with no batch in hand.
LEMMA NoBatch ==
  ASSUME tx' = Idle \/ tx'.call # "create_jobs"
  PROVE  BatchLeaders'
  BY DEF BatchLeaders, Idle

\* A created job follows a job that exists.
LEMMA CreationFInv ==
  ASSUME IInv, IInv', FInv,
         \/ \E o \in world.owners, p \in world.job_params, d \in world.amounts :
               create_job(o, p, d)
         \/ \E o \in world.owners, b \in world.job_batches : create_jobs(o, b)
         \/ create_jobs_validate
         \/ create_jobs_transfer
         \/ create_jobs_insert
  PROVE  FInv'
<1> USE DEF FInv
<1>1. ASSUME NEW o \in world.owners, NEW p \in world.job_params, NEW d \in world.amounts,
             create_job(o, p, d)
      PROVE  FInv'
  <2>1. /\ o \in Accounts /\ p \in JobParams /\ d \in I128 /\ d > 0
        /\ next_job_id \in JobIds
    <3>1. o \in Accounts /\ p \in JobParams /\ d \in I128 /\ world.jobs \in 0..MaxJobs
      BY WorldOK DEF IInv, WorldType
    <3>2. next_job_id \in JobIds
      BY <1>1, <3>1, BoundsAssumption DEF IInv, TypeOK, create_job, JobIds
    <3>3. p.fee_per_run > 0 /\ d >= p.fee_per_run /\ p.fee_per_run \in Int /\ d \in Int
      BY <1>1, <3>1, ScheduleAssumption
      DEF create_job, validate_job, validate_schedule, JobParams, I128
    <3> QED
      BY <3>1, <3>2, <3>3
  <2>2. d \in Amount
    BY <2>1, ScheduleAssumption DEF I128, Amount
  <2>3. insert_job(o, p, d) /\ (p.after # None => Live(p.after)) /\ tx' = Idle
    BY <1>1 DEF create_job, validate_job
  <2> QED
    BY <2>1, <2>2, <2>3, InsertFInv, NoBatch
<1>2. ASSUME NEW o \in world.owners, NEW b \in world.job_batches, create_jobs(o, b)
      PROVE  FInv'
  <2>1. UNCHANGED <<spec, state, next_job_id>>
    BY <1>2 DEF create_jobs, jobVars
  <2>2. BatchLeaders'
    <3>1. tx'.i = 1 /\ ~ tx'.paid
      BY <1>2 DEF create_jobs
    <3> QED
      BY <3>1 DEF BatchLeaders
  <2> QED
    BY <2>1, <2>2, JobsKept
<1>3. CASE create_jobs_validate
  <2>1. UNCHANGED <<spec, state, next_job_id>>
    BY <1>3 DEF create_jobs_validate, jobVars
  <2>2. BatchLeaders'
    <3>1. tx \in CreateJobsTx /\ tx.call = "create_jobs" /\ ~ tx.paid
      BY <1>3, TxTypes DEF IInv, create_jobs_validate
    <3>2. CASE tx' = Idle
      BY <3>2, NoBatch
    <3>3. CASE tx' # Idle
      <4> DEFINE new == tx.batch[tx.i]
      <4>1. /\ validate_job(new.params, new.deposit)
            /\ tx' = [tx EXCEPT !.i = @ + 1, !.total = @ + new.deposit]
        BY <1>3, <3>3 DEF create_jobs_validate
      <4>2. /\ tx'.i = tx.i + 1 /\ tx'.batch = tx.batch /\ ~ tx'.paid /\ tx.i \in Nat
            /\ Len(tx.batch) \in Nat
        BY <3>1, <4>1 DEF CreateJobsTx
      <4>3. new.params.after # None => Live(new.params.after)
        BY <4>1 DEF validate_job
      <4>4. \A n \in 1..Len(tx.batch) :
                (n < tx.i + 1 /\ tx.batch[n].params.after # None) =>
                    Live(tx.batch[n].params.after)
        BY <3>1, <4>2, <4>3 DEF BatchLeaders
      <4> HIDE DEF new
      <4> QED
        BY <2>1, <4>2, <4>4 DEF BatchLeaders, Live
    <3> QED
      BY <3>2, <3>3
  <2> QED
    BY <2>1, <2>2, JobsKept
<1>4. CASE create_jobs_transfer
  <2>1. UNCHANGED <<spec, state, next_job_id>>
    BY <1>4 DEF create_jobs_transfer, jobVars
  <2>2. BatchLeaders'
    <3>1. /\ tx \in CreateJobsTx /\ tx.call = "create_jobs" /\ ~ tx.paid
          /\ tx.i > Len(tx.batch)
      BY <1>4, TxTypes DEF IInv, create_jobs_transfer
    <3>2. CASE tx' = Idle
      BY <3>2, NoBatch
    <3>3. CASE tx' # Idle
      <4>1. tx' = [tx EXCEPT !.i = 1, !.paid = TRUE]
        BY <1>4, <3>3 DEF create_jobs_transfer
      <4>2. tx'.batch = tx.batch /\ tx.i \in Nat /\ Len(tx.batch) \in Nat
        BY <3>1, <4>1 DEF CreateJobsTx
      <4>3. \A n \in 1..Len(tx.batch) :
                tx.batch[n].params.after # None => Live(tx.batch[n].params.after)
        BY <3>1, <4>2 DEF BatchLeaders
      <4> QED
        BY <2>1, <4>2, <4>3 DEF BatchLeaders, Live
    <3> QED
      BY <3>2, <3>3
  <2> QED
    BY <2>1, <2>2, JobsKept
<1>5. CASE create_jobs_insert
  <2>1. /\ tx \in CreateJobsTx /\ tx.call = "create_jobs" /\ tx.paid
        /\ tx.i \in 1..Len(tx.batch) /\ tx.batch \in Seq(NewJob) /\ Len(tx.batch) \in Nat
    BY <1>5, TxTypes DEF IInv, create_jobs_insert, CreateJobsTx, CreateJobsSound
  <2> DEFINE new == tx.batch[tx.i]
  <2>2. new \in NewJob /\ tx.owner \in Accounts
    BY <2>1, ElementOfSeq DEF CreateJobsTx
  <2>3. new.params \in JobParams /\ new.deposit \in Amount
    BY <2>1, <2>2 DEF NewJob, IInv, CreateJobsSound, Checked
  <2>4. next_job_id \in JobIds
    BY <2>1, BoundsAssumption, SMTT(30) DEF IInv, TypeOK, CreateJobsSound, JobIds
  <2>5. new.params.after # None => Live(new.params.after)
    BY <2>1 DEF BatchLeaders
  <2>6. insert_job(tx.owner, new.params, new.deposit)
    BY <1>5 DEF create_jobs_insert
  <2>7. FollowersBehindLeaders' /\ IdsUsed' /\ \A i \in JobIds : Live(i) => Live(i)'
    <3> HIDE DEF new
    <3> QED
      BY <2>2, <2>3, <2>4, <2>5, <2>6, InsertFInv
  <2>8. BatchLeaders'
    <3>1. CASE tx' = Idle
      BY <3>1, NoBatch
    <3>2. CASE tx' # Idle
      <4>1. tx' = [tx EXCEPT !.i = @ + 1]
        BY <1>5, <3>2 DEF create_jobs_insert
      <4>2. tx'.batch = tx.batch
        BY <2>1, <4>1 DEF CreateJobsTx
      <4>3. \A n \in 1..Len(tx.batch) :
                tx.batch[n].params.after # None =>
                    Live(tx.batch[n].params.after) /\ Alive(tx.batch[n].params.after)
        BY <2>1, <2>7 DEF BatchLeaders, Live, Alive
      <4> QED
        BY <4>2, <4>3 DEF BatchLeaders, Live, Alive
    <3> QED
      BY <3>1, <3>2
  <2> QED
    BY <2>7, <2>8
<1> QED
  BY <1>1, <1>2, <1>3, <1>4, <1>5

\* A job that changes its leader starts from the runs the new one has made.
LEMMA UpdateFInv ==
  ASSUME IInv, IInv', FInv, NEW j \in JobIds, NEW u \in world.job_updates, update_job(j, u)
  PROVE  FInv'
<1> USE DEF FInv
<1>1. u \in JobUpdate /\ spec[j] \in JobSpec /\ state[j] \in JobState /\ Live(j)
  BY WorldOK, LiveParts DEF IInv, WorldType, update_job
<1>2. /\ \A i \in JobIds : i # j => spec'[i] = spec[i] /\ state'[i] = state[i]
      /\ spec'[j].after = u.after
      /\ state'[j].runs = state[j].runs
      /\ state'[j].leader_runs = IF u.after # spec[j].after THEN leader_runs(u.after)
                                 ELSE state[j].leader_runs
      /\ next_job_id' = next_job_id /\ tx' = Idle
  BY <1>1 DEF update_job, IInv, TypeOK, JobState
<1>3. \A i \in JobIds : Live(i)' => Live(i)
  BY <1>1, <1>2 DEF Live
<1>4. \A i \in JobIds : state'[i].runs = state[i].runs
  BY <1>2
<1>5. u.after # spec[j].after => u.after = None \/ (u.after # j /\ Live(u.after))
  BY DEF update_job, leader_allowed
<1>6. IdsUsed'
  <2> SUFFICES ASSUME NEW i \in JobIds, Live(i)
               PROVE  /\ i < next_job_id
                      /\ spec'[i].after # None => spec'[i].after < next_job_id
    BY <1>2, <1>3 DEF IdsUsed
  <2>1. CASE i # j
    BY <1>2, <2>1 DEF IdsUsed
  <2>2. CASE i = j
    BY <1>2, <1>5, <2>2 DEF IdsUsed, Live
  <2> QED
    BY <2>1, <2>2
<1>7. FollowersBehindLeaders'
  <2> SUFFICES ASSUME NEW i \in JobIds, Live(i)', spec'[i].after # None
               PROVE  /\ spec'[i].after # i
                      /\ Alive(spec'[i].after) =>
                            state'[i].leader_runs <= state'[spec'[i].after].runs
    BY DEF FollowersBehindLeaders, Live, Alive
  <2>1. CASE i # j \/ u.after = spec[j].after
    <3>1. spec'[i].after = spec[i].after /\ state'[i].leader_runs = state[i].leader_runs
      BY <1>2, <2>1
    <3>2. Alive(spec[i].after) =>
              Live(spec[i].after) /\ state'[spec[i].after].runs = state[spec[i].after].runs
      BY <1>3, <1>4 DEF Live, Alive
    <3> QED
      BY <1>3, <3>1, <3>2 DEF FollowersBehindLeaders
  <2>2. CASE i = j /\ u.after # spec[j].after
    <3>1. u.after # j /\ Live(u.after) /\ u.after \in JobIds
      BY <1>2, <1>5, <2>2 DEF Live
    <3>2. state[u.after] \in JobState
      BY <3>1, LiveParts DEF IInv
    <3>3. state'[j].leader_runs = state[u.after].runs /\ state'[u.after].runs = state[u.after].runs
      BY <1>2, <1>4, <2>2, <3>1 DEF leader_runs
    <3>4. state[u.after].runs \in Nat
      BY <3>2, BoundsAssumption DEF JobState, U32
    <3> QED
      BY <1>2, <2>2, <3>1, <3>3, <3>4
  <2> QED
    BY <2>1, <2>2
<1> QED
  BY <1>2, <1>6, <1>7, NoBatch

\* A run counts up, and takes the leader's count when there is a leader.
LEMMA RunFInv ==
  ASSUME IInv, IInv', FInv, NEW j \in JobIds, NEW success \in BOOLEAN, Live(j),
         dependency_met(j),
         state' = [state EXCEPT ![j] = state_after_run(j, success)],
         UNCHANGED <<spec, next_job_id>>
  PROVE  FollowersBehindLeaders' /\ IdsUsed'
<1>1. state[j] \in JobState
  BY LiveParts DEF IInv
<1>2. /\ \A i \in JobIds : i # j => state'[i] = state[i]
      /\ state'[j] = state_after_run(j, success)
  BY DEF IInv, TypeOK
<1>3. state'[j].runs >= state[j].runs
  <2>1. state'[j].runs = SatAdd32(state[j].runs, 1)
    BY <1>2 DEF state_after_run
  <2>2. state[j].runs \in U32
    BY <1>1 DEF JobState
  <2> QED
    BY <2>1, <2>2, BoundsAssumption DEF SatAdd32, U32
<1>4. \/ state'[j].leader_runs = state[j].leader_runs
      \/ spec[j].after # None /\ state'[j].leader_runs = state[spec[j].after].runs
  BY <1>2 DEF state_after_run
<1>5. ASSUME NEW i \in JobIds, Live(i)'
      PROVE  /\ Live(i) /\ spec'[i].after = spec[i].after
             /\ state'[i].runs >= state[i].runs
             /\ \/ state'[i].leader_runs = state[i].leader_runs
                \/ spec[i].after # None /\ state'[i].leader_runs = state[spec[i].after].runs
  <2>1. CASE i = j
    BY <1>3, <1>4, <2>1
  <2>2. CASE i # j
    <3>1. state'[i] = state[i] /\ Live(i)
      BY <1>2, <1>5, <2>2 DEF Live
    <3>2. state[i].runs \in Nat
      BY <3>1, LiveParts, BoundsAssumption DEF IInv, JobState, U32
    <3> QED
      BY <3>1, <3>2
  <2> QED
    BY <2>1, <2>2
<1> QED
  BY <1>5, FollowersKept

\* Other changes of one job touch neither its leader nor its counts.
LEMMA PlainChangeFInv ==
  ASSUME IInv, IInv', FInv, NEW j \in JobIds, Live(j), next_job_id' = next_job_id,
         \A i \in JobIds : i # j => spec'[i] = spec[i] /\ state'[i] = state[i],
         Live(j)' => /\ spec'[j].after = spec[j].after
                     /\ state'[j].runs = state[j].runs
                     /\ state'[j].leader_runs = state[j].leader_runs
  PROVE  FollowersBehindLeaders' /\ IdsUsed'
<1>1. ASSUME NEW i \in JobIds, Live(i)'
      PROVE  /\ Live(i) /\ spec'[i].after = spec[i].after
             /\ state'[i].runs >= state[i].runs
             /\ state'[i].leader_runs = state[i].leader_runs
  <2>1. /\ Live(i) /\ spec'[i].after = spec[i].after
        /\ state'[i].runs = state[i].runs /\ state'[i].leader_runs = state[i].leader_runs
    BY <1>1 DEF Live
  <2>2. state[i].runs \in Nat
    BY <2>1, LiveParts, BoundsAssumption DEF IInv, JobState, U32
  <2> QED
    BY <2>1, <2>2
<1> QED
  BY <1>1, FollowersKept

\* Every step keeps followers behind their leaders.
LEMMA StepFInv == IInv /\ IInv' /\ FInv /\ [Next]_vars => FInv'
<1> SUFFICES ASSUME IInv, IInv', FInv, [Next]_vars PROVE FInv'
  OBVIOUS
<1>1. CASE JobCall
  <2>1. ASSUME NEW j \in JobIds, cancel_job(j) PROVE FInv'
    <3>1. /\ Live(j) /\ next_job_id' = next_job_id /\ tx' = Idle /\ ~ Live(j)'
          /\ \A i \in JobIds : i # j => spec'[i] = spec[i] /\ state'[i] = state[i]
      BY <2>1 DEF cancel_job, IInv, TypeOK, Live
    <3> QED
      BY <3>1, PlainChangeFInv, NoBatch DEF FInv
  <2>2. ASSUME NEW j \in JobIds, NEW a \in world.amounts,
               fund_job(j, a) \/ withdraw_job_balance(j, a)
        PROVE  FInv'
    <3>1. state[j] \in JobState /\ Live(j)
      BY <2>2, LiveParts DEF IInv, fund_job, withdraw_job_balance
    <3>2. /\ spec' = spec /\ next_job_id' = next_job_id /\ tx' = Idle
          /\ \E b : state' = [state EXCEPT ![j].balance = b]
      BY <2>2 DEF fund_job, withdraw_job_balance
    <3>3. /\ \A i \in JobIds : i # j => state'[i] = state[i]
          /\ state'[j].runs = state[j].runs /\ state'[j].leader_runs = state[j].leader_runs
      BY <3>1, <3>2 DEF IInv, TypeOK, JobState
    <3> QED
      BY <3>1, <3>2, <3>3, PlainChangeFInv, NoBatch DEF FInv
  <2>3. ASSUME NEW j \in JobIds, NEW f \in world.active_flags, set_job_active(j, f)
        PROVE  FInv'
    <3>1. state[j] \in JobState /\ Live(j)
      BY <2>3, LiveParts DEF IInv, set_job_active
    <3>2. spec' = spec /\ next_job_id' = next_job_id /\ tx' = Idle
      BY <2>3 DEF set_job_active
    <3>3. /\ \A i \in JobIds : i # j => state'[i] = state[i]
          /\ state'[j].runs = state[j].runs /\ state'[j].leader_runs = state[j].leader_runs
      BY <2>3, <3>1 DEF set_job_active, IInv, TypeOK, JobState
    <3> QED
      BY <3>1, <3>2, <3>3, PlainChangeFInv, NoBatch DEF FInv
  <2>4. ASSUME NEW j \in JobIds, NEW o \in world.new_owners, propose_job_owner(j, o)
        PROVE  FInv'
    BY <2>4, JobsKept, NoBatch DEF propose_job_owner, FInv
  <2>5. ASSUME NEW j \in JobIds, accept_job_owner(j) PROVE FInv'
    <3>1. spec[j] \in JobSpec /\ Live(j)
      BY <2>5, LiveParts DEF IInv, accept_job_owner
    <3>2. /\ state' = state /\ next_job_id' = next_job_id /\ tx' = Idle
          /\ \A i \in JobIds : i # j => spec'[i] = spec[i]
          /\ spec'[j].after = spec[j].after
      BY <2>5, <3>1 DEF accept_job_owner, IInv, TypeOK, JobSpec
    <3> QED
      BY <3>1, <3>2, PlainChangeFInv, NoBatch DEF FInv
  <2> QED
    BY <1>1, <2>1, <2>2, <2>3, <2>4, <2>5, CreationFInv, UpdateFInv DEF JobCall
<1>2. CASE ExecuteCall
  <2>1. ASSUME NEW k \in Keepers, NEW j \in JobIds, NEW success \in BOOLEAN,
               execute(k, j, success)
        PROVE  FInv'
    <3>1. /\ Live(j) /\ dependency_met(j) /\ tx' = Idle
          /\ state' = [state EXCEPT ![j] = state_after_run(j, success)]
          /\ UNCHANGED <<spec, next_job_id>>
      BY <2>1 DEF execute, can_run
    <3> QED
      BY <3>1, RunFInv, NoBatch DEF FInv
  <2>2. ASSUME NEW success \in BOOLEAN, execute_batch_run(success) PROVE FInv'
    <3> DEFINE j == Head(tx.todo)
    <3>1. /\ Live(j) /\ dependency_met(j)
          /\ state' = [state EXCEPT ![j] = state_after_run(j, success)]
          /\ UNCHANGED <<spec, next_job_id>>
      BY <2>2 DEF execute_batch_run, can_run
    <3>2. j \in JobIds
      BY <3>1 DEF Live
    <3>3. tx'.call # "create_jobs"
      <4>1. tx \in ExecuteBatchTx /\ tx.call = "execute_batch"
        BY <2>2, TxTypes DEF IInv, execute_batch_run
      <4> QED
        BY <2>2, <4>1 DEF execute_batch_run, ExecuteBatchTx
    <3> HIDE DEF j
    <3> QED
      BY <3>1, <3>2, <3>3, RunFInv, NoBatch DEF FInv
  <2>3. ASSUME \/ \E k \in Keepers, ids \in world.run_batches : execute_batch(k, ids)
               \/ execute_batch_skip
               \/ execute_batch_settle
        PROVE  FInv'
    <3>1. UNCHANGED <<spec, state, next_job_id>>
      BY <2>3 DEF execute_batch, execute_batch_skip, execute_batch_settle, jobVars
    <3>2. tx' = Idle \/ tx'.call # "create_jobs"
      <4>1. CASE execute_batch_skip
        <5>1. tx \in ExecuteBatchTx /\ tx.call = "execute_batch"
          BY <4>1, TxTypes DEF IInv, execute_batch_skip
        <5> QED
          BY <4>1, <5>1 DEF execute_batch_skip, ExecuteBatchTx
      <4> QED
        BY <2>3, <4>1 DEF execute_batch, execute_batch_settle
    <3> QED
      BY <3>1, <3>2, JobsKept, NoBatch DEF FInv
  <2> QED
    BY <1>2, <2>1, <2>2, <2>3 DEF ExecuteCall
<1>3. CASE KeeperCall
  <2>1. UNCHANGED <<spec, state, next_job_id>>
    BY <1>3
    DEF KeeperCall, stake, begin_unbonding, withdraw_stake, withdraw_stakes,
        withdraw_stakes_next, jobVars
  <2>2. tx' = Idle \/ tx'.call # "create_jobs"
    <3>1. CASE withdraw_stakes_next
      <4>1. tx \in WithdrawStakesTx /\ tx.call = "withdraw_stakes"
        BY <3>1, TxTypes DEF IInv, withdraw_stakes_next
      <4> QED
        BY <3>1, <4>1 DEF withdraw_stakes_next, WithdrawStakesTx
    <3> QED
      BY <1>3, <3>1 DEF KeeperCall, stake, begin_unbonding, withdraw_stake, withdraw_stakes
  <2> QED
    BY <2>1, <2>2, JobsKept, NoBatch DEF FInv
<1>4. CASE AdminCall
  <2>1. UNCHANGED <<spec, state, next_job_id>> /\ tx' = Idle
    BY <1>4
    DEF AdminCall, set_executor, propose_admin, accept_admin, cancel_admin_proposal,
        set_paused, set_target_halted, set_min_stake, set_min_interval, set_max_args,
        set_protocol_fee, set_max_failures, set_keeper_windows, set_unbonding_epoch,
        set_upgrade_delay, propose_upgrade, apply_upgrade, cancel_upgrade, jobVars
  <2> QED
    BY <2>1, JobsKept, NoBatch DEF FInv
<1>5. CASE Ledger
  <2>1. UNCHANGED <<spec, state, next_job_id>> /\ tx' = Idle
    BY <1>5 DEF Ledger, Tick, Rest, ExpireJobTouched, ExpireTargetResumed, vars, jobVars
  <2> QED
    BY <2>1, JobsKept, NoBatch DEF FInv
<1>6. CASE UNCHANGED vars
  BY <1>6 DEF vars, jobVars, FInv, FollowersBehindLeaders, IdsUsed, BatchLeaders, Live
<1> QED
  BY <1>1, <1>2, <1>3, <1>4, <1>5, <1>6 DEF Next

\* In every execution no follower gets ahead of its leader and none follows
\* itself: through batches that create both, changes of the leader, deleted
\* leaders (whose ids are never used again) and saturated run counts
\* (leader_allowed, leader_runs, dependency_met, insert_job).
THEOREM FollowersSafe == Spec => []FollowersBehindLeaders
<1>1. Init => IInv /\ FInv
  BY InitIInv, InitFInv
<1>2. IInv /\ FInv /\ [Next]_vars => IInv' /\ FInv'
  BY StepIInv, StepFInv
<1>3. FInv => FollowersBehindLeaders
  BY DEF FInv
<1> QED
  BY <1>1, <1>2, <1>3, PTL DEF Spec

-----------------------------------------------------------------------------
(* The record of a batch. *)

\* The steps after which a batch is in progress.
LEMMA BatchSteps ==
  ASSUME IInv, [Next]_vars, tx' # Idle, tx'.call = "execute_batch"
  PROVE  \/ \E k \in Keepers, ids \in world.run_batches : execute_batch(k, ids)
         \/ \E success \in BOOLEAN : execute_batch_run(success)
         \/ execute_batch_skip
         \/ UNCHANGED vars
<1>1. CASE JobCall
  <2>1. CASE create_jobs_validate \/ create_jobs_transfer \/ create_jobs_insert
    <3>1. tx \in CreateJobsTx /\ tx.call = "create_jobs"
      BY <2>1, TxTypes
      DEF IInv, create_jobs_validate, create_jobs_transfer, create_jobs_insert
    <3> QED
      BY <2>1, <3>1
      DEF create_jobs_validate, create_jobs_transfer, create_jobs_insert, CreateJobsTx
  <2>2. ASSUME NEW o \in world.owners, NEW b \in world.job_batches, create_jobs(o, b)
        PROVE  FALSE
    BY <2>2 DEF create_jobs
  <2> QED
    BY <1>1, <2>1, <2>2, ZenonT(40)
    DEF JobCall, create_job, update_job, fund_job, withdraw_job_balance, cancel_job,
        set_job_active, propose_job_owner, accept_job_owner
<1>2. CASE ExecuteCall
  BY <1>2 DEF ExecuteCall, execute, execute_batch_settle
<1>3. CASE KeeperCall
  <2>1. CASE withdraw_stakes_next
    <3>1. tx \in WithdrawStakesTx
      BY <2>1, TxTypes DEF IInv, withdraw_stakes_next
    <3> QED
      BY <2>1, <3>1 DEF withdraw_stakes_next, WithdrawStakesTx
  <2> QED
    BY <1>3, <2>1 DEF KeeperCall, stake, begin_unbonding, withdraw_stake, withdraw_stakes
<1>4. CASE AdminCall
  BY <1>4
  DEF AdminCall, set_executor, propose_admin, accept_admin, cancel_admin_proposal,
      set_paused, set_target_halted, set_min_stake, set_min_interval, set_max_args,
      set_protocol_fee, set_max_failures, set_keeper_windows, set_unbonding_epoch,
      set_upgrade_delay, propose_upgrade, apply_upgrade, cancel_upgrade
<1>5. CASE Ledger
  BY <1>5 DEF Ledger, Tick, Rest, ExpireJobTouched, ExpireTargetResumed, vars
<1> QED
  BY <1>1, <1>2, <1>3, <1>4, <1>5 DEF Next

\* Every step keeps the record of the batch in hand.
LEMMA StepBatchRecord == IInv /\ BatchRecordCurrent /\ [Next]_vars => BatchRecordCurrent'
<1> SUFFICES ASSUME IInv, BatchRecordCurrent, [Next]_vars, tx'.call = "execute_batch"
             PROVE  /\ keepers'[tx'.keeper] # None
                    /\ tx'.info.missed = keepers'[tx'.keeper].missed
                    /\ tx'.info.stake = keepers'[tx'.keeper].stake
                    /\ tx'.info.unbonding_at = keepers'[tx'.keeper].unbonding_at
  BY DEF BatchRecordCurrent
<1>1. ASSUME NEW k \in Keepers, NEW ids \in world.run_batches, execute_batch(k, ids)
      PROVE  /\ keepers'[tx'.keeper] # None
             /\ tx'.info = keepers'[tx'.keeper]
  BY <1>1 DEF execute_batch, authorize_keeper, Eligible, keeperVars
<1>2. ASSUME NEW success \in BOOLEAN, execute_batch_run(success)
      PROVE  /\ keepers'[tx'.keeper] = keepers[tx.keeper]
             /\ tx'.info.missed = tx.info.missed
             /\ tx'.info.stake = tx.info.stake
             /\ tx'.info.unbonding_at = tx.info.unbonding_at
             /\ tx.call = "execute_batch"
  <2> DEFINE j == Head(tx.todo)
             m == missed_by(j, tx.keeper)
  <2>1. tx \in ExecuteBatchTx /\ tx.call = "execute_batch" /\ tx.info \in Keeper
        /\ tx.keeper \in Keepers
    BY <1>2, TxTypes DEF IInv, execute_batch_run, ExecuteBatchTx
  <2>2. keepers' = IF m = None THEN keepers ELSE record_miss(m, keepers)
    BY <1>2 DEF execute_batch_run
  <2>3. m # tx.keeper \/ m = None
    BY DEF missed_by, assigned_other
  <2>4. keepers'[tx.keeper] = keepers[tx.keeper]
    <3> HIDE DEF m
    <3> QED
      BY <2>1, <2>2, <2>3 DEF record_miss, IInv, TypeOK
  <2>5. tx'.keeper = tx.keeper /\ tx'.info = info_after_run(tx.info, j)
    <3>1. \E t, r, f, p : tx' = [tx EXCEPT !.todo = t, !.info = info_after_run(@, j),
                                          !.recent = r, !.keeper_fees = f, !.protocol_fees = p]
      BY <1>2 DEF execute_batch_run
    <3> QED
      BY <2>1, <3>1 DEF ExecuteBatchTx
  <2> QED
    BY <2>1, <2>4, <2>5 DEF info_after_run, Keeper
<1>3. CASE execute_batch_skip
  <2>1. tx \in ExecuteBatchTx /\ tx.call = "execute_batch"
    BY <1>3, TxTypes DEF IInv, execute_batch_skip
  <2>2. tx'.keeper = tx.keeper /\ tx'.info = tx.info /\ keepers' = keepers
    BY <1>3, <2>1 DEF execute_batch_skip, ExecuteBatchTx, keeperVars
  <2> QED
    BY <2>1, <2>2 DEF BatchRecordCurrent
<1>4. CASE UNCHANGED vars
  BY <1>4 DEF BatchRecordCurrent, vars, keeperVars
<1> QED
  BY <1>1, <1>2, <1>3, <1>4, BatchSteps DEF BatchRecordCurrent, Idle

\* execute_batch loads the caller's record once and saves it once.  In every
\* execution the copy is current when it is saved, so no miss, stake or
\* unbonding is overwritten (a batch cannot charge its own caller, and no call
\* comes between its runs).
THEOREM BatchRecordSafe == Spec => []BatchRecordCurrent
<1>1. Init => IInv /\ BatchRecordCurrent
  BY InitIInv DEF Init, BatchRecordCurrent, Idle
<1>2. IInv /\ BatchRecordCurrent /\ [Next]_vars => IInv' /\ BatchRecordCurrent'
  BY StepIInv, StepBatchRecord
<1> QED
  BY <1>1, <1>2, PTL DEF Spec

-----------------------------------------------------------------------------
(* Runs. *)

\* A batch began with an executor, and nobody replaces it before it returns.
LoopsConnected == tx.call = "execute_batch" => config.executor # None

\* A loop of runs started with an executor connected.
LEMMA StepLoopsConnected == IInv /\ LoopsConnected /\ [Next]_vars => LoopsConnected'
<1> SUFFICES ASSUME IInv, LoopsConnected, [Next]_vars PROVE LoopsConnected'
  OBVIOUS
<1> QED
  BY LoopsGoOn DEF LoopsConnected, Idle

RunInv == IInv /\ FInv /\ LoopsUnpaused /\ LoopsConnected

\* No run is in progress at first.
LEMMA InitRunInv == Init => RunInv
  BY InitIInv, InitFInv, InitLoopsUnpaused DEF RunInv, Init, LoopsConnected, Idle

\* Every step keeps the invariant of runs.
LEMMA StepRunInv == RunInv /\ [Next]_vars => RunInv'
  BY StepIInv, StepFInv, StepLoopsUnpaused, StepLoopsConnected DEF RunInv

\* A step counts a run of job j.
Ran(j) == Live(j) /\ state'[j] # None /\ state'[j].runs # state[j].runs

\* A step that counts a run is a turn of execute or execute_batch that passed
\* every check of run_job and stored the state of a run: no other call moves
\* the count, and a new job never takes the id of one that exists.
LEMMA RunSteps ==
  ASSUME RunInv, [Next]_vars, NEW j \in JobIds, Ran(j)
  PROVE  /\ ensure_not_paused /\ config.executor # None
         /\ \E k \in Keepers, verdict \in Verdicts(j) : can_run(k, j, verdict)
         /\ \E success \in BOOLEAN : state'[j] = state_after_run(j, success)
<1> USE DEF RunInv
<1>0. Live(j) /\ state[j] \in JobState
  BY LiveParts DEF Ran, IInv
<1>1. CASE JobCall
  <2>1. ASSUME NEW i \in JobIds, cancel_job(i) PROVE FALSE
    BY <2>1 DEF cancel_job, IInv, TypeOK, Ran
  <2>2. ASSUME NEW i \in JobIds, NEW a \in world.amounts,
               fund_job(i, a) \/ withdraw_job_balance(i, a)
        PROVE  FALSE
    <3>1. PICK b : state' = [state EXCEPT ![i].balance = b]
      BY <2>2 DEF fund_job, withdraw_job_balance
    <3>2. i = j \/ state'[j] = state[j]
      BY <3>1 DEF IInv, TypeOK
    <3>3. state'[j].runs = state[j].runs
      BY <1>0, <3>1, <3>2 DEF IInv, TypeOK, JobState
    <3> QED BY <3>3 DEF Ran
  <2>3. ASSUME NEW i \in JobIds, NEW f \in world.active_flags, set_job_active(i, f)
        PROVE  FALSE
    BY <1>0, <2>3 DEF set_job_active, IInv, TypeOK, Ran, JobState
  <2>4. ASSUME NEW i \in JobIds, NEW u \in world.job_updates, update_job(i, u)
        PROVE  FALSE
    BY <1>0, <2>4 DEF update_job, IInv, TypeOK, Ran, JobState
  <2>5. ASSUME NEW o, NEW p, NEW d, insert_job(o, p, d)
        PROVE  FALSE
    <3>1. \A i \in JobIds : i # next_job_id => state'[i] = state[i]
      BY <2>5 DEF insert_job, IInv, TypeOK
    <3>2. j # next_job_id
      <4>1. j < next_job_id /\ j \in Nat /\ next_job_id \in Nat
        BY <1>0, BoundsAssumption DEF FInv, IdsUsed, IInv, TypeOK, JobIds
      <4> QED
        BY <4>1
    <3> QED
      BY <3>1, <3>2 DEF Ran
  <2>6. ASSUME NEW o \in world.owners, NEW p \in world.job_params, NEW d \in world.amounts,
               create_job(o, p, d)
        PROVE  FALSE
    BY <2>5, <2>6 DEF create_job
  <2>7. CASE create_jobs_insert
    BY <2>5, <2>7 DEF create_jobs_insert
  <2>8. state # state'
    BY DEF Ran
  <2>9. ASSUME NEW o \in world.owners, NEW b \in world.job_batches, create_jobs(o, b)
        PROVE  FALSE
    BY <2>8, <2>9 DEF create_jobs, jobVars
  <2>10. ~ (create_jobs_validate \/ create_jobs_transfer)
    BY <2>8 DEF create_jobs_validate, create_jobs_transfer, jobVars
  <2>11. ASSUME NEW i \in JobIds,
                accept_job_owner(i) \/ \E o \in world.new_owners : propose_job_owner(i, o)
         PROVE  FALSE
    BY <2>8, <2>11 DEF accept_job_owner, propose_job_owner
  <2> QED
    BY <1>1, <2>1, <2>2, <2>3, <2>4, <2>6, <2>7, <2>9, <2>10, <2>11 DEF JobCall
<1>2. CASE ExecuteCall
  <2>1. ASSUME NEW k \in Keepers, NEW i \in JobIds, NEW success \in BOOLEAN,
               execute(k, i, success)
        PROVE  /\ ensure_not_paused /\ config.executor # None
               /\ \E kk \in Keepers, verdict \in Verdicts(j) : can_run(kk, j, verdict)
               /\ \E s \in BOOLEAN : state'[j] = state_after_run(j, s)
    <3>1. /\ ensure_not_paused /\ config.executor # None
          /\ \E verdict \in Verdicts(i) : can_run(k, i, verdict)
          /\ state' = [state EXCEPT ![i] = state_after_run(i, success)]
      BY <2>1 DEF execute, authorize_keeper
    <3>2. i = j /\ state'[j] = state_after_run(j, success)
      BY <3>1 DEF Ran, IInv, TypeOK
    <3> QED
      BY <3>1, <3>2
  <2>2. ASSUME NEW success \in BOOLEAN, execute_batch_run(success)
        PROVE  /\ ensure_not_paused /\ config.executor # None
               /\ \E kk \in Keepers, verdict \in Verdicts(j) : can_run(kk, j, verdict)
               /\ \E s \in BOOLEAN : state'[j] = state_after_run(j, s)
    <3> DEFINE i == Head(tx.todo)
    <3>1. /\ tx.call = "execute_batch" /\ tx.todo # <<>>
          /\ \E verdict \in Verdicts(i) : can_run(tx.keeper, i, verdict)
          /\ state' = [state EXCEPT ![i] = state_after_run(i, success)]
      BY <2>2 DEF execute_batch_run
    <3>2. tx.keeper \in Keepers
      BY <3>1, TxTypes DEF IInv, ExecuteBatchTx
    <3>3. ensure_not_paused /\ config.executor # None
      BY <3>1 DEF LoopsUnpaused, LoopsConnected, ensure_not_paused
    <3> HIDE DEF i
    <3>4. i = j /\ state'[j] = state_after_run(j, success)
      BY <3>1 DEF Ran, IInv, TypeOK
    <3> QED
      BY <3>1, <3>2, <3>3, <3>4
  <2>3. state # state'
    BY DEF Ran
  <2>4. ~ (execute_batch_skip \/ execute_batch_settle)
    BY <2>3 DEF execute_batch_skip, execute_batch_settle, jobVars
  <2>5. ASSUME NEW k \in Keepers, NEW ids \in world.run_batches, execute_batch(k, ids)
        PROVE  FALSE
    BY <2>3, <2>5 DEF execute_batch, jobVars
  <2> QED
    BY <1>2, <2>1, <2>2, <2>4, <2>5 DEF ExecuteCall
<1>3. CASE KeeperCall
  BY <1>3
  DEF Ran, KeeperCall, stake, begin_unbonding, withdraw_stake, withdraw_stakes,
      withdraw_stakes_next, jobVars
<1>4. CASE AdminCall
  BY <1>4
  DEF Ran, AdminCall, set_executor, propose_admin, accept_admin, cancel_admin_proposal,
      set_paused, set_target_halted, set_min_stake, set_min_interval, set_max_args,
      set_protocol_fee, set_max_failures, set_keeper_windows, set_unbonding_epoch,
      set_upgrade_delay, propose_upgrade, apply_upgrade, cancel_upgrade, jobVars
<1>5. CASE Ledger
  BY <1>5 DEF Ran, Ledger, Tick, Rest, ExpireJobTouched, ExpireTargetResumed, vars, jobVars
<1>6. CASE UNCHANGED vars
  BY <1>6 DEF Ran, vars, jobVars
<1> QED
  BY <1>1, <1>2, <1>3, <1>4, <1>5, <1>6 DEF Next

\* In every execution each run the contract accepts was reported by is_due, so
\* a keeper that only polls it overlooks nothing: run_job checks all that
\* is_due checks, in a batch too, where pausing and the executor are checked
\* only once at the start.
THEOREM RunsReported == Spec => RunsWereReportedDue
<1>1. RunInv /\ [Next]_vars =>
        [\A j \in JobIds :
            (Live(j) /\ state'[j] # None /\ state'[j].runs # state[j].runs) =>
                is_due(j, TRUE)]_vars
  <2> SUFFICES ASSUME RunInv, [Next]_vars, NEW j \in JobIds, Ran(j) PROVE is_due(j, TRUE)
    BY DEF Ran
  <2>1. PICK k \in Keepers, verdict \in Verdicts(j) : can_run(k, j, verdict)
    BY RunSteps
  <2>2. ensure_not_paused /\ config.executor # None
    BY RunSteps
  <2> QED
    BY <2>1, <2>2 DEF can_run, is_due, ensure_not_paused
<1> QED
  BY <1>1, InitRunInv, StepRunInv, PTL DEF Spec, RunsWereReportedDue

\* In every execution a follower's run uses up a run of its leader.
THEOREM FollowersWait == Spec => FollowerWaitsForLeader
<1>1. RunInv /\ [Next]_vars =>
        [\A j \in JobIds :
            (Live(j) /\ state'[j] # None /\ state'[j].runs # state[j].runs
               /\ spec[j].after # None) =>
                /\ Live(spec[j].after)
                /\ state'[j].leader_runs > state[j].leader_runs]_vars
  <2> SUFFICES ASSUME RunInv, [Next]_vars, NEW j \in JobIds, Ran(j), spec[j].after # None
               PROVE  /\ Live(spec[j].after)
                      /\ state'[j].leader_runs > state[j].leader_runs
    BY DEF Ran
  <2>1. PICK k \in Keepers, verdict \in Verdicts(j) : can_run(k, j, verdict)
    BY RunSteps
  <2>2. PICK success \in BOOLEAN : state'[j] = state_after_run(j, success)
    BY RunSteps
  <2>3. state'[j].leader_runs = state[spec[j].after].runs
    BY <2>2 DEF state_after_run
  <2> QED
    BY <2>1, <2>3 DEF can_run, dependency_met
<1> QED
  BY <1>1, InitRunInv, StepRunInv, PTL DEF Spec, FollowerWaitsForLeader

\* In every execution a job runs at most once per slot: not before the slot,
\* and the next slot lies ahead on the same grid whatever was missed
\* (ensure_due, next_run_after).  The fee the run takes is at least the base fee,
\* at most the cap, and within the job's balance (ramped_fee).
THEOREM SlotsSafe == Spec => OneRunPerSlot
<1> DEFINE Slot(j) ==
             LET fee == state[j].balance - state'[j].balance
             IN  /\ now >= state[j].next_run
                 /\ state'[j].next_run > now
                 /\ \/ state'[j].next_run = U64Max
                    \/ (state'[j].next_run - state[j].next_run) % spec[j].interval = 0
                 /\ fee \in spec[j].fee_per_run..
                            Larger(spec[j].fee_per_run, spec[j].max_fee_per_run)
                 /\ state'[j].balance >= 0
<1>1. RunInv /\ [Next]_vars =>
        [\A j \in JobIds :
            (Live(j) /\ state'[j] # None /\ state'[j].runs # state[j].runs) => Slot(j)]_vars
  <2> SUFFICES ASSUME RunInv, [Next]_vars, NEW j \in JobIds, Ran(j) PROVE Slot(j)
    BY DEF Ran
  <2>1. PICK k \in Keepers, verdict \in Verdicts(j) : can_run(k, j, verdict)
    BY RunSteps
  <2>2. PICK success \in BOOLEAN : state'[j] = state_after_run(j, success)
    BY RunSteps
  <2>3. /\ state'[j].next_run = next_run_after(state[j].next_run, spec[j].interval, now)
        /\ state'[j].balance = state[j].balance - ramped_fee(spec[j], state[j], now)
    BY <2>2 DEF state_after_run, run_fee
  <2>4. now >= state[j].next_run /\ state[j].balance >= spec[j].fee_per_run
    BY <2>1 DEF can_run, ensure_due
  <2>5. spec[j] \in JobSpec /\ state[j] \in JobState /\ now \in U64 /\ now < U64Max
    <3>1. now \in U64 /\ now < U64Max
      BY NowU64, BoundsAssumption, ScheduleAssumption DEF RunInv, IInv, TypeOK
    <3> QED
      BY <3>1, LiveParts DEF Ran, RunInv, IInv
  <2>6. /\ spec[j].fee_per_run \in Amount /\ spec[j].max_fee_per_run \in Amount
        /\ spec[j].interval \in U64 \ {0}
        /\ state[j].next_run \in U64 /\ state[j].balance \in Amount
    BY <2>5 DEF JobSpec, JobState
  <2>7. /\ state'[j].next_run > now
        /\ \/ state'[j].next_run = U64Max
           \/ (state'[j].next_run - state[j].next_run) % spec[j].interval = 0
    BY <2>3, <2>5, <2>6, NextRunSlot
  <2> DEFINE fee == ramped_fee(spec[j], state[j], now)
             cap == Larger(spec[j].fee_per_run, spec[j].max_fee_per_run)
  <2>8. fee \in 0..state[j].balance /\ fee <= cap /\ fee >= spec[j].fee_per_run
    BY <2>4, <2>5, <2>6, FeeBounds
  <2>9. state[j].balance \in Nat /\ spec[j].fee_per_run \in Nat /\ cap \in Nat
    BY <2>6 DEF Amount, Larger
  <2> HIDE DEF fee, cap
  <2>10. /\ state[j].balance - state'[j].balance = fee /\ state'[j].balance >= 0
         /\ fee \in spec[j].fee_per_run..cap
    BY <2>3, <2>8, <2>9 DEF fee
  <2> QED
    BY <2>4, <2>7, <2>10 DEF cap
<1> QED
  BY <1>1, InitRunInv, StepRunInv, PTL DEF Spec, OneRunPerSlot

-----------------------------------------------------------------------------
(* The share of missed windows. *)

\* A smoothed share never exceeds the scale.
LEMMA SmoothBounded ==
  ASSUME NEW a \in Nat, NEW b \in Nat, NEW scale \in Nat, a <= 8 * scale, b <= scale
  PROVE  smooth(a, b) <= 8 * scale
<1>1. a - a \div 8 <= 7 * scale /\ a - a \div 8 \in Nat
  OBVIOUS
<1>2. a - a \div 8 + b <= 8 * scale
  BY <1>1
<1> QED
  BY <1>1, <1>2, ScheduleAssumption DEF smooth, SatAdd

\* What a batch has loaded is bounded as well as what is stored.
MissInv ==
    /\ MissShareBounded
    /\ tx.call = "execute_batch" => tx.recent.misses <= 8 * BPS_SCALE

\* A run lowers the caller's share and raises that of the keeper it charges.
LEMMA RunMissShare ==
  ASSUME IInv, MissShareBounded, NEW j \in JobIds, Live(j), NEW k \in Keepers,
         NEW r \in KeeperRecent, r.misses <= 8 * BPS_SCALE
  PROVE  LET m  == missed_by(j, k)
             rs == IF m = None THEN recent ELSE record_recent_miss(m, recent)
         IN  /\ recent_after_run(r, j).misses <= 8 * BPS_SCALE
             /\ rs \in [Keepers -> KeeperRecent]
             /\ \A x \in Keepers : rs[x].misses <= 8 * BPS_SCALE
<1> DEFINE m  == missed_by(j, k)
           rs == IF m = None THEN recent ELSE record_recent_miss(m, recent)
<1>1. BPS_SCALE \in Nat /\ \A x \in KeeperRecent : x.misses \in Nat
  BY ScheduleAssumption DEF KeeperRecent, U64
<1>2. recent_after_run(r, j).misses <= 8 * BPS_SCALE
  <2>1. r.misses \in Nat
    BY <1>1
  <2>2. smooth(r.misses, 0) <= 8 * BPS_SCALE
    BY <1>1, <2>1, SmoothBounded
  <2> QED
    BY <2>2 DEF recent_after_run
<1>3. rs \in [Keepers -> KeeperRecent]
  BY MissTypes DEF IInv
<1>4. recent \in [Keepers -> KeeperRecent]
  BY DEF IInv, TypeOK
<1> HIDE DEF m
<1>5. ASSUME NEW x \in Keepers PROVE rs[x].misses <= 8 * BPS_SCALE
  <2>1. recent[x] \in KeeperRecent /\ recent[x].misses \in Nat /\ recent[x].misses <= 8 * BPS_SCALE
    BY <1>1, <1>4 DEF MissShareBounded
  <2>2. smooth(recent[x].misses, BPS_SCALE) <= 8 * BPS_SCALE
    BY <1>1, <2>1, SmoothBounded
  <2>3. rs[x].misses = recent[x].misses \/ rs[x].misses = smooth(recent[x].misses, BPS_SCALE)
    BY <1>4, <2>1 DEF record_recent_miss, KeeperRecent
  <2> QED
    BY <2>1, <2>2, <2>3
<1> QED
  BY <1>2, <1>3, <1>5 DEF m

\* Every step keeps the miss shares bounded.
LEMMA StepMissInv == IInv /\ MissInv /\ [Next]_vars => MissInv'
<1> SUFFICES ASSUME IInv, MissInv, [Next]_vars PROVE MissInv'
  OBVIOUS
<1> USE DEF MissInv
<1>0. recent \in [Keepers -> KeeperRecent] /\ 0 <= 8 * BPS_SCALE
  BY ScheduleAssumption DEF IInv, TypeOK
<1>1. CASE ExecuteCall
  <2>1. ASSUME NEW k \in Keepers, NEW j \in JobIds, NEW success \in BOOLEAN,
               execute(k, j, success)
        PROVE  MissInv'
    <3> DEFINE m  == missed_by(j, k)
               rs == IF m = None THEN recent ELSE record_recent_miss(m, recent)
    <3>1. Live(j) /\ tx' = Idle /\ recent' = [rs EXCEPT ![k] = recent_after_run(recent[k], j)]
      BY <2>1 DEF execute, can_run
    <3>2. recent[k] \in KeeperRecent /\ recent[k].misses <= 8 * BPS_SCALE
      BY <1>0 DEF MissShareBounded
    <3>3. /\ recent_after_run(recent[k], j).misses <= 8 * BPS_SCALE
          /\ rs \in [Keepers -> KeeperRecent]
          /\ \A x \in Keepers : rs[x].misses <= 8 * BPS_SCALE
      BY <3>1, <3>2, RunMissShare
    <3> HIDE DEF rs, m
    <3>4. MissShareBounded'
      BY <3>1, <3>3 DEF MissShareBounded
    <3> QED
      BY <3>1, <3>4 DEF Idle
  <2>2. ASSUME NEW k \in Keepers, NEW ids \in world.run_batches, execute_batch(k, ids)
        PROVE  MissInv'
    <3>1. tx'.recent = recent[k] /\ recent' = recent
      BY <2>2 DEF execute_batch, keeperVars
    <3> QED
      BY <3>1 DEF MissShareBounded
  <2>3. ASSUME NEW success \in BOOLEAN, execute_batch_run(success) PROVE MissInv'
    <3> DEFINE j  == Head(tx.todo)
               m  == missed_by(j, tx.keeper)
               rs == IF m = None THEN recent ELSE record_recent_miss(m, recent)
    <3>1. /\ tx \in ExecuteBatchTx /\ tx.call = "execute_batch" /\ tx.keeper \in Keepers
          /\ tx.recent \in KeeperRecent
      BY <2>3, TxTypes DEF IInv, execute_batch_run, ExecuteBatchTx
    <3>2. Live(j) /\ j \in JobIds /\ recent' = rs
      BY <2>3 DEF execute_batch_run, can_run, Live
    <3>3. tx'.recent = recent_after_run(tx.recent, j)
      <4>1. \E t, i, f, p : tx' = [tx EXCEPT !.todo = t, !.info = i,
                                            !.recent = recent_after_run(@, j),
                                            !.keeper_fees = f, !.protocol_fees = p]
        BY <2>3 DEF execute_batch_run
      <4> QED
        BY <3>1, <4>1 DEF ExecuteBatchTx
    <3>4. /\ recent_after_run(tx.recent, j).misses <= 8 * BPS_SCALE
          /\ \A x \in Keepers : rs[x].misses <= 8 * BPS_SCALE
      <4> HIDE DEF j
      <4> QED
        BY <3>1, <3>2, RunMissShare
    <3> HIDE DEF rs, m, j
    <3> QED
      BY <3>2, <3>3, <3>4 DEF MissShareBounded
  <2>4. CASE execute_batch_skip
    <3>1. tx \in ExecuteBatchTx /\ tx.call = "execute_batch"
      BY <2>4, TxTypes DEF IInv, execute_batch_skip
    <3>2. tx'.recent = tx.recent /\ recent' = recent
      BY <2>4, <3>1 DEF execute_batch_skip, ExecuteBatchTx, keeperVars
    <3> QED
      BY <3>1, <3>2 DEF MissShareBounded
  <2>5. CASE execute_batch_settle
    <3>1. /\ tx.recent.misses <= 8 * BPS_SCALE /\ tx' = Idle
          /\ recent' = [recent EXCEPT ![tx.keeper] = tx.recent]
      BY <2>5 DEF execute_batch_settle
    <3> QED
      BY <1>0, <3>1 DEF MissShareBounded, Idle
  <2> QED
    BY <1>1, <2>1, <2>2, <2>3, <2>4, <2>5 DEF ExecuteCall
<1>2. CASE ~ ExecuteCall
  <2>1. \A k \in Keepers : recent'[k] = recent[k] \/ recent'[k].misses = 0
    <3>1. CASE KeeperCall
      BY <1>0, <3>1
      DEF KeeperCall, stake, begin_unbonding, withdraw_stake, withdraw_stakes,
          withdraw_stakes_next, release_stake, keeperVars
    <3>2. CASE JobCall
      BY <3>2, ZenonT(40)
      DEF JobCall, create_job, create_jobs, create_jobs_validate, create_jobs_transfer,
          create_jobs_insert, update_job, fund_job, withdraw_job_balance, cancel_job,
          set_job_active, propose_job_owner, accept_job_owner, keeperVars
    <3>3. CASE AdminCall
      BY <3>3
      DEF AdminCall, set_executor, propose_admin, accept_admin, cancel_admin_proposal,
          set_paused, set_target_halted, set_min_stake, set_min_interval, set_max_args,
          set_protocol_fee, set_max_failures, set_keeper_windows, set_unbonding_epoch,
          set_upgrade_delay, propose_upgrade, apply_upgrade, cancel_upgrade, keeperVars
    <3>4. CASE Ledger \/ UNCHANGED vars
      BY <3>4
      DEF Ledger, Tick, Rest, ExpireJobTouched, ExpireTargetResumed, vars, keeperVars
    <3> QED
      BY <1>2, <3>1, <3>2, <3>3, <3>4 DEF Next
  <2>2. MissShareBounded'
    BY <1>0, <2>1 DEF MissShareBounded
  <2>3. tx'.call = "execute_batch" => tx' = tx
    BY <1>2, BatchSteps DEF ExecuteCall, vars, Idle
  <2> QED
    BY <2>2, <2>3
<1> QED
  BY <1>1, <1>2

\* recent_miss_bps never reports more than 100%: the fixed-point average is
\* bounded by its scale whatever misses and runs follow each other, also in the
\* copy a batch works on.
THEOREM MissShareSafe == Spec => []MissShareBounded
<1>1. Init => IInv /\ MissInv
  <2>1. 0 <= 8 * BPS_SCALE
    BY ScheduleAssumption
  <2> QED
    BY <2>1, InitIInv DEF Init, MissInv, MissShareBounded, Idle
<1>2. IInv /\ MissInv /\ [Next]_vars => IInv' /\ MissInv'
  BY StepIInv, StepMissInv
<1>3. MissInv => MissShareBounded
  BY DEF MissInv
<1> QED
  BY <1>1, <1>2, <1>3, PTL DEF Spec

-----------------------------------------------------------------------------
(* Unbonding and the rotation. *)

\* A record disappears only when its unbonding is over, starts without
\* unbonding, and changes its release only when the keeper begins to unbond.
UnbondingChange(k) ==
    /\ (keepers[k] # None /\ keepers'[k] = None) => Withdrawable(k)
    /\ keepers'[k] # None =>
          \/ keepers[k] # None /\ keepers'[k].unbonding_at = keepers[k].unbonding_at
          \/ keepers[k] = None /\ keepers'[k].unbonding_at = None
          \/ k \in world.unbonders /\ begin_unbonding(k)

\* Recording a miss neither adds nor removes a keeper, nor lets one leave.
LEMMA RecordMissKeeps ==
  ASSUME IInv, NEW j \in JobIds, Live(j), NEW k \in Keepers, NEW x \in Keepers
  PROVE  LET m  == missed_by(j, k)
             ks == IF m = None THEN keepers ELSE record_miss(m, keepers)
         IN  /\ ks \in [Keepers -> Option(Keeper)]
             /\ ks[x] = None <=> keepers[x] = None
             /\ keepers[x] # None => /\ ks[x].unbonding_at = keepers[x].unbonding_at
                                     /\ ks[x].stake = keepers[x].stake
<1> DEFINE m == missed_by(j, k)
           ks == IF m = None THEN keepers ELSE record_miss(m, keepers)
<1>1. ks \in [Keepers -> Option(Keeper)] /\ keepers \in [Keepers -> Option(Keeper)]
  BY MissTypes DEF IInv, TypeOK
<1>2. CASE m = None \/ x # m
  <2> HIDE DEF m
  <2>1. ks[x] = keepers[x]
    BY <1>1, <1>2 DEF record_miss
  <2> QED
    BY <1>1, <2>1 DEF m
<1>3. CASE m # None /\ x = m
  <2>1. keepers[m] \in Keeper
    <3>1. m = assigned_keeper(j) /\ assigned_keeper(j) # None
      BY <1>3 DEF missed_by, assigned_other
    <3> QED
      BY <3>1, AssignedType DEF IInv
  <2> HIDE DEF m
  <2>2. ks[x] = [keepers[x] EXCEPT !.missed = SatAdd32(@, 1)]
    BY <1>1, <1>3 DEF record_miss
  <2>3. SatAdd32(keepers[x].missed, 1) \in U32
    BY <1>3, <2>1, SatAdd32Type DEF Keeper
  <2>4. /\ ks[x] \in Keeper /\ ks[x].unbonding_at = keepers[x].unbonding_at
        /\ ks[x].stake = keepers[x].stake
    BY <1>3, <2>1, <2>2, <2>3 DEF Keeper
  <2>5. ks[x] # None /\ keepers[x] # None
    BY <1>3, <2>1, <2>4, AddressAssumption
  <2> QED
    BY <1>1, <2>4, <2>5 DEF m
<1> QED
  BY <1>2, <1>3

\* What a step may do to the unbonding of one keeper.
LEMMA UnbondingSteps ==
  ASSUME IInv, BatchRecordCurrent, [Next]_vars, NEW x \in Keepers
  PROVE  UnbondingChange(x)
<1> USE DEF UnbondingChange
<1>0. keepers \in [Keepers -> Option(Keeper)]
  BY DEF IInv, TypeOK
<1>1. CASE ExecuteCall
  <2>1. ASSUME NEW k \in Keepers, NEW j \in JobIds, NEW success \in BOOLEAN,
               execute(k, j, success)
        PROVE  UnbondingChange(x)
    <3> DEFINE m  == missed_by(j, k)
               ks == IF m = None THEN keepers ELSE record_miss(m, keepers)
    <3>1. /\ Live(j) /\ keepers[k] # None
          /\ keepers' = [ks EXCEPT ![k] = info_after_run(keepers[k], j)]
      BY <2>1 DEF execute, can_run, authorize_keeper, Eligible
    <3>2. /\ ks \in [Keepers -> Option(Keeper)]
          /\ ks[x] = None <=> keepers[x] = None
          /\ keepers[x] # None => ks[x].unbonding_at = keepers[x].unbonding_at
      BY <3>1, RecordMissKeeps
    <3> HIDE DEF ks, m
    <3>3. CASE x # k
      <4>1. keepers'[x] = ks[x]
        BY <3>1, <3>2, <3>3
      <4> QED
        BY <3>2, <4>1
    <3>4. CASE x = k
      <4>1. keepers'[x] = info_after_run(keepers[x], j) /\ keepers[x] \in Keeper
        BY <1>0, <3>1, <3>2, <3>4 DEF Option
      <4>2. keepers'[x].unbonding_at = keepers[x].unbonding_at
        BY <4>1 DEF info_after_run, Keeper
      <4>3. keepers'[x] # None
        <5>1. state[j] \in JobState /\ TypeOK /\ recent[x] \in KeeperRecent
          BY <3>1, LiveParts DEF IInv, TypeOK
        <5>2. keepers'[x] \in Keeper
          BY <4>1, <5>1, RecordTypes
        <5> QED
          BY <5>2, AddressAssumption
      <4> QED
        BY <3>1, <3>4, <4>2, <4>3
    <3> QED
      BY <3>3, <3>4
  <2>2. ASSUME NEW success \in BOOLEAN, execute_batch_run(success)
        PROVE  UnbondingChange(x)
    <3> DEFINE j  == Head(tx.todo)
               m  == missed_by(j, tx.keeper)
               ks == IF m = None THEN keepers ELSE record_miss(m, keepers)
    <3>1. tx.keeper \in Keepers
      BY <2>2, TxTypes DEF IInv, execute_batch_run, ExecuteBatchTx
    <3>2. Live(j) /\ j \in JobIds /\ keepers' = ks
      BY <2>2 DEF execute_batch_run, can_run, Live
    <3>3. /\ ks[x] = None <=> keepers[x] = None
          /\ keepers[x] # None => ks[x].unbonding_at = keepers[x].unbonding_at
      <4> HIDE DEF j
      <4> QED
        BY <3>1, <3>2, RecordMissKeeps
    <3> HIDE DEF ks, m, j
    <3> QED
      BY <3>2, <3>3
  <2>3. CASE execute_batch_settle
    <3>1. /\ tx.call = "execute_batch" /\ tx.keeper \in Keepers /\ tx.info \in Keeper
          /\ keepers' = [keepers EXCEPT ![tx.keeper] = tx.info]
      BY <2>3, TxTypes DEF IInv, execute_batch_settle, ExecuteBatchTx
    <3>2. keepers[tx.keeper] # None /\ tx.info.unbonding_at = keepers[tx.keeper].unbonding_at
      BY <3>1 DEF BatchRecordCurrent
    <3>3. tx.info # None
      BY <3>1, AddressAssumption
    <3> QED
      BY <1>0, <3>1, <3>2, <3>3
  <2>4. ASSUME \/ \E k \in Keepers, ids \in world.run_batches : execute_batch(k, ids)
               \/ execute_batch_skip
        PROVE  UnbondingChange(x)
    BY <2>4 DEF execute_batch, execute_batch_skip, keeperVars
  <2> QED
    BY <1>1, <2>1, <2>2, <2>3, <2>4 DEF ExecuteCall
<1>2. CASE KeeperCall
  <2>1. ASSUME NEW k \in world.stakers, NEW a \in world.stakes, stake(k, a)
        PROVE  UnbondingChange(x)
    <3> DEFINE info == IF keepers[k] = None THEN NewKeeper ELSE keepers[k]
    <3>1. k \in Keepers /\ keepers' = [keepers EXCEPT ![k] = [info EXCEPT !.stake = @ + a]]
      BY <2>1, WorldOK DEF stake, IInv, WorldType
    <3>2. CASE x # k
      BY <1>0, <3>1, <3>2
    <3>3. CASE x = k /\ keepers[k] = None
      <4>1. keepers'[x] = [NewKeeper EXCEPT !.stake = @ + a]
        BY <1>0, <3>1, <3>3
      <4> QED
        BY <3>3, <4>1 DEF NewKeeper
    <3>4. CASE x = k /\ keepers[k] # None
      <4>1. keepers[x] \in Keeper /\ keepers'[x] = [keepers[x] EXCEPT !.stake = @ + a]
        BY <1>0, <3>1, <3>4 DEF Option
      <4>2. keepers'[x].unbonding_at = keepers[x].unbonding_at
        BY <4>1 DEF Keeper
      <4>3. keepers'[x] # None
        <5>1. keepers'[x].stake \in Amount
          <6>1. a \in I128 /\ keepers[x].stake \in Amount /\ a > 0
                /\ keepers[x].stake + a <= I128Max
            BY <2>1, <3>4, <4>1, WorldOK DEF stake, IInv, WorldType, Keeper
          <6>2. keepers[x].stake + a \in Amount
            BY <6>1, ScheduleAssumption DEF I128, Amount
          <6> QED
            BY <4>1, <6>2 DEF Keeper
        <5>2. keepers'[x] \in Keeper
          BY <4>1, <5>1 DEF Keeper
        <5> QED
          BY <5>2, AddressAssumption
      <4> QED
        BY <3>4, <4>2, <4>3
    <3> QED
      BY <3>2, <3>3, <3>4
  <2>2. ASSUME NEW k \in world.unbonders, begin_unbonding(k) PROVE UnbondingChange(x)
    <3>1. CASE x # k
      BY <1>0, <2>2, <3>1 DEF begin_unbonding
    <3>2. CASE x = k
      <4>1. now \in U64 /\ config.unbonding_epoch \in Nat
        BY NowU64, EpochType, ScheduleAssumption DEF IInv, U64
      <4>2. /\ keepers[x] \in Keeper
            /\ keepers'[x] = [keepers[x] EXCEPT !.unbonding_at =
                   unbonding_release(now, UnbondingPeriod, config.unbonding_epoch)]
        BY <1>0, <2>2, <3>2 DEF begin_unbonding, Option
      <4>3. unbonding_release(now, UnbondingPeriod, config.unbonding_epoch) \in U64
        BY <4>1, ReleaseType
      <4>4. keepers'[x] \in Keeper
        BY <4>2, <4>3 DEF Keeper, Option
      <4>5. keepers'[x] # None
        BY <4>4, AddressAssumption
      <4> QED
        BY <2>2, <3>2, <4>5
    <3> QED
      BY <3>1, <3>2
  <2>3. ASSUME NEW k \in Keepers, Withdrawable(k), release_stake(k) PROVE UnbondingChange(x)
    BY <1>0, <2>3 DEF release_stake
  <2>4. CASE withdraw_stakes_next
    <3>1. Head(tx.todo) \in Keepers
      BY <2>4, TxTypes, HeadTailProperties
      DEF IInv, WithdrawStakesSound, WithdrawStakesTx, withdraw_stakes_next
    <3>2. CASE Withdrawable(Head(tx.todo))
      BY <2>3, <2>4, <3>1, <3>2 DEF withdraw_stakes_next
    <3>3. CASE ~ Withdrawable(Head(tx.todo))
      BY <2>4, <3>3 DEF withdraw_stakes_next
    <3> QED
      BY <3>2, <3>3
  <2>5. ASSUME NEW k \in Keepers, withdraw_stake(k) PROVE UnbondingChange(x)
    BY <2>3, <2>5 DEF withdraw_stake
  <2>6. ASSUME NEW list \in world.stake_batches, withdraw_stakes(list)
        PROVE  UnbondingChange(x)
    BY <2>6 DEF withdraw_stakes, keeperVars
  <2> QED
    BY <1>2, <2>1, <2>2, <2>4, <2>5, <2>6 DEF KeeperCall
<1>3. CASE JobCall
  BY <1>3, ZenonT(40)
  DEF JobCall, create_job, create_jobs, create_jobs_validate, create_jobs_transfer,
      create_jobs_insert, update_job, fund_job, withdraw_job_balance, cancel_job,
      set_job_active, propose_job_owner, accept_job_owner, keeperVars
<1>4. CASE AdminCall
  BY <1>4
  DEF AdminCall, set_executor, propose_admin, accept_admin, cancel_admin_proposal,
      set_paused, set_target_halted, set_min_stake, set_min_interval, set_max_args,
      set_protocol_fee, set_max_failures, set_keeper_windows, set_unbonding_epoch,
      set_upgrade_delay, propose_upgrade, apply_upgrade, cancel_upgrade, keeperVars
<1>5. CASE Ledger \/ UNCHANGED vars
  BY <1>5
  DEF Ledger, Tick, Rest, ExpireJobTouched, ExpireTargetResumed, vars, keeperVars
<1> QED
  BY <1>1, <1>2, <1>3, <1>4, <1>5 DEF Next

\* Removing an element that occurs at one place only.
LEMMA RemoveOnce ==
  ASSUME NEW S, NEW s \in Seq(S), IsInjective(s), NEW e
  PROVE  LET t == RemoveFirst(s, e)
         IN  /\ t \in Seq(S) /\ IsInjective(t) /\ Len(t) <= Len(s)
             /\ \A i \in 1..Len(t) : t[i] # e /\ \E n \in 1..Len(s) : t[i] = s[n]
             /\ \A n \in 1..Len(s) : s[n] # e => \E i \in 1..Len(t) : t[i] = s[n]
<1> DEFINE t == RemoveFirst(s, e)
<1>0. Len(s) \in Nat /\ DOMAIN s = 1..Len(s) /\ t \in Seq(S)
  BY LenProperties, RemoveFirstType
<1>1. CASE ~ \E i \in 1..Len(s) : s[i] = e
  <2>1. t = s
    BY <1>1 DEF RemoveFirst
  <2> QED
    BY <1>0, <1>1, <2>1
<1>2. CASE \E i \in 1..Len(s) : s[i] = e
  <2> DEFINE I == {i \in 1..Len(s) : s[i] = e}
             m == Min(I)
             left == SubSeq(s, 1, m - 1)
             right == SubSeq(s, m + 1, Len(s))
  <2>1. I \in SUBSET Nat /\ I # {}
    BY <1>0, <1>2
  <2>2. m \in 1..Len(s) /\ s[m] = e
    <3>1. m \in I
      BY <2>1, MinOfNats
    <3> QED
      BY <3>1
  <2>3. t = left \o right
    BY <1>2, <2>1 DEF RemoveFirst, SelectInSeq, RemoveAt
  <2> HIDE DEF m, I
  <2>4. /\ left \in Seq(S) /\ Len(left) = m - 1
        /\ \A i \in 1..(m - 1) : left[i] = s[i]
    BY <1>0, <2>2, SubSeqProperties
  <2>5. /\ right \in Seq(S) /\ Len(right) = Len(s) - m
        /\ \A i \in 1..(Len(s) - m) : right[i] = s[m + i]
    <3>1. \A i \in (m + 1)..Len(s) : s[i] \in S
      BY <1>0, <2>2, ElementOfSeq
    <3>2. /\ right \in Seq(S)
          /\ Len(right) = IF m + 1 <= Len(s) THEN Len(s) - (m + 1) + 1 ELSE 0
          /\ \A i \in 1..(Len(s) - (m + 1) + 1) : right[i] = s[m + 1 + i - 1]
      BY <1>0, <2>2, <3>1, SubSeqProperties
    <3> HIDE DEF right
    <3>3. Len(right) = Len(s) - m
      <4>1. \A l \in Nat : \A x \in 1..l :
                (IF x + 1 <= l THEN l - (x + 1) + 1 ELSE 0) = l - x
        OBVIOUS
      <4>2. Len(s) \in Nat /\ m \in 1..Len(s)
        BY <1>0, <2>2
      <4> QED
        BY <3>2, <4>1, <4>2, Zenon
    <3>4. ASSUME NEW i \in 1..(Len(s) - m) PROVE right[i] = s[m + i]
      <4>1. i \in 1..(Len(s) - (m + 1) + 1) /\ m + 1 + i - 1 = m + i
        BY <1>0, <2>2
      <4> QED
        BY <3>2, <4>1
    <3> QED
      BY <3>2, <3>3, <3>4
  <2> HIDE DEF left, right, t
  <2>6. /\ Len(t) = Len(s) - 1
        /\ \A i \in 1..Len(t) : t[i] = IF i < m THEN s[i] ELSE s[i + 1]
    <3>1. /\ Len(t) = Len(left) + Len(right)
          /\ \A i \in 1..Len(t) :
                t[i] = IF i <= Len(left) THEN left[i] ELSE right[i - Len(left)]
      <4>1. left \in Seq(S) /\ right \in Seq(S)
        BY <2>4, <2>5
      <4>2. /\ Len(left \o right) = Len(left) + Len(right)
            /\ \A i \in 1..(Len(left) + Len(right)) :
                  (left \o right)[i] = IF i <= Len(left) THEN left[i] ELSE right[i - Len(left)]
        BY <4>1, ConcatProperties
      <4> QED
        BY <2>3, <4>2, Zenon
    <3>2. Len(t) = Len(s) - 1
      BY <1>0, <2>2, <2>4, <2>5, <3>1
    <3>3. ASSUME NEW i \in 1..Len(t) PROVE t[i] = IF i < m THEN s[i] ELSE s[i + 1]
      <4>1. CASE i < m
        BY <1>0, <2>2, <2>4, <3>1, <3>2, <4>1
      <4>2. CASE ~ (i < m)
        <5>1. i - (m - 1) \in 1..(Len(s) - m) /\ m + (i - (m - 1)) = i + 1
          BY <1>0, <2>2, <3>2, <4>2
        <5>2. t[i] = right[i - (m - 1)]
          BY <1>0, <2>2, <2>4, <3>1, <4>2
        <5> QED
          BY <2>5, <4>2, <5>1, <5>2
      <4> QED
        BY <4>1, <4>2
    <3> QED
      BY <3>2, <3>3
  <2>7. \A i, n \in 1..Len(s) : s[i] = s[n] => i = n
    BY <1>0 DEF IsInjective
  <2>8. \A i \in 1..Len(t) : t[i] # e /\ \E n \in 1..Len(s) : t[i] = s[n]
    <3> TAKE i \in 1..Len(t)
    <3>1. CASE i < m
      BY <1>0, <2>2, <2>6, <2>7, <3>1
    <3>2. CASE ~ (i < m)
      <4>1. i + 1 \in 1..Len(s) /\ i + 1 # m /\ t[i] = s[i + 1]
        BY <1>0, <2>2, <2>6, <3>2
      <4> QED
        BY <2>2, <2>7, <4>1
    <3> QED
      BY <3>1, <3>2
  <2>9. \A i, n \in 1..Len(t) : t[i] = t[n] => i = n
    <3> DEFINE at(i) == IF i < m THEN i ELSE i + 1
    <3>1. \A i \in 1..Len(t) : at(i) \in 1..Len(s) /\ t[i] = s[at(i)]
      BY <1>0, <2>2, <2>6
    <3>2. \A i, n \in 1..Len(t) : at(i) = at(n) => i = n
      BY <1>0, <2>2, <2>6
    <3> HIDE DEF at
    <3> QED
      BY <2>7, <3>1, <3>2
  <2>10. IsInjective(t)
    <3>1. DOMAIN t = 1..Len(t)
      BY <1>0, LenProperties DEF t
    <3> QED
      BY <2>9, <3>1 DEF IsInjective
  <2>11. t \in Seq(S) /\ Len(t) <= Len(s)
    BY <1>0, <2>6 DEF t
  <2>12. \A n \in 1..Len(s) : s[n] # e => \E i \in 1..Len(t) : t[i] = s[n]
    <3> SUFFICES ASSUME NEW n \in 1..Len(s), s[n] # e
                 PROVE  \E i \in 1..Len(t) : t[i] = s[n]
      OBVIOUS
    <3>1. CASE n < m
      <4>1. n \in 1..Len(t) /\ t[n] = s[n]
        BY <1>0, <2>2, <2>6, <3>1
      <4> QED
        BY <4>1
    <3>2. CASE ~ (n < m)
      <4>1. n # m
        BY <2>2
      <4>2. n - 1 \in 1..Len(t) /\ ~ (n - 1 < m) /\ n - 1 + 1 = n
        BY <1>0, <2>2, <2>6, <3>2, <4>1
      <4>3. t[n - 1] = s[n]
        BY <2>6, <4>2
      <4> QED
        BY <4>2, <4>3
    <3> QED
      BY <3>1, <3>2
  <2> QED
    BY <2>8, <2>10, <2>11, <2>12 DEF t
<1> QED
  BY <1>1, <1>2

\* Every step keeps the rotation sound.
LEMMA StepRotation ==
  IInv /\ BatchRecordCurrent /\ RotationSound /\ [Next]_vars => RotationSound'
<1> SUFFICES ASSUME IInv, BatchRecordCurrent, RotationSound, [Next]_vars
             PROVE  RotationSound'
  OBVIOUS
<1>0. /\ active_keepers \in Seq(Keepers) /\ Len(active_keepers) \in Nat
      /\ DOMAIN active_keepers = 1..Len(active_keepers)
      /\ MAX_ACTIVE_KEEPERS \in Nat
      /\ keepers \in [Keepers -> Option(Keeper)]
  BY LenProperties, BoundsAssumption DEF IInv, TypeOK
<1>1. ASSUME NEW i \in 1..Len(active_keepers),
             ~ (active_keepers[i] \in world.unbonders /\ begin_unbonding(active_keepers[i]))
      PROVE  /\ active_keepers[i] \in Keepers
             /\ keepers'[active_keepers[i]] # None
             /\ keepers'[active_keepers[i]].unbonding_at = None
  <2> DEFINE k == active_keepers[i]
  <2>1. k \in Keepers
    BY <1>0, ElementOfSeq
  <2>2. keepers[k] # None /\ keepers[k].unbonding_at = None
    BY <1>0 DEF RotationSound, ToSet
  <2>3. UnbondingChange(k)
    BY <2>1, UnbondingSteps
  <2> QED
    BY <1>1, <2>1, <2>2, <2>3 DEF UnbondingChange, Withdrawable
<1>2. ASSUME NEW k \in world.stakers, NEW a \in world.stakes, stake(k, a)
      PROVE  RotationSound'
  <2>1. /\ k \in Keepers /\ keepers' = [keepers EXCEPT ![k] = [
             (IF keepers[k] = None THEN NewKeeper ELSE keepers[k]) EXCEPT !.stake = @ + a]]
        /\ active_keepers' = add_active_keeper(k)
        /\ may_stake(IF keepers[k] = None THEN NewKeeper ELSE keepers[k])
    BY <1>2, WorldOK DEF stake, IInv, WorldType
  <2>2. held' # held
    BY <1>2, WorldOK, ScheduleAssumption, SMTT(30)
    DEF stake, TransferIn, IInv, TypeOK, WorldType, Tokens, I128, Amount
  <2>3. ~ begin_unbonding(k) /\ \A n \in 1..Len(active_keepers) : ~ begin_unbonding(active_keepers[n])
    BY <2>2 DEF begin_unbonding
  <2>4. \A i \in 1..Len(active_keepers) :
            /\ keepers'[active_keepers[i]] # None
            /\ keepers'[active_keepers[i]].unbonding_at = None
    BY <1>1, <2>3
  <2>5. keepers'[k] # None /\ keepers'[k].unbonding_at = None
    <3>1. UnbondingChange(k)
      BY <2>1, UnbondingSteps
    <3>2. CASE keepers[k] # None
      BY <2>1, <2>3, <3>1, <3>2 DEF UnbondingChange, Withdrawable, may_stake
    <3>3. CASE keepers[k] = None
      <4>1. keepers'[k] = [NewKeeper EXCEPT !.stake = @ + a]
        BY <1>0, <2>1, <3>3
      <4>2. a \in I128 /\ a > 0 /\ 0 + a <= I128Max
        BY <1>2, <3>3, WorldOK DEF stake, NewKeeper, IInv, WorldType
      <4>3. 0 + a \in Amount
        BY <4>2, ScheduleAssumption DEF I128, Amount
      <4>4. keepers'[k] \in Keeper /\ keepers'[k].unbonding_at = None
        BY <4>1, <4>3, ScheduleAssumption, BoundsAssumption
        DEF NewKeeper, Keeper, Option, U32, U64
      <4> QED
        BY <4>4, AddressAssumption
    <3> QED
      BY <3>2, <3>3
  <2>6. CASE active_keepers' = active_keepers
    BY <1>0, <2>4, <2>6 DEF RotationSound, ToSet
  <2>7. CASE active_keepers' = Append(active_keepers, k) /\ ~ Contains(active_keepers, k)
             /\ ~ (Len(active_keepers) >= MAX_ACTIVE_KEEPERS)
    <3> DEFINE t == Append(active_keepers, k)
    <3>1. /\ Len(t) = Len(active_keepers) + 1 /\ DOMAIN t = 1..Len(t)
          /\ \A i \in 1..Len(active_keepers) : t[i] = active_keepers[i]
          /\ t[Len(active_keepers) + 1] = k
      BY <1>0, <2>1, AppendProperties
    <3>2. \A i \in 1..Len(active_keepers) : active_keepers[i] # k
      BY <2>7 DEF Contains
    <3>3. \A i, n \in 1..Len(active_keepers) :
              active_keepers[i] = active_keepers[n] => i = n
      BY <1>0 DEF RotationSound, IsInjective
    <3> HIDE DEF t
    <3>4. \A i \in 1..Len(t) :
              i \in 1..Len(active_keepers) \/ i = Len(active_keepers) + 1
      BY <1>0, <3>1
    <3>5. IsInjective(t)
      BY <3>1, <3>2, <3>3, <3>4 DEF IsInjective
    <3>6. \A x \in ToSet(t) : keepers'[x] # None /\ keepers'[x].unbonding_at = None
      BY <2>4, <2>5, <3>1, <3>4 DEF ToSet
    <3>7. Len(t) <= MAX_ACTIVE_KEEPERS
      BY <1>0, <2>7, <3>1
    <3> QED
      BY <2>7, <3>5, <3>6, <3>7 DEF RotationSound, t
  <2> QED
    BY <2>1, <2>6, <2>7 DEF add_active_keeper
<1>3. ASSUME NEW k \in world.unbonders, begin_unbonding(k) PROVE RotationSound'
  <2> DEFINE t == RemoveFirst(active_keepers, k)
  <2>1. /\ t \in Seq(Keepers) /\ IsInjective(t) /\ Len(t) <= Len(active_keepers)
        /\ \A i \in 1..Len(t) :
              t[i] # k /\ \E n \in 1..Len(active_keepers) : t[i] = active_keepers[n]
    <3>1. IsInjective(active_keepers) /\ active_keepers \in Seq(Keepers)
      BY <1>0 DEF RotationSound
    <3>2. \A s \in Seq(Keepers) : IsInjective(s) =>
            LET r == RemoveFirst(s, k)
            IN  /\ r \in Seq(Keepers) /\ IsInjective(r) /\ Len(r) <= Len(s)
                /\ \A i \in 1..Len(r) : r[i] # k /\ \E n \in 1..Len(s) : r[i] = s[n]
      BY RemoveOnce
    <3> QED
      BY <3>1, <3>2
  <2>2. active_keepers' = t /\ \A x \in Keepers : x # k => keepers'[x] = keepers[x]
    BY <1>0, <1>3 DEF begin_unbonding
  <2> HIDE DEF t
  <2>3. Len(t) \in Nat /\ DOMAIN t = 1..Len(t)
    BY <2>1, LenProperties
  <2>4. ASSUME NEW i \in 1..Len(t)
        PROVE  keepers'[t[i]] # None /\ keepers'[t[i]].unbonding_at = None
    <3>1. PICK n \in 1..Len(active_keepers) : t[i] = active_keepers[n]
      BY <2>1
    <3>2. t[i] \in Keepers /\ t[i] # k
      BY <1>0, <2>1, <3>1, ElementOfSeq
    <3>3. keepers[t[i]] # None /\ keepers[t[i]].unbonding_at = None
      BY <1>0, <3>1 DEF RotationSound, ToSet
    <3> QED
      BY <2>2, <3>2, <3>3
  <2>5. Len(t) <= MAX_ACTIVE_KEEPERS
    BY <1>0, <2>1, <2>3 DEF RotationSound
  <2> QED
    BY <2>1, <2>2, <2>3, <2>4, <2>5 DEF RotationSound, ToSet
<1>4. ASSUME ~ \E k \in world.stakers, a \in world.stakes : stake(k, a),
             ~ \E k \in world.unbonders : begin_unbonding(k)
      PROVE  RotationSound'
  <2>1. active_keepers' = active_keepers
    <3>1. CASE JobCall
      BY <3>1, ZenonT(40)
      DEF JobCall, create_job, create_jobs, create_jobs_validate, create_jobs_transfer,
          create_jobs_insert, update_job, fund_job, withdraw_job_balance, cancel_job,
          set_job_active, propose_job_owner, accept_job_owner, keeperVars
    <3>2. CASE ExecuteCall
      BY <3>2
      DEF ExecuteCall, execute, execute_batch, execute_batch_run, execute_batch_skip,
          execute_batch_settle, keeperVars
    <3>3. CASE KeeperCall
      BY <1>4, <3>3
      DEF KeeperCall, withdraw_stake, withdraw_stakes, withdraw_stakes_next, keeperVars
    <3>4. CASE AdminCall
      BY <3>4
      DEF AdminCall, set_executor, propose_admin, accept_admin, cancel_admin_proposal,
          set_paused, set_target_halted, set_min_stake, set_min_interval, set_max_args,
          set_protocol_fee, set_max_failures, set_keeper_windows, set_unbonding_epoch,
          set_upgrade_delay, propose_upgrade, apply_upgrade, cancel_upgrade, keeperVars
    <3>5. CASE Ledger \/ UNCHANGED vars
      BY <3>5
      DEF Ledger, Tick, Rest, ExpireJobTouched, ExpireTargetResumed, vars, keeperVars
    <3> QED
      BY <3>1, <3>2, <3>3, <3>4, <3>5 DEF Next
  <2>2. \A i \in 1..Len(active_keepers) :
            /\ keepers'[active_keepers[i]] # None
            /\ keepers'[active_keepers[i]].unbonding_at = None
    BY <1>1, <1>4
  <2> QED
    BY <1>0, <2>1, <2>2 DEF RotationSound, ToSet
<1> QED
  BY <1>2, <1>3, <1>4

\* In every execution the rotation lists each keeper at most once, within its
\* limit, and only keepers with a record that are not leaving, although staking,
\* unbonding, withdrawing and batches that save a loaded record change the two
\* entries separately (add_active_keeper, remove_active_keeper, release_stake).
THEOREM RotationSafe == Spec => []RotationSound
<1>1. Init => IInv /\ BatchRecordCurrent /\ RotationSound
  <2>1. ASSUME Init PROVE RotationSound
    <3>1. active_keepers = <<>> /\ MAX_ACTIVE_KEEPERS \in Nat
      BY <2>1, BoundsAssumption DEF Init
    <3> QED
      BY <3>1 DEF RotationSound, IsInjective, ToSet
  <2> QED
    BY <2>1, InitIInv DEF Init, BatchRecordCurrent, Idle
<1>2. IInv /\ BatchRecordCurrent /\ RotationSound /\ [Next]_vars
        => IInv' /\ BatchRecordCurrent' /\ RotationSound'
  BY StepIInv, StepBatchRecord, StepRotation
<1> QED
  BY <1>1, <1>2, PTL DEF Spec

-----------------------------------------------------------------------------
(* Arithmetic. *)

\* A keeper that leaves waits for the end of the current epoch and then one
\* period: together at most the least delay of an upgrade.
LEMMA ReleaseBound ==
  ASSUME NEW time \in U64, NEW epoch \in Nat
  PROVE  /\ unbonding_release(time, UnbondingPeriod, epoch) \in U64
         /\ unbonding_release(time, UnbondingPeriod, epoch)
               <= time + (epoch + UnbondingPeriod)
<1>0. UnbondingPeriod \in Nat /\ time \in Nat /\ U64Max \in Nat /\ time <= U64Max
  BY AddressAssumption, ScheduleAssumption DEF U64
<1>1. CASE epoch = 0
  BY <1>0, <1>1, ReleaseType DEF unbonding_release, SatAdd
<1>2. CASE epoch # 0
  <2> DEFINE q == time \div epoch
             opened == SatMul(SatAdd(q, 1), epoch)
  <2>1. q \in Nat /\ epoch * q <= time /\ epoch * q \in Nat
    <3>1. q \in Nat /\ time % epoch \in 0..(epoch - 1) /\ time = epoch * q + (time % epoch)
      BY <1>0, <1>2, QuotientRemainder
    <3>2. epoch * q \in Nat
      BY <3>1, ProductNat
    <3> HIDE DEF q
    <3> QED
      BY <3>1, <3>2
  <2>2. unbonding_release(time, UnbondingPeriod, epoch) = SatAdd(opened, UnbondingPeriod)
    BY <1>2 DEF unbonding_release
  <2> HIDE DEF q
  <2>3. SatAdd(q, 1) \in Nat /\ SatAdd(q, 1) <= q + 1
    BY <1>0, <2>1 DEF SatAdd
  <2>4. (q + 1) * epoch = epoch * q + epoch
    BY <2>1
  <2>5. SatAdd(q, 1) * epoch \in Nat /\ SatAdd(q, 1) * epoch <= (q + 1) * epoch
    BY <2>1, <2>3, ProductMonotonic
  <2>6. opened \in Nat /\ opened <= SatAdd(q, 1) * epoch
    <3> HIDE DEF SatAdd
    <3> QED
      BY <1>0, <2>5 DEF SatMul
  <2>7. opened <= time + epoch
    <3> DEFINE a == SatAdd(q, 1) * epoch
               b == epoch * q
               c == (q + 1) * epoch
    <3>1. a \in Nat /\ a <= c /\ c = b + epoch /\ b <= time /\ b \in Nat
      BY <2>1, <2>4, <2>5
    <3>2. opened <= a
      BY <2>6
    <3> HIDE DEF a, b, c, opened
    <3> QED
      BY <1>0, <2>6, <3>1, <3>2
  <2> HIDE DEF opened
  <2> QED
    BY <1>0, <2>2, <2>6, <2>7, ReleaseType DEF SatAdd
<1> QED
  BY <1>1, <1>2

\* Saturating addition is monotonic.
LEMMA SatAddMonotonic ==
  ASSUME NEW a \in Nat, NEW b \in Nat, NEW c \in Nat, b <= c
  PROVE  SatAdd(a, b) <= SatAdd(a, c) /\ SatAdd(a, b) >= Smaller(a, U64Max)
  BY ScheduleAssumption DEF SatAdd, Smaller

\* Who leaves after the announcement is out no later, counted from its
\* decision, than the upgrade waits, counted from the announcement; also where
\* the sums saturate.
LEMMA LeavesInTime ==
  ASSUME NEW epoch \in U64, NEW proposed \in U64, NEW time \in U64, proposed <= time,
         NEW available \in U64, SatAdd(proposed, min_upgrade_delay(epoch)) <= available
  PROVE  unbonding_release(time, UnbondingPeriod, epoch) - time <= available - proposed
<1> DEFINE release == unbonding_release(time, UnbondingPeriod, epoch)
<1>1. /\ UnbondingPeriod \in Nat /\ epoch \in Nat /\ time \in Nat /\ proposed \in Nat
      /\ available \in Nat /\ U64Max \in Nat /\ time <= U64Max
  BY AddressAssumption, ScheduleAssumption DEF U64
<1>2. release \in Nat /\ release <= U64Max /\ release <= time + (epoch + UnbondingPeriod)
  <2>1. release \in U64 /\ release <= time + (epoch + UnbondingPeriod)
    BY <1>1, ReleaseBound
  <2> HIDE DEF release
  <2> QED
    BY <1>1, <2>1 DEF U64
<1> HIDE DEF release
<1>3. CASE UnbondingPeriod + epoch > U64Max
  <2>1. available >= U64Max
    BY <1>1, <1>3 DEF min_upgrade_delay, SatAdd
  <2> QED
    BY <1>1, <1>2, <2>1 DEF release
<1>4. CASE ~ (UnbondingPeriod + epoch > U64Max)
  <2>1. available >= U64Max \/ available >= proposed + (UnbondingPeriod + epoch)
    BY <1>1, <1>4 DEF min_upgrade_delay, SatAdd
  <2> QED
    BY <1>1, <1>2, <2>1 DEF release
<1> QED
  BY <1>3, <1>4

-----------------------------------------------------------------------------
(* The inductive invariant. *)

\* A pending upgrade was announced in the past and waits at least as long as a
\* keeper that leaves now; a keeper that reacted to it is leaving and fits.
UInv ==
    /\ reacted \in [Keepers -> Option(U64)]
    /\ pending_upgrade # None =>
          /\ pending_upgrade.proposed_at <= now
          /\ SatAdd(pending_upgrade.proposed_at, min_upgrade_delay(config.unbonding_epoch))
                <= pending_upgrade.available_at
          /\ \A k \in Keepers :
                reacted[k] # None =>
                    /\ Unbonding(k)
                    /\ keepers[k].unbonding_at - reacted[k]
                          <= pending_upgrade.available_at - pending_upgrade.proposed_at

\* A pending upgrade that a step leaves pending.
PendingKept ==
    /\ pending_upgrade # None
    /\ pending_upgrade'.proposed_at = pending_upgrade.proposed_at
    /\ pending_upgrade'.available_at >= pending_upgrade.available_at
    /\ \/ config'.unbonding_epoch = config.unbonding_epoch
       \/ SatAdd(pending_upgrade.proposed_at, min_upgrade_delay(config'.unbonding_epoch))
             <= pending_upgrade'.available_at

\* An upgrade that is pushed back keeps its proposal and comes no earlier.
LEMMA PushBackKeeps ==
  ASSUME NEW pending \in Option(PendingUpgrade), NEW delay \in U64, NEW epoch \in U64,
         push_back_pending_upgrade(pending, delay, epoch) # None
  PROVE  LET new == push_back_pending_upgrade(pending, delay, epoch)
         IN  /\ pending # None
             /\ new.proposed_at = pending.proposed_at
             /\ new.available_at >= pending.available_at
             /\ SatAdd(pending.proposed_at, min_upgrade_delay(epoch)) <= new.available_at
<1> DEFINE new == push_back_pending_upgrade(pending, delay, epoch)
           date == SatAdd(pending.proposed_at, upgrade_delay_for(delay, epoch))
<1>1. pending # None /\ pending \in PendingUpgrade
  BY DEF push_back_pending_upgrade, Option
<1>2. /\ pending.proposed_at \in Nat /\ pending.available_at \in Nat
      /\ delay \in Nat /\ epoch \in Nat /\ UnbondingPeriod \in Nat
  BY <1>1, ScheduleAssumption, AddressAssumption DEF PendingUpgrade, U64
<1>3. min_upgrade_delay(epoch) \in Nat
  BY <1>2, ScheduleAssumption DEF min_upgrade_delay, SatAdd
<1>4. /\ upgrade_delay_for(delay, epoch) \in Nat
      /\ min_upgrade_delay(epoch) <= upgrade_delay_for(delay, epoch)
  BY <1>2, <1>3 DEF upgrade_delay_for, Larger
<1>5. SatAdd(pending.proposed_at, min_upgrade_delay(epoch)) <= date
  BY <1>2, <1>3, <1>4, SatAddMonotonic
<1>6. date \in Nat /\ SatAdd(pending.proposed_at, min_upgrade_delay(epoch)) \in Nat
  BY <1>2, <1>3, <1>4, ScheduleAssumption DEF SatAdd
<1>7. new = [pending EXCEPT !.available_at = Larger(pending.available_at, date)]
  BY <1>1 DEF push_back_pending_upgrade
<1> HIDE DEF date, new
<1>8. new.proposed_at = pending.proposed_at
      /\ new.available_at = Larger(pending.available_at, date)
  BY <1>1, <1>7 DEF PendingUpgrade
<1> QED
  BY <1>1, <1>2, <1>5, <1>6, <1>8 DEF Larger, new

\* What steps do to a pending upgrade.
LEMMA PendingSteps ==
  ASSUME IInv, [Next]_vars, ~ Announces, pending_upgrade' # None
  PROVE  PendingKept
<1>0. /\ pending_upgrade \in Option(PendingUpgrade) /\ upgrade_delay \in U64
      /\ config.unbonding_epoch \in U64
  BY EpochType DEF IInv, TypeOK
<1>1. ASSUME pending_upgrade' = pending_upgrade,
             config'.unbonding_epoch = config.unbonding_epoch
      PROVE  PendingKept
  <2>1. pending_upgrade.available_at \in Nat
    BY <1>0, <1>1, ScheduleAssumption DEF Option, PendingUpgrade, U64
  <2> QED
    BY <1>1, <2>1 DEF PendingKept
<1>2. CASE AdminCall
  <2>1. ASSUME NEW e \in world.epochs, set_unbonding_epoch(e) PROVE PendingKept
    <3>1. e \in U64
      BY WorldOK DEF IInv, WorldType
    <3>2. /\ config'.unbonding_epoch = e
          /\ pending_upgrade' = push_back_pending_upgrade(pending_upgrade, upgrade_delay, e)
      BY <2>1 DEF set_unbonding_epoch, IInv, TypeOK, Config
    <3> QED
      BY <1>0, <3>1, <3>2, PushBackKeeps DEF PendingKept
  <2>2. ASSUME NEW d \in world.delays, set_upgrade_delay(d) PROVE PendingKept
    <3>1. d \in U64
      BY WorldOK DEF IInv, WorldType
    <3>2. /\ config' = config
          /\ pending_upgrade'
                = push_back_pending_upgrade(pending_upgrade, d, config.unbonding_epoch)
      BY <2>2 DEF set_upgrade_delay
    <3> QED
      BY <1>0, <3>1, <3>2, PushBackKeeps DEF PendingKept
  <2>3. ASSUME NEW w \in world.wasm_hashes, propose_upgrade(w) PROVE FALSE
    BY <2>3, WorldOK DEF Announces, IInv, WorldType
  <2>4. ASSUME ~ \E e \in world.epochs : set_unbonding_epoch(e),
               ~ \E d \in world.delays : set_upgrade_delay(d),
               ~ \E w \in world.wasm_hashes : propose_upgrade(w)
        PROVE  /\ pending_upgrade' = pending_upgrade
               /\ config'.unbonding_epoch = config.unbonding_epoch
    BY <1>2, <2>4
    DEF AdminCall, set_executor, propose_admin, accept_admin, cancel_admin_proposal,
        set_paused, set_target_halted, set_min_stake, set_min_interval, set_max_args,
        set_protocol_fee, set_max_failures, set_keeper_windows, apply_upgrade,
        cancel_upgrade, adminVars, IInv, TypeOK, Config
  <2> QED
    BY <1>1, <2>1, <2>2, <2>3, <2>4
<1>3. CASE ~ AdminCall
  <2>1. pending_upgrade' = pending_upgrade /\ config' = config
    <3>1. CASE JobCall
      BY <3>1, ZenonT(40)
      DEF JobCall, create_job, create_jobs, create_jobs_validate, create_jobs_transfer,
          create_jobs_insert, update_job, fund_job, withdraw_job_balance, cancel_job,
          set_job_active, propose_job_owner, accept_job_owner, adminVars
    <3>2. CASE ExecuteCall
      BY <3>2
      DEF ExecuteCall, execute, execute_batch, execute_batch_run, execute_batch_skip,
          execute_batch_settle, adminVars
    <3>3. CASE KeeperCall
      BY <3>3
      DEF KeeperCall, stake, begin_unbonding, withdraw_stake, withdraw_stakes,
          withdraw_stakes_next, adminVars
    <3>4. CASE Ledger \/ UNCHANGED vars
      BY <3>4
      DEF Ledger, Tick, Rest, ExpireJobTouched, ExpireTargetResumed, vars, adminVars
    <3> QED
      BY <1>3, <3>1, <3>2, <3>3, <3>4 DEF Next
  <2> QED
    BY <1>1, <2>1
<1> QED
  BY <1>2, <1>3

\* Code changes in one call only.
LEMMA CodeSteps ==
  ASSUME [Next]_vars, code' # code
  PROVE  apply_upgrade
<1>1. CASE AdminCall
  BY <1>1
  DEF AdminCall, set_executor, propose_admin, accept_admin, cancel_admin_proposal,
      set_paused, set_target_halted, set_min_stake, set_min_interval, set_max_args,
      set_protocol_fee, set_max_failures, set_keeper_windows, set_unbonding_epoch,
      set_upgrade_delay, propose_upgrade, cancel_upgrade, adminVars
<1>2. CASE JobCall
  BY <1>2, ZenonT(40)
  DEF JobCall, create_job, create_jobs, create_jobs_validate, create_jobs_transfer,
      create_jobs_insert, update_job, fund_job, withdraw_job_balance, cancel_job,
      set_job_active, propose_job_owner, accept_job_owner, adminVars
<1>3. CASE ExecuteCall
  BY <1>3
  DEF ExecuteCall, execute, execute_batch, execute_batch_run, execute_batch_skip,
      execute_batch_settle, adminVars
<1>4. CASE KeeperCall
  BY <1>4
  DEF KeeperCall, stake, begin_unbonding, withdraw_stake, withdraw_stakes,
      withdraw_stakes_next, adminVars
<1>5. CASE Ledger \/ UNCHANGED vars
  BY <1>5
  DEF Ledger, Tick, Rest, ExpireJobTouched, ExpireTargetResumed, vars, adminVars
<1> QED
  BY <1>1, <1>2, <1>3, <1>4, <1>5 DEF Next

\* Only a closing ledger moves time, and forward.
LEMMA TimeSteps ==
  ASSUME IInv, [Next]_vars
  PROVE  now \in Nat /\ now' \in Nat /\ now <= now'
<1>1. now \in Nat
  BY NowU64, ScheduleAssumption DEF IInv, U64
<1>2. now' = now \/ now' = now + 1
  <2>1. CASE AdminCall
    BY <2>1
    DEF AdminCall, set_executor, propose_admin, accept_admin, cancel_admin_proposal,
        set_paused, set_target_halted, set_min_stake, set_min_interval, set_max_args,
        set_protocol_fee, set_max_failures, set_keeper_windows, set_unbonding_epoch,
        set_upgrade_delay, propose_upgrade, apply_upgrade, cancel_upgrade
  <2>2. CASE JobCall
    BY <2>2, ZenonT(40)
    DEF JobCall, create_job, create_jobs, create_jobs_validate, create_jobs_transfer,
        create_jobs_insert, update_job, fund_job, withdraw_job_balance, cancel_job,
        set_job_active, propose_job_owner, accept_job_owner
  <2>3. CASE ExecuteCall
    BY <2>3
    DEF ExecuteCall, execute, execute_batch, execute_batch_run, execute_batch_skip,
        execute_batch_settle
  <2>4. CASE KeeperCall
    BY <2>4
    DEF KeeperCall, stake, begin_unbonding, withdraw_stake, withdraw_stakes,
        withdraw_stakes_next
  <2>5. CASE Ledger \/ UNCHANGED vars
    BY <2>5 DEF Ledger, Tick, Rest, ExpireJobTouched, ExpireTargetResumed, vars
  <2> QED
    BY <2>1, <2>2, <2>3, <2>4, <2>5 DEF Next
<1> QED
  BY <1>1, <1>2

\* Every step keeps the invariant of upgrades.
LEMMA StepUInv ==
  IInv /\ BatchRecordCurrent /\ UInv /\ [Next /\ ObserveNotice]_noticeVars => UInv'
<1> SUFFICES ASSUME IInv, BatchRecordCurrent, UInv, [Next /\ ObserveNotice]_noticeVars
             PROVE  UInv'
  OBVIOUS
<1>0. /\ now \in U64 /\ config.unbonding_epoch \in U64 /\ upgrade_delay \in U64
      /\ pending_upgrade \in Option(PendingUpgrade)
      /\ keepers \in [Keepers -> Option(Keeper)]
      /\ U64Max \in Nat /\ UnbondingPeriod \in Nat
  <2>1. TypeOK
    BY DEF IInv
  <2>2. now \in U64 /\ config.unbonding_epoch \in U64 /\ upgrade_delay \in U64
    BY <2>1, NowU64, EpochType
  <2>3. U64Max \in Nat /\ UnbondingPeriod \in Nat
    BY ScheduleAssumption, AddressAssumption DEF U64
  <2> QED
    BY <2>1, <2>2, <2>3 DEF TypeOK
<1>1. CASE UNCHANGED noticeVars
  BY <1>1 DEF UInv, Unbonding, noticeVars, vars, adminVars, keeperVars
<1>2. CASE Next /\ ObserveNotice
  <2>1. reacted' \in [Keepers -> Option(U64)]
    BY <1>0, <1>2 DEF ObserveNotice, UInv, Option
  <2>2. ASSUME Announces PROVE UInv'
    <3>1. PICK w \in WasmHashes : propose_upgrade(w)
      BY <2>2 DEF Announces
    <3>2. /\ pending_upgrade'.proposed_at = now /\ now' = now /\ config' = config
          /\ pending_upgrade'.available_at
                = SatAdd(now, upgrade_delay_for(upgrade_delay, config.unbonding_epoch))
      BY <3>1 DEF propose_upgrade
    <3>3. \A k \in Keepers : reacted'[k] = None
      BY <1>2, <2>2 DEF ObserveNotice
    <3>4. now \in Nat /\ config.unbonding_epoch \in Nat /\ upgrade_delay \in Nat
      BY <1>0 DEF U64
    <3>5. min_upgrade_delay(config.unbonding_epoch) \in Nat
      BY <1>0, <3>4 DEF min_upgrade_delay, SatAdd
    <3>6. /\ upgrade_delay_for(upgrade_delay, config.unbonding_epoch) \in Nat
          /\ min_upgrade_delay(config.unbonding_epoch)
                <= upgrade_delay_for(upgrade_delay, config.unbonding_epoch)
      BY <3>4, <3>5 DEF upgrade_delay_for, Larger
    <3>7. SatAdd(now, min_upgrade_delay(config.unbonding_epoch))
            <= SatAdd(now, upgrade_delay_for(upgrade_delay, config.unbonding_epoch))
      BY <3>4, <3>5, <3>6, SatAddMonotonic
    <3> QED
      BY <2>1, <3>2, <3>3, <3>4, <3>7 DEF UInv
  <2>3. CASE pending_upgrade' = None
    BY <2>1, <2>3 DEF UInv
  <2>4. ASSUME ~ Announces, pending_upgrade' # None PROVE UInv'
    <3>1. PendingKept
      BY <1>2, <2>4, PendingSteps
    <3>2. now \in Nat /\ now' \in Nat /\ now <= now'
      BY <1>2, TimeSteps
    <3>3. pending_upgrade' \in PendingUpgrade /\ pending_upgrade \in PendingUpgrade
      <4>1. IInv'
        BY <1>2, StepIInv
      <4> QED
        BY <1>0, <2>4, <3>1, <4>1 DEF IInv, TypeOK, Option, PendingKept
    <3> DEFINE proposed == pending_upgrade.proposed_at
               date == pending_upgrade.available_at
               later == pending_upgrade'.available_at
    <3>4. /\ proposed \in U64 /\ date \in U64 /\ later \in U64
          /\ proposed \in Nat /\ date \in Nat /\ later \in Nat
      BY <3>3 DEF PendingUpgrade, U64
    <3>5. /\ pending_upgrade # None /\ pending_upgrade'.proposed_at = proposed /\ date <= later
      BY <3>1, <3>4 DEF PendingKept
    <3>6. proposed <= now /\ SatAdd(proposed, min_upgrade_delay(config.unbonding_epoch)) <= date
      BY <3>5 DEF UInv
    <3>7. pending_upgrade'.proposed_at <= now'
      BY <3>2, <3>4, <3>5, <3>6
    <3>8. SatAdd(proposed, min_upgrade_delay(config'.unbonding_epoch)) <= later
      <4>1. SatAdd(proposed, min_upgrade_delay(config.unbonding_epoch)) \in Nat
        BY <1>0, <3>4 DEF min_upgrade_delay, SatAdd, U64
      <4>2. SatAdd(proposed, min_upgrade_delay(config.unbonding_epoch)) <= later
        BY <3>4, <3>5, <3>6, <4>1
      <4> QED
        BY <3>1, <4>2 DEF PendingKept
    <3>9. ASSUME NEW k \in Keepers, reacted'[k] # None
          PROVE  /\ Unbonding(k)'
                 /\ keepers'[k].unbonding_at - reacted'[k] <= later - proposed
      <4>1. Unbonding(k)' /\ reacted'[k] = IF Unbonding(k) THEN reacted[k] ELSE now
        BY <1>2, <3>9 DEF ObserveNotice
      <4>2. UnbondingChange(k)
        BY <1>2, UnbondingSteps
      <4>3. CASE Unbonding(k)
        <5>1. reacted'[k] = reacted[k] /\ reacted[k] # None /\ reacted[k] \in Nat
          BY <3>9, <4>1, <4>3 DEF UInv, Option, U64
        <5>2. /\ keepers'[k].unbonding_at = keepers[k].unbonding_at
              /\ keepers[k].unbonding_at \in Nat
          <6>1. keepers[k] \in Keeper
            BY <1>0, <4>3 DEF Unbonding, Option
          <6>2. keepers[k].unbonding_at \in Nat
            BY <4>3, <6>1 DEF Unbonding, Keeper, Option, U64
          <6> QED
            BY <4>1, <4>2, <4>3, <6>2 DEF Unbonding, UnbondingChange, begin_unbonding
        <5>3. keepers[k].unbonding_at - reacted[k] <= date - proposed
          BY <3>5, <5>1 DEF UInv
        <5> QED
          BY <3>4, <3>5, <4>1, <5>1, <5>2, <5>3
      <4>4. CASE ~ Unbonding(k)
        <5>1. begin_unbonding(k)
          BY <4>1, <4>2, <4>4 DEF Unbonding, UnbondingChange
        <5>2. keepers'[k].unbonding_at
                = unbonding_release(now, UnbondingPeriod, config.unbonding_epoch)
          <6>1. keepers[k] \in Keeper
            BY <1>0, <5>1 DEF begin_unbonding, Option
          <6> QED
            BY <1>0, <5>1, <6>1 DEF begin_unbonding, Keeper
        <5>3. unbonding_release(now, UnbondingPeriod, config.unbonding_epoch) - now
                <= date - proposed
          BY <1>0, <3>4, <3>6, LeavesInTime
        <5>4. unbonding_release(now, UnbondingPeriod, config.unbonding_epoch) \in Nat
          <6>1. config.unbonding_epoch \in Nat
            BY <1>0 DEF U64
          <6>2. unbonding_release(now, UnbondingPeriod, config.unbonding_epoch) \in U64
            BY <1>0, <6>1, ReleaseType
          <6> QED
            BY <6>2 DEF U64
        <5>5. reacted'[k] = now
          BY <4>1, <4>4
        <5> HIDE DEF proposed, date, later
        <5> QED
          BY <3>2, <3>4, <3>5, <4>1, <5>2, <5>3, <5>4, <5>5
      <4> QED
        BY <4>3, <4>4
    <3> QED
      BY <2>1, <3>5, <3>7, <3>8, <3>9 DEF UInv
  <2> QED
    BY <2>2, <2>3, <2>4
<1> QED
  BY <1>1, <1>2

-----------------------------------------------------------------------------
(* What follows. *)

NoticeInv == IInv /\ BatchRecordCurrent /\ UInv

\* At first nobody leaves.
LEMMA InitNoticeInv == InitNotice => NoticeInv
<1> SUFFICES ASSUME InitNotice PROVE NoticeInv
  OBVIOUS
<1>1. IInv
  BY InitIInv DEF InitNotice
<1>2. BatchRecordCurrent
  BY DEF InitNotice, Init, BatchRecordCurrent, Idle
<1>3. UInv
  BY DEF InitNotice, Init, UInv, Option
<1> QED
  BY <1>1, <1>2, <1>3 DEF NoticeInv

\* The observer does not restrict the registry.
LEMMA NoticeStep == [Next /\ ObserveNotice]_noticeVars => [Next]_vars
  BY DEF noticeVars

\* Every step keeps the invariant of leavers.
LEMMA StepNoticeInv == NoticeInv /\ [Next /\ ObserveNotice]_noticeVars => NoticeInv'
  BY NoticeStep, StepIInv, StepBatchRecord, StepUInv DEF NoticeInv

\* However the admin changes the epoch and the delay after announcing an
\* upgrade, a keeper that starts unbonding after the announcement needs no
\* longer to leave than the upgrade waits, for every unbonding period, epoch and
\* delay, also where their sums saturate (min_upgrade_delay,
\* push_back_pending_upgrade, unbonding_release).
THEOREM NoticeSafe == SpecNotice => []LeaversFitNotice
<1>1. NoticeInv => LeaversFitNotice
  BY DEF NoticeInv, UInv, LeaversFitNotice
<1> QED
  BY <1>1, InitNoticeInv, StepNoticeInv, PTL DEF SpecNotice

\* When apply_upgrade installs new code, every keeper that began unbonding in
\* the ledger of the announcement can already withdraw.
THEOREM LeaversOut == SpecNotice => LeaversOutBeforeUpgrade
<1>1. ASSUME NoticeInv, [Next /\ ObserveNotice]_noticeVars, code' # code,
             NEW k \in Keepers, reacted[k] = pending_upgrade.proposed_at
      PROVE  Withdrawable(k)
  <2>1. pending_upgrade # None /\ now >= pending_upgrade.available_at
    BY <1>1, NoticeStep, CodeSteps DEF apply_upgrade, upgrade_ready
  <2>2. /\ pending_upgrade.proposed_at \in U64 /\ pending_upgrade.available_at \in U64
        /\ now \in U64
    BY <1>1, <2>1, NowU64 DEF NoticeInv, IInv, TypeOK, Option, PendingUpgrade
  <2>3. reacted[k] # None
    BY <1>1, <2>2, AddressAssumption
  <2>4. /\ Unbonding(k)
        /\ keepers[k].unbonding_at - reacted[k]
              <= pending_upgrade.available_at - pending_upgrade.proposed_at
    BY <1>1, <2>1, <2>3 DEF NoticeInv, UInv
  <2>5. keepers[k].unbonding_at \in U64
    <3>1. keepers[k] \in Keeper
      BY <1>1, <2>4 DEF NoticeInv, IInv, TypeOK, Option, Unbonding
    <3> QED
      BY <2>4, <3>1 DEF Unbonding, Keeper, Option
  <2>6. keepers[k].unbonding_at <= now
    BY <1>1, <2>1, <2>2, <2>4, <2>5, ScheduleAssumption DEF U64
  <2> QED
    BY <2>2, <2>4, <2>5, <2>6, ScheduleAssumption DEF Withdrawable, Unbonding, U64
<1>2. NoticeInv /\ [Next /\ ObserveNotice]_noticeVars =>
        [code' # code => \A k \in Keepers :
             reacted[k] = pending_upgrade.proposed_at => Withdrawable(k)]_noticeVars
  BY <1>1
<1> QED
  BY <1>2, InitNoticeInv, StepNoticeInv, PTL DEF SpecNotice, LeaversOutBeforeUpgrade

\* The date of a pending upgrade only moves later until it is replaced or
\* withdrawn, and no code is installed before it has waited an unbonding period
\* (set_unbonding_epoch, set_upgrade_delay, apply_upgrade).
THEOREM UpgradeDates == SpecNotice => UpgradeNeverMovesForward
<1>1. ASSUME NoticeInv, [Next /\ ObserveNotice]_noticeVars,
             pending_upgrade # None, pending_upgrade' # None, ~ Announces
      PROVE  pending_upgrade'.available_at >= pending_upgrade.available_at
  BY <1>1, NoticeStep, PendingSteps DEF NoticeInv, PendingKept
<1>2. ASSUME NoticeInv, [Next /\ ObserveNotice]_noticeVars, code' # code
      PROVE  /\ pending_upgrade # None
             /\ now >= SatAdd(pending_upgrade.proposed_at, UnbondingPeriod)
  <2>1. pending_upgrade # None /\ now >= pending_upgrade.available_at
    BY <1>2, NoticeStep, CodeSteps DEF apply_upgrade, upgrade_ready
  <2>2. /\ pending_upgrade.proposed_at \in Nat /\ pending_upgrade.available_at \in Nat
        /\ now \in Nat /\ config.unbonding_epoch \in Nat /\ UnbondingPeriod \in Nat
        /\ U64Max \in Nat
    <3>1. IInv /\ TypeOK
      BY <1>2 DEF NoticeInv, IInv
    <3>2. pending_upgrade \in PendingUpgrade
      BY <2>1, <3>1 DEF TypeOK, Option
    <3>3. pending_upgrade.proposed_at \in U64 /\ pending_upgrade.available_at \in U64
      BY <3>2 DEF PendingUpgrade
    <3>4. now \in U64 /\ config.unbonding_epoch \in U64
      BY <3>1, NowU64, EpochType
    <3>5. UnbondingPeriod \in U64
      BY AddressAssumption
    <3> QED
      BY <3>3, <3>4, <3>5, ScheduleAssumption DEF U64
  <2>3. SatAdd(pending_upgrade.proposed_at, min_upgrade_delay(config.unbonding_epoch))
          <= pending_upgrade.available_at
    BY <1>2, <2>1 DEF NoticeInv, UInv
  <2>4. SatAdd(pending_upgrade.proposed_at, UnbondingPeriod)
          <= SatAdd(pending_upgrade.proposed_at, min_upgrade_delay(config.unbonding_epoch))
    BY <2>2 DEF min_upgrade_delay, SatAdd
  <2> QED
    BY <2>1, <2>2, <2>3, <2>4 DEF min_upgrade_delay, SatAdd
<1>3. NoticeInv /\ [Next /\ ObserveNotice]_noticeVars =>
        [/\ (pending_upgrade # None /\ pending_upgrade' # None /\ ~ Announces) =>
               pending_upgrade'.available_at >= pending_upgrade.available_at
         /\ code' # code =>
               /\ pending_upgrade # None
               /\ now >= SatAdd(pending_upgrade.proposed_at, UnbondingPeriod)]_noticeVars
  BY <1>1, <1>2
<1> QED
  BY <1>3, InitNoticeInv, StepNoticeInv, PTL DEF SpecNotice, UpgradeNeverMovesForward

-----------------------------------------------------------------------------
(* Sums over finite sets. *)

\* The equation that defines a sum over a set, element by element.
Picked(s) == CHOOSE x \in s : TRUE

SumRule(g, fun, D) ==
  g = [s \in D |-> IF s = {} THEN 0 ELSE fun[Picked(s)] + g[s \ {Picked(s)}]]

\* The sums of fun over the subsets of S.
SubSums(fun, S) == CHOOSE g : SumRule(g, fun, SUBSET S)

\* A sum over a set is what the recursion on its subsets gives for the whole set.
LEMMA SumUnfold ==
  ASSUME NEW fun, NEW S
  PROVE  SumFunctionOnSet(fun, S) = SubSums(fun, S)[S]
  BY DEF SumFunctionOnSet, FoldFunctionOnSet, MapThenFoldSet, SumRule, Picked, SubSums

\* The subsets with at most n elements.
UpTo(S, n) == {s \in SUBSET S : Cardinality(s) <= n}

\* Taking an element out of a finite set leaves a smaller one.
LEMMA SmallerSubset ==
  ASSUME NEW S, IsFiniteSet(S), NEW s \in SUBSET S, NEW x \in s
  PROVE  /\ IsFiniteSet(s) /\ Cardinality(s) \in Nat \ {0}
         /\ s \ {x} \in SUBSET S /\ IsFiniteSet(s \ {x})
         /\ Cardinality(s \ {x}) = Cardinality(s) - 1
<1>1. IsFiniteSet(s)
  BY FS_Subset
<1>2. Cardinality(s) \in Nat /\ Cardinality(s) # 0
  BY <1>1, FS_CardinalityType, FS_EmptySet
<1>3. IsFiniteSet(s \ {x}) /\ Cardinality(s \ {x}) = Cardinality(s) - 1
  BY <1>1, FS_RemoveElement
<1> QED BY <1>1, <1>2, <1>3

\* The element the recursion takes out is one of the set.
LEMMA PickedIn == \A s : s # {} => Picked(s) \in s
  BY DEF Picked

\* By induction on the size of the subsets, a function obeys the recursion.
LEMMA SumsExist ==
  ASSUME NEW fun, NEW S, IsFiniteSet(S)
  PROVE  \E g : SumRule(g, fun, SUBSET S)
<1> DEFINE T == {n \in Nat : \E g : SumRule(g, fun, UpTo(S, n))}
<1>1. 0 \in T
  <2> DEFINE g == [s \in UpTo(S, 0) |-> 0]
  <2>1. ASSUME NEW s \in UpTo(S, 0) PROVE s = {}
    <3>1. s \in SUBSET S /\ IsFiniteSet(s) /\ Cardinality(s) <= 0
      BY FS_Subset DEF UpTo
    <3>2. Cardinality(s) = 0
      BY <3>1, FS_CardinalityType
    <3> QED BY <3>1, <3>2, FS_EmptySet
  <2>2. SumRule(g, fun, UpTo(S, 0))
    BY <2>1 DEF SumRule
  <2> QED BY <2>2
<1>2. ASSUME NEW n \in T PROVE n + 1 \in T
  <2>1. PICK g : SumRule(g, fun, UpTo(S, n))
    OBVIOUS
  <2> DEFINE val(s) == IF s = {} THEN 0 ELSE fun[Picked(s)] + g[s \ {Picked(s)}]
             h == [s \in UpTo(S, n + 1) |-> val(s)]
  <2>2. ASSUME NEW s \in UpTo(S, n) PROVE g[s] = val(s) /\ s \in UpTo(S, n + 1)
    <3>1. g[s] = val(s)
      BY <2>1 DEF SumRule
    <3>2. Cardinality(s) \in Nat /\ n \in Nat
      BY FS_Subset, FS_CardinalityType DEF UpTo
    <3> QED BY <3>1, <3>2 DEF UpTo
  <2>3. ASSUME NEW s \in UpTo(S, n + 1), s # {} PROVE s \ {Picked(s)} \in UpTo(S, n)
    <3>1. Picked(s) \in s /\ s \in SUBSET S /\ Cardinality(s) <= n + 1
      BY <2>3, PickedIn DEF UpTo
    <3>2. s \ {Picked(s)} \in SUBSET S /\ Cardinality(s \ {Picked(s)}) = Cardinality(s) - 1
          /\ Cardinality(s) \in Nat
      BY <3>1, SmallerSubset
    <3> QED BY <3>1, <3>2 DEF UpTo
  <2>4. ASSUME NEW s \in UpTo(S, n) PROVE h[s] = g[s]
    BY <2>2
  <2> HIDE DEF h
  <2>5. ASSUME NEW s \in UpTo(S, n + 1)
        PROVE  val(s) = IF s = {} THEN 0 ELSE fun[Picked(s)] + h[s \ {Picked(s)}]
    BY <2>3, <2>4
  <2>6. SumRule(h, fun, UpTo(S, n + 1))
    BY <2>5 DEF SumRule, h
  <2> QED BY <2>6
<1> HIDE DEF T
<1>3. T = Nat
  <2>1. T \subseteq Nat
    BY DEF T
  <2> QED BY <1>1, <1>2, <2>1, NatRule
<1>4. Cardinality(S) \in Nat
  BY FS_CardinalityType
<1>5. SUBSET S = UpTo(S, Cardinality(S))
  BY FS_Subset DEF UpTo
<1>6. Cardinality(S) \in T
  BY <1>3, <1>4
<1>7. \E g : SumRule(g, fun, UpTo(S, Cardinality(S)))
  BY <1>6 DEF T
<1> QED BY <1>5, <1>7, Zenon

\* Hence the one that is chosen obeys it.
LEMMA SumsEquation ==
  ASSUME NEW fun, NEW S, IsFiniteSet(S)
  PROVE  SumRule(SubSums(fun, S), fun, SUBSET S)
  BY SumsExist DEF SubSums

\* Sums of integers are integers, and only the values on the set matter.
LEMMA SumsAgree ==
  ASSUME NEW S, IsFiniteSet(S), NEW U \in SUBSET S, NEW f, NEW g,
         \A x \in U : f[x] \in Int /\ g[x] = f[x]
  PROVE  \A s \in SUBSET U : SubSums(f, S)[s] \in Int /\ SubSums(g, U)[s] = SubSums(f, S)[s]
<1>f. IsFiniteSet(U)
  BY FS_Subset
<1> DEFINE F == SubSums(f, S)
           G == SubSums(g, U)
<1>a. SumRule(F, f, SUBSET S) /\ SumRule(G, g, SUBSET U)
  BY <1>f, SumsEquation
<1> HIDE DEF F, G
<1>e. /\ F[{}] = 0 /\ G[{}] = 0
      /\ \A s \in SUBSET S : s # {} => F[s] = f[Picked(s)] + F[s \ {Picked(s)}]
      /\ \A s \in SUBSET U : s # {} => G[s] = g[Picked(s)] + G[s \ {Picked(s)}]
  <2>1. {} \in SUBSET S /\ {} \in SUBSET U
    OBVIOUS
  <2>2. F[{}] = 0 /\ G[{}] = 0
    BY <1>a, <2>1 DEF SumRule
  <2>3. \A s \in SUBSET S : s # {} => F[s] = f[Picked(s)] + F[s \ {Picked(s)}]
    BY <1>a DEF SumRule
  <2>4. \A s \in SUBSET U : s # {} => G[s] = g[Picked(s)] + G[s \ {Picked(s)}]
    BY <1>a DEF SumRule
  <2> QED BY <2>2, <2>3, <2>4
<1> DEFINE Good(s) == F[s] \in Int /\ G[s] = F[s]
           T == {n \in Nat : \A s \in UpTo(U, n) : Good(s)}
<1>0. Good({})
  BY <1>e
<1>1. 0 \in T
  <2>1. ASSUME NEW s \in UpTo(U, 0) PROVE s = {}
    <3>1. s \in SUBSET U /\ IsFiniteSet(s) /\ Cardinality(s) <= 0
      BY <1>f, FS_Subset DEF UpTo
    <3>2. Cardinality(s) = 0
      BY <3>1, FS_CardinalityType
    <3> QED BY <3>1, <3>2, FS_EmptySet
  <2> QED BY <1>0, <2>1
<1>2. ASSUME NEW n \in T PROVE n + 1 \in T
  <2>1. ASSUME NEW s \in UpTo(U, n + 1), s # {} PROVE Good(s)
    <3> DEFINE x == Picked(s)
               r == s \ {Picked(s)}
    <3>1. x \in s /\ s \in SUBSET U /\ s \in SUBSET S /\ Cardinality(s) <= n + 1
      BY <2>1, PickedIn DEF UpTo
    <3>2. r \in SUBSET U /\ Cardinality(r) = Cardinality(s) - 1 /\ Cardinality(s) \in Nat
      BY <1>f, <3>1, SmallerSubset
    <3>3. r \in UpTo(U, n)
      BY <3>1, <3>2 DEF UpTo
    <3>4. Good(r)
      BY <3>3
    <3>5. F[s] = f[x] + F[r] /\ G[s] = g[x] + G[r]
      BY <1>e, <2>1, <3>1, Zenon
    <3>6. f[x] \in Int /\ g[x] = f[x]
      BY <3>1
    <3> QED BY <3>4, <3>5, <3>6
  <2>2. \A s \in UpTo(U, n + 1) : Good(s)
    BY <1>0, <2>1, Zenon
  <2>3. n + 1 \in Nat
    OBVIOUS
  <2> HIDE DEF Good
  <2> QED BY <2>2, <2>3
<1> HIDE DEF T
<1>3. T = Nat
  <2>1. T \subseteq Nat
    BY DEF T
  <2> QED BY <1>1, <1>2, <2>1, NatRule
<1>4. ASSUME NEW s \in SUBSET U PROVE s \in UpTo(U, Cardinality(U)) /\ Cardinality(U) \in Nat
  BY <1>f, FS_Subset, FS_CardinalityType DEF UpTo
<1>5. ASSUME NEW s \in SUBSET U PROVE F[s] \in Int /\ G[s] = F[s]
  BY <1>3, <1>4 DEF T
<1> QED BY <1>5 DEF F, G

\* Any element can be taken out of a sum.
LEMMA SumsAny ==
  ASSUME NEW S, IsFiniteSet(S), NEW f, \A x \in S : f[x] \in Int
  PROVE  \A z \in S : SubSums(f, S)[S] = f[z] + SubSums(f, S)[S \ {z}]
<1> DEFINE g == SubSums(f, S)
           Good(s) == \A x \in s : g[s] = f[x] + g[s \ {x}]
           T == {n \in Nat : \A s \in UpTo(S, n) : Good(s)}
<1>a. SumRule(g, f, SUBSET S) /\ \A s \in SUBSET S : g[s] \in Int
  BY SumsEquation, SumsAgree
<1> HIDE DEF g
<1>0. /\ \A s \in SUBSET S : g[s] \in Int
      /\ \A s \in SUBSET S : s # {} => g[s] = f[Picked(s)] + g[s \ {Picked(s)}]
  BY <1>a DEF SumRule
<1>1. 0 \in T
  <2>1. ASSUME NEW s \in UpTo(S, 0) PROVE s = {}
    <3>1. s \in SUBSET S /\ IsFiniteSet(s) /\ Cardinality(s) <= 0
      BY FS_Subset DEF UpTo
    <3>2. Cardinality(s) = 0
      BY <3>1, FS_CardinalityType
    <3> QED BY <3>1, <3>2, FS_EmptySet
  <2> QED BY <2>1
<1>2. ASSUME NEW n \in T PROVE n + 1 \in T
  <2>1. ASSUME NEW s \in UpTo(S, n + 1), NEW x \in s PROVE g[s] = f[x] + g[s \ {x}]
    <3> DEFINE c == Picked(s)
    <3>1. c \in s /\ s \in SUBSET S /\ Cardinality(s) <= n + 1
      BY PickedIn DEF UpTo
    <3>2. CASE c = x
      BY <1>0, <3>1, <3>2
    <3>3. CASE c # x
      <4>1. g[s] = f[c] + g[s \ {c}]
        BY <1>0, <3>1
      <4>2. s \ {c} \in UpTo(S, n) /\ s \ {x} \in UpTo(S, n)
        <5>1. /\ s \ {c} \in SUBSET S /\ Cardinality(s \ {c}) = Cardinality(s) - 1
              /\ s \ {x} \in SUBSET S /\ Cardinality(s \ {x}) = Cardinality(s) - 1
              /\ Cardinality(s) \in Nat
          BY <3>1, SmallerSubset
        <5> QED BY <3>1, <5>1 DEF UpTo
      <4>3. g[s \ {c}] = f[x] + g[(s \ {c}) \ {x}] /\ g[s \ {x}] = f[c] + g[(s \ {x}) \ {c}]
        BY <3>1, <3>3, <4>2
      <4>4. (s \ {c}) \ {x} = (s \ {x}) \ {c}
        OBVIOUS
      <4>5. f[c] \in Int /\ f[x] \in Int /\ g[(s \ {x}) \ {c}] \in Int
        BY <1>0, <3>1
      <4> DEFINE rest == g[(s \ {x}) \ {c}]
      <4>6. g[s] = f[c] + (f[x] + rest) /\ g[s \ {x}] = f[c] + rest /\ rest \in Int
        BY <4>1, <4>3, <4>4, <4>5
      <4> HIDE DEF c, rest
      <4> QED BY <4>5, <4>6
    <3> QED BY <3>2, <3>3
  <2> QED BY <2>1
<1> HIDE DEF T
<1>3. T = Nat
  <2>1. T \subseteq Nat
    BY DEF T
  <2> QED BY <1>1, <1>2, <2>1, NatRule
<1>4. ASSUME NEW s \in SUBSET S PROVE s \in UpTo(S, Cardinality(S)) /\ Cardinality(S) \in Nat
  BY FS_Subset, FS_CardinalityType DEF UpTo
<1>5. ASSUME NEW s \in SUBSET S, NEW x \in s PROVE g[s] = f[x] + g[s \ {x}]
  BY <1>3, <1>4 DEF T
<1>6. \A z \in S : g[S] = f[z] + g[S \ {z}]
  BY <1>5
<1> QED BY <1>6 DEF g

\* The sum of nothing.
LEMMA SumEmpty ==
  ASSUME NEW f, DOMAIN f = {}
  PROVE  SumFunction(f) = 0
<1>1. SumFunction(f) = SubSums(f, {})[{}]
  BY SumUnfold DEF SumFunction
<1>2. SumRule(SubSums(f, {}), f, SUBSET {})
  BY FS_EmptySet, SumsEquation
<1> DEFINE g == SubSums(f, {})
<1> HIDE DEF g
<1>3. g[{}] = 0
  <2>1. {} \in SUBSET {}
    OBVIOUS
  <2> QED BY <1>2, <2>1 DEF g, SumRule
<1> QED BY <1>1, <1>3 DEF g

\* Finitely many integers have an integer sum.
LEMMA SumInt ==
  ASSUME NEW f, IsFiniteSet(DOMAIN f), \A x \in DOMAIN f : f[x] \in Int
  PROVE  SumFunction(f) \in Int
<1>1. SumFunction(f) = SubSums(f, DOMAIN f)[DOMAIN f]
  BY SumUnfold DEF SumFunction
<1>2. \A s \in SUBSET DOMAIN f : SubSums(f, DOMAIN f)[s] \in Int
  BY SumsAgree
<1> QED BY <1>1, <1>2

\* One entry of a sum set apart.
LEMMA SumWithout ==
  ASSUME NEW f, NEW S, S = DOMAIN f, IsFiniteSet(S), \A y \in S : f[y] \in Int, NEW x \in S
  PROVE  /\ SumFunction([y \in S \ {x} |-> f[y]]) \in Int
         /\ SumFunction(f) = f[x] + SumFunction([y \in S \ {x} |-> f[y]])
<1> DEFINE U == S \ {x}
           g == [y \in U |-> f[y]]
           F == SubSums(f, S)
           G == SubSums(g, U)
<1>1. SumFunction(f) = F[S] /\ SumFunction(g) = G[U]
  <2>1. DOMAIN g = U
    OBVIOUS
  <2> HIDE DEF g, U
  <2> QED BY <2>1, SumUnfold DEF SumFunction
<1>2. F[S] = f[x] + F[U]
  BY SumsAny
<1>3. F[U] \in Int /\ G[U] = F[U]
  <2>1. U \in SUBSET S /\ U \in SUBSET U /\ \A y \in U : f[y] \in Int /\ g[y] = f[y]
    OBVIOUS
  <2> HIDE DEF g, U
  <2> QED BY <2>1, SumsAgree
<1> QED BY <1>1, <1>2, <1>3

\* A sum of which one entry is added, changed or removed.
LEMMA SumChange ==
  ASSUME NEW A, IsFiniteSet(A), NEW B, IsFiniteSet(B), NEW f \in [A -> Int],
         NEW g \in [B -> Int], NEW x, A \ {x} = B \ {x}, \A y \in A \ {x} : g[y] = f[y]
  PROVE  /\ SumFunction(f) \in Int /\ SumFunction(g) \in Int
         /\ SumFunction(g) - (IF x \in B THEN g[x] ELSE 0)
              = SumFunction(f) - (IF x \in A THEN f[x] ELSE 0)
<1> DEFINE rest == SumFunction([y \in A \ {x} |-> f[y]])
<1>0. DOMAIN f = A /\ DOMAIN g = B /\ [y \in A \ {x} |-> f[y]] = [y \in B \ {x} |-> g[y]]
  OBVIOUS
<1>1. rest \in Int /\ SumFunction(f) - (IF x \in A THEN f[x] ELSE 0) = rest
      /\ SumFunction(f) \in Int
  <2>1. CASE x \in A
    <3>1. rest \in Int /\ SumFunction(f) = f[x] + rest /\ f[x] \in Int
      BY <1>0, <2>1, SumWithout
    <3> HIDE DEF rest
    <3> QED BY <2>1, <3>1
  <2>2. CASE x \notin A
    <3>1. [y \in A \ {x} |-> f[y]] = f
      BY <2>2
    <3>2. SumFunction(f) \in Int
      BY <1>0, SumInt
    <3> QED BY <2>2, <3>1, <3>2
  <2> QED BY <2>1, <2>2
<1>2. SumFunction(g) - (IF x \in B THEN g[x] ELSE 0) = rest /\ SumFunction(g) \in Int
  <2>1. CASE x \in B
    <3>1. SumFunction(g) = g[x] + rest /\ g[x] \in Int
      BY <1>0, <2>1, SumWithout
    <3> HIDE DEF rest
    <3> QED BY <1>1, <2>1, <3>1
  <2>2. CASE x \notin B
    <3>1. [y \in B \ {x} |-> g[y]] = g
      BY <2>2
    <3>2. SumFunction(g) \in Int
      BY <1>0, SumInt
    <3> QED BY <1>0, <2>2, <3>1, <3>2
  <2> QED BY <2>1, <2>2
<1> HIDE DEF rest
<1> QED BY <1>1, <1>2

-----------------------------------------------------------------------------
(* The two totals. *)

Balance(s) == IF s = None THEN 0 ELSE s.balance

StakeOf(r) == IF r = None THEN 0 ELSE r.stake

\* Jobs and keepers are finitely many, so the totals are integers.
LEMMA JobIdsFinite == IsFiniteSet(JobIds)
  BY BoundsAssumption, FS_Interval DEF JobIds

\* One job's balance changes, or the job appears or goes.
LEMMA BalanceChange ==
  ASSUME TypeOK, TypeOK', NEW j \in JobIds, \A i \in JobIds \ {j} : state'[i] = state[i]
  PROVE  /\ JobBalances \in Int /\ JobBalances' \in Int
         /\ JobBalances' = JobBalances + Balance(state'[j]) - Balance(state[j])
<1> DEFINE A == {i \in JobIds : state[i] # None}
           B == {i \in JobIds : state'[i] # None}
           f == [i \in A |-> state[i].balance]
           g == [i \in B |-> state'[i].balance]
<1>1. \A i \in A : state[i] \in JobState
  BY DEF TypeOK, Option
<1>2. \A i \in B : state'[i] \in JobState
  BY DEF TypeOK, Option
<1>3. f \in [A -> Int] /\ g \in [B -> Int]
  BY <1>1, <1>2, ScheduleAssumption DEF JobState, Amount
<1>4. IsFiniteSet(A) /\ IsFiniteSet(B)
  BY JobIdsFinite, FS_Subset
<1>5. A \ {j} = B \ {j} /\ \A y \in A \ {j} : g[y] = f[y]
  OBVIOUS
<1>6. JobBalances = SumFunction(f) /\ JobBalances' = SumFunction(g)
  <2>1. A = {i \in JobIds : Live(i)} /\ B = {i \in JobIds : Live(i)'}
    BY DEF Live
  <2> QED BY <2>1 DEF JobBalances
<1>7. (IF j \in B THEN g[j] ELSE 0) = Balance(state'[j])
      /\ (IF j \in A THEN f[j] ELSE 0) = Balance(state[j])
  BY DEF Balance
<1>8. Balance(state'[j]) \in Int /\ Balance(state[j]) \in Int
  BY <1>3, <1>7
<1> HIDE DEF A, B, f, g
<1>9. /\ SumFunction(f) \in Int /\ SumFunction(g) \in Int
      /\ SumFunction(g) - (IF j \in B THEN g[j] ELSE 0)
           = SumFunction(f) - (IF j \in A THEN f[j] ELSE 0)
  BY <1>3, <1>4, <1>5, SumChange
<1> QED BY <1>6, <1>7, <1>8, <1>9

\* One keeper's stake changes, or its record appears or goes.
LEMMA StakeChange ==
  ASSUME TypeOK, TypeOK', NEW k \in Keepers,
         \A x \in Keepers \ {k} : keepers'[x] = keepers[x]
  PROVE  /\ Stakes \in Int /\ Stakes' \in Int
         /\ Stakes' = Stakes + StakeOf(keepers'[k]) - StakeOf(keepers[k])
<1> DEFINE A == {x \in Keepers : keepers[x] # None}
           B == {x \in Keepers : keepers'[x] # None}
           f == [x \in A |-> keepers[x].stake]
           g == [x \in B |-> keepers'[x].stake]
<1>1. \A x \in A : keepers[x] \in Keeper
  BY DEF TypeOK, Option
<1>2. \A x \in B : keepers'[x] \in Keeper
  BY DEF TypeOK, Option
<1>3. f \in [A -> Int] /\ g \in [B -> Int]
  BY <1>1, <1>2, ScheduleAssumption DEF Keeper, Amount
<1>4. IsFiniteSet(A) /\ IsFiniteSet(B)
  BY KeepersAssumption, FS_Subset
<1>5. A \ {k} = B \ {k} /\ \A y \in A \ {k} : g[y] = f[y]
  OBVIOUS
<1>6. Stakes = SumFunction(f) /\ Stakes' = SumFunction(g)
  BY DEF Stakes
<1>7. (IF k \in B THEN g[k] ELSE 0) = StakeOf(keepers'[k])
      /\ (IF k \in A THEN f[k] ELSE 0) = StakeOf(keepers[k])
  BY DEF StakeOf
<1>8. StakeOf(keepers'[k]) \in Int /\ StakeOf(keepers[k]) \in Int
  BY <1>3, <1>7
<1> HIDE DEF A, B, f, g
<1>9. /\ SumFunction(f) \in Int /\ SumFunction(g) \in Int
      /\ SumFunction(g) - (IF k \in B THEN g[k] ELSE 0)
           = SumFunction(f) - (IF k \in A THEN f[k] ELSE 0)
  BY <1>3, <1>4, <1>5, SumChange
<1> QED BY <1>6, <1>7, <1>8, <1>9

\* The totals of the books are integers.
LEMMA TotalsInt ==
  ASSUME TypeOK
  PROVE  JobBalances \in Int /\ Stakes \in Int
<1> DEFINE f == [j \in {i \in JobIds : Live(i)} |-> state[j].balance]
           g == [k \in {x \in Keepers : keepers[x] # None} |-> keepers[k].stake]
<1>1. IsFiniteSet(DOMAIN f) /\ IsFiniteSet(DOMAIN g)
  BY JobIdsFinite, KeepersAssumption, FS_Subset
<1>2. \A j \in {i \in JobIds : Live(i)} : state[j] \in JobState
  BY DEF TypeOK, Option, Live
<1>3. \A k \in {x \in Keepers : keepers[x] # None} : keepers[k] \in Keeper
  BY DEF TypeOK, Option
<1>4. (\A x \in DOMAIN f : f[x] \in Int) /\ (\A x \in DOMAIN g : g[x] \in Int)
  BY <1>2, <1>3, ScheduleAssumption DEF JobState, Keeper, Amount
<1>5. JobBalances = SumFunction(f) /\ Stakes = SumFunction(g)
  BY DEF JobBalances, Stakes
<1> HIDE DEF f, g
<1> QED BY <1>1, <1>4, <1>5, SumInt

\* Records come and go and change, but every stake stays.
LEMMA StakesKept ==
  ASSUME \A x \in Keepers : (keepers'[x] = None) <=> (keepers[x] = None),
         \A x \in Keepers : keepers[x] # None => keepers'[x].stake = keepers[x].stake
  PROVE  Stakes' = Stakes
<1> DEFINE A == {x \in Keepers : keepers[x] # None}
           B == {x \in Keepers : keepers'[x] # None}
<1>1. A = B /\ [k \in A |-> keepers[k].stake] = [k \in B |-> keepers'[k].stake]
  OBVIOUS
<1> QED BY <1>1 DEF Stakes

-----------------------------------------------------------------------------
(* The books. *)

\* The total of create_jobs so far is the sum of the deposits it has validated.
BatchTotal ==
    (tx.call = "create_jobs" /\ ~ tx.paid) =>
        tx.total = SumFunction([n \in 1..(tx.i - 1) |-> tx.batch[n].deposit])

\* Without a treasury there is no protocol fee, so no share stays unpaid.
TreasuryShare ==
    config.treasury = None =>
        /\ config.protocol_fee_bps = 0
        /\ tx.call = "execute_batch" => tx.protocol_fees = 0

BInv == BooksBalance /\ BatchTotal /\ TreasuryShare

\* The deposits of a part of a batch have a sum.
LEMMA DepositSums ==
  ASSUME NEW batch \in Seq(NewJob), NEW a \in Nat \ {0}, NEW b \in Nat, b <= Len(batch)
  PROVE  /\ [n \in a..b |-> batch[n].deposit] \in [a..b -> Int]
         /\ IsFiniteSet(a..b)
         /\ SumFunction([n \in a..b |-> batch[n].deposit]) \in Int
<1>1. ASSUME NEW n \in a..b PROVE batch[n].deposit \in Int
  <2>1. n \in 1..Len(batch)
    BY LenProperties
  <2>2. batch[n] \in NewJob
    BY <2>1, ElementOfSeq
  <2> QED BY <2>2, ScheduleAssumption DEF NewJob, I128
<1>2. IsFiniteSet(a..b)
  BY FS_Interval
<1> DEFINE f == [n \in a..b |-> batch[n].deposit]
<1>3. DOMAIN f = a..b /\ \A x \in a..b : f[x] \in Int
  BY <1>1
<1>4. f \in [a..b -> Int]
  BY <1>1
<1> HIDE DEF f
<1>5. SumFunction(f) \in Int
  BY <1>2, <1>3, SumInt
<1> QED BY <1>2, <1>4, <1>5 DEF f

\* So does what a batch has paid in and not yet booked.
LEMMA InFlightInt ==
  ASSUME IInv
  PROVE  InFlight \in Int
<1>1. CASE tx.call = "create_jobs" /\ tx.paid
  <2>1. tx.batch \in Seq(NewJob) /\ tx.i \in Nat \ {0} /\ Len(tx.batch) \in Nat
    BY <1>1, TxTypes DEF IInv, CreateJobsTx
  <2>2. SumFunction([n \in tx.i..Len(tx.batch) |-> tx.batch[n].deposit]) \in Int
    BY <2>1, DepositSums
  <2> QED BY <1>1, <2>2 DEF InFlight
<1>2. CASE tx.call = "execute_batch"
  <2>1. tx.keeper_fees \in Int /\ tx.protocol_fees \in Int
    BY <1>2, TxTypes, ScheduleAssumption DEF IInv, ExecuteBatchTx, Amount
  <2> QED BY <1>2, <2>1 DEF InFlight
<1> QED BY <1>1, <1>2 DEF InFlight

\* A transfer of the fee token that is booked on jobs keeps the books balanced.
LEMMA FeeMove ==
  ASSUME IInv, IInv', BooksBalance, NEW a \in Int,
         held' = [held EXCEPT ![FeeToken] = @ + a],
         Stakes' = Stakes, JobBalances' + InFlight' = JobBalances + InFlight + a
  PROVE  BooksBalance'
<1>1. /\ JobBalances \in Int /\ Stakes \in Int /\ InFlight \in Int
      /\ JobBalances' \in Int /\ Stakes' \in Int /\ InFlight' \in Int
  <2>1. TypeOK /\ TypeOK'
    BY DEF IInv
  <2>2. JobBalances \in Int /\ Stakes \in Int /\ InFlight \in Int
    BY <2>1, TotalsInt, InFlightInt
  <2>3. (JobBalances \in Int /\ Stakes \in Int)'
    BY <2>1, TotalsInt, PTL
  <2>4. (InFlight \in Int)'
    BY InFlightInt, PTL
  <2> QED BY <2>2, <2>3, <2>4
<1>2. held \in [Tokens -> Amount] /\ FeeToken \in Tokens /\ StakeToken \in Tokens
  BY DEF IInv, TypeOK, Tokens
<1>3. ASSUME NEW t \in Tokens
      PROVE  held'[t] = (IF t = FeeToken THEN JobBalances' + InFlight' ELSE 0)
                        + (IF t = StakeToken THEN Stakes' ELSE 0)
  <2>1. held[t] = (IF t = FeeToken THEN JobBalances + InFlight ELSE 0)
                  + (IF t = StakeToken THEN Stakes ELSE 0)
    BY DEF BooksBalance
  <2>2. held'[t] = IF t = FeeToken THEN held[t] + a ELSE held[t]
    BY <1>2
  <2> DEFINE x == JobBalances + InFlight
             y == JobBalances' + InFlight'
  <2>3. x \in Int /\ y \in Int /\ y = x + a /\ Stakes \in Int /\ Stakes' = Stakes
    <3>1. x \in Int
      BY <1>1
    <3>2. y \in Int
      BY <1>1
    <3>3. y = x + a
      OBVIOUS
    <3>4. Stakes \in Int /\ Stakes' = Stakes
      BY <1>1
    <3> QED BY <3>1, <3>2, <3>3, <3>4
  <2>4. held[t] = (IF t = FeeToken THEN x ELSE 0) + (IF t = StakeToken THEN Stakes ELSE 0)
    BY <2>1
  <2> HIDE DEF x, y
  <2>5. held'[t] = (IF t = FeeToken THEN y ELSE 0) + (IF t = StakeToken THEN Stakes' ELSE 0)
    BY <2>2, <2>3, <2>4
  <2> QED BY <2>5 DEF y
<1> QED BY <1>3 DEF BooksBalance

\* A transfer of the stake token that is booked on keepers does too.
LEMMA StakeMove ==
  ASSUME IInv, IInv', BooksBalance, NEW a \in Int,
         held' = [held EXCEPT ![StakeToken] = @ + a],
         JobBalances' = JobBalances, InFlight' = InFlight, Stakes' = Stakes + a
  PROVE  BooksBalance'
<1>1. JobBalances \in Int /\ Stakes \in Int /\ InFlight \in Int
  BY TotalsInt, InFlightInt DEF IInv
<1>2. held \in [Tokens -> Amount] /\ FeeToken \in Tokens /\ StakeToken \in Tokens
  BY DEF IInv, TypeOK, Tokens
<1>3. ASSUME NEW t \in Tokens
      PROVE  held'[t] = (IF t = FeeToken THEN JobBalances' + InFlight' ELSE 0)
                        + (IF t = StakeToken THEN Stakes' ELSE 0)
  <2>1. held[t] = (IF t = FeeToken THEN JobBalances + InFlight ELSE 0)
                  + (IF t = StakeToken THEN Stakes ELSE 0)
    BY DEF BooksBalance
  <2>2. held'[t] = IF t = StakeToken THEN held[t] + a ELSE held[t]
    BY <1>2
  <2> QED BY <1>1, <2>1, <2>2
<1> QED BY <1>3 DEF BooksBalance

\* A step that moves nothing.
LEMMA NothingMoves ==
  ASSUME BooksBalance, held' = held, Stakes' = Stakes,
         JobBalances' = JobBalances, InFlight' = InFlight
  PROVE  BooksBalance'
  BY DEF BooksBalance

\* Calls that leave jobs or keepers alone leave their totals alone.
LEMMA SameTotals ==
  /\ state' = state => JobBalances' = JobBalances
  /\ keepers' = keepers => Stakes' = Stakes
  BY DEF JobBalances, Stakes, Live

\* The books of a registry without jobs and keepers balance.
LEMMA InitBInv == Init => BInv
<1> SUFFICES ASSUME Init PROVE BInv
  OBVIOUS
<1>1. JobBalances = 0
  <2> DEFINE f == [j \in {i \in JobIds : Live(i)} |-> state[j].balance]
  <2>1. DOMAIN f = {}
    BY DEF Init, Live
  <2> HIDE DEF f
  <2>2. SumFunction(f) = 0
    BY <2>1, SumEmpty
  <2> QED BY <2>2 DEF f, JobBalances
<1>2. Stakes = 0
  <2> DEFINE f == [k \in {x \in Keepers : keepers[x] # None} |-> keepers[k].stake]
  <2>1. DOMAIN f = {}
    BY DEF Init
  <2> HIDE DEF f
  <2>2. SumFunction(f) = 0
    BY <2>1, SumEmpty
  <2> QED BY <2>2 DEF f, Stakes
<1>3. tx.call = "none" /\ config.protocol_fee_bps = 0 /\ \A t \in Tokens : held[t] = 0
  BY DEF Init, Idle
<1> QED BY <1>1, <1>2, <1>3 DEF BInv, BooksBalance, BatchTotal, TreasuryShare, InFlight

\* Outside create_jobs and execute_batch nothing is in flight.
LEMMA NoFlight ==
  /\ tx = Idle => InFlight = 0
  /\ tx' = Idle => InFlight' = 0 /\ BatchTotal'
  /\ tx.call \notin {"create_jobs", "execute_batch"} => InFlight = 0
  /\ tx'.call \notin {"create_jobs", "execute_batch"} => InFlight' = 0 /\ BatchTotal'
  BY DEF InFlight, BatchTotal, Idle

\* Calls that leave the configuration alone keep the treasury.
LEMMA TreasuryKept ==
  ASSUME TreasuryShare, config'.treasury = config.treasury,
         config'.protocol_fee_bps = config.protocol_fee_bps,
         tx' = Idle \/ tx'.call # "execute_batch"
  PROVE  TreasuryShare'
  BY DEF TreasuryShare, Idle

\* What transfers do to the registry's own balance.
LEMMA Transfers ==
  ASSUME TypeOK, NEW t \in Tokens, NEW a \in Int
  PROVE  /\ TransferIn(t, a) => held' = [held EXCEPT ![t] = @ + a]
         /\ TransferOut(t, a) => held' = [held EXCEPT ![t] = @ + (- a)]
         /\ held' = held => held' = [held EXCEPT ![t] = @ + 0]
<1>1. held \in [Tokens -> Int]
  BY ScheduleAssumption DEF TypeOK, Amount
<1>2. held[t] - a = held[t] + (- a) /\ held[t] + 0 = held[t]
  BY <1>1
<1> QED BY <1>1, <1>2 DEF TransferIn, TransferOut

\* One job's balance and what is in flight change by what is transferred.
LEMMA JobMove ==
  ASSUME IInv, IInv', BooksBalance, NEW j \in JobIds,
         \A i \in JobIds \ {j} : state'[i] = state[i],
         NEW a \in Int, held' = [held EXCEPT ![FeeToken] = @ + a], Stakes' = Stakes,
         Balance(state'[j]) + InFlight' = Balance(state[j]) + InFlight + a
  PROVE  BooksBalance'
<1>1. /\ JobBalances \in Int /\ JobBalances' \in Int
      /\ JobBalances' = JobBalances + Balance(state'[j]) - Balance(state[j])
  BY BalanceChange DEF IInv
<1>2. InFlight \in Int /\ (InFlight \in Int)'
  BY InFlightInt, PTL
<1>3. Balance(state[j]) \in Int /\ Balance(state'[j]) \in Int
  BY ScheduleAssumption DEF IInv, TypeOK, Option, Balance, JobState, Amount
<1> DEFINE x == InFlight
           y == InFlight'
           p == Balance(state[j])
           q == Balance(state'[j])
           s == JobBalances
           u == JobBalances'
<1>4. x \in Int /\ y \in Int /\ p \in Int /\ q \in Int /\ s \in Int /\ u = s + q - p
  BY <1>1, <1>2, <1>3
<1>5. q + y = p + x + a
  OBVIOUS
<1>6. u + y = s + x + a
  <2> HIDE DEF x, y, p, q, s, u
  <2> QED BY <1>4, <1>5
<1> QED BY <1>6, FeeMove

\* A run takes from the job what keeper and treasury receive.
LEMMA FeesBooked ==
  ASSUME IInv, NEW j \in JobIds, NEW k, NEW verdict, can_run(k, j, verdict),
         NEW success \in BOOLEAN
  PROVE  LET fees == split_fee(run_fee(j), config.protocol_fee_bps)
         IN  /\ Balance(state_after_run(j, success))
                  = Balance(state[j]) - (fees.rest + fees.share)
             /\ Balance(state[j]) \in Int /\ fees.rest \in Int /\ fees.share \in Int
             /\ config.protocol_fee_bps = 0 => fees.share = 0
<1> DEFINE fees == split_fee(run_fee(j), config.protocol_fee_bps)
<1>1. Live(j) /\ dependency_met(j) /\ TypeOK /\ PartsTogether
  BY DEF can_run, IInv
<1>2. state_after_run(j, success) \in JobState /\ state[j] \in JobState
  BY <1>1, StateAfterRunType, LiveParts
<1>3. state_after_run(j, success) # None /\ state[j] # None
  BY <1>2, AddressAssumption
<1>4. fees.rest \in Nat /\ fees.share \in Nat /\ fees.rest + fees.share = run_fee(j)
  BY <1>1, RunFeeTypes
<1>5. state_after_run(j, success).balance = state[j].balance - run_fee(j)
  BY DEF state_after_run
<1>6. state[j].balance \in Int
  BY <1>2, ScheduleAssumption DEF JobState, Amount
<1>7. config.protocol_fee_bps = 0 => fees.share = 0
  BY DEF split_fee
<1> HIDE DEF fees
<1> QED BY <1>3, <1>4, <1>5, <1>6, <1>7 DEF Balance, fees

\* A stored job brings its deposit into the books.
LEMMA InsertMove ==
  ASSUME IInv, IInv', FInv, BooksBalance, next_job_id \in JobIds, NEW o \in Accounts,
         NEW new \in NewJob, Checked(new), insert_job(o, new.params, new.deposit),
         NEW a \in Int, held' = [held EXCEPT ![FeeToken] = @ + a],
         keepers' = keepers, new.deposit + InFlight' = InFlight + a
  PROVE  BooksBalance'
<1> DEFINE id == next_job_id
           d == new.deposit
<1>0. d \in Int
  BY ScheduleAssumption DEF Checked, Amount
<1>1. state[id] = None
  <2>1. ~ (id < next_job_id)
    BY BoundsAssumption DEF IInv, TypeOK
  <2> QED BY <2>1 DEF FInv, IdsUsed, Live
<1>2. /\ state'[id] \in JobState /\ state'[id].balance = d
      /\ \A i \in JobIds \ {id} : state'[i] = state[i]
  <2>1. state'[id] \in JobState
    BY InsertJobType DEF IInv
  <2>2. state'[id].balance = d /\ \A i \in JobIds \ {id} : state'[i] = state[i]
    BY DEF insert_job, IInv, TypeOK
  <2> QED BY <2>1, <2>2
<1>3. Balance(state'[id]) = d /\ Balance(state[id]) = 0
  BY <1>1, <1>2, AddressAssumption DEF Balance
<1>4. Stakes' = Stakes
  BY SameTotals
<1>5. InFlight \in Int /\ (InFlight \in Int)'
  BY InFlightInt, PTL
<1>6. Balance(state'[id]) + InFlight' = Balance(state[id]) + InFlight + a
  <2> DEFINE x == InFlight
             y == InFlight'
  <2>1. d + y = x + a /\ x \in Int /\ y \in Int
    BY <1>5
  <2> HIDE DEF x, y, d
  <2>2. d + y = 0 + x + a
    BY <1>0, <2>1
  <2> QED BY <1>3, <2>2 DEF x, y
<1> HIDE DEF id
<1> QED BY <1>2, <1>4, <1>6, JobMove DEF id

\* Creating jobs: a deposit is in flight from the transfer to the insert.
LEMMA CreationBInv ==
  ASSUME IInv, IInv', FInv, BInv,
         \/ \E o \in world.owners, p \in world.job_params, d \in world.amounts :
               create_job(o, p, d)
         \/ \E o \in world.owners, b \in world.job_batches : create_jobs(o, b)
         \/ create_jobs_validate
         \/ create_jobs_transfer
         \/ create_jobs_insert
  PROVE  BInv'
<1>0. TypeOK /\ BooksBalance /\ BatchTotal /\ TreasuryShare /\ FeeToken \in Tokens
  BY DEF IInv, BInv, Tokens
<1>1. ASSUME NEW o \in world.owners, NEW p \in world.job_params, NEW d \in world.amounts,
             create_job(o, p, d)
      PROVE  BInv'
  <2> DEFINE new == [params |-> p, deposit |-> d]
  <2>1. /\ o \in Accounts /\ new \in NewJob /\ d \in Int /\ next_job_id \in JobIds
    <3>1. o \in Accounts /\ p \in JobParams /\ d \in I128 /\ world.jobs \in 0..MaxJobs
      BY WorldOK DEF IInv, WorldType
    <3>2. next_job_id \in JobIds
      BY <1>1, <3>1, BoundsAssumption DEF IInv, TypeOK, create_job, JobIds
    <3> QED BY <3>1, <3>2, ScheduleAssumption DEF NewJob, I128
  <2>2. /\ insert_job(o, new.params, new.deposit) /\ validate_job(new.params, new.deposit)
        /\ TransferIn(FeeToken, d) /\ tx = Idle /\ tx' = Idle
        /\ keepers' = keepers /\ config' = config
    BY <1>1 DEF create_job, keeperVars
  <2>3. Checked(new)
    BY <2>1, <2>2, ValidJob
  <2>4. held' = [held EXCEPT ![FeeToken] = @ + d]
    BY <1>0, <2>1, <2>2, Transfers
  <2>5. new.deposit + InFlight' = InFlight + d
    BY <2>1, <2>2, NoFlight
  <2> HIDE DEF new
  <2>6. BooksBalance'
    BY <1>0, <2>1, <2>2, <2>3, <2>4, <2>5, InsertMove
  <2> QED BY <1>0, <2>2, <2>6, NoFlight, TreasuryKept DEF BInv
<1>2. ASSUME NEW o \in world.owners, NEW b \in world.job_batches, create_jobs(o, b)
      PROVE  BInv'
  <2>1. /\ tx = Idle /\ tx'.call = "create_jobs" /\ ~ tx'.paid /\ tx'.total = 0 /\ tx'.i = 1
        /\ UNCHANGED <<config, state, keepers, held>>
    BY <1>2 DEF create_jobs, jobVars, keeperVars
  <2>2. InFlight' = InFlight
    BY <2>1, NoFlight DEF InFlight
  <2>3. BooksBalance'
    BY <1>0, <2>1, <2>2, SameTotals, NothingMoves
  <2>4. BatchTotal'
    <3> DEFINE f == [n \in 1..(tx'.i - 1) |-> (tx'.batch)[n].deposit]
    <3>1. DOMAIN f = {}
      BY <2>1
    <3> HIDE DEF f
    <3>2. SumFunction(f) = 0
      BY <3>1, SumEmpty
    <3> QED BY <2>1, <3>2 DEF BatchTotal, f
  <2> QED BY <1>0, <2>1, <2>3, <2>4, TreasuryKept DEF BInv
<1>3. CASE create_jobs_validate
  <2>1. /\ tx \in CreateJobsTx /\ tx.call = "create_jobs" /\ ~ tx.paid
        /\ tx.i <= Len(tx.batch) /\ UNCHANGED <<config, state, keepers, held>>
    BY <1>3, TxTypes DEF IInv, create_jobs_validate, jobVars, keeperVars
  <2>2. /\ tx.i \in Nat \ {0} /\ tx.batch \in Seq(NewJob) /\ Len(tx.batch) \in Nat
        /\ tx.total \in Int
    BY <2>1, ScheduleAssumption DEF CreateJobsTx, Amount
  <2>3. CASE tx' = Idle
    <3>1. InFlight' = InFlight
      BY <2>1, <2>3, NoFlight DEF InFlight
    <3> QED BY <1>0, <2>1, <2>3, <3>1, SameTotals, NothingMoves, NoFlight, TreasuryKept
            DEF BInv
  <2>4. CASE tx' # Idle
    <3> DEFINE new == tx.batch[tx.i]
    <3>1. tx' = [tx EXCEPT !.i = @ + 1, !.total = @ + new.deposit]
      BY <1>3, <2>4 DEF create_jobs_validate
    <3>2. /\ tx'.i = tx.i + 1 /\ tx'.batch = tx.batch /\ ~ tx'.paid
          /\ tx'.call = "create_jobs" /\ tx'.total = tx.total + new.deposit
      BY <2>1, <3>1 DEF CreateJobsTx
    <3>3. InFlight' = InFlight
      BY <2>1, <3>2 DEF InFlight
    <3> DEFINE A == 1..(tx.i - 1)
               B == 1..tx.i
               f == [n \in A |-> tx.batch[n].deposit]
               g == [n \in B |-> tx.batch[n].deposit]
    <3>4. /\ IsFiniteSet(A) /\ IsFiniteSet(B) /\ f \in [A -> Int] /\ g \in [B -> Int]
      <4>1. tx.i - 1 \in Nat /\ tx.i - 1 <= Len(tx.batch) /\ tx.i \in Nat /\ 1 \in Nat \ {0}
        BY <2>1, <2>2
      <4> QED BY <2>1, <2>2, <4>1, DepositSums
    <3>5. /\ A \ {tx.i} = B \ {tx.i} /\ tx.i \notin A /\ tx.i \in B
          /\ g[tx.i] = new.deposit /\ \A n \in A : g[n] = f[n]
      BY <2>2
    <3>6. tx.total = SumFunction(f)
      BY <1>0, <2>1 DEF BatchTotal
    <3>7. SumFunction(g) = SumFunction(f) + new.deposit
      <4> HIDE DEF A, B, f, g, new
      <4>1. /\ SumFunction(f) \in Int /\ SumFunction(g) \in Int
            /\ SumFunction(g) - g[tx.i] = SumFunction(f) - 0
        BY <3>4, <3>5, SumChange
      <4>2. g[tx.i] \in Int
        BY <3>4, <3>5
      <4> QED BY <3>5, <4>1, <4>2
    <3>8. BatchTotal'
      <4>1. tx'.i - 1 = tx.i
        BY <2>2, <3>2
      <4>2. tx'.total = SumFunction(g)
        BY <3>2, <3>6, <3>7
      <4> HIDE DEF new
      <4> QED BY <3>2, <4>1, <4>2 DEF BatchTotal
    <3> QED BY <1>0, <2>1, <3>2, <3>3, <3>8, SameTotals, NothingMoves, TreasuryKept DEF BInv
  <2> QED BY <2>3, <2>4
<1>4. CASE create_jobs_transfer
  <2>1. /\ tx \in CreateJobsTx /\ tx.call = "create_jobs" /\ ~ tx.paid
        /\ tx.i > Len(tx.batch) /\ UNCHANGED <<config, state, keepers>>
    BY <1>4, TxTypes DEF IInv, create_jobs_transfer, jobVars, keeperVars
  <2>2. /\ tx.i \in Nat \ {0} /\ Len(tx.batch) \in Nat /\ tx.total \in Int
        /\ tx.i - 1 = Len(tx.batch)
    <3>1. tx.i \in Nat \ {0} /\ Len(tx.batch) \in Nat /\ tx.total \in Int
      BY <2>1, ScheduleAssumption DEF CreateJobsTx, Amount
    <3>2. tx.i <= Len(tx.batch) + 1
      BY <2>1 DEF IInv, CreateJobsSound
    <3> QED BY <2>1, <3>1, <3>2
  <2>3. InFlight = 0
    BY <2>1 DEF InFlight
  <2>4. CASE tx' = Idle
    <3>1. held' = held
      BY <1>4, <2>1, <2>4 DEF create_jobs_transfer, CreateJobsTx, Idle
    <3> QED BY <1>0, <2>1, <2>3, <2>4, <3>1, SameTotals, NothingMoves, NoFlight, TreasuryKept
            DEF BInv
  <2>5. CASE tx' # Idle
    <3>1. TransferIn(FeeToken, tx.total) /\ tx' = [tx EXCEPT !.i = 1, !.paid = TRUE]
      BY <1>4, <2>5 DEF create_jobs_transfer
    <3>2. tx'.i = 1 /\ tx'.batch = tx.batch /\ tx'.paid /\ tx'.call = "create_jobs"
      BY <2>1, <3>1 DEF CreateJobsTx
    <3>3. InFlight' = tx.total
      <4>1. tx.total = SumFunction([n \in 1..Len(tx.batch) |-> tx.batch[n].deposit])
        BY <1>0, <2>1, <2>2 DEF BatchTotal
      <4> QED BY <3>2, <4>1 DEF InFlight
    <3>4. held' = [held EXCEPT ![FeeToken] = @ + tx.total]
      BY <1>0, <2>2, <3>1, Transfers
    <3>5. JobBalances' + InFlight' = JobBalances + InFlight + tx.total
      <4>1. JobBalances' = JobBalances /\ JobBalances \in Int
        BY <1>0, <2>1, SameTotals, TotalsInt
      <4> QED BY <2>2, <2>3, <3>3, <4>1
    <3>6. BooksBalance'
      BY <1>0, <2>1, <2>2, <3>4, <3>5, SameTotals, FeeMove
    <3>7. BatchTotal'
      BY <3>2 DEF BatchTotal
    <3> QED BY <1>0, <2>1, <3>2, <3>6, <3>7, TreasuryKept DEF BInv
  <2> QED BY <2>4, <2>5
<1>5. CASE create_jobs_insert
  <2> DEFINE new == tx.batch[tx.i]
  <2>1. /\ tx \in CreateJobsTx /\ tx.owner \in Accounts /\ tx.batch \in Seq(NewJob)
        /\ Len(tx.batch) \in Nat /\ tx.call = "create_jobs" /\ tx.paid
        /\ tx.i \in 1..Len(tx.batch) /\ next_job_id + (Len(tx.batch) - tx.i) < MaxJobs
        /\ UNCHANGED <<config, keepers, held>>
    BY <1>5, TxTypes
    DEF IInv, create_jobs_insert, CreateJobsTx, CreateJobsSound, keeperVars
  <2>2. new \in NewJob /\ Checked(new)
    <3>1. \A n \in 1..Len(tx.batch) : Checked(tx.batch[n])
      BY <2>1 DEF IInv, CreateJobsSound
    <3> QED BY <2>1, <3>1, ElementOfSeq
  <2>3. next_job_id \in JobIds
    BY <2>1, BoundsAssumption DEF IInv, TypeOK, JobIds
  <2>4. insert_job(tx.owner, new.params, new.deposit)
    BY <1>5 DEF create_jobs_insert
  <2>5. held' = [held EXCEPT ![FeeToken] = @ + 0]
    BY <1>0, <2>1, Transfers
  <2> DEFINE A == tx.i..Len(tx.batch)
             B == (tx.i + 1)..Len(tx.batch)
             f == [n \in A |-> tx.batch[n].deposit]
             g == [n \in B |-> tx.batch[n].deposit]
  <2>6. /\ IsFiniteSet(A) /\ IsFiniteSet(B) /\ f \in [A -> Int] /\ g \in [B -> Int]
    <3>1. /\ tx.i \in Nat \ {0} /\ tx.i + 1 \in Nat \ {0}
          /\ Len(tx.batch) <= Len(tx.batch)
      BY <2>1
    <3> QED BY <2>1, <3>1, DepositSums
  <2>7. /\ A \ {tx.i} = B \ {tx.i} /\ tx.i \in A /\ tx.i \notin B
        /\ f[tx.i] = new.deposit /\ \A n \in A \ {tx.i} : g[n] = f[n]
    BY <2>1
  <2>8. SumFunction(g) = SumFunction(f) - new.deposit /\ SumFunction(f) \in Int
    <3> HIDE DEF A, B, f, g, new
    <3>1. /\ SumFunction(f) \in Int /\ SumFunction(g) \in Int
          /\ SumFunction(g) - 0 = SumFunction(f) - f[tx.i]
      BY <2>6, <2>7, SumChange
    <3>2. f[tx.i] \in Int
      BY <2>6, <2>7
    <3> QED BY <2>7, <3>1, <3>2
  <2>9. InFlight = SumFunction(f)
    BY <2>1 DEF InFlight
  <2>10. InFlight' = SumFunction(g) /\ BatchTotal' /\ (tx' = Idle \/ tx'.call # "execute_batch")
    <3>1. CASE tx.i = Len(tx.batch)
      <4>1. tx' = Idle
        BY <1>5, <3>1 DEF create_jobs_insert
      <4>2. DOMAIN g = {}
        BY <2>1, <3>1
      <4> HIDE DEF g
      <4>3. SumFunction(g) = 0
        BY <4>2, SumEmpty
      <4> QED BY <4>1, <4>3, NoFlight
    <3>2. CASE tx.i # Len(tx.batch)
      <4>1. tx' = [tx EXCEPT !.i = @ + 1]
        BY <1>5, <3>2 DEF create_jobs_insert
      <4>2. tx'.i = tx.i + 1 /\ tx'.batch = tx.batch /\ tx'.paid /\ tx'.call = "create_jobs"
        BY <2>1, <4>1 DEF CreateJobsTx
      <4> QED BY <4>2 DEF InFlight, BatchTotal
    <3> QED BY <3>1, <3>2
  <2>11. new.deposit + InFlight' = InFlight + 0
    <3>1. new.deposit \in Int
      BY <2>6, <2>7
    <3> HIDE DEF f, g, new
    <3> QED BY <2>8, <2>9, <2>10, <3>1
  <2>12. BooksBalance'
    <3>1. 0 \in Int
      OBVIOUS
    <3> HIDE DEF new
    <3> QED BY <1>0, <2>1, <2>2, <2>3, <2>4, <2>5, <2>11, <3>1, InsertMove
  <2> QED BY <1>0, <2>1, <2>10, <2>12, TreasuryKept DEF BInv
<1> QED BY <1>1, <1>2, <1>3, <1>4, <1>5

\* Between calls, a job's balance changes by what is transferred.
LEMMA IdleJobMove ==
  ASSUME IInv, IInv', BInv, tx = Idle, tx' = tx, keepers' = keepers, config' = config,
         NEW j \in JobIds, \A i \in JobIds \ {j} : state'[i] = state[i],
         NEW a \in Int, held' = [held EXCEPT ![FeeToken] = @ + a],
         Balance(state'[j]) = Balance(state[j]) + a
  PROVE  BInv'
<1>1. BooksBalance /\ TreasuryShare /\ InFlight = 0 /\ InFlight' = 0 /\ BatchTotal'
  BY NoFlight DEF BInv
<1>2. Stakes' = Stakes
  BY SameTotals
<1>3. Balance(state[j]) \in Int
  BY ScheduleAssumption DEF IInv, TypeOK, Option, Balance, JobState, Amount
<1>4. Balance(state'[j]) + InFlight' = Balance(state[j]) + InFlight + a
  <2> DEFINE p == Balance(state[j])
             q == Balance(state'[j])
  <2>1. q = p + a /\ p \in Int
    BY <1>3
  <2> HIDE DEF p, q
  <2>2. q + 0 = p + 0 + a
    BY <2>1
  <2> QED BY <1>1, <2>2 DEF p, q
<1>5. BooksBalance'
  BY <1>1, <1>2, <1>4, JobMove
<1> QED BY <1>1, <1>5, TreasuryKept DEF BInv

\* The calls about one job.
LEMMA JobBInv ==
  ASSUME IInv, IInv', FInv, BInv, JobCall
  PROVE  BInv'
<1>0. /\ TypeOK /\ PartsTogether /\ FeeToken \in Tokens
      /\ \A a \in world.amounts : a \in Int
      /\ state \in [JobIds -> Option(JobState)] /\ state' \in [JobIds -> Option(JobState)]
  BY WorldOK, ScheduleAssumption DEF IInv, WorldType, I128, Tokens, TypeOK
<1>l. ASSUME NEW j \in JobIds, Live(j)
      PROVE  state[j] \in JobState /\ state[j] # None /\ state[j].balance \in Int
             /\ Balance(state[j]) = state[j].balance
  <2>1. state[j] \in JobState
    BY <1>0, <1>l, LiveParts
  <2> QED BY <2>1, AddressAssumption, ScheduleAssumption DEF JobState, Amount, Balance
<1>z. 0 \in Int
  OBVIOUS
<1>1. ASSUME NEW j \in JobIds, NEW u \in world.job_updates, update_job(j, u) PROVE BInv'
  <2>1. Live(j) /\ UNCHANGED <<tx, keepers, config, held>> /\ tx = Idle
    BY <1>1 DEF update_job, keeperVars
  <2>2. /\ \A i \in JobIds \ {j} : state'[i] = state[i]
        /\ state'[j].balance = state[j].balance
    <3>1. PICK n, l : state' = [state EXCEPT ![j] = [@ EXCEPT !.next_run = n, !.leader_runs = l]]
      BY <1>0, <1>1 DEF update_job
    <3> QED BY <1>0, <1>l, <2>1, <3>1 DEF JobState
  <2>3. state'[j] # None
    BY <1>1, UpdateJobIInv, AddressAssumption
  <2>4. held' = [held EXCEPT ![FeeToken] = @ + 0]
    BY <1>0, <1>z, <2>1, Transfers
  <2>5. Balance(state'[j]) = Balance(state[j]) + 0
    BY <1>l, <2>1, <2>2, <2>3 DEF Balance
  <2> QED BY <1>z, <2>1, <2>2, <2>4, <2>5, IdleJobMove
<1>2. ASSUME NEW j \in JobIds, NEW a \in world.amounts, fund_job(j, a) PROVE BInv'
  <2>1. /\ Live(j) /\ UNCHANGED <<tx, keepers, config>> /\ tx = Idle
        /\ TransferIn(FeeToken, a) /\ state' = [state EXCEPT ![j].balance = @ + a]
        /\ a > 0 /\ state[j].balance + a <= I128Max
    BY <1>2 DEF fund_job, keeperVars
  <2>2. state'[j] = [state[j] EXCEPT !.balance = @ + a] /\ state[j] \in JobState
    BY <1>0, <1>l, <2>1
  <2>3. state[j].balance + a \in Amount
    BY <1>0, <2>1, <2>2, ScheduleAssumption DEF JobState, Amount
  <2>4. state'[j] \in JobState /\ state'[j].balance = state[j].balance + a
    BY <2>2, <2>3 DEF JobState
  <2>5. Balance(state'[j]) = Balance(state[j]) + a
    BY <1>l, <2>1, <2>4, AddressAssumption DEF Balance
  <2>6. held' = [held EXCEPT ![FeeToken] = @ + a]
    BY <1>0, <2>1, Transfers
  <2>7. \A i \in JobIds \ {j} : state'[i] = state[i]
    BY <1>0, <2>1
  <2> QED BY <1>0, <2>1, <2>5, <2>6, <2>7, IdleJobMove
<1>3. ASSUME NEW j \in JobIds, NEW a \in world.amounts, withdraw_job_balance(j, a)
      PROVE  BInv'
  <2>1. /\ Live(j) /\ UNCHANGED <<tx, keepers, config>> /\ tx = Idle
        /\ TransferOut(FeeToken, a) /\ state' = [state EXCEPT ![j].balance = @ - a]
        /\ a > 0 /\ a <= state[j].balance
    BY <1>3 DEF withdraw_job_balance, keeperVars
  <2>2. state'[j] = [state[j] EXCEPT !.balance = @ - a] /\ state[j] \in JobState
    BY <1>0, <1>l, <2>1
  <2>3. state[j].balance - a \in Amount /\ state[j].balance - a = state[j].balance + (- a)
    BY <1>0, <2>1, <2>2, ScheduleAssumption DEF JobState, Amount
  <2>4. state'[j] \in JobState /\ state'[j].balance = state[j].balance + (- a)
    BY <2>2, <2>3 DEF JobState
  <2>5. Balance(state'[j]) = Balance(state[j]) + (- a)
    BY <1>l, <2>1, <2>4, AddressAssumption DEF Balance
  <2>6. held' = [held EXCEPT ![FeeToken] = @ + (- a)] /\ - a \in Int
    BY <1>0, <2>1, Transfers
  <2>7. \A i \in JobIds \ {j} : state'[i] = state[i]
    BY <1>0, <2>1
  <2> QED BY <2>1, <2>5, <2>6, <2>7, IdleJobMove
<1>4. ASSUME NEW j \in JobIds, cancel_job(j) PROVE BInv'
  <2> DEFINE a == state[j].balance
  <2>1. /\ Live(j) /\ UNCHANGED <<tx, keepers, config>> /\ tx = Idle
        /\ TransferOut(FeeToken, a) /\ state' = [state EXCEPT ![j] = None]
    BY <1>4 DEF cancel_job, keeperVars
  <2>2. a \in Int /\ Balance(state[j]) = a /\ - a \in Int
    BY <1>l, <2>1
  <2>3. Balance(state'[j]) = Balance(state[j]) + (- a)
    BY <1>0, <2>1, <2>2 DEF Balance
  <2>4. held' = [held EXCEPT ![FeeToken] = @ + (- a)]
    BY <1>0, <2>1, <2>2, Transfers
  <2>5. \A i \in JobIds \ {j} : state'[i] = state[i]
    BY <1>0, <2>1
  <2> QED BY <2>1, <2>2, <2>3, <2>4, <2>5, IdleJobMove
<1>5. ASSUME NEW j \in JobIds, NEW f \in world.active_flags, set_job_active(j, f)
      PROVE  BInv'
  <2>1. /\ Live(j) /\ UNCHANGED <<tx, keepers, config, held>> /\ tx = Idle
        /\ f \in BOOLEAN
    BY <1>5, WorldOK DEF set_job_active, keeperVars, IInv, WorldType
  <2> DEFINE st == [state[j] EXCEPT !.active = f, !.failures = IF f THEN 0 ELSE @]
  <2>2. state[j] \in JobState /\ (IF f THEN 0 ELSE state[j].failures) \in U32
    BY <1>l, <2>1, BoundsAssumption DEF JobState, U32
  <2>3. state' = [state EXCEPT ![j] = st]
    BY <1>0, <1>5, <2>1, <2>2 DEF set_job_active, TypeOK, JobState
  <2>9. st \in JobState /\ st.balance = state[j].balance
    BY <2>1, <2>2 DEF JobState
  <2> HIDE DEF st
  <2>4. state'[j] \in JobState /\ state'[j].balance = state[j].balance
    BY <1>0, <2>3, <2>9
  <2>5. Balance(state'[j]) = Balance(state[j]) + 0
    BY <1>l, <2>1, <2>4, AddressAssumption DEF Balance
  <2>6. held' = [held EXCEPT ![FeeToken] = @ + 0]
    BY <1>0, <1>z, <2>1, Transfers
  <2>7. \A i \in JobIds \ {j} : state'[i] = state[i]
    BY <1>0, <2>3
  <2> QED BY <1>z, <2>1, <2>5, <2>6, <2>7, IdleJobMove
<1>6. ASSUME NEW j \in JobIds,
             \/ \E o \in world.new_owners : propose_job_owner(j, o)
             \/ accept_job_owner(j)
      PROVE  BInv'
  <2>1. tx = Idle /\ UNCHANGED <<tx, keepers, config, held, state>>
    BY <1>6 DEF propose_job_owner, accept_job_owner, keeperVars
  <2> QED BY <2>1, SameTotals, NoFlight, NothingMoves, TreasuryKept DEF BInv
<1> QED BY <1>1, <1>2, <1>3, <1>4, <1>5, <1>6, CreationBInv DEF JobCall

\* Runs, alone and in a batch.
LEMMA ExecuteBInv ==
  ASSUME IInv, IInv', BatchRecordCurrent, BInv, ExecuteCall
  PROVE  BInv'
<1>0. /\ TypeOK /\ PartsTogether /\ FeeToken \in Tokens /\ BooksBalance /\ TreasuryShare
      /\ state \in [JobIds -> Option(JobState)] /\ state' \in [JobIds -> Option(JobState)]
      /\ keepers \in [Keepers -> Option(Keeper)]
  BY DEF IInv, BInv, Tokens, TypeOK
<1>1. ASSUME NEW k \in Keepers, NEW j \in JobIds, NEW success \in BOOLEAN,
             execute(k, j, success)
      PROVE  BInv'
  <2> DEFINE m == missed_by(j, k)
             ks == IF m = None THEN keepers ELSE record_miss(m, keepers)
             fees == split_fee(run_fee(j), config.protocol_fee_bps)
             paid == fees.rest + (IF config.treasury = None THEN 0 ELSE fees.share)
  <2>1. PICK verdict \in Verdicts(j) : can_run(k, j, verdict)
    BY <1>1 DEF execute
  <2>2. /\ tx = Idle /\ UNCHANGED <<tx, config>> /\ Live(j) /\ keepers[k] # None
        /\ state' = [state EXCEPT ![j] = state_after_run(j, success)]
        /\ keepers' = [ks EXCEPT ![k] = info_after_run(keepers[k], j)]
        /\ TransferOut(FeeToken, paid)
    BY <1>1 DEF execute, settle, can_run, authorize_keeper, Eligible
  <2>3. /\ Balance(state_after_run(j, success)) = Balance(state[j]) - (fees.rest + fees.share)
        /\ Balance(state[j]) \in Int /\ fees.rest \in Int /\ fees.share \in Int
        /\ config.protocol_fee_bps = 0 => fees.share = 0
    BY <2>1, FeesBooked
  <2>4. Stakes' = Stakes
    <3>1. ASSUME NEW x \in Keepers
          PROVE  /\ ks \in [Keepers -> Option(Keeper)] /\ (ks[x] = None <=> keepers[x] = None)
                 /\ keepers[x] # None => ks[x].stake = keepers[x].stake
      BY <2>2, RecordMissKeeps
    <3>2. /\ keepers[k] \in Keeper /\ info_after_run(keepers[k], j) \in Keeper
          /\ info_after_run(keepers[k], j).stake = keepers[k].stake
      <4>1. keepers[k] \in Keeper /\ state[j] \in JobState /\ recent[k] \in KeeperRecent
        BY <1>0, <2>2, LiveParts DEF Option, TypeOK
      <4>2. info_after_run(keepers[k], j) \in Keeper
        BY <1>0, <4>1, RecordTypes
      <4> QED BY <4>1, <4>2 DEF info_after_run, Keeper
    <3>3. info_after_run(keepers[k], j) # None
      BY <3>2, AddressAssumption
    <3> HIDE DEF ks
    <3>4. \A x \in Keepers : (keepers'[x] = None) <=> (keepers[x] = None)
      BY <2>2, <3>1, <3>3
    <3>5. \A x \in Keepers : keepers[x] # None => keepers'[x].stake = keepers[x].stake
      BY <2>2, <3>1, <3>2
    <3> QED BY <3>4, <3>5, StakesKept
  <2>5. paid = fees.rest + fees.share /\ paid \in Int
    <3>1. config.treasury = None => fees.share = 0
      BY <1>0, <2>3 DEF TreasuryShare
    <3> HIDE DEF fees
    <3> QED BY <2>3, <3>1
  <2>6. held' = [held EXCEPT ![FeeToken] = @ + (- paid)] /\ - paid \in Int
    <3> HIDE DEF paid
    <3> QED BY <1>0, <2>2, <2>5, Transfers
  <2>7. InFlight = 0 /\ InFlight' = 0 /\ BatchTotal'
    BY <2>2, NoFlight
  <2>8. /\ state'[j] = state_after_run(j, success)
        /\ \A i \in JobIds \ {j} : state'[i] = state[i]
    BY <1>0, <2>2
  <2>9. Balance(state'[j]) + InFlight' = Balance(state[j]) + InFlight + (- paid)
    <3> DEFINE p == Balance(state[j])
    <3> HIDE DEF paid
    <3>1. Balance(state'[j]) = p - paid /\ p \in Int
      BY <2>3, <2>5, <2>8
    <3> HIDE DEF p
    <3>2. p - paid + 0 = p + 0 + (- paid)
      BY <2>5, <3>1
    <3> QED BY <2>7, <3>1, <3>2 DEF p
  <2>10. BooksBalance'
    <3> HIDE DEF paid
    <3> QED BY <1>0, <2>4, <2>6, <2>8, <2>9, JobMove
  <2> QED BY <1>0, <2>2, <2>7, <2>10, TreasuryKept DEF BInv
<1>2. ASSUME NEW k \in Keepers, NEW ids \in world.run_batches, execute_batch(k, ids)
      PROVE  BInv'
  <2>1. /\ tx = Idle /\ tx'.call = "execute_batch" /\ tx'.keeper_fees = 0
        /\ tx'.protocol_fees = 0 /\ UNCHANGED <<config, state, keepers, held>>
    BY <1>2 DEF execute_batch, jobVars, keeperVars
  <2>2. InFlight' = InFlight /\ BatchTotal'
    BY <2>1, NoFlight DEF InFlight, BatchTotal
  <2>3. TreasuryShare'
    BY <1>0, <2>1 DEF TreasuryShare
  <2> QED BY <1>0, <2>1, <2>2, <2>3, SameTotals, NothingMoves DEF BInv
<1>3. ASSUME NEW success \in BOOLEAN, execute_batch_run(success) PROVE BInv'
  <2> DEFINE j == Head(tx.todo)
             k == tx.keeper
             m == missed_by(j, k)
             ks == IF m = None THEN keepers ELSE record_miss(m, keepers)
             fees == split_fee(run_fee(j), config.protocol_fee_bps)
  <2>1. PICK verdict \in Verdicts(j) : can_run(k, j, verdict)
    BY <1>3 DEF execute_batch_run
  <2>2. /\ tx \in ExecuteBatchTx /\ tx.call = "execute_batch" /\ k \in Keepers
        /\ tx.keeper_fees \in Int /\ tx.protocol_fees \in Int
    BY <1>3, TxTypes, ScheduleAssumption DEF IInv, execute_batch_run, ExecuteBatchTx, Amount
  <2>3. /\ UNCHANGED <<held, config>> /\ Live(j) /\ j \in JobIds
        /\ state' = [state EXCEPT ![j] = state_after_run(j, success)]
        /\ keepers' = ks
    BY <1>3 DEF execute_batch_run, can_run, Live
  <2>4. /\ tx'.call = "execute_batch" /\ tx'.keeper_fees = tx.keeper_fees + fees.rest
        /\ tx'.protocol_fees = tx.protocol_fees + fees.share
    <3>1. \E t, i, r : tx' = [tx EXCEPT !.todo = t, !.info = i, !.recent = r,
                                        !.keeper_fees = @ + fees.rest,
                                        !.protocol_fees = @ + fees.share]
      BY <1>3 DEF execute_batch_run
    <3> HIDE DEF fees
    <3> QED BY <2>2, <3>1 DEF ExecuteBatchTx
  <2>5. /\ Balance(state_after_run(j, success)) = Balance(state[j]) - (fees.rest + fees.share)
        /\ Balance(state[j]) \in Int /\ fees.rest \in Int /\ fees.share \in Int
        /\ config.protocol_fee_bps = 0 => fees.share = 0
    <3> HIDE DEF j
    <3> QED BY <2>1, <2>3, FeesBooked
  <2>6. Stakes' = Stakes
    <3>1. ASSUME NEW x \in Keepers
          PROVE  /\ (ks[x] = None <=> keepers[x] = None)
                 /\ keepers[x] # None => ks[x].stake = keepers[x].stake
      <4> HIDE DEF j, k
      <4> QED BY <2>2, <2>3, RecordMissKeeps
    <3> HIDE DEF ks
    <3>2. /\ \A x \in Keepers : (keepers'[x] = None) <=> (keepers[x] = None)
          /\ \A x \in Keepers : keepers[x] # None => keepers'[x].stake = keepers[x].stake
      BY <2>3, <3>1
    <3> QED BY <3>2, StakesKept
  <2> HIDE DEF j, k, fees
  <2>7. /\ state'[j] = state_after_run(j, success)
        /\ \A i \in JobIds \ {j} : state'[i] = state[i]
    BY <1>0, <2>3
  <2>8. Balance(state'[j]) + InFlight' = Balance(state[j]) + InFlight + 0
    <3> DEFINE p == Balance(state[j])
    <3>1. /\ InFlight = tx.keeper_fees + tx.protocol_fees
          /\ InFlight' = (tx.keeper_fees + fees.rest) + (tx.protocol_fees + fees.share)
      BY <2>2, <2>4 DEF InFlight
    <3>2. Balance(state'[j]) = p - (fees.rest + fees.share) /\ p \in Int
      BY <2>5, <2>7
    <3> HIDE DEF p
    <3>3. p - (fees.rest + fees.share) + ((tx.keeper_fees + fees.rest) + (tx.protocol_fees + fees.share))
            = p + (tx.keeper_fees + tx.protocol_fees) + 0
      BY <2>2, <2>5, <3>2
    <3> QED BY <3>1, <3>2, <3>3 DEF p
  <2>9. held' = [held EXCEPT ![FeeToken] = @ + 0] /\ 0 \in Int
    <3>1. 0 \in Int
      OBVIOUS
    <3> QED BY <1>0, <2>3, <3>1, Transfers
  <2>10. BooksBalance'
    BY <1>0, <2>3, <2>6, <2>7, <2>8, <2>9, JobMove
  <2>11. TreasuryShare'
    BY <1>0, <2>2, <2>3, <2>4, <2>5 DEF TreasuryShare
  <2>12. BatchTotal'
    BY <2>4 DEF BatchTotal
  <2> QED BY <2>10, <2>11, <2>12 DEF BInv
<1>4. CASE execute_batch_skip
  <2>1. /\ tx \in ExecuteBatchTx /\ tx.call = "execute_batch"
        /\ UNCHANGED <<config, state, keepers, held>>
        /\ tx' = [tx EXCEPT !.todo = Tail(@)]
    BY <1>4, TxTypes DEF IInv, execute_batch_skip, jobVars, keeperVars
  <2>2. /\ tx'.call = tx.call /\ tx'.keeper_fees = tx.keeper_fees
        /\ tx'.protocol_fees = tx.protocol_fees
    BY <2>1 DEF ExecuteBatchTx
  <2>3. InFlight' = InFlight /\ BatchTotal' /\ TreasuryShare'
    BY <1>0, <2>1, <2>2 DEF InFlight, BatchTotal, TreasuryShare
  <2> QED BY <1>0, <2>1, <2>3, SameTotals, NothingMoves DEF BInv
<1>5. CASE execute_batch_settle
  <2> DEFINE paid == tx.keeper_fees + (IF config.treasury = None THEN 0 ELSE tx.protocol_fees)
  <2>1. /\ tx.call = "execute_batch" /\ tx.keeper \in Keepers /\ tx.info \in Keeper
        /\ tx.keeper_fees \in Int /\ tx.protocol_fees \in Int
    BY <1>5, TxTypes, ScheduleAssumption
    DEF IInv, execute_batch_settle, ExecuteBatchTx, Amount
  <2>2. /\ tx' = Idle /\ UNCHANGED <<config, state>>
        /\ keepers' = [keepers EXCEPT ![tx.keeper] = tx.info]
        /\ TransferOut(FeeToken, paid)
    BY <1>5 DEF execute_batch_settle, settle, jobVars
  <2>3. Stakes' = Stakes
    <3>1. keepers[tx.keeper] # None /\ tx.info.stake = keepers[tx.keeper].stake
      BY <2>1 DEF BatchRecordCurrent
    <3>2. tx.info # None
      BY <2>1, AddressAssumption
    <3>3. /\ \A x \in Keepers : (keepers'[x] = None) <=> (keepers[x] = None)
          /\ \A x \in Keepers : keepers[x] # None => keepers'[x].stake = keepers[x].stake
      BY <1>0, <2>1, <2>2, <3>1, <3>2
    <3> QED BY <3>3, StakesKept
  <2>4. InFlight = paid /\ paid \in Int
    BY <1>0, <2>1 DEF InFlight, TreasuryShare
  <2> HIDE DEF paid
  <2>5. held' = [held EXCEPT ![FeeToken] = @ + (- paid)] /\ - paid \in Int
    BY <1>0, <2>2, <2>4, Transfers
  <2>6. InFlight' = 0 /\ BatchTotal'
    BY <2>2, NoFlight
  <2>7. JobBalances' + InFlight' = JobBalances + InFlight + (- paid)
    <3>1. JobBalances' = JobBalances /\ JobBalances \in Int
      BY <1>0, <2>2, SameTotals, TotalsInt
    <3> QED BY <2>4, <2>6, <3>1
  <2>8. BooksBalance'
    BY <1>0, <2>3, <2>5, <2>7, FeeMove
  <2> QED BY <1>0, <2>2, <2>6, <2>8, TreasuryKept DEF BInv
<1> QED BY <1>1, <1>2, <1>3, <1>4, <1>5 DEF ExecuteCall

\* A stake comes in or goes out with the record's change.
LEMMA KeeperMove ==
  ASSUME IInv, IInv', BInv, tx.call \notin {"create_jobs", "execute_batch"},
         tx'.call \notin {"create_jobs", "execute_batch"}, UNCHANGED <<config, state>>,
         NEW k \in Keepers, \A x \in Keepers \ {k} : keepers'[x] = keepers[x],
         NEW a \in Int, held' = [held EXCEPT ![StakeToken] = @ + a],
         StakeOf(keepers'[k]) = StakeOf(keepers[k]) + a
  PROVE  BInv'
<1>1. /\ BooksBalance /\ TreasuryShare /\ InFlight' = InFlight /\ BatchTotal'
      /\ JobBalances' = JobBalances
  BY NoFlight, SameTotals DEF BInv
<1>2. Stakes \in Int /\ Stakes' = Stakes + StakeOf(keepers'[k]) - StakeOf(keepers[k])
  BY StakeChange DEF IInv
<1>3. StakeOf(keepers[k]) \in Int
  BY ScheduleAssumption DEF IInv, TypeOK, Option, StakeOf, Keeper, Amount
<1>4. Stakes' = Stakes + a
  BY <1>2, <1>3
<1>5. BooksBalance'
  BY <1>1, <1>4, StakeMove
<1> QED BY <1>1, <1>5, TreasuryKept DEF BInv

\* Stakes, their release, slashes and restitution.
LEMMA KeeperBInv ==
  ASSUME IInv, IInv', BInv, KeeperCall
  PROVE  BInv'
<1>0. /\ TypeOK /\ StakeToken \in Tokens /\ keepers \in [Keepers -> Option(Keeper)]
      /\ keepers' \in [Keepers -> Option(Keeper)] /\ 0 \in Int
  BY DEF IInv, TypeOK, Tokens
<1>1. ASSUME NEW k \in world.stakers, NEW a \in world.stakes, stake(k, a) PROVE BInv'
  <2> DEFINE info == IF keepers[k] = None THEN NewKeeper ELSE keepers[k]
  <2>1. k \in Keepers /\ a \in I128 /\ a \in Int
    BY WorldOK, ScheduleAssumption DEF IInv, WorldType, I128
  <2>2. /\ tx = Idle /\ tx' = Idle /\ UNCHANGED <<config, state>>
        /\ TransferIn(StakeToken, a) /\ a > 0 /\ info.stake + a <= I128Max
        /\ keepers' = [keepers EXCEPT ![k] = [info EXCEPT !.stake = @ + a]]
    BY <1>1 DEF stake, jobVars
  <2>3. info \in Keeper /\ info.stake = StakeOf(keepers[k])
    <3>1. NewKeeper \in Keeper
      BY ScheduleAssumption, BoundsAssumption
      DEF NewKeeper, Keeper, Amount, Option, U32, U64
    <3> QED BY <1>0, <2>1, <3>1 DEF Option, StakeOf, NewKeeper
  <2> HIDE DEF info
  <2>4. info.stake + a \in Amount
    BY <2>1, <2>2, <2>3, ScheduleAssumption DEF Keeper, Amount
  <2>5. keepers'[k] = [info EXCEPT !.stake = @ + a]
    BY <1>0, <2>1, <2>2
  <2>6. keepers'[k] \in Keeper /\ keepers'[k].stake = info.stake + a
    BY <2>3, <2>4, <2>5 DEF Keeper
  <2>7. StakeOf(keepers'[k]) = StakeOf(keepers[k]) + a
    <3>1. StakeOf(keepers'[k]) = keepers'[k].stake
      BY <2>6, AddressAssumption DEF StakeOf
    <3> QED BY <2>3, <2>6, <3>1
  <2>8. held' = [held EXCEPT ![StakeToken] = @ + a]
    BY <1>0, <2>1, <2>2, Transfers
  <2>9. \A x \in Keepers \ {k} : keepers'[x] = keepers[x]
    BY <1>0, <2>2
  <2>10. tx.call \notin {"create_jobs", "execute_batch"}
         /\ tx'.call \notin {"create_jobs", "execute_batch"}
    BY <2>2 DEF Idle
  <2> QED BY <2>1, <2>2, <2>7, <2>8, <2>9, <2>10, KeeperMove
<1>2. ASSUME NEW k \in world.unbonders, begin_unbonding(k) PROVE BInv'
  <2>1. /\ k \in Keepers /\ tx = Idle /\ tx' = Idle /\ UNCHANGED <<config, state, held>>
        /\ keepers[k] # None
        /\ \E r : keepers' = [keepers EXCEPT ![k].unbonding_at = r]
    BY <1>2, WorldOK DEF IInv, WorldType, begin_unbonding, jobVars
  <2>2. now \in U64 /\ config.unbonding_epoch \in Nat
    BY NowU64, EpochType, ScheduleAssumption DEF IInv, U64
  <2>3. /\ keepers[k] \in Keeper
        /\ keepers'[k] = [keepers[k] EXCEPT !.unbonding_at =
               unbonding_release(now, UnbondingPeriod, config.unbonding_epoch)]
    BY <1>0, <1>2, <2>1 DEF begin_unbonding, Option
  <2>4. unbonding_release(now, UnbondingPeriod, config.unbonding_epoch) \in U64
    BY <2>2, ReleaseType
  <2>5. keepers'[k] \in Keeper /\ keepers'[k].stake = keepers[k].stake
    BY <2>3, <2>4 DEF Keeper, Option
  <2>6. keepers'[k] # None
    BY <2>5, AddressAssumption
  <2>7. /\ \A x \in Keepers : (keepers'[x] = None) <=> (keepers[x] = None)
        /\ \A x \in Keepers : keepers[x] # None => keepers'[x].stake = keepers[x].stake
    BY <1>0, <2>1, <2>5, <2>6
  <2>8. Stakes' = Stakes
    BY <2>7, StakesKept
  <2> QED BY <2>1, <2>8, SameTotals, NoFlight, NothingMoves, TreasuryKept DEF BInv
<1>3. ASSUME NEW k \in Keepers, Withdrawable(k), release_stake(k),
             tx.call \notin {"create_jobs", "execute_batch"},
             tx'.call \notin {"create_jobs", "execute_batch"}, UNCHANGED <<config, state>>
      PROVE  BInv'
  <2> DEFINE a == keepers[k].stake
  <2>1. /\ keepers' = [keepers EXCEPT ![k] = None] /\ TransferOut(StakeToken, a)
        /\ keepers[k] # None
    BY <1>3 DEF release_stake, Withdrawable
  <2>2. keepers[k] \in Keeper
    BY <1>0, <2>1 DEF Option
  <2>3. a \in Int /\ - a \in Int
    BY <2>2, ScheduleAssumption DEF Keeper, Amount
  <2>4. StakeOf(keepers[k]) = a /\ StakeOf(keepers'[k]) = 0
    BY <1>0, <2>1 DEF StakeOf
  <2> HIDE DEF a
  <2>5. held' = [held EXCEPT ![StakeToken] = @ + (- a)]
    BY <1>0, <2>1, <2>3, Transfers
  <2>6. StakeOf(keepers'[k]) = StakeOf(keepers[k]) + (- a)
    BY <2>3, <2>4
  <2>7. \A x \in Keepers \ {k} : keepers'[x] = keepers[x]
    BY <1>0, <2>1
  <2> QED BY <1>3, <2>3, <2>5, <2>6, <2>7, KeeperMove
<1>4. ASSUME NEW k \in Keepers, withdraw_stake(k) PROVE BInv'
  <2>1. /\ tx = Idle /\ tx' = Idle /\ Withdrawable(k) /\ release_stake(k)
        /\ UNCHANGED <<config, state>>
    BY <1>4 DEF withdraw_stake, jobVars
  <2> QED BY <1>3, <2>1 DEF Idle
<1>5. ASSUME NEW list \in world.stake_batches, withdraw_stakes(list) PROVE BInv'
  <2>1. tx = Idle /\ tx'.call = "withdraw_stakes" /\ UNCHANGED <<config, state, keepers, held>>
    BY <1>5 DEF withdraw_stakes, jobVars, keeperVars
  <2> QED BY <2>1, SameTotals, NoFlight, NothingMoves, TreasuryKept DEF BInv
<1>6. CASE withdraw_stakes_next
  <2>1. /\ tx \in WithdrawStakesTx /\ tx.call = "withdraw_stakes" /\ Head(tx.todo) \in Keepers
        /\ UNCHANGED <<config, state>>
    BY <1>6, TxTypes, HeadTailProperties
    DEF IInv, WithdrawStakesSound, WithdrawStakesTx, withdraw_stakes_next, jobVars
  <2>2. tx'.call \notin {"create_jobs", "execute_batch"}
    BY <1>6, <2>1 DEF withdraw_stakes_next, WithdrawStakesTx, Idle
  <2>3. CASE Withdrawable(Head(tx.todo))
    <3>1. release_stake(Head(tx.todo))
      BY <1>6, <2>3 DEF withdraw_stakes_next
    <3> QED BY <1>3, <2>1, <2>2, <2>3, <3>1
  <2>4. CASE ~ Withdrawable(Head(tx.todo))
    <3>1. UNCHANGED <<keepers, held>>
      BY <1>6, <2>4 DEF withdraw_stakes_next
    <3> QED BY <2>1, <2>2, <3>1, SameTotals, NoFlight, NothingMoves, TreasuryKept DEF BInv
  <2> QED BY <2>3, <2>4
<1> QED BY <1>1, <1>2, <1>4, <1>5, <1>6 DEF KeeperCall

\* Administration and time.
LEMMA OtherBInv ==
  ASSUME IInv, IInv', BInv, AdminCall \/ Ledger \/ UNCHANGED vars
  PROVE  BInv'
<1>1. ASSUME NEW f \in world.protocol_fees, set_protocol_fee(f[1], f[2]) PROVE BInv'
  <2>1. f[1] \in Nat /\ config \in Config
    BY WorldOK, BoundsAssumption DEF IInv, WorldType, U32, TypeOK
  <2>2. /\ tx = Idle /\ tx' = Idle /\ UNCHANGED <<state, keepers, held>>
        /\ (f[1] > 0 => f[2] # None)
        /\ config' = [config EXCEPT !.protocol_fee_bps = f[1], !.treasury = f[2]]
    BY <1>1 DEF set_protocol_fee, protocol_fee_valid, jobVars, keeperVars
  <2>3. config'.protocol_fee_bps = f[1] /\ config'.treasury = f[2]
    BY <2>1, <2>2 DEF Config
  <2>4. TreasuryShare'
    BY <2>1, <2>2, <2>3 DEF TreasuryShare, Idle
  <2> QED BY <2>2, <2>4, SameTotals, NoFlight, NothingMoves DEF BInv
<1>2. ASSUME AdminCall, ~ \E f \in world.protocol_fees : set_protocol_fee(f[1], f[2])
      PROVE  /\ tx = Idle /\ tx' = Idle /\ UNCHANGED <<state, keepers, held>>
             /\ config'.treasury = config.treasury
             /\ config'.protocol_fee_bps = config.protocol_fee_bps
  <2>1. config \in Config
    BY DEF IInv, TypeOK
  <2> QED
    BY <1>2, <2>1
    DEF AdminCall, set_executor, propose_admin, accept_admin, cancel_admin_proposal,
        set_paused, set_target_halted, set_min_stake, set_min_interval, set_max_args,
        set_max_failures, set_keeper_windows, set_unbonding_epoch, set_upgrade_delay,
        propose_upgrade, apply_upgrade, cancel_upgrade, Config, jobVars, keeperVars
<1>3. ASSUME Ledger \/ UNCHANGED vars PROVE UNCHANGED <<tx, state, keepers, held, config>>
  BY <1>3
  DEF Ledger, Tick, Rest, ExpireJobTouched, ExpireTargetResumed, vars, jobVars, keeperVars
<1>4. ASSUME UNCHANGED <<tx, state, keepers, held, config>> PROVE BInv'
  <2>1. InFlight' = InFlight /\ BatchTotal' /\ TreasuryShare'
    BY <1>4 DEF InFlight, BatchTotal, TreasuryShare, BInv
  <2> QED BY <1>4, <2>1, SameTotals, NothingMoves DEF BInv
<1>5. CASE AdminCall
  <2>1. CASE \E f \in world.protocol_fees : set_protocol_fee(f[1], f[2])
    BY <1>1, <2>1
  <2>2. CASE ~ \E f \in world.protocol_fees : set_protocol_fee(f[1], f[2])
    BY <1>2, <1>5, <2>2, SameTotals, NoFlight, NothingMoves, TreasuryKept DEF BInv
  <2> QED BY <2>1, <2>2
<1> QED BY <1>3, <1>4, <1>5

\* Every step keeps the books.
LEMMA StepBInv ==
  IInv /\ IInv' /\ FInv /\ BatchRecordCurrent /\ BInv /\ [Next]_vars => BInv'
  BY JobBInv, ExecuteBInv, KeeperBInv, OtherBInv DEF Next

\* The registry holds exactly what it owes, in every state of every execution:
\* all job balances, all stakes, and inside a looping call what has been moved
\* but not booked or booked but not paid.  So every refund and every withdrawal
\* can be paid, whatever the calls were (insert_job, run_job, settle,
\* cancel_job, release_stake).
THEOREM BooksSafe == Spec => []BooksBalance
<1> DEFINE Inv == IInv /\ FInv /\ BatchRecordCurrent /\ BInv
<1>1. Init => Inv
  BY InitIInv, InitFInv, InitBInv DEF Init, BatchRecordCurrent, Idle
<1>2. Inv /\ [Next]_vars => Inv'
  BY StepIInv, StepFInv, StepBatchRecord, StepBInv
<1>3. Inv => BooksBalance
  BY DEF BInv
<1> HIDE DEF Inv
<1> QED BY <1>1, <1>2, <1>3, PTL DEF Spec

-----------------------------------------------------------------------------
(* The owners' lists. *)

\* A list that holds each element of a set once, with one more or one fewer.
LEMMA AppendListed ==
  ASSUME NEW S, NEW s \in Seq(S), IsInjective(s), NEW e \in S, e \notin ToSet(s)
  PROVE  IsInjective(Append(s, e)) /\ ToSet(Append(s, e)) = ToSet(s) \cup {e}
<1> DEFINE t == Append(s, e)
<1>1. /\ Len(s) \in Nat /\ DOMAIN s = 1..Len(s) /\ t \in Seq(S) /\ Len(t) = Len(s) + 1
      /\ (\A i \in 1..Len(s) : t[i] = s[i]) /\ t[Len(s) + 1] = e
  BY LenProperties, AppendProperties
<1>2. DOMAIN t = 1..(Len(s) + 1)
  BY <1>1, LenProperties
<1> HIDE DEF t
<1>3. \A i \in 1..Len(s) : s[i] # e
  BY <1>1 DEF ToSet
<1>4. \A i, n \in 1..Len(s) : s[i] = s[n] => i = n
  BY <1>1 DEF IsInjective
<1>5. \A i \in 1..(Len(s) + 1) : i \in 1..Len(s) \/ i = Len(s) + 1
  BY <1>1
<1>6. ASSUME NEW i \in 1..(Len(s) + 1), NEW n \in 1..(Len(s) + 1), t[i] = t[n] PROVE i = n
  BY <1>1, <1>3, <1>4, <1>5, <1>6
<1>7. IsInjective(t)
  BY <1>2, <1>6 DEF IsInjective
<1>8. ToSet(t) = ToSet(s) \cup {e}
  <2>1. ASSUME NEW x \in ToSet(t) PROVE x \in ToSet(s) \cup {e}
    BY <1>1, <1>2, <1>5 DEF ToSet
  <2>2. Len(s) + 1 \in 1..(Len(s) + 1) /\ 1..Len(s) \subseteq 1..(Len(s) + 1)
    BY <1>1
  <2>3. ASSUME NEW x \in ToSet(s) PROVE x \in ToSet(t)
    BY <1>1, <1>2, <2>2 DEF ToSet
  <2>4. e \in ToSet(t)
    BY <1>1, <1>2, <2>2 DEF ToSet
  <2> QED BY <2>1, <2>3, <2>4
<1> QED BY <1>7, <1>8 DEF t

\* Removing a job from a list without repetitions.
LEMMA RemoveListed ==
  ASSUME NEW S, NEW s \in Seq(S), IsInjective(s), NEW e
  PROVE  IsInjective(RemoveFirst(s, e)) /\ ToSet(RemoveFirst(s, e)) = ToSet(s) \ {e}
<1> DEFINE t == RemoveFirst(s, e)
<1>1. /\ t \in Seq(S) /\ IsInjective(t)
      /\ \A i \in 1..Len(t) : t[i] # e /\ \E n \in 1..Len(s) : t[i] = s[n]
      /\ \A n \in 1..Len(s) : s[n] # e => \E i \in 1..Len(t) : t[i] = s[n]
  BY RemoveOnce
<1> HIDE DEF t
<1>2. DOMAIN s = 1..Len(s) /\ DOMAIN t = 1..Len(t)
  BY <1>1, LenProperties
<1>3. ASSUME NEW x \in ToSet(t) PROVE x \in ToSet(s) \ {e}
  <2>1. PICK i \in 1..Len(t) : x = t[i]
    BY <1>2 DEF ToSet
  <2>2. PICK n \in 1..Len(s) : t[i] = s[n]
    BY <1>1
  <2>3. x # e /\ x = s[n]
    BY <1>1, <2>1, <2>2
  <2> QED BY <1>2, <2>3 DEF ToSet
<1>4. ASSUME NEW x \in ToSet(s), x # e PROVE x \in ToSet(t)
  BY <1>1, <1>2, <1>4 DEF ToSet
<1> QED BY <1>1, <1>3, <1>4 DEF t

\* The jobs an account owns.
Owned(a) == {j \in JobIds : Live(j) /\ spec[j].owner = a}

\* Calls that neither add nor remove jobs nor change owners.
LEMMA OwnersKept ==
  ASSUME OwnerIndexExact, UNCHANGED <<owner_jobs, pending_owner>>,
         \A j \in JobIds : Live(j)' <=> Live(j),
         \A j \in JobIds : Live(j) => spec'[j].owner = spec[j].owner
  PROVE  OwnerIndexExact'
<1>1. ASSUME NEW a \in Accounts
      PROVE  {j \in JobIds : Live(j)' /\ spec'[j].owner = a} = Owned(a)
  BY DEF Owned
<1> QED BY <1>1 DEF OwnerIndexExact, Owned

\* A new job is appended to its owner's list.
LEMMA InsertOwner ==
  ASSUME IInv, FInv, OwnerIndexExact, next_job_id \in JobIds, NEW o \in Accounts,
         NEW new \in NewJob, Checked(new), insert_job(o, new.params, new.deposit),
         pending_owner' = pending_owner
  PROVE  OwnerIndexExact'
<1> DEFINE id == next_job_id
<1>0. /\ owner_jobs \in [Accounts -> Seq(JobIds)] /\ spec \in [JobIds -> Option(JobSpec)]
      /\ state \in [JobIds -> Option(JobState)] /\ id \in Nat
  BY DEF IInv, TypeOK
<1>1. ~ Live(id)
  BY <1>0 DEF FInv, IdsUsed
<1>2. /\ state'[id] # None /\ spec'[id].owner = o
      /\ \A i \in JobIds \ {id} : state'[i] = state[i] /\ spec'[i] = spec[i]
      /\ owner_jobs' = [owner_jobs EXCEPT ![o] = Append(@, id)]
  <2>1. state'[id] # None
    BY InsertJobType, AddressAssumption DEF IInv
  <2> QED BY <1>0, <2>1 DEF insert_job, add_owner_job
<1> HIDE DEF id
<1>3. id \in JobIds
  BY DEF id
<1>4. \A i \in JobIds : Live(i)' <=> Live(i) \/ i = id
  BY <1>1, <1>2, <1>3 DEF Live
<1>5. ASSUME NEW a \in Accounts
      PROVE  /\ IsInjective(owner_jobs'[a])
             /\ ToSet(owner_jobs'[a]) = {j \in JobIds : Live(j)' /\ spec'[j].owner = a}
  <2>1. IsInjective(owner_jobs[a]) /\ ToSet(owner_jobs[a]) = Owned(a)
    BY DEF OwnerIndexExact, Owned
  <2>2. CASE a = o
    <3>1. owner_jobs'[a] = Append(owner_jobs[a], id) /\ owner_jobs[a] \in Seq(JobIds)
      BY <1>0, <1>2, <2>2
    <3>2. id \notin ToSet(owner_jobs[a])
      BY <1>1, <2>1 DEF Owned
    <3>3. IsInjective(owner_jobs'[a]) /\ ToSet(owner_jobs'[a]) = Owned(a) \cup {id}
      BY <1>3, <2>1, <3>1, <3>2, AppendListed
    <3>4. {j \in JobIds : Live(j)' /\ spec'[j].owner = a} = Owned(a) \cup {id}
      BY <1>1, <1>2, <1>3, <1>4, <2>2 DEF Owned
    <3> QED BY <3>3, <3>4
  <2>3. CASE a # o
    <3>1. owner_jobs'[a] = owner_jobs[a]
      BY <1>0, <1>2, <2>3
    <3>2. {j \in JobIds : Live(j)' /\ spec'[j].owner = a} = Owned(a)
      BY <1>1, <1>2, <1>3, <1>4, <2>3 DEF Owned
    <3> QED BY <2>1, <3>1, <3>2
  <2> QED BY <2>2, <2>3
<1>6. ASSUME NEW j \in JobIds, pending_owner'[j] # None
      PROVE  Live(j)' /\ pending_owner'[j] # spec'[j].owner
  BY <1>1, <1>2, <1>4, <1>6 DEF OwnerIndexExact
<1> QED BY <1>5, <1>6 DEF OwnerIndexExact

\* A cancelled job leaves its owner's list.
LEMMA CancelOwner ==
  ASSUME IInv, OwnerIndexExact, NEW j \in JobIds, cancel_job(j)
  PROVE  OwnerIndexExact'
<1> DEFINE o == spec[j].owner
<1>0. /\ owner_jobs \in [Accounts -> Seq(JobIds)] /\ spec \in [JobIds -> Option(JobSpec)]
      /\ state \in [JobIds -> Option(JobState)]
      /\ pending_owner \in [JobIds -> Option(Accounts)]
  BY DEF IInv, TypeOK
<1>1. /\ Live(j) /\ state' = [state EXCEPT ![j] = None] /\ spec' = [spec EXCEPT ![j] = None]
      /\ pending_owner' = [pending_owner EXCEPT ![j] = None]
      /\ owner_jobs' = [owner_jobs EXCEPT ![o] = RemoveFirst(@, j)]
  BY DEF cancel_job, remove_owner_job
<1>2. o \in Accounts
  BY <1>1, LiveParts DEF IInv, JobSpec
<1>3. /\ \A i \in JobIds : Live(i)' <=> (Live(i) /\ i # j)
      /\ \A i \in JobIds : i # j => spec'[i] = spec[i]
  BY <1>0, <1>1 DEF Live
<1>4. ASSUME NEW a \in Accounts
      PROVE  /\ IsInjective(owner_jobs'[a])
             /\ ToSet(owner_jobs'[a]) = {i \in JobIds : Live(i)' /\ spec'[i].owner = a}
  <2>1. IsInjective(owner_jobs[a]) /\ ToSet(owner_jobs[a]) = Owned(a)
    BY DEF OwnerIndexExact, Owned
  <2>2. {i \in JobIds : Live(i)' /\ spec'[i].owner = a} = Owned(a) \ {j}
    BY <1>3 DEF Owned
  <2>3. CASE a = o
    <3>1. owner_jobs'[a] = RemoveFirst(owner_jobs[a], j) /\ owner_jobs[a] \in Seq(JobIds)
      BY <1>0, <1>1, <2>3
    <3>2. IsInjective(owner_jobs'[a]) /\ ToSet(owner_jobs'[a]) = Owned(a) \ {j}
      BY <2>1, <3>1, RemoveListed
    <3> QED BY <2>2, <3>2
  <2>4. CASE a # o
    <3>1. owner_jobs'[a] = owner_jobs[a]
      BY <1>0, <1>1, <2>4
    <3>2. j \notin Owned(a)
      BY <2>4 DEF Owned
    <3> QED BY <2>1, <2>2, <3>1, <3>2
  <2> QED BY <2>3, <2>4
<1>5. ASSUME NEW i \in JobIds, pending_owner'[i] # None
      PROVE  Live(i)' /\ pending_owner'[i] # spec'[i].owner
  BY <1>0, <1>1, <1>3, <1>5 DEF OwnerIndexExact
<1> QED BY <1>4, <1>5 DEF OwnerIndexExact

\* An accepted transfer moves the job from one list to the other.
LEMMA AcceptOwner ==
  ASSUME IInv, OwnerIndexExact, NEW j \in JobIds, accept_job_owner(j)
  PROVE  OwnerIndexExact'
<1> DEFINE o == spec[j].owner
           n == pending_owner[j]
<1>0. /\ owner_jobs \in [Accounts -> Seq(JobIds)] /\ spec \in [JobIds -> Option(JobSpec)]
      /\ state \in [JobIds -> Option(JobState)]
      /\ pending_owner \in [JobIds -> Option(Accounts)]
  BY DEF IInv, TypeOK
<1>1. /\ Live(j) /\ state' = state /\ spec' = [spec EXCEPT ![j].owner = n]
      /\ pending_owner' = [pending_owner EXCEPT ![j] = None] /\ n # None
      /\ owner_jobs' = [[owner_jobs EXCEPT ![o] = RemoveFirst(@, j)]
                           EXCEPT ![n] = Append(@, j)]
  BY DEF accept_job_owner, remove_owner_job, add_owner_job
<1>2. o \in Accounts /\ n \in Accounts /\ n # o /\ spec[j] \in JobSpec
  BY <1>0, <1>1, LiveParts DEF IInv, JobSpec, Option, OwnerIndexExact
<1>3. /\ \A i \in JobIds : Live(i)' <=> Live(i)
      /\ \A i \in JobIds : i # j => spec'[i] = spec[i]
      /\ spec'[j].owner = n
  BY <1>0, <1>1, <1>2 DEF Live, JobSpec
<1> HIDE DEF n
<1>4. ASSUME NEW a \in Accounts
      PROVE  /\ IsInjective(owner_jobs'[a])
             /\ ToSet(owner_jobs'[a]) = {i \in JobIds : Live(i)' /\ spec'[i].owner = a}
  <2>1. IsInjective(owner_jobs[a]) /\ ToSet(owner_jobs[a]) = Owned(a)
    BY DEF OwnerIndexExact, Owned
  <2>2. CASE a = o
    <3>1. owner_jobs'[a] = RemoveFirst(owner_jobs[a], j) /\ owner_jobs[a] \in Seq(JobIds)
      BY <1>0, <1>1, <1>2, <2>2
    <3>2. IsInjective(owner_jobs'[a]) /\ ToSet(owner_jobs'[a]) = Owned(a) \ {j}
      BY <2>1, <3>1, RemoveListed
    <3>3. {i \in JobIds : Live(i)' /\ spec'[i].owner = a} = Owned(a) \ {j}
      BY <1>2, <1>3, <2>2 DEF Owned
    <3> QED BY <3>2, <3>3
  <2>3. CASE a = n
    <3>1. owner_jobs'[a] = Append(owner_jobs[a], j) /\ owner_jobs[a] \in Seq(JobIds)
      BY <1>0, <1>1, <1>2, <2>3
    <3>2. j \notin ToSet(owner_jobs[a])
      BY <1>2, <2>1, <2>3 DEF Owned
    <3>3. IsInjective(owner_jobs'[a]) /\ ToSet(owner_jobs'[a]) = Owned(a) \cup {j}
      BY <2>1, <3>1, <3>2, AppendListed
    <3>4. {i \in JobIds : Live(i)' /\ spec'[i].owner = a} = Owned(a) \cup {j}
      BY <1>1, <1>3, <2>3 DEF Owned
    <3> QED BY <3>3, <3>4
  <2>4. CASE a # o /\ a # n
    <3>1. owner_jobs'[a] = owner_jobs[a]
      BY <1>0, <1>1, <2>4
    <3>2. {i \in JobIds : Live(i)' /\ spec'[i].owner = a} = Owned(a)
      BY <1>3, <2>4 DEF Owned
    <3> QED BY <2>1, <3>1, <3>2
  <2> QED BY <2>2, <2>3, <2>4
<1>5. ASSUME NEW i \in JobIds, pending_owner'[i] # None
      PROVE  Live(i)' /\ pending_owner'[i] # spec'[i].owner
  BY <1>0, <1>1, <1>3, <1>5 DEF OwnerIndexExact
<1> QED BY <1>4, <1>5 DEF OwnerIndexExact

\* The steps that leave every job's existence and owner alone.
LEMMA QuietOwners ==
  ASSUME IInv, IInv', [Next]_vars,
         ~ \E o \in world.owners, p \in world.job_params, d \in world.amounts :
               create_job(o, p, d),
         ~ create_jobs_insert,
         ~ \E j \in JobIds : cancel_job(j) \/ accept_job_owner(j)
  PROVE  /\ owner_jobs' = owner_jobs
         /\ \A i \in JobIds : Live(i)' <=> Live(i)
         /\ \A i \in JobIds : Live(i) => spec'[i].owner = spec[i].owner
         /\ \/ pending_owner' = pending_owner
            \/ \E j \in JobIds, o \in world.new_owners : propose_job_owner(j, o)
<1>0. /\ spec \in [JobIds -> Option(JobSpec)] /\ state \in [JobIds -> Option(JobState)]
      /\ TypeOK /\ PartsTogether
  BY DEF IInv, TypeOK
<1>1. ASSUME NEW j \in JobIds, Live(j), NEW st \in JobState,
             state' = [state EXCEPT ![j] = st], spec' = spec
      PROVE  /\ \A i \in JobIds : Live(i)' <=> Live(i)
             /\ \A i \in JobIds : Live(i) => spec'[i].owner = spec[i].owner
  <2>1. st # None
    BY AddressAssumption
  <2> QED BY <1>0, <1>1, <2>1 DEF Live
<1>2. ASSUME state' = state, spec' = spec
      PROVE  /\ \A i \in JobIds : Live(i)' <=> Live(i)
             /\ \A i \in JobIds : Live(i) => spec'[i].owner = spec[i].owner
  BY <1>2 DEF Live
<1>3. CASE ExecuteCall
  <2>1. ASSUME NEW k \in Keepers, NEW j \in JobIds, NEW success \in BOOLEAN,
               execute(k, j, success)
        PROVE  /\ owner_jobs' = owner_jobs /\ pending_owner' = pending_owner /\ spec' = spec
               /\ Live(j) /\ state' = [state EXCEPT ![j] = state_after_run(j, success)]
               /\ state_after_run(j, success) \in JobState
    <3>1. /\ owner_jobs' = owner_jobs /\ pending_owner' = pending_owner /\ spec' = spec
          /\ Live(j) /\ state' = [state EXCEPT ![j] = state_after_run(j, success)]
          /\ dependency_met(j)
      BY <2>1 DEF execute, can_run
    <3> QED BY <1>0, <3>1, StateAfterRunType
  <2>2. ASSUME NEW success \in BOOLEAN, execute_batch_run(success)
        PROVE  /\ owner_jobs' = owner_jobs /\ pending_owner' = pending_owner /\ spec' = spec
               /\ \E j \in JobIds, st \in JobState :
                     Live(j) /\ state' = [state EXCEPT ![j] = st]
    <3> DEFINE j == Head(tx.todo)
    <3>1. /\ owner_jobs' = owner_jobs /\ pending_owner' = pending_owner /\ spec' = spec
          /\ Live(j) /\ state' = [state EXCEPT ![j] = state_after_run(j, success)]
          /\ dependency_met(j) /\ j \in JobIds
      BY <2>2 DEF execute_batch_run, can_run, Live
    <3> HIDE DEF j
    <3>2. state_after_run(j, success) \in JobState
      BY <1>0, <3>1, StateAfterRunType
    <3> QED BY <3>1, <3>2
  <2>3. ASSUME \/ \E k \in Keepers, ids \in world.run_batches : execute_batch(k, ids)
               \/ execute_batch_skip
               \/ execute_batch_settle
        PROVE  UNCHANGED <<owner_jobs, pending_owner, spec, state>>
    BY <2>3 DEF execute_batch, execute_batch_skip, execute_batch_settle, jobVars
  <2> QED BY <1>1, <1>2, <1>3, <2>1, <2>2, <2>3 DEF ExecuteCall
<1>4. CASE KeeperCall \/ AdminCall \/ Ledger \/ UNCHANGED vars
  <2>1. UNCHANGED <<owner_jobs, pending_owner, spec, state>>
    BY <1>4
    DEF KeeperCall, stake, begin_unbonding, withdraw_stake, withdraw_stakes,
        withdraw_stakes_next, AdminCall, set_executor, propose_admin, accept_admin,
        cancel_admin_proposal, set_paused, set_target_halted, set_min_stake,
        set_min_interval, set_max_args, set_protocol_fee, set_max_failures,
        set_keeper_windows, set_unbonding_epoch, set_upgrade_delay, propose_upgrade,
        apply_upgrade, cancel_upgrade, Ledger, Tick, Rest, ExpireJobTouched,
        ExpireTargetResumed, vars, jobVars
  <2> QED BY <1>2, <2>1
<1>5. CASE JobCall
  <2>1. ASSUME NEW j \in JobIds, NEW u \in world.job_updates, update_job(j, u)
        PROVE  /\ owner_jobs' = owner_jobs /\ pending_owner' = pending_owner
               /\ \A i \in JobIds : Live(i)' <=> Live(i)
               /\ \A i \in JobIds : Live(i) => spec'[i].owner = spec[i].owner
    <3>1. state'[j] # None /\ Live(j)
      BY <2>1, UpdateJobIInv, AddressAssumption DEF update_job
    <3>2. /\ \A i \in JobIds \ {j} : state'[i] = state[i] /\ spec'[i] = spec[i]
          /\ spec'[j].owner = spec[j].owner
          /\ owner_jobs' = owner_jobs /\ pending_owner' = pending_owner
      BY <1>0, <2>1 DEF update_job
    <3> QED BY <3>1, <3>2 DEF Live
  <2>2. ASSUME NEW j \in JobIds,
               \/ \E a \in world.amounts : fund_job(j, a)
               \/ \E a \in world.amounts : withdraw_job_balance(j, a)
               \/ \E f \in world.active_flags : set_job_active(j, f)
        PROVE  /\ owner_jobs' = owner_jobs /\ pending_owner' = pending_owner
               /\ spec' = spec /\ Live(j) /\ \A i \in JobIds \ {j} : state'[i] = state[i]
    BY <1>0, <2>2 DEF fund_job, withdraw_job_balance, set_job_active
  <2>3. ASSUME NEW j \in JobIds, spec' = spec, Live(j),
               \A i \in JobIds \ {j} : state'[i] = state[i]
        PROVE  /\ \A i \in JobIds : Live(i)' <=> Live(i)
               /\ \A i \in JobIds : Live(i) => spec'[i].owner = spec[i].owner
    <3>1. spec[j] # None
      BY <2>3 DEF IInv, PartsTogether, Live
    <3>2. state'[j] # None
      BY <2>3, <3>1 DEF IInv, PartsTogether
    <3> QED BY <2>3, <3>2 DEF Live
  <2>4. ASSUME \/ \E o \in world.owners, b \in world.job_batches : create_jobs(o, b)
               \/ create_jobs_validate
               \/ create_jobs_transfer
        PROVE  UNCHANGED <<owner_jobs, pending_owner, spec, state>>
    BY <2>4 DEF create_jobs, create_jobs_validate, create_jobs_transfer, jobVars
  <2>5. ASSUME NEW j \in JobIds, NEW o \in world.new_owners, propose_job_owner(j, o)
        PROVE  UNCHANGED <<owner_jobs, spec, state>>
    BY <2>5 DEF propose_job_owner
  <2>6. CASE \E j \in JobIds, u \in world.job_updates : update_job(j, u)
    BY <2>1, <2>6
  <2>7. CASE \E j \in JobIds :
               \/ \E a \in world.amounts : fund_job(j, a)
               \/ \E a \in world.amounts : withdraw_job_balance(j, a)
               \/ \E f \in world.active_flags : set_job_active(j, f)
    BY <2>2, <2>3, <2>7
  <2>8. CASE \/ \E o \in world.owners, b \in world.job_batches : create_jobs(o, b)
             \/ create_jobs_validate
             \/ create_jobs_transfer
    BY <1>2, <2>4, <2>8
  <2>9. CASE \E j \in JobIds, o \in world.new_owners : propose_job_owner(j, o)
    BY <1>2, <2>5, <2>9
  <2> QED BY <1>5, <2>6, <2>7, <2>8, <2>9 DEF JobCall
<1> QED BY <1>3, <1>4, <1>5 DEF Next

\* Every step keeps the lists.
LEMMA StepOwners == IInv /\ IInv' /\ FInv /\ OwnerIndexExact /\ [Next]_vars => OwnerIndexExact'
<1> SUFFICES ASSUME IInv, IInv', FInv, OwnerIndexExact, [Next]_vars
             PROVE  OwnerIndexExact'
  OBVIOUS
<1>1. ASSUME NEW o \in world.owners, NEW p \in world.job_params, NEW d \in world.amounts,
             create_job(o, p, d)
      PROVE  OwnerIndexExact'
  <2> DEFINE new == [params |-> p, deposit |-> d]
  <2>1. /\ o \in Accounts /\ p \in JobParams /\ d \in I128 /\ world.jobs \in 0..MaxJobs
    BY WorldOK DEF IInv, WorldType
  <2>2. next_job_id \in JobIds /\ new \in NewJob
    BY <1>1, <2>1, BoundsAssumption DEF IInv, TypeOK, create_job, JobIds, NewJob
  <2>3. /\ insert_job(o, new.params, new.deposit) /\ validate_job(new.params, new.deposit)
        /\ pending_owner' = pending_owner
    BY <1>1 DEF create_job
  <2> HIDE DEF new
  <2>4. Checked(new)
    BY <2>2, <2>3, ValidJob
  <2> QED BY <2>1, <2>2, <2>3, <2>4, InsertOwner
<1>2. CASE create_jobs_insert
  <2> DEFINE new == tx.batch[tx.i]
  <2>1. /\ tx.owner \in Accounts /\ tx.batch \in Seq(NewJob)
        /\ Len(tx.batch) \in Nat /\ tx.call = "create_jobs" /\ tx.paid
        /\ tx.i \in 1..Len(tx.batch) /\ next_job_id + (Len(tx.batch) - tx.i) < MaxJobs
    BY <1>2, TxTypes DEF IInv, create_jobs_insert, CreateJobsTx, CreateJobsSound
  <2>2. new \in NewJob /\ Checked(new)
    <3>1. \A n \in 1..Len(tx.batch) : Checked(tx.batch[n])
      BY <2>1 DEF IInv, CreateJobsSound
    <3> QED BY <2>1, <3>1, ElementOfSeq
  <2>3. next_job_id \in JobIds
    BY <2>1, BoundsAssumption DEF IInv, TypeOK, JobIds
  <2>4. insert_job(tx.owner, new.params, new.deposit) /\ pending_owner' = pending_owner
    BY <1>2 DEF create_jobs_insert
  <2> HIDE DEF new
  <2> QED BY <2>1, <2>2, <2>3, <2>4, InsertOwner
<1>3. CASE \E j \in JobIds : cancel_job(j) \/ accept_job_owner(j)
  BY <1>3, CancelOwner, AcceptOwner
<1>4. ASSUME NEW j \in JobIds, NEW o \in world.new_owners, propose_job_owner(j, o)
      PROVE  OwnerIndexExact'
  <2>1. /\ Live(j) /\ UNCHANGED <<owner_jobs, spec, state>>
        /\ pending_owner' = [pending_owner EXCEPT ![j] =
               IF o = spec[j].owner THEN None ELSE o]
    BY <1>4 DEF propose_job_owner
  <2>2. ASSUME NEW i \in JobIds, pending_owner'[i] # None
        PROVE  Live(i)' /\ pending_owner'[i] # spec'[i].owner
    <3>1. pending_owner \in [JobIds -> Option(Accounts)]
      BY DEF IInv, TypeOK
    <3>2. Live(i)' <=> Live(i)
      BY <2>1 DEF Live
    <3> QED BY <2>1, <2>2, <3>1, <3>2 DEF OwnerIndexExact
  <2>3. ASSUME NEW a \in Accounts
        PROVE  /\ IsInjective(owner_jobs'[a])
               /\ ToSet(owner_jobs'[a]) = {i \in JobIds : Live(i)' /\ spec'[i].owner = a}
    <3>1. IsInjective(owner_jobs[a]) /\ ToSet(owner_jobs[a]) = Owned(a)
      BY DEF OwnerIndexExact, Owned
    <3>2. {i \in JobIds : Live(i)' /\ spec'[i].owner = a} = Owned(a)
      BY <2>1 DEF Owned, Live
    <3> QED BY <2>1, <3>1, <3>2
  <2> QED BY <2>2, <2>3 DEF OwnerIndexExact
<1>5. CASE /\ ~ \E o \in world.owners, p \in world.job_params, d \in world.amounts :
                   create_job(o, p, d)
           /\ ~ create_jobs_insert
           /\ ~ \E j \in JobIds : cancel_job(j) \/ accept_job_owner(j)
  BY <1>4, <1>5, QuietOwners, OwnersKept
<1> QED BY <1>1, <1>2, <1>3, <1>5

\* jobs_by_owner is exact in every state: through any sequence of creations,
\* batches, handovers proposed, replaced and accepted, and cancellations, each
\* account's list holds its live jobs once each and no other, and a handover
\* waits only on a live job (insert_job, accept_job_owner, cancel_job).
THEOREM OwnersSafe == Spec => []OwnerIndexExact
<1> DEFINE Inv == IInv /\ FInv /\ OwnerIndexExact
<1>1. Init => OwnerIndexExact
  <2> SUFFICES ASSUME Init PROVE OwnerIndexExact
    OBVIOUS
  <2>1. \A j \in JobIds : ~ Live(j) /\ pending_owner[j] = None
    BY DEF Init, Live
  <2>2. \A a \in Accounts : owner_jobs[a] = <<>>
    BY DEF Init
  <2>3. IsInjective(<<>>) /\ ToSet(<<>>) = {}
    BY DEF IsInjective, ToSet
  <2> QED BY <2>1, <2>2, <2>3 DEF OwnerIndexExact
<1>2. Init => Inv
  BY <1>1, InitIInv, InitFInv
<1>3. Inv /\ [Next]_vars => Inv'
  BY StepIInv, StepFInv, StepOwners
<1>4. Inv => OwnerIndexExact
  OBVIOUS
<1> HIDE DEF Inv
<1> QED BY <1>2, <1>3, <1>4, PTL DEF Spec

-----------------------------------------------------------------------------
(* Assigned windows.  The contract reconstructs from four timestamps what the  *)
(* observer of KeeperWindows sees: since when the assigned keeper could run.   *)

\* The time had_whole_window counts from.
Opened(j) ==
    Larger(Larger(state[j].next_run, job_touched[j]),
           Larger(windows_reset, target_resumed[spec[j].target]))

\* The keeper has been able to run the job since the window opened, or for so long
\* that the timestamp may have expired.
WindowOK(j) ==
    AssigneeCanRun(j) =>
        /\ since[j] \in 0..now
        /\ since[j] <= Opened(j) \/ since[j] + TEMPORARY_TTL <= now

\* The steps after which a window goes on, and those after which it opens.
GoesOn(j) ==
    AssigneeCanRun(j)' =>
        /\ AssigneeCanRun(j) /\ Turn(j)' = Turn(j)
        /\ \A s \in Nat : s <= Opened(j) => s <= Opened(j)' \/ s + TEMPORARY_TTL <= now'

Opens(j) == AssigneeCanRun(j)' => now' <= Opened(j)'

\* Either way the observer's time stays within the contract's.
LEMMA WindowKept ==
  ASSUME now \in Nat, now' \in Nat, now <= now', ObserveWindows, NEW j \in JobIds,
         WindowOK(j), GoesOn(j) \/ Opens(j), Opened(j)' \in Nat
  PROVE  WindowOK(j)'
<1> SUFFICES ASSUME AssigneeCanRun(j)'
             PROVE  /\ since'[j] \in 0..now'
                    /\ since'[j] <= Opened(j)' \/ since'[j] + TEMPORARY_TTL <= now'
  BY DEF WindowOK
<1>0. TEMPORARY_TTL \in Nat
  BY TtlAssumption
<1>1. since'[j] = IF AssigneeCanRun(j) /\ Turn(j)' = Turn(j) THEN since[j] ELSE now'
  BY DEF ObserveWindows
<1>2. CASE AssigneeCanRun(j) /\ Turn(j)' = Turn(j)
  <2> DEFINE s == since[j]
  <2>1. s \in 0..now /\ (s <= Opened(j) \/ s + TEMPORARY_TTL <= now) /\ since'[j] = s
    BY <1>1, <1>2 DEF WindowOK
  <2> HIDE DEF s
  <2>2. s \in Nat /\ s \in 0..now'
    BY <2>1
  <2>3. CASE Opens(j)
    <3>1. now' <= Opened(j)'
      BY <2>3 DEF Opens
    <3> QED BY <2>1, <2>2, <3>1
  <2>4. CASE GoesOn(j)
    <3>1. s <= Opened(j) => s <= Opened(j)' \/ s + TEMPORARY_TTL <= now'
      BY <2>2, <2>4 DEF GoesOn
    <3>2. s + TEMPORARY_TTL <= now => s + TEMPORARY_TTL <= now'
      BY <1>0, <2>2
    <3> QED BY <2>1, <2>2, <3>1, <3>2
  <2> QED BY <2>3, <2>4
<1>3. CASE ~ (AssigneeCanRun(j) /\ Turn(j)' = Turn(j))
  <2>1. Opens(j) /\ since'[j] = now'
    BY <1>1, <1>3 DEF GoesOn
  <2>2. now' <= Opened(j)'
    BY <2>1 DEF Opens
  <2> QED BY <2>1, <2>2
<1> QED BY <1>2, <1>3

-----------------------------------------------------------------------------
(* Who is assigned. *)

Candidates(j) == IF spec[j].keepers # None THEN spec[j].keepers ELSE active_keepers
Chosen(j) == Candidates(j)[(Digest[j][state[j].runs] % Len(Candidates(j))) + 1]

\* assigned_keeper in these words.
LEMMA AssignedIs ==
  ASSUME NEW j
  PROVE  assigned_keeper(j) = IF config.grace_period = 0 \/ Candidates(j) = <<>> THEN None
                              ELSE IF Eligible(Chosen(j)) THEN Chosen(j) ELSE None
  BY DEF assigned_keeper, Candidates, Chosen

\* The keeper chosen is one.
LEMMA ChosenType ==
  ASSUME TypeOK, PartsTogether, NEW j \in JobIds, Live(j), Candidates(j) # <<>>
  PROVE  Chosen(j) \in Keepers
<1> DEFINE c == Candidates(j)
           n == Digest[j][state[j].runs]
<1>1. spec[j] \in JobSpec /\ state[j] \in JobState
  BY LiveParts
<1>2. c \in Seq(Keepers)
  BY <1>1 DEF JobSpec, Option, TypeOK, Candidates
<1>3. n \in Nat
  BY <1>1, AddressAssumption DEF JobState
<1> HIDE DEF c
<1>4. Len(c) \in Nat \ {0}
  BY <1>2, EmptySeq DEF c
<1>5. (n % Len(c)) + 1 \in 1..Len(c)
  <2>1. \A x \in Nat, l \in Nat \ {0} : (x % l) + 1 \in 1..l
    OBVIOUS
  <2> HIDE DEF n
  <2> QED BY <1>3, <1>4, <2>1
<1>6. c[(n % Len(c)) + 1] \in Keepers
  BY <1>2, <1>5, ElementOfSeq
<1> QED BY <1>6 DEF Chosen, c

\* A step after which the same keepers may run jobs.
KeepersAlike == \A k \in Keepers : Eligible(k)' <=> Eligible(k)

\* What decides whether the assigned keeper can run a job.
JobAlike(j) ==
    /\ now' = now /\ state'[j] = state[j] /\ spec'[j].keepers = spec[j].keepers
    /\ spec'[j].max_runs = spec[j].max_runs /\ spec'[j].end_at = spec[j].end_at
    /\ spec'[j].fee_per_run = spec[j].fee_per_run /\ spec'[j].target = spec[j].target

\* With these the same, the keeper assigned is the same.
LEMMA AssignedAlike ==
  ASSUME TypeOK, PartsTogether, NEW j \in JobIds, Live(j), KeepersAlike,
         state'[j] = state[j], spec'[j].keepers = spec[j].keepers,
         active_keepers' = active_keepers,
         config'.grace_period = config.grace_period
  PROVE  assigned_keeper(j)' = assigned_keeper(j)
<1>1. Candidates(j)' = Candidates(j)
  BY DEF Candidates
<1>2. Chosen(j)' = Chosen(j)
  BY <1>1 DEF Chosen
<1>3. assigned_keeper(j)' = IF config'.grace_period = 0 \/ Candidates(j)' = <<>> THEN None
                            ELSE IF Eligible(Chosen(j))' THEN Chosen(j)' ELSE None
  BY DEF assigned_keeper, Candidates, Chosen
<1>4. Candidates(j) # <<>> => (Eligible(Chosen(j))' <=> Eligible(Chosen(j)))
  <2> SUFFICES ASSUME Candidates(j) # <<>>
               PROVE  Eligible(Chosen(j))' <=> Eligible(Chosen(j))
    OBVIOUS
  <2> DEFINE c == Chosen(j)
  <2>1. c \in Keepers /\ Chosen(j)' = c
    BY <1>2, ChosenType
  <2> HIDE DEF c
  <2>2. Eligible(Chosen(j))' <=> (keepers'[c] # None /\ keepers'[c].unbonding_at = None
                                  /\ keepers'[c].stake >= config'.min_stake)
    BY <2>1 DEF Eligible, ensure_active_keeper
  <2>3. (keepers'[c] # None /\ keepers'[c].unbonding_at = None
           /\ keepers'[c].stake >= config'.min_stake) <=> Eligible(c)
    BY <2>1 DEF KeepersAlike, Eligible, ensure_active_keeper
  <2> QED BY <2>2, <2>3 DEF c
<1> QED BY <1>1, <1>2, <1>3, <1>4, AssignedIs

\* ... and if it can run the job, it could before.
LEMMA Unaffected ==
  ASSUME TypeOK, PartsTogether, NEW j \in JobIds, KeepersAlike, JobAlike(j),
         active_keepers' = active_keepers,
         config'.grace_period = config.grace_period, config.paused => config'.paused,
         spec[j].target \in halted => spec[j].target \in halted',
         AssigneeCanRun(j)'
  PROVE  AssigneeCanRun(j) /\ Turn(j)' = Turn(j)
<1>1. Live(j) /\ state'[j] = state[j]
  BY DEF AssigneeCanRun, JobAlike, Live
<1>2. assigned_keeper(j)' = assigned_keeper(j)
  BY <1>1, AssignedAlike DEF JobAlike
<1>3. ensure_due(j)
  BY DEF AssigneeCanRun, ensure_due, JobAlike
<1>4. AssigneeCanRun(j)
  BY <1>1, <1>2, <1>3 DEF AssigneeCanRun, JobAlike, ensure_not_paused
<1> QED BY <1>1, <1>2, <1>4 DEF Turn

-----------------------------------------------------------------------------
(* What each call does to windows. *)

\* The timestamps are times.
LEMMA OpenedType ==
  ASSUME TypeOK, PartsTogether, NEW j \in JobIds, Live(j)
  PROVE  /\ Opened(j) \in Nat /\ state[j].next_run \in Nat /\ job_touched[j] \in Nat
         /\ windows_reset \in Nat /\ target_resumed[spec[j].target] \in Nat
         /\ state[j].next_run <= Opened(j) /\ job_touched[j] <= Opened(j)
         /\ windows_reset <= Opened(j) /\ target_resumed[spec[j].target] <= Opened(j)
<1>1. spec[j] \in JobSpec /\ state[j] \in JobState
  BY LiveParts
<1>2. state[j].next_run \in U64 /\ spec[j].target \in Contracts
  BY <1>1 DEF JobState, JobSpec
<1>3. job_touched[j] \in U64 /\ windows_reset \in U64 /\ target_resumed[spec[j].target] \in U64
  BY <1>2 DEF TypeOK
<1>4. \A x \in U64 : x \in Nat
  BY DEF U64
<1>5. \A x, y \in Nat : Larger(x, y) \in Nat /\ x <= Larger(x, y) /\ y <= Larger(x, y)
  BY DEF Larger
<1> DEFINE a == Larger(state[j].next_run, job_touched[j])
           b == Larger(windows_reset, target_resumed[spec[j].target])
<1>6. /\ a \in Nat /\ state[j].next_run <= a /\ job_touched[j] <= a
      /\ b \in Nat /\ windows_reset <= b /\ target_resumed[spec[j].target] <= b
  BY <1>2, <1>3, <1>4, <1>5
<1>7. Opened(j) = Larger(a, b)
  BY DEF Opened
<1> HIDE DEF a, b
<1>8. Opened(j) \in Nat /\ a <= Opened(j) /\ b <= Opened(j)
  BY <1>5, <1>6, <1>7
<1> DEFINE o == Opened(j)
           n == state[j].next_run
           t == job_touched[j]
           w == windows_reset
           r == target_resumed[spec[j].target]
<1>9. n \in Nat /\ t \in Nat /\ w \in Nat /\ r \in Nat
  BY <1>2, <1>3, <1>4
<1>10. o \in Nat /\ a <= o /\ b <= o /\ n <= a /\ t <= a /\ w <= b /\ r <= b /\ a \in Nat /\ b \in Nat
  BY <1>6, <1>8
<1> HIDE DEF o, n, t, w, r
<1>11. n <= o /\ t <= o /\ w <= o /\ r <= o
  BY <1>9, <1>10
<1> QED BY <1>9, <1>10, <1>11 DEF o, n, t, w, r

OpenedFacts ==
    \A j \in JobIds : Live(j) =>
        /\ Opened(j) \in Nat
        /\ state[j].next_run <= Opened(j) /\ job_touched[j] <= Opened(j)
        /\ windows_reset <= Opened(j) /\ target_resumed[spec[j].target] <= Opened(j)

\* Every timestamp is at most the time the window opened.
LEMMA OpenedNow == TypeOK /\ PartsTogether => OpenedFacts
  BY OpenedType DEF OpenedFacts

\* The same after a step.
LEMMA OpenedNext == TypeOK' /\ PartsTogether' => OpenedFacts'
  BY OpenedNow, PTL

\* A job whose settings, keepers and timestamps are the same.
LEMMA StaysOpen ==
  ASSUME TypeOK, PartsTogether, NEW j \in JobIds, KeepersAlike, JobAlike(j),
         active_keepers' = active_keepers,
         config'.grace_period = config.grace_period, config.paused => config'.paused,
         spec[j].target \in halted => spec[j].target \in halted',
         job_touched'[j] = job_touched[j], windows_reset' = windows_reset,
         target_resumed'[spec[j].target] = target_resumed[spec[j].target]
  PROVE  GoesOn(j)
<1> SUFFICES ASSUME AssigneeCanRun(j)'
             PROVE  /\ AssigneeCanRun(j) /\ Turn(j)' = Turn(j)
                    /\ \A s \in Nat : s <= Opened(j) => s <= Opened(j)' \/ s + TEMPORARY_TTL <= now'
  BY DEF GoesOn
<1>1. AssigneeCanRun(j) /\ Turn(j)' = Turn(j)
  BY Unaffected
<1>2. Opened(j)' = Opened(j)
  BY DEF Opened, JobAlike
<1> QED BY <1>1, <1>2

\* What the calls about jobs leave alone.
JobFrame ==
    /\ now' = now /\ config' = config /\ keepers' = keepers /\ active_keepers' = active_keepers
    /\ halted' = halted /\ target_resumed' = target_resumed /\ windows_reset' = windows_reset

\* Calls about jobs concern neither keepers nor switches.
LEMMA JobCallFrame == ASSUME JobCall PROVE JobFrame
<1> USE DEF JobFrame, windowVars, keeperVars
<1>1. ASSUME NEW o \in world.owners, NEW p \in world.job_params, NEW d \in world.amounts,
             create_job(o, p, d)
      PROVE  JobFrame
  BY <1>1 DEF create_job
<1>2. ASSUME NEW o \in world.owners, NEW b \in world.job_batches, create_jobs(o, b)
      PROVE  JobFrame
  BY <1>2 DEF create_jobs
<1>3. CASE create_jobs_validate \/ create_jobs_transfer \/ create_jobs_insert
  BY <1>3 DEF create_jobs_validate, create_jobs_transfer, create_jobs_insert
<1>4. ASSUME NEW i \in JobIds, NEW u \in world.job_updates, update_job(i, u) PROVE JobFrame
  BY <1>4 DEF update_job
<1>5. ASSUME NEW i \in JobIds, NEW a \in world.amounts,
             fund_job(i, a) \/ withdraw_job_balance(i, a)
      PROVE  JobFrame
  BY <1>5 DEF fund_job, withdraw_job_balance
<1>6. ASSUME NEW i \in JobIds, cancel_job(i) PROVE JobFrame
  BY <1>6 DEF cancel_job
<1>7. ASSUME NEW i \in JobIds, NEW f \in world.active_flags, set_job_active(i, f)
      PROVE  JobFrame
  BY <1>7 DEF set_job_active
<1>8. ASSUME NEW i \in JobIds, NEW o \in world.new_owners, propose_job_owner(i, o)
      PROVE  JobFrame
  BY <1>8 DEF propose_job_owner
<1>9. ASSUME NEW i \in JobIds, accept_job_owner(i) PROVE JobFrame
  BY <1>9 DEF accept_job_owner
<1> QED BY <1>1, <1>2, <1>3, <1>4, <1>5, <1>6, <1>7, <1>8, <1>9 DEF JobCall

\* A job that a call about another one leaves alone.
LEMMA OtherJob ==
  ASSUME TypeOK, PartsTogether, JobFrame, NEW j \in JobIds,
         spec'[j] = spec[j], state'[j] = state[j], job_touched'[j] = job_touched[j]
  PROVE  GoesOn(j)
<1>1. KeepersAlike
  BY DEF JobFrame, KeepersAlike, Eligible, ensure_active_keeper
<1>2. JobAlike(j)
  BY DEF JobFrame, JobAlike
<1> QED BY <1>1, <1>2, StaysOpen DEF JobFrame

\* A call that touches a job restarts its window, if there are windows.
LEMMA Touches ==
  ASSUME TypeOK, PartsTogether, TypeOK', PartsTogether', JobFrame,
         NEW i \in JobIds, NEW j \in JobIds, touch(i),
         j # i => spec'[j] = spec[j] /\ state'[j] = state[j]
  PROVE  GoesOn(j) \/ Opens(j)
<1>1. job_touched \in [JobIds -> U64]
  BY DEF TypeOK
<1>2. CASE j # i
  <2>1. job_touched'[j] = job_touched[j]
    BY <1>1, <1>2 DEF touch
  <2> QED BY <1>2, <2>1, OtherJob
<1>3. CASE j = i
  <2> SUFFICES ASSUME AssigneeCanRun(j)' PROVE now' <= Opened(j)'
    BY DEF Opens
  <2>1. assigned_keeper(j)' # None /\ Live(j)'
    BY DEF AssigneeCanRun
  <2>2. config'.grace_period # 0
    BY <2>1 DEF assigned_keeper
  <2>3. config.grace_period > 0
    <3>1. config.grace_period \in 0..MAX_GRACE_PERIOD
      BY DEF TypeOK, Config
    <3> QED BY <2>2, <3>1, BoundsAssumption DEF JobFrame
  <2>4. job_touched'[j] = now'
    BY <1>1, <1>3, <2>3 DEF touch, JobFrame
  <2> QED BY <2>1, <2>4, OpenedNext DEF OpenedFacts
<1> QED BY <1>2, <1>3

\* The first run of a calendar is not before the time it is looked for.
LEMMA FirstRunLater ==
  ASSUME NEW s \in ScheduleType, NEW from \in U64
  PROVE  first_calendar_run(s, from) >= from
<1>1. from \in Nat /\ from <= U64Max /\ U64Max \in Nat
  BY ScheduleAssumption DEF U64
<1>2. CASE s = Interval
  BY <1>1, <1>2 DEF first_calendar_run
<1>3. CASE s # Interval
  <2> DEFINE p == calendar_period(s)
             o == calendar_offset(s)
             r == from % p
             start == from - r
  <2>1. p \in Nat \ {0} /\ o \in Nat
    BY <1>3, PeriodType, OffsetType DEF U64
  <2>2. first_calendar_run(s, from) = IF r <= o THEN SatAdd(start, o)
                                      ELSE SatAdd(SatAdd(start, p), o)
    BY <1>3 DEF first_calendar_run
  <2>3. r \in Nat /\ r < p
    <3> HIDE DEF p
    <3> QED BY <1>1, <2>1
  <2> HIDE DEF p, o, r
  <2>4. start \in Int /\ start = from - r
    BY <1>1, <2>3
  <2> HIDE DEF start
  <2>5. CASE r <= o
    <3>1. SatAdd(start, o) >= from
      BY <1>1, <2>1, <2>3, <2>4, <2>5 DEF SatAdd
    <3> QED BY <2>2, <2>5, <3>1
  <2>6. CASE ~ (r <= o)
    <3> DEFINE t == SatAdd(start, p)
    <3>1. t >= from /\ t \in Int
      BY <1>1, <2>1, <2>3, <2>4 DEF SatAdd
    <3> HIDE DEF t
    <3>2. SatAdd(t, o) >= from
      BY <1>1, <2>1, <3>1 DEF SatAdd
    <3> QED BY <2>2, <2>6, <3>2 DEF t
  <2> QED BY <2>5, <2>6
<1> QED BY <1>2, <1>3

\* A new job's window opens with its first run; no other job is disturbed.
LEMMA InsertOpens ==
  ASSUME IInv, IInv', JobFrame, job_touched' = job_touched,
         NEW o, NEW p \in JobParams, NEW d, insert_job(o, p, d), NEW j \in JobIds
  PROVE  GoesOn(j) \/ Opens(j)
<1>1. TypeOK /\ PartsTogether /\ TypeOK' /\ PartsTogether'
  BY DEF IInv
<1>2. CASE j # next_job_id
  <2>1. spec'[j] = spec[j] /\ state'[j] = state[j]
    BY <1>1, <1>2 DEF insert_job, TypeOK
  <2> QED BY <1>1, <2>1, OtherJob
<1>3. CASE j = next_job_id
  <2> DEFINE first == first_calendar_run(p.schedule, Larger(p.start_at, now))
  <2>1. Larger(p.start_at, now) \in U64 /\ Larger(p.start_at, now) >= now /\ p.schedule \in ScheduleType
    <3>1. p.start_at \in U64 /\ now \in U64 /\ p.schedule \in ScheduleType
      BY <1>1, NowU64 DEF JobParams
    <3>2. \A x, y \in U64 : Larger(x, y) \in U64 /\ Larger(x, y) >= y
      BY DEF Larger, U64
    <3> QED BY <3>1, <3>2
  <2>2. first >= Larger(p.start_at, now) /\ first \in U64
    BY <2>1, FirstRunLater, FirstRunType
  <2>3. state'[j].next_run = first
    BY <1>1, <1>3 DEF insert_job, TypeOK
  <2> SUFFICES ASSUME AssigneeCanRun(j)' PROVE now' <= Opened(j)'
    BY DEF Opens
  <2>4. state'[j].next_run <= Opened(j)' /\ Opened(j)' \in Nat
    BY <1>1, OpenedNext DEF OpenedFacts, AssigneeCanRun
  <2>5. now' = now /\ now \in Nat
    BY <1>1, BoundsAssumption DEF JobFrame, TypeOK
  <2> DEFINE l == Larger(p.start_at, now)
  <2>6. l \in Int /\ first \in Int
    BY <2>1, <2>2 DEF U64
  <2> HIDE DEF first, l
  <2> QED BY <2>1, <2>2, <2>3, <2>4, <2>5, <2>6 DEF l
<1> QED BY <1>2, <1>3

\* A call about jobs leaves a job's window alone or opens it anew.
LEMMA JobOpens ==
  ASSUME IInv, IInv', JobCall, NEW j \in JobIds
  PROVE  GoesOn(j) \/ Opens(j)
<1>1. TypeOK /\ PartsTogether /\ TypeOK' /\ PartsTogether'
  BY DEF IInv
<1>2. JobFrame
  BY JobCallFrame
<1>3. ASSUME NEW o \in world.owners, NEW p \in world.job_params, NEW d \in world.amounts,
             create_job(o, p, d)
      PROVE  GoesOn(j) \/ Opens(j)
  <2>1. p \in JobParams
    BY <1>1, WorldOK DEF WorldType
  <2>2. insert_job(o, p, d) /\ job_touched' = job_touched
    BY <1>3 DEF create_job, windowVars
  <2> QED BY <1>2, <2>1, <2>2, InsertOpens
<1>4. CASE create_jobs_insert
  <2> DEFINE new == tx.batch[tx.i]
  <2>1. tx.batch \in Seq(NewJob) /\ tx.i \in 1..Len(tx.batch)
    BY <1>4, TxTypes DEF IInv, create_jobs_insert, CreateJobsTx, CreateJobsSound
  <2>2. new \in NewJob
    BY <2>1, ElementOfSeq
  <2>3. insert_job(tx.owner, new.params, new.deposit) /\ job_touched' = job_touched
    BY <1>4 DEF create_jobs_insert, windowVars
  <2> HIDE DEF new
  <2>4. new.params \in JobParams
    BY <2>2 DEF NewJob
  <2> QED BY <1>2, <2>3, <2>4, InsertOpens
<1>5. ASSUME UNCHANGED <<spec, state, job_touched>> PROVE GoesOn(j) \/ Opens(j)
  BY <1>1, <1>2, <1>5, OtherJob
<1>6. CASE create_jobs_validate \/ create_jobs_transfer
  BY <1>5, <1>6 DEF create_jobs_validate, create_jobs_transfer, jobVars, windowVars
<1>7. ASSUME NEW o \in world.owners, NEW b \in world.job_batches, create_jobs(o, b)
      PROVE  GoesOn(j) \/ Opens(j)
  BY <1>5, <1>7 DEF create_jobs, jobVars, windowVars
<1>8. ASSUME NEW i \in JobIds, NEW o \in world.new_owners, propose_job_owner(i, o)
      PROVE  GoesOn(j) \/ Opens(j)
  BY <1>5, <1>8 DEF propose_job_owner, windowVars
<1>9. ASSUME NEW i \in JobIds, NEW u \in world.job_updates, update_job(i, u)
      PROVE  GoesOn(j) \/ Opens(j)
  <2>1. touch(i) /\ (j # i => spec'[j] = spec[j] /\ state'[j] = state[j])
    BY <1>1, <1>9 DEF update_job, TypeOK
  <2> QED BY <1>1, <1>2, <2>1, Touches
<1>10. ASSUME NEW i \in JobIds, NEW a \in world.amounts,
              fund_job(i, a) \/ withdraw_job_balance(i, a)
       PROVE  GoesOn(j) \/ Opens(j)
  <2>1. touch(i) /\ (j # i => spec'[j] = spec[j] /\ state'[j] = state[j])
    BY <1>1, <1>10 DEF fund_job, withdraw_job_balance, TypeOK
  <2> QED BY <1>1, <1>2, <2>1, Touches
<1>11. ASSUME NEW i \in JobIds, NEW f \in world.active_flags, set_job_active(i, f)
       PROVE  GoesOn(j) \/ Opens(j)
  <2>1. touch(i) /\ (j # i => spec'[j] = spec[j] /\ state'[j] = state[j])
    BY <1>1, <1>11 DEF set_job_active, TypeOK
  <2> QED BY <1>1, <1>2, <2>1, Touches
<1>12. ASSUME NEW i \in JobIds, cancel_job(i) PROVE GoesOn(j) \/ Opens(j)
  <2>1. CASE i = j
    <3>1. ~ Live(j)'
      BY <1>1, <1>12, <2>1 DEF cancel_job, TypeOK, Live
    <3> QED BY <3>1 DEF Opens, AssigneeCanRun
  <2>2. CASE i # j
    <3>1. spec'[j] = spec[j] /\ state'[j] = state[j] /\ job_touched' = job_touched
      BY <1>1, <1>12, <2>2 DEF cancel_job, TypeOK, windowVars
    <3> QED BY <1>1, <1>2, <3>1, OtherJob
  <2> QED BY <2>1, <2>2
<1>13. ASSUME NEW i \in JobIds, accept_job_owner(i) PROVE GoesOn(j) \/ Opens(j)
  <2>1. /\ state' = state /\ job_touched' = job_touched /\ Live(i)
        /\ spec' = [spec EXCEPT ![i].owner = pending_owner[i]]
    BY <1>13 DEF accept_job_owner, windowVars
  <2>2. CASE i # j
    <3>1. spec'[j] = spec[j]
      BY <1>1, <2>1, <2>2 DEF TypeOK
    <3> QED BY <1>1, <1>2, <2>1, <3>1, OtherJob
  <2>3. CASE i = j
    <3>1. spec[j] \in JobSpec
      BY <1>1, <2>1, <2>3, LiveParts
    <3>2. spec'[j] = [spec[j] EXCEPT !.owner = pending_owner[j]]
      BY <1>1, <2>1, <2>3 DEF TypeOK
    <3>3. JobAlike(j)
      BY <1>2, <2>1, <3>1, <3>2 DEF JobAlike, JobFrame, JobSpec
    <3>4. KeepersAlike
      BY <1>2 DEF JobFrame, KeepersAlike, Eligible, ensure_active_keeper
    <3> QED BY <1>1, <1>2, <2>1, <3>3, <3>4, StaysOpen DEF JobFrame
  <2> QED BY <2>2, <2>3
<1> QED
  BY <1>3, <1>4, <1>6, <1>7, <1>8, <1>9, <1>10, <1>11, <1>12, <1>13 DEF JobCall

-----------------------------------------------------------------------------
(* Runs and windows. *)

\* What a run leaves alone.
RunFrame ==
    /\ now' = now /\ config' = config /\ active_keepers' = active_keepers /\ spec' = spec
    /\ halted' = halted /\ target_resumed' = target_resumed /\ windows_reset' = windows_reset
    /\ job_touched' = job_touched

\* A keeper's record changes only in what does not decide whether it may run jobs.
LEMMA SameRecords ==
  ASSUME config' = config,
         \A x \in Keepers :
            /\ keepers'[x] = None <=> keepers[x] = None
            /\ keepers[x] # None => /\ keepers'[x].unbonding_at = keepers[x].unbonding_at
                                    /\ keepers'[x].stake = keepers[x].stake
  PROVE  KeepersAlike
  BY DEF KeepersAlike, Eligible, ensure_active_keeper

\* A run ends its job's window, which opens again at the next run, and leaves all
\* others alone.
LEMMA RunOpens ==
  ASSUME IInv, RunFrame, KeepersAlike, NEW i \in JobIds, Live(i), ensure_due(i),
         NEW success, state' = [state EXCEPT ![i] = state_after_run(i, success)],
         NEW j \in JobIds
  PROVE  GoesOn(j) \/ Opens(j)
<1>1. TypeOK /\ PartsTogether
  BY DEF IInv
<1>2. CASE j # i
  <2>1. JobAlike(j)
    BY <1>1, <1>2 DEF JobAlike, RunFrame, TypeOK
  <2> QED BY <1>1, <2>1, StaysOpen DEF RunFrame
<1>3. CASE j = i
  <2>1. state'[j].next_run = next_run_after(state[j].next_run, spec[j].interval, now)
    BY <1>1, <1>3 DEF state_after_run, TypeOK
  <2>2. spec[j] \in JobSpec /\ state[j] \in JobState
    BY <1>1, <1>3, LiveParts
  <2>3. now \in U64 /\ now < U64Max
    BY <1>1, NowU64, BoundsAssumption, ScheduleAssumption DEF TypeOK
  <2>4. spec[j].interval \in U64 \ {0} /\ state[j].next_run \in U64 /\ now >= state[j].next_run
    BY <1>3, <2>2 DEF JobSpec, JobState, ensure_due
  <2>5. state'[j].next_run > now /\ state'[j].next_run \in U64
    BY <2>1, <2>3, <2>4, NextRunSlot, NextRunType
  <2>6. ~ (now' >= state'[j].next_run)
    BY <2>3, <2>5 DEF RunFrame, U64
  <2> QED BY <2>6 DEF Opens, AssigneeCanRun, ensure_due
<1> QED BY <1>2, <1>3

\* A call that runs jobs ends the windows of those it runs.
LEMMA ExecuteOpens ==
  ASSUME IInv, BatchRecordCurrent, ExecuteCall, NEW j \in JobIds
  PROVE  GoesOn(j) \/ Opens(j)
<1>1. TypeOK /\ PartsTogether /\ keepers \in [Keepers -> Option(Keeper)]
  BY DEF IInv, TypeOK
<1>2. ASSUME NEW k \in Keepers, NEW i \in JobIds, NEW success \in BOOLEAN,
             execute(k, i, success)
      PROVE  GoesOn(j) \/ Opens(j)
  <2> DEFINE m  == missed_by(i, k)
             ks == IF m = None THEN keepers ELSE record_miss(m, keepers)
  <2>1. /\ Live(i) /\ ensure_due(i) /\ keepers[k] # None
        /\ keepers' = [ks EXCEPT ![k] = info_after_run(keepers[k], i)]
        /\ state' = [state EXCEPT ![i] = state_after_run(i, success)]
    BY <1>2 DEF execute, can_run, authorize_keeper, Eligible
  <2>2. RunFrame
    BY <1>2 DEF execute, RunFrame, windowVars
  <2>3. KeepersAlike
    <3> SUFFICES ASSUME NEW x \in Keepers
                 PROVE  /\ keepers'[x] = None <=> keepers[x] = None
                        /\ keepers[x] # None =>
                              /\ keepers'[x].unbonding_at = keepers[x].unbonding_at
                              /\ keepers'[x].stake = keepers[x].stake
      BY <2>2, SameRecords DEF RunFrame
    <3>1. /\ ks \in [Keepers -> Option(Keeper)]
          /\ ks[x] = None <=> keepers[x] = None
          /\ keepers[x] # None => /\ ks[x].unbonding_at = keepers[x].unbonding_at
                                  /\ ks[x].stake = keepers[x].stake
      BY <2>1, RecordMissKeeps
    <3> HIDE DEF ks, m
    <3>2. CASE x # k
      <4>1. keepers'[x] = ks[x]
        BY <2>1, <3>1, <3>2
      <4> QED BY <3>1, <4>1
    <3>3. CASE x = k
      <4>1. keepers'[x] = info_after_run(keepers[x], i) /\ keepers[x] \in Keeper
        BY <1>1, <2>1, <3>1, <3>3 DEF Option
      <4>2. /\ keepers'[x].unbonding_at = keepers[x].unbonding_at
            /\ keepers'[x].stake = keepers[x].stake
        BY <4>1 DEF info_after_run, Keeper
      <4>3. keepers'[x] # None
        <5>1. state[i] \in JobState /\ recent[x] \in KeeperRecent
          BY <1>1, <2>1, LiveParts DEF TypeOK
        <5>2. keepers'[x] \in Keeper
          BY <1>1, <4>1, <5>1, RecordTypes
        <5> QED BY <5>2, AddressAssumption
      <4> QED BY <2>1, <3>3, <4>2, <4>3
    <3> QED BY <3>2, <3>3
  <2> QED BY <2>1, <2>2, <2>3, RunOpens
<1>3. ASSUME NEW success \in BOOLEAN, execute_batch_run(success)
      PROVE  GoesOn(j) \/ Opens(j)
  <2> DEFINE i  == Head(tx.todo)
             m  == missed_by(i, tx.keeper)
             ks == IF m = None THEN keepers ELSE record_miss(m, keepers)
  <2>1. tx.keeper \in Keepers
    BY <1>3, TxTypes DEF IInv, execute_batch_run, ExecuteBatchTx
  <2>2. /\ Live(i) /\ i \in JobIds /\ ensure_due(i) /\ keepers' = ks
        /\ state' = [state EXCEPT ![i] = state_after_run(i, success)]
    BY <1>3 DEF execute_batch_run, can_run, Live
  <2>3. RunFrame
    BY <1>3 DEF execute_batch_run, RunFrame, windowVars
  <2> HIDE DEF i
  <2>4. \A x \in Keepers :
            /\ ks[x] = None <=> keepers[x] = None
            /\ keepers[x] # None => /\ ks[x].unbonding_at = keepers[x].unbonding_at
                                    /\ ks[x].stake = keepers[x].stake
    BY <2>1, <2>2, RecordMissKeeps
  <2> HIDE DEF ks, m
  <2>5. KeepersAlike
    BY <2>2, <2>3, <2>4, SameRecords DEF RunFrame
  <2> QED BY <2>2, <2>3, <2>5, RunOpens
<1>4. ASSUME RunFrame, state' = state, KeepersAlike PROVE GoesOn(j)
  BY <1>1, <1>4, StaysOpen DEF RunFrame, JobAlike
<1>5. CASE execute_batch_settle
  <2>1. /\ tx.call = "execute_batch" /\ tx.keeper \in Keepers /\ tx.info \in Keeper
        /\ keepers' = [keepers EXCEPT ![tx.keeper] = tx.info]
    BY <1>5, TxTypes DEF IInv, execute_batch_settle, ExecuteBatchTx
  <2>2. /\ keepers[tx.keeper] # None /\ tx.info.unbonding_at = keepers[tx.keeper].unbonding_at
        /\ tx.info.stake = keepers[tx.keeper].stake
    BY <2>1 DEF BatchRecordCurrent
  <2>3. RunFrame /\ state' = state
    BY <1>5 DEF execute_batch_settle, RunFrame, windowVars, jobVars
  <2>4. tx.info # None
    BY <2>1, AddressAssumption
  <2>5. \A x \in Keepers : keepers'[x] = IF x = tx.keeper THEN tx.info ELSE keepers[x]
    BY <1>1, <2>1
  <2>6. KeepersAlike
    BY <2>2, <2>3, <2>4, <2>5, SameRecords DEF RunFrame
  <2> QED BY <1>4, <2>3, <2>6
<1>6. ASSUME UNCHANGED <<now, config, jobVars, keeperVars, windowVars>> PROVE GoesOn(j)
  <2>1. RunFrame /\ state' = state
    BY <1>6 DEF RunFrame, jobVars, keeperVars, windowVars
  <2>2. KeepersAlike
    BY <1>6, <2>1, SameRecords DEF RunFrame, keeperVars
  <2> QED BY <1>4, <2>1, <2>2
<1>7. ASSUME NEW k \in Keepers, NEW ids \in world.run_batches, execute_batch(k, ids)
      PROVE  GoesOn(j)
  BY <1>6, <1>7 DEF execute_batch
<1>8. CASE execute_batch_skip
  BY <1>6, <1>8 DEF execute_batch_skip
<1> QED BY <1>2, <1>3, <1>5, <1>7, <1>8 DEF ExecuteCall

-----------------------------------------------------------------------------
(* Stakes, switches and time. *)

\* A restart of all windows.
LEMMA Restarts ==
  ASSUME IInv', windows_reset' = now, now' = now, NEW j \in JobIds
  PROVE  Opens(j)
<1>1. TypeOK' /\ PartsTogether'
  BY DEF IInv
<1> QED BY <1>1, OpenedNext DEF Opens, OpenedFacts, AssigneeCanRun

\* What the calls that restart nothing leave alone, besides the configuration.
Frame == UNCHANGED <<now, jobVars, active_keepers, windowVars>>

\* With these the same, windows go on.
LEMMA Undisturbed ==
  ASSUME IInv, Frame, KeepersAlike, NEW j \in JobIds,
         config'.grace_period = config.grace_period, config.paused => config'.paused
  PROVE  GoesOn(j)
<1>1. TypeOK /\ PartsTogether
  BY DEF IInv
<1>2. JobAlike(j)
  BY DEF JobAlike, Frame, jobVars
<1> QED BY <1>1, <1>2, StaysOpen DEF Frame, windowVars

\* A keeper that leaves for good could not be assigned before either.
LEMMA ReleaseAlike ==
  ASSUME IInv, config' = config, NEW k \in Keepers, Withdrawable(k),
         keepers' = [keepers EXCEPT ![k] = None]
  PROVE  KeepersAlike
<1>1. keepers \in [Keepers -> Option(Keeper)]
  BY DEF IInv, TypeOK
<1>2. \A x \in Keepers : keepers'[x] = IF x = k THEN None ELSE keepers[x]
  BY <1>1
<1>3. ~ Eligible(k)
  BY DEF Withdrawable, Eligible, ensure_active_keeper
<1> QED BY <1>2, <1>3 DEF KeepersAlike, Eligible, ensure_active_keeper

\* A call about stakes, while the minimum stake is not zero.
LEMMA KeeperOpens ==
  ASSUME IInv, IInv', KeeperCall, config.min_stake > 0, NEW j \in JobIds
  PROVE  GoesOn(j) \/ Opens(j)
<1>1. TypeOK /\ keepers \in [Keepers -> Option(Keeper)] /\ config.min_stake \in Nat
  <2>1. TypeOK /\ keepers \in [Keepers -> Option(Keeper)] /\ config \in Config
    BY DEF IInv, TypeOK
  <2>2. config.min_stake \in Amount
    BY <2>1 DEF Config
  <2> QED BY <2>1, <2>2 DEF Amount
<1>2. ASSUME NEW k \in world.stakers, NEW a \in world.stakes, stake(k, a)
      PROVE  GoesOn(j) \/ Opens(j)
  <2> DEFINE info == IF keepers[k] = None THEN NewKeeper ELSE keepers[k]
  <2>1. /\ a > 0 /\ now' = now /\ config' = config /\ may_stake(info)
        /\ keepers' = [keepers EXCEPT ![k] = [info EXCEPT !.stake = @ + a]]
        /\ active_keepers' = add_active_keeper(k)
        /\ windows_reset' = IF stake_reassigns(k, info) THEN now ELSE windows_reset
        /\ UNCHANGED <<jobVars, halted, job_touched, target_resumed>>
    BY <1>2 DEF stake
  <2>2. CASE stake_reassigns(k, info)
    BY <2>1, <2>2, Restarts
  <2>3. CASE ~ stake_reassigns(k, info)
    <3>1. Frame
      BY <2>1, <2>3 DEF Frame, stake_reassigns, windowVars
    <3>2. k \in Keepers /\ a \in Int
      BY <1>1, WorldOK DEF WorldType, I128
    <3>3. keepers[k] # None
      <4>1. info.stake >= config.min_stake
        BY <2>3 DEF stake_reassigns, ensure_active_keeper
      <4> QED BY <1>1, <4>1 DEF NewKeeper
    <3>4. keepers[k] \in Keeper /\ Eligible(k)
      <4>1. keepers[k] \in Keeper
        BY <1>1, <3>2, <3>3 DEF Option
      <4> QED BY <2>3, <3>3, <4>1 DEF stake_reassigns, Eligible
    <3>5. keepers'[k] = [keepers[k] EXCEPT !.stake = @ + a]
      BY <1>1, <2>1, <3>2, <3>3
    <3>6. keepers'[k].unbonding_at = keepers[k].unbonding_at
          /\ keepers'[k].stake = keepers[k].stake + a /\ keepers[k].stake \in Int
      BY <3>4, <3>5 DEF Keeper, Amount
    <3>7. keepers'[k] # None
      <4>1. [keepers[k] EXCEPT !.stake = @ + a] \in Keeper
        <5>1. keepers[k].stake + a \in Amount
          <6>1. keepers[k].stake + a <= I128Max
            BY <1>2, <3>3 DEF stake
          <6>2. keepers[k].stake \in Nat
            BY <3>4 DEF Keeper, Amount
          <6> QED BY <2>1, <3>2, <6>1, <6>2, ScheduleAssumption DEF Amount
        <5> QED BY <3>4, <5>1 DEF Keeper
      <4> QED BY <3>5, <4>1, AddressAssumption
    <3>8. Eligible(k)'
      <4>1. keepers[k].stake >= config.min_stake /\ keepers[k].unbonding_at = None
        BY <3>4 DEF Eligible, ensure_active_keeper
      <4>2. keepers'[k].stake >= config.min_stake
        BY <1>1, <2>1, <3>2, <3>6, <4>1
      <4> QED BY <2>1, <3>6, <3>7, <4>1, <4>2 DEF Eligible, ensure_active_keeper
    <3>9. KeepersAlike
      <4> SUFFICES ASSUME NEW x \in Keepers PROVE Eligible(x)' <=> Eligible(x)
        BY DEF KeepersAlike
      <4>1. CASE x = k
        BY <3>4, <3>8, <4>1
      <4>2. CASE x # k
        <5>1. keepers'[x] = keepers[x]
          BY <1>1, <2>1, <4>2
        <5> QED BY <2>1, <5>1 DEF Eligible, ensure_active_keeper
      <4> QED BY <4>1, <4>2
    <3> QED BY <2>1, <3>1, <3>9, Undisturbed
  <2> QED BY <2>2, <2>3
<1>3. ASSUME NEW k \in world.unbonders, begin_unbonding(k) PROVE Opens(j)
  BY <1>3, Restarts DEF begin_unbonding, reset_windows
<1>4. ASSUME NEW k \in Keepers, withdraw_stake(k) PROVE GoesOn(j)
  <2>1. KeepersAlike
    BY <1>4, ReleaseAlike DEF withdraw_stake, release_stake
  <2> QED BY <1>4, <2>1, Undisturbed DEF withdraw_stake, Frame
<1>5. ASSUME config' = config, keepers' = keepers PROVE KeepersAlike
  BY <1>5, SameRecords
<1>6. ASSUME NEW list \in world.stake_batches, withdraw_stakes(list) PROVE GoesOn(j)
  BY <1>5, <1>6, Undisturbed DEF withdraw_stakes, Frame, keeperVars
<1>7. CASE withdraw_stakes_next
  <2> DEFINE k == Head(tx.todo)
  <2>1. config' = config /\ Frame
    BY <1>7 DEF withdraw_stakes_next, Frame
  <2>2. KeepersAlike
    <3>1. CASE Withdrawable(k)
      <4>1. keepers' = [keepers EXCEPT ![k] = None]
        BY <1>7, <3>1 DEF withdraw_stakes_next, release_stake
      <4>2. k \in Keepers
        <5>1. tx.todo \in Seq(Keepers) /\ tx.todo # <<>>
          BY <1>7, TxTypes DEF IInv, withdraw_stakes_next, WithdrawStakesTx, WithdrawStakesSound
        <5> QED BY <5>1, HeadTailProperties
      <4> HIDE DEF k
      <4> QED BY <2>1, <3>1, <4>1, <4>2, ReleaseAlike
    <3>2. CASE ~ Withdrawable(k)
      <4>1. keepers' = keepers
        BY <1>7, <3>2 DEF withdraw_stakes_next
      <4> QED BY <1>5, <2>1, <4>1
    <3> QED BY <3>1, <3>2
  <2> QED BY <2>1, <2>2, Undisturbed
<1> QED BY <1>2, <1>3, <1>4, <1>6, <1>7 DEF KeeperCall

\* A call of the admin.
LEMMA AdminOpens ==
  ASSUME IInv, IInv', AdminCall, NEW j \in JobIds
  PROVE  GoesOn(j) \/ Opens(j)
<1>0. TypeOK /\ PartsTogether /\ TypeOK' /\ PartsTogether' /\ config \in Config
  BY DEF IInv, TypeOK
<1>1. ASSUME Frame, keepers' = keepers, config'.min_stake = config.min_stake,
             config'.grace_period = config.grace_period, config.paused => config'.paused
      PROVE  GoesOn(j)
  <2>1. KeepersAlike
    BY <1>1 DEF KeepersAlike, Eligible, ensure_active_keeper
  <2> QED BY <1>1, <2>1, Undisturbed
<1>2. ASSUME UNCHANGED <<now, config, jobVars, keeperVars, windowVars>> PROVE GoesOn(j)
  BY <1>1, <1>2 DEF Frame, keeperVars
<1>3. CASE \/ \E a \in world.admins : propose_admin(a)
           \/ cancel_admin_proposal
           \/ \E d \in world.delays : set_upgrade_delay(d)
           \/ \E w \in world.wasm_hashes : propose_upgrade(w)
           \/ apply_upgrade
           \/ cancel_upgrade
  BY <1>2, <1>3
  DEF propose_admin, cancel_admin_proposal, set_upgrade_delay, propose_upgrade,
      apply_upgrade, cancel_upgrade
<1>4. ASSUME UNCHANGED <<now, jobVars, keeperVars, windowVars>>,
             \/ \E v : config' = [config EXCEPT !.executor = v]
             \/ \E v : config' = [config EXCEPT !.admin = v]
             \/ \E v : config' = [config EXCEPT !.min_interval = v]
             \/ \E v : config' = [config EXCEPT !.max_args = v]
             \/ \E v, w : config' = [config EXCEPT !.protocol_fee_bps = v, !.treasury = w]
             \/ \E v : config' = [config EXCEPT !.max_failures = v]
             \/ \E v : config' = [config EXCEPT !.unbonding_epoch = v]
      PROVE  GoesOn(j)
  <2>1. /\ config'.min_stake = config.min_stake /\ config'.paused = config.paused
        /\ config'.grace_period = config.grace_period
    BY <1>0, <1>4 DEF Config
  <2> QED BY <1>1, <1>4, <2>1 DEF Frame, keeperVars
<1>5. CASE \/ \E e \in world.executors : set_executor(e)
           \/ accept_admin
           \/ \E i \in world.min_intervals : set_min_interval(i)
           \/ \E n \in world.max_args : set_max_args(n)
           \/ \E f \in world.protocol_fees : set_protocol_fee(f[1], f[2])
           \/ \E n \in world.max_failures : set_max_failures(n)
           \/ \E e \in world.epochs : set_unbonding_epoch(e)
  BY <1>4, <1>5
  DEF set_executor, accept_admin, set_min_interval, set_max_args, set_protocol_fee,
      set_max_failures, set_unbonding_epoch
<1>6. ASSUME NEW p \in world.paused_flags, set_paused(p) PROVE Opens(j)
  <2>1. CASE p
    <3>1. config'.paused
      BY <1>0, <1>6, <2>1 DEF set_paused, Config
    <3> QED BY <3>1 DEF Opens, AssigneeCanRun, ensure_not_paused
  <2>2. CASE ~ p
    <3>1. windows_reset' = now /\ now' = now
      BY <1>6, <2>2 DEF set_paused
    <3> QED BY <3>1, Restarts
  <2> QED BY <2>1, <2>2
<1>7. ASSUME NEW s \in world.min_stakes, set_min_stake(s) PROVE Opens(j)
  BY <1>7, Restarts DEF set_min_stake, reset_windows
<1>8. ASSUME NEW g \in world.grace_periods, set_keeper_windows(g) PROVE Opens(j)
  BY <1>8, Restarts DEF set_keeper_windows, reset_windows
<1>9. ASSUME NEW t \in world.halts, NEW h \in BOOLEAN, set_target_halted(t, h)
      PROVE  GoesOn(j) \/ Opens(j)
  <2>1. /\ now' = now /\ config' = config /\ UNCHANGED <<jobVars, keeperVars>>
        /\ job_touched' = job_touched /\ windows_reset' = windows_reset
        /\ halted' = IF h THEN halted \cup {t} ELSE halted \ {t}
        /\ target_resumed' = IF h THEN target_resumed
                             ELSE [target_resumed EXCEPT ![t] = now]
    BY <1>9 DEF set_target_halted
  <2>2. spec' = spec /\ state' = state /\ keepers' = keepers /\ active_keepers' = active_keepers
    BY <2>1 DEF jobVars, keeperVars
  <2>3. CASE ~ h /\ spec[j].target = t
    <3> SUFFICES ASSUME AssigneeCanRun(j)' PROVE now' <= Opened(j)'
      BY DEF Opens
    <3>1. Live(j) /\ Live(j)'
      BY <2>2 DEF AssigneeCanRun, Live
    <3>2. spec[j].target \in Contracts
      BY <1>0, <3>1, LiveParts DEF JobSpec
    <3>3. target_resumed'[spec'[j].target] = now'
      BY <1>0, <2>1, <2>2, <2>3, <3>2 DEF TypeOK
    <3> QED BY <1>0, <3>1, <3>3, OpenedNext DEF OpenedFacts
  <2>4. CASE h \/ spec[j].target # t
    <3>1. KeepersAlike
      BY <2>1, <2>2, SameRecords
    <3>2. target_resumed'[spec[j].target] = target_resumed[spec[j].target]
      BY <1>0, <2>1, <2>4 DEF TypeOK
    <3>3. spec[j].target \in halted => spec[j].target \in halted'
      BY <2>1, <2>4
    <3>4. JobAlike(j)
      BY <2>1, <2>2 DEF JobAlike
    <3> QED BY <1>0, <2>1, <2>2, <3>1, <3>2, <3>3, <3>4, StaysOpen
  <2> QED BY <2>3, <2>4
<1> QED BY <1>3, <1>5, <1>6, <1>7, <1>8, <1>9 DEF AdminCall

\* A timestamp that expires is older than any window.
LEMMA ExpiryKeeps ==
  ASSUME IInv, IInv', NEW j \in JobIds, Live(j), UNCHANGED <<now, jobVars, windows_reset>>,
         NEW e, NEW s \in Nat, s <= Opened(j),
         e + TEMPORARY_TTL <= now, e \in Nat,
         job_touched'[j] = job_touched[j] \/ job_touched[j] = e,
         target_resumed'[spec[j].target] = target_resumed[spec[j].target]
           \/ target_resumed[spec[j].target] = e
  PROVE  s <= Opened(j)' \/ s + TEMPORARY_TTL <= now'
<1> DEFINE o == Opened(j)
           n == state[j].next_run
           t == job_touched[j]
           w == windows_reset
           r == target_resumed[spec[j].target]
           o2 == Opened(j)'
           t2 == job_touched'[j]
           r2 == target_resumed'[spec[j].target]
<1>1. TypeOK /\ PartsTogether /\ TypeOK' /\ PartsTogether' /\ now \in Nat
  BY BoundsAssumption DEF IInv, TypeOK
<1>2. n \in Nat /\ t \in Nat /\ w \in Nat /\ r \in Nat
  BY <1>1, OpenedType
<1>3. o = n \/ o = t \/ o = w \/ o = r
  BY DEF Opened, Larger
<1>4. spec' = spec /\ state' = state /\ Live(j)'
  BY DEF jobVars, Live
<1>5. o2 \in Nat /\ n <= o2 /\ t2 <= o2 /\ w <= o2 /\ r2 <= o2
  BY <1>1, <1>4, OpenedNext DEF OpenedFacts
<1>6. TEMPORARY_TTL \in Nat
  BY TtlAssumption
<1>7. /\ t2 = t \/ t = e
      /\ r2 = r \/ r = e
      /\ s <= o
  OBVIOUS
<1> HIDE DEF o, n, t, w, r, o2, t2, r2
<1>8. s <= o2 \/ s + TEMPORARY_TTL <= now
  BY <1>1, <1>2, <1>3, <1>5, <1>6, <1>7
<1> QED BY <1>8 DEF o2

\* A step of the ledger.
LEMMA LedgerOpens ==
  ASSUME IInv, IInv', Ledger, NEW j \in JobIds
  PROVE  GoesOn(j) \/ Opens(j)
<1>0. TypeOK /\ PartsTogether /\ TypeOK' /\ PartsTogether' /\ now \in Nat
  BY BoundsAssumption DEF IInv, TypeOK
<1>1. CASE Tick
  <2>1. now' = now + 1 /\ UNCHANGED <<config, jobVars, keeperVars, windowVars>>
    BY <1>1 DEF Tick
  <2>2. /\ UNCHANGED <<spec, state, keepers, active_keepers, halted, job_touched>>
        /\ UNCHANGED <<windows_reset, target_resumed>>
    BY <2>1 DEF jobVars, keeperVars, windowVars
  <2>3. CASE now >= state[j].next_run
    <3> SUFFICES ASSUME AssigneeCanRun(j)'
                 PROVE  /\ AssigneeCanRun(j) /\ Turn(j)' = Turn(j) /\ Opened(j)' = Opened(j)
      BY DEF GoesOn
    <3>1. Opened(j)' = Opened(j)
      BY <2>2 DEF Opened
    <3>2. Live(j)
      BY <2>2 DEF AssigneeCanRun, Live
    <3>3. assigned_keeper(j)' = assigned_keeper(j)
      <4>1. KeepersAlike
        BY <2>1, <2>2, SameRecords
      <4> QED BY <1>0, <2>1, <2>2, <3>2, <4>1, AssignedAlike
    <3>4. ensure_due(j)
      <4>1. /\ state[j].active /\ state[j].balance >= spec[j].fee_per_run
            /\ spec[j].max_runs # 0 => state[j].runs < spec[j].max_runs
            /\ spec[j].end_at # 0 => now' < spec[j].end_at
        BY <2>2 DEF AssigneeCanRun, ensure_due
      <4>2. spec[j].end_at \in Nat
        BY <1>0, <3>2, LiveParts DEF JobSpec, U64
      <4>3. spec[j].end_at # 0 => now < spec[j].end_at
        BY <1>0, <2>1, <4>1, <4>2
      <4> QED BY <2>3, <4>1, <4>3 DEF ensure_due
    <3>5. AssigneeCanRun(j) /\ Turn(j)' = Turn(j)
      BY <2>1, <2>2, <3>2, <3>3, <3>4 DEF AssigneeCanRun, Turn, ensure_not_paused
    <3> QED BY <3>1, <3>5
  <2>4. CASE ~ (now >= state[j].next_run)
    <3> SUFFICES ASSUME AssigneeCanRun(j)' PROVE now' <= Opened(j)'
      BY DEF Opens
    <3>1. Live(j)
      BY <2>2 DEF AssigneeCanRun, Live
    <3>2. state[j].next_run \in Nat /\ Opened(j) \in Nat /\ state[j].next_run <= Opened(j)
      BY <1>0, <3>1, OpenedType
    <3>3. Opened(j)' = Opened(j)
      BY <2>2 DEF Opened
    <3> DEFINE o == Opened(j)
               n == state[j].next_run
    <3>4. ~ (now >= n) /\ n \in Nat /\ o \in Nat /\ n <= o
      BY <2>4, <3>2
    <3> HIDE DEF o, n
    <3>5. now + 1 <= o
      BY <1>0, <3>4
    <3> QED BY <2>1, <3>3, <3>5 DEF o
  <2> QED BY <2>3, <2>4
<1>2. CASE Rest
  <2>1. Frame /\ config' = config /\ keepers' = keepers
    BY <1>2 DEF Rest, vars, Frame, keeperVars
  <2>2. KeepersAlike
    BY <2>1, SameRecords
  <2> QED BY <2>1, <2>2, Undisturbed
<1>3. ASSUME UNCHANGED <<now, config, jobVars, keeperVars, halted, windows_reset>>,
             NEW e \in Nat, e + TEMPORARY_TTL <= now,
             job_touched'[j] = job_touched[j] \/ job_touched[j] = e,
             Live(j) => target_resumed'[spec[j].target] = target_resumed[spec[j].target]
                        \/ target_resumed[spec[j].target] = e
      PROVE  GoesOn(j)
  <2> SUFFICES ASSUME AssigneeCanRun(j)'
               PROVE  /\ AssigneeCanRun(j) /\ Turn(j)' = Turn(j)
                      /\ \A s \in Nat : s <= Opened(j) =>
                            s <= Opened(j)' \/ s + TEMPORARY_TTL <= now'
    BY DEF GoesOn
  <2>1. UNCHANGED <<spec, state, keepers, active_keepers>>
    BY <1>3 DEF jobVars, keeperVars
  <2>2. Live(j)
    BY <2>1 DEF AssigneeCanRun, Live
  <2>3. KeepersAlike
    BY <1>3, <2>1, SameRecords
  <2>4. JobAlike(j)
    BY <1>3, <2>1 DEF JobAlike
  <2>5. AssigneeCanRun(j) /\ Turn(j)' = Turn(j)
    BY <1>0, <1>3, <2>1, <2>3, <2>4, Unaffected
  <2>6. ASSUME NEW s \in Nat, s <= Opened(j)
        PROVE  s <= Opened(j)' \/ s + TEMPORARY_TTL <= now'
    BY <1>3, <2>2, <2>6, ExpiryKeeps
  <2> QED BY <2>5, <2>6
<1>4. ASSUME NEW i \in JobIds, ExpireJobTouched(i) PROVE GoesOn(j)
  <2>1. job_touched[i] \in Nat /\ job_touched[i] + TEMPORARY_TTL <= now
    <3>1. job_touched[i] \in Nat
      BY <1>0 DEF TypeOK, U64
    <3> QED BY <1>0, <1>4, <3>1, TtlAssumption DEF ExpireJobTouched
  <2>2. job_touched'[j] = job_touched[j] \/ job_touched[j] = job_touched[i]
    BY <1>0, <1>4 DEF ExpireJobTouched, TypeOK
  <2> QED BY <1>3, <1>4, <2>1, <2>2 DEF ExpireJobTouched
<1>5. ASSUME NEW t \in Contracts, ExpireTargetResumed(t) PROVE GoesOn(j)
  <2>1. target_resumed[t] \in Nat /\ target_resumed[t] + TEMPORARY_TTL <= now
    <3>1. target_resumed[t] \in Nat
      BY <1>0 DEF TypeOK, U64
    <3> QED BY <1>0, <1>5, <3>1, TtlAssumption DEF ExpireTargetResumed
  <2>2. Live(j) => target_resumed'[spec[j].target] = target_resumed[spec[j].target]
                   \/ target_resumed[spec[j].target] = target_resumed[t]
    BY <1>0, <1>5 DEF ExpireTargetResumed, TypeOK
  <2> QED BY <1>3, <1>5, <2>1, <2>2 DEF ExpireTargetResumed
<1> QED BY <1>1, <1>2, <1>4, <1>5 DEF Ledger

-----------------------------------------------------------------------------
(* Misses. *)

WindowInv ==
    /\ RunInv /\ BatchRecordCurrent
    /\ \A j \in JobIds : WindowOK(j)

sinceVars == <<vars, since>>

\* At first there are no jobs.
LEMMA InitWindowInv == InitWindows => WindowInv
<1> SUFFICES ASSUME InitWindows PROVE WindowInv
  OBVIOUS
<1>1. RunInv /\ BatchRecordCurrent
  BY InitRunInv DEF InitWindows, Init, BatchRecordCurrent, Idle
<1>2. \A j \in JobIds : ~ Live(j)
  BY DEF InitWindows, Init, Live
<1> QED BY <1>1, <1>2 DEF WindowInv, WindowOK, AssigneeCanRun

\* Every step keeps the observer's times within the contract's.
LEMMA StepWindowInv ==
  WindowInv /\ config.min_stake > 0 /\ [Next /\ ObserveWindows]_sinceVars => WindowInv'
<1> SUFFICES ASSUME WindowInv, config.min_stake > 0, [Next /\ ObserveWindows]_sinceVars
             PROVE  WindowInv'
  OBVIOUS
<1>1. CASE UNCHANGED sinceVars
  <2>1. UNCHANGED vars /\ since' = since
    BY <1>1 DEF sinceVars
  <2>2. RunInv' /\ BatchRecordCurrent'
    BY <2>1, StepRunInv, StepBatchRecord DEF WindowInv, RunInv
  <2>3. UNCHANGED <<now, config, spec, state, keepers, active_keepers, halted, job_touched,
                    target_resumed, windows_reset>>
    BY <2>1 DEF vars, jobVars, keeperVars, windowVars
  <2>4. ASSUME NEW j \in JobIds PROVE WindowOK(j)'
    <3>1. assigned_keeper(j)' = assigned_keeper(j)
      BY <2>3 DEF assigned_keeper, Eligible, ensure_active_keeper
    <3>2. AssigneeCanRun(j)' <=> AssigneeCanRun(j)
      BY <2>3, <3>1 DEF AssigneeCanRun, Live, ensure_due, ensure_not_paused
    <3>3. Opened(j)' = Opened(j)
      BY <2>3 DEF Opened
    <3> QED BY <2>1, <2>3, <3>2, <3>3 DEF WindowInv, WindowOK
  <2> QED BY <2>2, <2>4 DEF WindowInv
<1>2. CASE Next /\ ObserveWindows
  <2>1. RunInv' /\ BatchRecordCurrent' /\ IInv /\ IInv' /\ BatchRecordCurrent
    BY <1>2, StepRunInv, StepBatchRecord DEF WindowInv, RunInv
  <2> SUFFICES ASSUME NEW j \in JobIds PROVE WindowOK(j)'
    BY <2>1 DEF WindowInv
  <2>2. GoesOn(j) \/ Opens(j)
    BY <1>2, <2>1, JobOpens, ExecuteOpens, KeeperOpens, AdminOpens, LedgerOpens DEF Next
  <2>3. now \in Nat /\ now' \in Nat /\ now <= now'
    <3>1. now \in Nat /\ now' \in Nat
      BY <2>1, BoundsAssumption DEF IInv, TypeOK
    <3> QED BY <1>2, <2>1, <3>1, TimeSteps
  <2>4. Live(j)' => Opened(j)' \in Nat
    BY <2>1, OpenedNext DEF OpenedFacts, IInv
  <2>5. WindowOK(j)
    BY DEF WindowInv
  <2>6. CASE Live(j)'
    BY <1>2, <2>2, <2>3, <2>4, <2>5, <2>6, WindowKept
  <2>7. CASE ~ Live(j)'
    BY <2>7 DEF WindowOK, AssigneeCanRun
  <2> QED BY <2>6, <2>7
<1> QED BY <1>1, <1>2

\* Only a run charges a keeper, and only the one it was assigned to.
LEMMA ChargeSteps ==
  ASSUME RunInv, Next, NEW k \in Keepers, NEW j \in JobIds, Charges(k, j)
  PROVE  assigned_keeper(j) = k /\ had_whole_window(j) /\ AssigneeCanRun(j)
<1>0. /\ keepers[k] # None /\ keepers'[k] # None /\ keepers'[k].missed > keepers[k].missed
      /\ Live(j) /\ state'[j].runs # state[j].runs
  BY DEF Charges
<1>1. TypeOK /\ PartsTogether /\ IInv
  BY DEF RunInv, IInv
<1>2. /\ keepers \in [Keepers -> Option(Keeper)] /\ state \in [JobIds -> Option(JobState)]
      /\ keepers[k] \in Keeper
  BY <1>0, <1>1 DEF TypeOK, Option
<1>3. keepers[k].missed \in Nat
  BY <1>2 DEF Keeper, U32
<1>4. keepers'[k].missed # keepers[k].missed
  BY <1>0, <1>3
<1>5. ASSUME keepers' = keepers \/ state' = state PROVE FALSE
  BY <1>0, <1>4, <1>5
<1>6. CASE JobCall
  BY <1>5, <1>6, JobCallFrame DEF JobFrame
<1>7. CASE KeeperCall
  BY <1>5, <1>7
  DEF KeeperCall, stake, begin_unbonding, withdraw_stake, withdraw_stakes,
      withdraw_stakes_next, jobVars
<1>8. CASE AdminCall
  BY <1>5, <1>8
  DEF AdminCall, set_executor, propose_admin, accept_admin, cancel_admin_proposal,
      set_paused, set_target_halted, set_min_stake, set_min_interval, set_max_args,
      set_protocol_fee, set_max_failures, set_keeper_windows, set_unbonding_epoch,
      set_upgrade_delay, propose_upgrade, apply_upgrade, cancel_upgrade, jobVars
<1>9. CASE Ledger
  BY <1>5, <1>9 DEF Ledger, Tick, Rest, ExpireJobTouched, ExpireTargetResumed, vars, jobVars
<1>10. ASSUME NEW x \in Keepers, missed_by(j, x) = k, Live(j), ensure_due(j),
              ensure_not_paused, spec[j].target \notin halted
       PROVE  assigned_keeper(j) = k /\ had_whole_window(j) /\ AssigneeCanRun(j)
  <2>1. k # None
    BY AddressAssumption
  <2> QED BY <1>10, <2>1 DEF missed_by, assigned_other, AssigneeCanRun
<1>11. ASSUME NEW m, (IF m = None THEN keepers ELSE record_miss(m, keepers))[k] # keepers[k]
       PROVE  m = k
  BY <1>2, <1>11 DEF record_miss
<1>12. ASSUME NEW x \in Keepers, NEW i \in JobIds, NEW success \in BOOLEAN,
              execute(x, i, success)
       PROVE  assigned_keeper(j) = k /\ had_whole_window(j) /\ AssigneeCanRun(j)
  <2> DEFINE m  == missed_by(i, x)
             ks == IF m = None THEN keepers ELSE record_miss(m, keepers)
  <2>1. /\ Live(i) /\ ensure_due(i) /\ ensure_not_paused /\ spec[i].target \notin halted
        /\ keepers[x] # None
        /\ keepers' = [ks EXCEPT ![x] = info_after_run(keepers[x], i)]
        /\ state' = [state EXCEPT ![i] = state_after_run(i, success)]
    BY <1>12 DEF execute, can_run, authorize_keeper, Eligible
  <2>2. i = j
    BY <1>0, <1>2, <2>1
  <2>3. ks \in [Keepers -> Option(Keeper)]
    BY <1>1, <2>1, MissTypes
  <2>4. m = k
    <3> HIDE DEF m, ks
    <3>1. CASE x = k
      <4>1. keepers'[k] = info_after_run(keepers[k], i)
        BY <2>1, <2>3, <3>1
      <4>2. keepers'[k].missed = keepers[k].missed
        BY <1>2, <4>1 DEF info_after_run, Keeper
      <4> QED BY <1>4, <4>2
    <3>2. CASE x # k
      <4>1. keepers'[k] = ks[k]
        BY <2>1, <2>3, <3>2
      <4>2. ks[k] # keepers[k]
        BY <1>4, <4>1
      <4> QED BY <1>11, <4>2 DEF ks
    <3> QED BY <3>1, <3>2
  <2> QED BY <1>10, <2>1, <2>2, <2>4
<1>13. ASSUME NEW success \in BOOLEAN, execute_batch_run(success)
       PROVE  assigned_keeper(j) = k /\ had_whole_window(j) /\ AssigneeCanRun(j)
  <2> DEFINE i  == Head(tx.todo)
             m  == missed_by(i, tx.keeper)
             ks == IF m = None THEN keepers ELSE record_miss(m, keepers)
  <2>1. tx.keeper \in Keepers /\ tx.call = "execute_batch"
    BY <1>1, <1>13, TxTypes DEF execute_batch_run, ExecuteBatchTx
  <2>2. /\ Live(i) /\ i \in JobIds /\ ensure_due(i) /\ spec[i].target \notin halted
        /\ keepers' = ks
        /\ state' = [state EXCEPT ![i] = state_after_run(i, success)]
    BY <1>13 DEF execute_batch_run, can_run, Live
  <2>3. ensure_not_paused
    BY <2>1 DEF RunInv, LoopsUnpaused, ensure_not_paused
  <2>4. i = j
    <3> HIDE DEF i
    <3> QED BY <1>0, <1>2, <2>2
  <2>5. m = k
    <3> HIDE DEF m
    <3>1. ks[k] # keepers[k]
      BY <1>4, <2>2
    <3> QED BY <1>11, <3>1
  <2> QED BY <1>10, <2>1, <2>2, <2>3, <2>4, <2>5
<1>14. CASE execute_batch_skip \/ execute_batch_settle
  BY <1>5, <1>14 DEF execute_batch_skip, execute_batch_settle, jobVars
<1>15. ASSUME NEW x \in Keepers, NEW ids \in world.run_batches, execute_batch(x, ids)
       PROVE  FALSE
  BY <1>5, <1>15 DEF execute_batch, jobVars
<1> QED BY <1>6, <1>7, <1>8, <1>9, <1>12, <1>13, <1>14, <1>15 DEF Next, ExecuteCall

\* While the minimum stake is positive, a keeper is charged with a miss only if it
\* was assigned to the run and could run it, without interruption, for a whole grace
\* period (had_whole_window, record_miss), although the contract keeps no such time
\* and forgets two of the timestamps it judges by.
THEOREM MissesSafe ==
  SpecWindows /\ [](config.min_stake > 0) => MissNeedsWholeWindow
<1>1. WindowInv /\ [Next /\ ObserveWindows]_sinceVars =>
        [\A k \in Keepers, j \in JobIds :
            Charges(k, j) => /\ assigned_keeper(j) = k
                             /\ since[j] # None
                             /\ now >= since[j] + config.grace_period]_sinceVars
  <2> SUFFICES ASSUME WindowInv, Next, NEW k \in Keepers, NEW j \in JobIds, Charges(k, j)
               PROVE  /\ assigned_keeper(j) = k
                      /\ since[j] # None
                      /\ now >= since[j] + config.grace_period
    OBVIOUS
  <2>1. assigned_keeper(j) = k /\ had_whole_window(j) /\ AssigneeCanRun(j)
    BY ChargeSteps DEF WindowInv
  <2>2. TypeOK /\ PartsTogether /\ Live(j) /\ config \in Config
    BY <2>1 DEF WindowInv, RunInv, IInv, TypeOK, AssigneeCanRun
  <2> DEFINE o == Opened(j)
             g == config.grace_period
             s == since[j]
  <2>3. now >= SatAdd(o, g) /\ o \in Nat
    BY <2>1, <2>2, OpenedType DEF had_whole_window, Opened
  <2>4. g \in 0..MAX_GRACE_PERIOD
    BY <2>2 DEF Config
  <2>5. s \in 0..now /\ (s <= o \/ s + TEMPORARY_TTL <= now)
    BY <2>1 DEF WindowInv, WindowOK
  <2>6. now \in Nat /\ now < U64Max /\ U64Max \in Nat
    <3>1. now \in 0..MaxTime
      BY <2>2 DEF TypeOK
    <3>2. MaxTime \in Nat /\ MaxTime < U64Max /\ U64Max \in Nat
      BY BoundsAssumption, ScheduleAssumption
    <3> QED BY <3>1, <3>2
  <2> HIDE DEF o, g, s
  <2>7. s \in U64
    BY <2>5, <2>6 DEF U64
  <2>8. s # None
    BY <2>7, AddressAssumption
  <2>9. now >= o + g
    BY <2>3, <2>4, <2>6, BoundsAssumption DEF SatAdd
  <2>10. now >= s + g
    BY <2>3, <2>4, <2>5, <2>6, <2>9, BoundsAssumption, TtlAssumption
  <2> QED BY <2>1, <2>8, <2>10 DEF s, g
<1> QED
  BY <1>1, InitWindowInv, StepWindowInv, PTL DEF SpecWindows, MissNeedsWholeWindow, sinceVars
=============================================================================
