------------------------------ MODULE JobIndex ------------------------------
(***************************************************************************)
(* The keeper bot's local index of jobs (keeper-bot/src/jobIndex.ts):      *)
(* loaded once, page by page, and then kept current from events.  Every    *)
(* await is a step of its own, so ledgers close in between, and may fail   *)
(* (a call that withRetry gave up on, or a cursor the server no longer     *)
(* has).  A failing call ends the tick; while syncing it reloads instead.  *)
(*                                                                         *)
(* An event cursor is the number of events it lies behind.  Servers return *)
(* it with every page; older ones return none with an empty page.          *)
(***************************************************************************)
EXTENDS JobFeed, FiniteSets

CONSTANTS
    PAGE,                   \* jobs per call of get_jobs
    EventLimit,             \* events per page while following (500)
    ResyncEvery,            \* syncs between reloads
    MaxFailures             \* bound: failing calls

VARIABLES
    pc,             \* what the bot awaits, or "idle" between syncs
    index,          \* this.jobs
    cursor,         \* this.cursor, or None
    pending_start,  \* this.pendingStart, or None
    syncs,          \* this.syncs, modulo ResyncEvery
    latest,         \* load: the ledger read first
    count,          \* load: job_count
    start,          \* load: the next page's first job
    fresh,          \* load: the jobs read so far
    page,           \* sync: the events still to apply, and the cursor behind them
    failures,       \* failing calls so far
    gap             \* history: an event after the snapshot was passed over

indexVars == <<pc, index, cursor, pending_start, syncs, latest, count, start, fresh, page>>
vars == <<feedVars, indexVars, failures, gap>>

ASSUME IndexAssumption ==
    /\ PAGE \in Nat \ {0} /\ EventLimit \in Nat \ {0}
    /\ ResyncEvery \in Nat \ {0} /\ MaxFailures \in Nat

NoJobs == [j \in JobIds |-> None]
NoPage == [events |-> <<>>, cursor |-> None, full |-> FALSE]

\* The constructor, followed by the load before the main loop.
Init ==
    /\ FeedInit
    /\ pc = "latest"
    /\ index = NoJobs
    /\ cursor = None /\ pending_start = None
    /\ syncs = 0
    /\ latest = 0 /\ count = 0 /\ start = 0 /\ fresh = NoJobs
    /\ page = NoPage
    /\ failures = 0
    /\ gap = FALSE

-----------------------------------------------------------------------------
(* The RPC server. *)

\* Where the events of ledger `first` begin in the log.
Behind(first) == Cardinality({i \in 1..Len(log) : log[i].ledger < first})

\* At most `limit` events behind position `from`.
EventsFrom(from, limit) ==
    SubSeq(log, from + 1, IF from + limit < Len(log) THEN from + limit ELSE Len(log))

\* The cursors a server may return with `events` read from position `from`.
Cursors(events, from) ==
    {from + Len(events)} \cup (IF events = <<>> THEN {None} ELSE {})

-----------------------------------------------------------------------------
(* load: its locals are latest, count, start and fresh. *)

load_latest ==
    /\ pc = "latest" /\ ~ open
    /\ latest' = ledger
    /\ pc' = "count"
    /\ UNCHANGED <<feedVars, index, cursor, pending_start, syncs, count, start, fresh,
                   page, failures, gap>>

\* The new map replaces the old one before the next await.
Install(new) == index' = new /\ pc' = "begin" /\ gap' = FALSE

load_count ==
    /\ pc = "count" /\ ~ open
    /\ count' = next_id
    /\ IF next_id = 0 THEN Install(NoJobs) ELSE pc' = "page" /\ UNCHANGED <<index, gap>>
    /\ UNCHANGED <<feedVars, cursor, pending_start, syncs, latest, start, fresh, page,
                   failures>>

load_page ==
    /\ pc = "page" /\ ~ open
    /\ start' = start + PAGE
    /\ fresh' = [j \in JobIds |-> IF j \in start..(start + PAGE - 1) THEN jobs[j] ELSE fresh[j]]
    /\ IF start + PAGE >= count THEN Install(fresh') ELSE UNCHANGED <<pc, index, gap>>
    /\ UNCHANGED <<feedVars, cursor, pending_start, syncs, latest, count, page, failures>>

\* Mutated form: starts behind the ledger that is the last one by now.
StartAfterSnapshot == ledger + 1

\* Where load starts to follow events.
start_ledger == latest

\* Asks for one event from the ledger read first, only to get a cursor: the
\* index continues behind that event.
load_begin ==
    /\ pc = "begin" /\ ~ open
    /\ LET from == Behind(start_ledger)
           events == EventsFrom(from, 1)
       IN  /\ cursor' \in Cursors(events, from)
           /\ pending_start' = IF cursor' = None THEN start_ledger ELSE None
           /\ gap' = (events # <<>> /\ Head(events).ledger > latest)
    /\ pc' = "idle"
    /\ latest' = 0 /\ count' = 0 /\ start' = 0 /\ fresh' = NoJobs
    /\ UNCHANGED <<feedVars, index, syncs, page, failures>>

\* A failing call ends the tick; before the main loop it ends the process, which
\* then starts again.
load_fails ==
    /\ pc \in {"latest", "count", "page", "begin"}
    /\ failures < MaxFailures
    /\ failures' = failures + 1
    /\ pc' = IF cursor = None /\ pending_start = None THEN "latest" ELSE "idle"
    /\ latest' = 0 /\ count' = 0 /\ start' = 0 /\ fresh' = NoJobs
    /\ UNCHANGED <<feedVars, index, cursor, pending_start, syncs, page, gap>>

-----------------------------------------------------------------------------
(* sync *)

\* Mutated form: never reloads.
ResyncNever(n) == FALSE

resync_due(n) == n % ResyncEvery = 0

sync ==
    /\ pc = "idle"
    /\ syncs' = (syncs + 1) % ResyncEvery
    /\ pc' = IF resync_due(syncs + 1) THEN "latest" ELSE "events"
    /\ UNCHANGED <<feedVars, index, cursor, pending_start, latest, count, start, fresh,
                   page, failures, gap>>

\* What follows once the events in hand are applied: the cursor moves behind the
\* page, and only a full page is followed by another one.
Turn(left) ==
    IF left.events # <<>> THEN
        /\ pc' = "apply" /\ page' = left
        /\ UNCHANGED <<cursor, pending_start>>
    ELSE
        /\ cursor' = IF left.cursor # None THEN left.cursor ELSE cursor
        /\ pending_start' = IF left.cursor # None THEN None ELSE pending_start
        /\ page' = NoPage
        /\ pc' = IF left.full THEN "events" ELSE "idle"

sync_events ==
    /\ pc = "events" /\ ~ open
    /\ LET from == IF cursor # None THEN cursor ELSE Behind(pending_start)
           events == EventsFrom(from, EventLimit)
       IN  \E c \in Cursors(events, from) :
              Turn([events |-> events, cursor |-> c, full |-> Len(events) = EventLimit])
    /\ UNCHANGED <<feedVars, index, syncs, latest, count, start, fresh, failures, gap>>

\* An indexed job after an event that needs no call.
Applied(job, e) ==
    CASE e.type = "job_executed" ->
           [job EXCEPT !.next_run = e.next_run, !.runs = e.run, !.balance = @ - e.fee]
      [] e.type \in {"job_funded", "job_withdrawn", "job_exhausted"} ->
           [job EXCEPT !.balance = e.balance]
      [] e.type = "job_active_set" -> [job EXCEPT !.active = e.active]
      [] e.type = "job_deactivated" -> [job EXCEPT !.active = FALSE]

\* The index after one event: a created or updated job is read from the registry
\* as it is by now, which may be later than the event.
apply(e) ==
    [index EXCEPT ![e.job] =
        CASE e.data.type \in {"job_created", "job_updated"} ->
               IF jobs[e.job] # None THEN jobs[e.job] ELSE @
          [] e.data.type = "job_cancelled" -> None
          [] OTHER -> IF @ = None THEN None ELSE Applied(@, e.data)]

sync_apply ==
    /\ pc = "apply"
    /\ Head(page.events).data.type \in {"job_created", "job_updated"} => ~ open
    /\ index' = apply(Head(page.events))
    /\ Turn([page EXCEPT !.events = Tail(@)])
    /\ UNCHANGED <<feedVars, syncs, latest, count, start, fresh, failures, gap>>

\* A failing call while following events: everything is loaded again.
sync_fails ==
    /\ \/ pc = "events"
       \/ pc = "apply" /\ Head(page.events).data.type \in {"job_created", "job_updated"}
    /\ failures < MaxFailures
    /\ failures' = failures + 1
    /\ page' = NoPage
    /\ pc' = "latest"
    /\ UNCHANGED <<feedVars, index, cursor, pending_start, syncs, latest, count, start,
                   fresh, gap>>

-----------------------------------------------------------------------------

Answered ==
    \/ load_latest \/ load_count \/ load_page \/ load_begin
    \/ sync \/ sync_events \/ sync_apply

Bot == Answered \/ load_fails \/ sync_fails

Next ==
    \/ FeedNext /\ UNCHANGED <<indexVars, failures, gap>>
    \/ Bot

\* Calls are answered sooner or later and the keeper keeps polling; ledgers keep
\* closing.
Fairness ==
    /\ WF_vars(Answered)
    /\ WF_vars((BeginLedger \/ EndLedger) /\ UNCHANGED <<indexVars, failures, gap>>)

Spec == Init /\ [][Next]_vars /\ Fairness

-----------------------------------------------------------------------------

\* Between syncs, with every event so far behind the cursor.
CaughtUp == pc = "idle" /\ ~ open /\ cursor = Len(log)

\* Unless load passed an event over, an index that has caught up knows exactly
\* the live jobs, with their slot, runs, settings and switch, and never thinks a
\* job richer than it is: although pages and single jobs are read at different
\* ledgers, later than the events applied on top of them, and loads fail halfway
\* (load, apply).
IndexSound ==
    CaughtUp /\ ~ gap =>
        \A j \in JobIds :
            IF jobs[j] = None THEN index[j] = None
            ELSE /\ index[j] # None
                 /\ [index[j] EXCEPT !.balance = jobs[j].balance] = jobs[j]
                 /\ index[j].balance <= jobs[j].balance

\* Once the registry is quiet the index is exact between syncs, for good: the
\* periodic reload repairs whatever failing calls and races left behind
\* (resyncEvery).
IndexHeals == <>[](pc = "idle" => index = jobs)

\* The header of jobIndex.ts: "Local index of the registry's jobs, kept current
\* from events".  An index that has applied every event knows every live job and
\* no other.
KeptCurrent ==
    CaughtUp => \A j \in JobIds : index[j] = None <=> jobs[j] = None
=============================================================================
