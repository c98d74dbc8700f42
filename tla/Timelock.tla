------------------------------ MODULE Timelock ------------------------------
(***************************************************************************)
(* The DAO timelock (contracts/examples/timelock): queued calls, executed  *)
(* in their window by whoever calls execute_ready.  What a call does is    *)
(* left out: a run is given the set of calls whose targets would succeed,  *)
(* which may differ from run to run.  A target cannot call back into the   *)
(* timelock, since the host refuses re-entry.                              *)
(***************************************************************************)
EXTENDS HostLedger

CONSTANTS
    Settings,       \* constructor arguments [delay, grace] to try
    Etas,           \* execution times asked for
    MAX_PER_RUN,
    MaxCalls        \* bound: calls ever queued

VARIABLES
    settings,       \* Delay and Grace, or None before the constructor
    next_id,
    queue,          \* ids of queued calls, oldest first
    calls,          \* per id its Call, of which the ETA, or None
    asked,          \* history: per id when it was queued and its ETA, or None
    ended           \* history: per id how and when it left the queue, or None

timelockVars == <<settings, next_id, queue, calls, asked, ended>>

Ids == 0..(MaxCalls - 1)
Setting == [delay : U64, grace : U64]
Request == [at : U64, eta : U64]
Outcome == [how : {"executed", "expired", "cancelled"}, at : U64]

Init ==
    /\ settings = None /\ next_id = 0 /\ queue = <<>>
    /\ calls = [i \in Ids |-> None]
    /\ asked = [i \in Ids |-> None]
    /\ ended = [i \in Ids |-> None]

constructor(s) ==
    /\ settings = None
    /\ settings' = s
    /\ UNCHANGED <<next_id, queue, calls, asked, ended>>

queue_call(eta) ==
    /\ settings # None
    /\ eta >= SatAdd(now, settings.delay)
    /\ next_id < MaxCalls
    /\ next_id' = next_id + 1
    /\ calls' = [calls EXCEPT ![next_id] = eta]
    /\ queue' = Append(queue, next_id)
    /\ asked' = [asked EXCEPT ![next_id] = [at |-> now, eta |-> eta]]
    /\ UNCHANGED <<settings, ended>>

\* The queue without ids, in the same order.
Without(ids) ==
    LET left[n \in 0..Len(queue)] ==
            IF n = 0 THEN <<>>
            ELSE IF queue[n] \in ids THEN left[n - 1] ELSE Append(left[n - 1], queue[n])
    IN  left[Len(queue)]

\* Removes ids from the queue together with their calls, as `how` each left.
remove(ids, how) ==
    /\ queue' = Without(ids)
    /\ calls' = [i \in Ids |-> IF i \in ids THEN None ELSE calls[i]]
    /\ ended' = [i \in Ids |-> IF i \in ids THEN [how |-> how[i], at |-> now] ELSE ended[i]]

cancel(id) ==
    /\ settings # None
    /\ \E n \in 1..Len(queue) : queue[n] = id
    /\ remove({id}, [i \in {id} |-> "cancelled"])
    /\ UNCHANGED <<settings, next_id, asked>>

Ready(id) == calls[id] # None /\ now >= calls[id]

\* Mutated form: the end of the grace period still counts as inside it.
ExpiredLate(id) == Ready(id) /\ now > SatAdd(calls[id], settings.grace)

Expired(id) == Ready(id) /\ now >= SatAdd(calls[id], settings.grace)

\* Whether the loop of execute_ready gets to the n-th id of the queue: it stops
\* after MAX_PER_RUN executed calls; failed and expired ones do not count.
Reached(works, n) ==
    Cardinality({m \in 1..(n - 1) :
        queue[m] \in works /\ Ready(queue[m]) /\ ~ Expired(queue[m])}) < MAX_PER_RUN

\* Mutated form: an expired call is passed over and stays in the queue.
ExpiredStayQueued(works) ==
    LET run == {queue[n] : n \in {m \in 1..Len(queue) :
                   Reached(works, m) /\ Ready(queue[m]) /\ ~ Expired(queue[m])
                   /\ queue[m] \in works}}
    IN  /\ settings # None
        /\ remove(run, [i \in run |-> "executed"])
        /\ UNCHANGED <<settings, next_id, asked>>

execute_ready(works) ==
    LET reached == {queue[n] : n \in {m \in 1..Len(queue) : Reached(works, m)}}
        expired == {i \in reached : Expired(i)}
        run     == {i \in reached : Ready(i) /\ ~ Expired(i) /\ i \in works}
    IN  /\ settings # None
        /\ remove(expired \cup run,
                  [i \in expired \cup run |-> IF i \in run THEN "executed" ELSE "expired"])
        /\ UNCHANGED <<settings, next_id, asked>>

should_run == \E n \in 1..Len(queue) : Ready(queue[n])

Next ==
    \/ \E s \in Settings : constructor(s)
    \/ \E eta \in Etas : queue_call(eta)
    \/ \E id \in Ids : cancel(id)
    \/ \E works \in SUBSET Ids : execute_ready(works)

-----------------------------------------------------------------------------

\* Every queued call leaves the queue in the end, whatever its target does and
\* however many calls are queued before it: a failing call neither blocks the
\* calls behind it nor stays past its grace period.
QueueDrains ==
    \A id \in Ids : (calls[id] # None) ~> (asked[id] # None /\ calls[id] = None)

\* A call leaves the queue once, and runs only inside its window: no earlier
\* than its ETA and the timelock's delay after it was queued, and before its
\* grace period is over; it expires only after that.  The queue, the stored
\* calls and what has not ended are always the same calls.
CallsRunInTheirWindow ==
    /\ \A id \in Ids :
          /\ (calls[id] # None) = (\E n \in 1..Len(queue) : queue[n] = id)
          /\ (calls[id] # None) = (asked[id] # None /\ ended[id] = None)
          /\ ended[id] # None /\ ended[id].how = "executed" =>
                /\ ended[id].at >= asked[id].eta
                /\ ended[id].at >= SatAdd(asked[id].at, settings.delay)
                /\ ended[id].at < SatAdd(asked[id].eta, settings.grace)
          /\ ended[id] # None /\ ended[id].how = "expired" =>
                ended[id].at >= SatAdd(asked[id].eta, settings.grace)
=============================================================================
