----------------------------- MODULE Lifetimes -----------------------------
(***************************************************************************)
(* Keeping ledger entries alive: contracts/examples/self-extending, whose  *)
(* daily job calls extend_ttl, and contracts/ttl-guardian, whose job calls *)
(* extend or extend_many for other contracts.  An entry that outlives its  *)
(* TTL is archived and can no longer be extended.                          *)
(*                                                                         *)
(* External: the host's extend_ttl(threshold, extend_to) sets an entry's   *)
(* TTL to extend_to when at most threshold ledgers of it are left, and     *)
(* never shortens it; a new persistent entry starts with MIN_TTL.  Values  *)
(* are left out: no decision looks at them.  Here `now` counts ledgers.     *)
(***************************************************************************)
EXTENDS HostLedger

CONSTANTS
    Keys,                       \* keys put into the self-extending contract
    Contracts,                  \* contracts the guardian looks after
    THRESHOLD, EXTEND_TO, MAX_KEYS, MAX_EXTEND_MANY,
    Guards,                     \* [threshold, extend_to] of the guardian's job
    MaxTtl, MIN_TTL,            \* of the network
    Gap                         \* ledgers between two runs of a job at most

VARIABLES
    kept,       \* whether the self-extending contract is deployed
    index,      \* every key ever stored
    live_until, \* per entry the last ledger it lives, or None
    guard,      \* what the guardian's job passes, or None before it is scheduled
    last_run    \* history: when the keeper last ran the job

lifeVars == <<kept, index, live_until, guard, last_run>>

Entries == Keys \cup Contracts \cup {"instance"}

Init ==
    /\ kept = FALSE /\ index = <<>>
    /\ live_until = [e \in Entries |-> IF e \in Contracts THEN EXTEND_TO ELSE None]
    /\ guard = None /\ last_run = 0

Alive(e) == live_until[e] # None /\ live_until[e] >= now

Extended(e, threshold, extend_to) ==
    IF live_until[e] - now <= threshold /\ now + extend_to > live_until[e]
    THEN now + extend_to ELSE live_until[e]

constructor ==
    /\ ~ kept /\ guard = None /\ kept' = TRUE
    /\ live_until' = [live_until EXCEPT !["instance"] = now + MIN_TTL]
    /\ last_run' = now
    /\ UNCHANGED <<index, guard>>

Indexed(key) == \E n \in 1..Len(index) : index[n] = key

\* A stored entry keeps its TTL when it is overwritten, and a new one is topped
\* up at once.
put(key) ==
    LET start == IF live_until[key] = None THEN MIN_TTL ELSE live_until[key] - now
    IN  /\ kept /\ Alive("instance")
        /\ live_until[key] # None => Alive(key)
        /\ Indexed(key) \/ Len(index) < MAX_KEYS
        /\ index' = IF Indexed(key) THEN index ELSE Append(index, key)
        /\ live_until' = [live_until EXCEPT ![key] =
              now + (IF start <= THRESHOLD /\ EXTEND_TO > start THEN EXTEND_TO ELSE start)]
        /\ UNCHANGED <<kept, guard, last_run>>

\* Mutated form: only the instance is extended, as a guardian would do it.
ExtendInstanceOnly ==
    /\ kept /\ Alive("instance")
    /\ live_until' = [live_until EXCEPT !["instance"] = Extended("instance", THRESHOLD, EXTEND_TO)]
    /\ last_run' = now
    /\ UNCHANGED <<kept, index, guard>>

extend_ttl ==
    /\ kept /\ Alive("instance")
    /\ live_until' = [e \in Entries |->
          IF e = "instance" \/ (Indexed(e) /\ live_until[e] # None)
          THEN Extended(e, THRESHOLD, EXTEND_TO) ELSE live_until[e]]
    /\ last_run' = now
    /\ UNCHANGED <<kept, index, guard>>

-----------------------------------------------------------------------------
(* ttl-guardian. *)

\* The job's owner schedules the guardian, in time for its first run.
Guarded(g) ==
    /\ ~ kept /\ guard = None /\ guard' = g
    /\ \A c \in Contracts : live_until[c] >= now + Gap
    /\ last_run' = now
    /\ UNCHANGED <<kept, index, live_until>>

Capped(extend_to) == IF extend_to > MaxTtl THEN MaxTtl ELSE extend_to

\* extend is extend_many of one contract; one that fails undoes the others.
extend_many(contracts, threshold, extend_to) ==
    /\ Cardinality(contracts) <= MAX_EXTEND_MANY
    /\ contracts # {} => threshold <= Capped(extend_to)
    /\ \A c \in contracts : Alive(c)
    /\ live_until' = [e \in Entries |->
          IF e \in contracts THEN Extended(e, threshold, Capped(extend_to)) ELSE live_until[e]]
    /\ UNCHANGED <<kept, index, guard>>

GuardianRuns ==
    /\ guard # None
    /\ extend_many(Contracts, guard.threshold, guard.extend_to)
    /\ last_run' = now

\* Anybody may extend any contract at any time.
AnybodyExtends(c, g) == extend_many({c}, g.threshold, g.extend_to) /\ UNCHANGED last_run

Next ==
    \/ constructor
    \/ \E k \in Keys : put(k)
    \/ extend_ttl
    \/ \E g \in Guards : Guarded(g)
    \/ GuardianRuns
    \/ \E c \in Contracts, g \in Guards : AnybodyExtends(c, g)

\* A keeper runs a scheduled job at least every Gap ledgers.
KeeperOnTime == (kept \/ guard # None) => now < last_run + Gap

-----------------------------------------------------------------------------

\* While a keeper runs the job often enough (a Gap no longer than the threshold
\* and than the TTL of a new entry) nothing is ever archived: not the entries
\* put in between two runs, not one that was just above the threshold, and for
\* the guardian no contract whose job passes a threshold of at least the Gap.
NothingArchived ==
    /\ kept => \A e \in Keys \cup {"instance"} : live_until[e] # None => Alive(e)
    /\ guard # None => \A c \in Contracts : Alive(c)
=============================================================================
