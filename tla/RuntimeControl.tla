--------------------------- MODULE RuntimeControl ---------------------------
(***************************************************************************)
(* The settings of the simulators that administrators change at run time   *)
(* (app/simulator/control.py, app/api/v1/admin.py), kept in one entry of   *)
(* the cache (app/core/cache.py), and the loop of the simulator that polls *)
(* them (run_forever, wait_for_controlled_tick).  An update reads, merges  *)
(* and writes; within a process it is one step of the event loop, but two  *)
(* processes interleave between the two calls to Redis.                    *)
(***************************************************************************)
EXTENDS Integers

CONSTANTS Process,
          Default,     \* default_runtime_control: what the deployment configures
          Changes,     \* what administrators ask: which fields, and their values
          NoControl,
          MaxChanges, MaxOutages  \* bounds: updates, failures of Redis

Fields == {"enabled", "interval"}
Slices == 1..2  \* an interval, in sleeps of two seconds
Control == [enabled : BOOLEAN, interval : Slices]

\* What the constants may be.
ControlConstants ==
    /\ Default \in Control /\ NoControl \notin Control
    /\ \A change \in Changes : change.to \in Control /\ change.fields \subseteq Fields

VARIABLES
    up,        \* Redis is reachable
    shared,    \* the entry in Redis, which never expires
    client,    \* processes that hold a client: the others fall back to local entries
    copy,      \* the entry of _local_cache of each process
    own,       \* _local_control of each process
    draft,     \* the merged settings an update is about to write, with its change
    leader,    \* the process whose loop runs
    loop,      \* where run_forever is
    used,      \* interval_seconds, as the loop last read it
    remaining,
    asked,     \* history: the settings as the administrators left them
    doubtful,  \* history: fields whose last change crossed another or met an outage
    changes, outages

redisVars == <<up, shared>>
updateVars == <<copy, own, draft, asked, doubtful, changes>>
loopVars == <<leader, loop, used, remaining>>
vars == <<redisVars, client, updateVars, loopVars, outages>>

Idle == [to |-> NoControl, fields |-> {}]

TypeOK ==
    /\ up \in BOOLEAN /\ shared \in Control \cup {NoControl} /\ client \subseteq Process
    /\ copy \in [Process -> Control \cup {NoControl}]
    /\ own \in [Process -> Control \cup {NoControl}]
    /\ draft \in [Process -> [to : Control \cup {NoControl}, fields : SUBSET Fields]]
    /\ leader \in Process /\ loop \in {"check", "paused", "tick", "wait"}
    /\ used \in Slices /\ remaining \in 0..2
    /\ asked \in Control /\ doubtful \subseteq Fields
    /\ changes \in 0..MaxChanges /\ outages \in 0..MaxOutages

Init ==
    /\ up = TRUE /\ shared = NoControl /\ client = Process
    /\ copy = [p \in Process |-> NoControl] /\ own = copy
    /\ draft = [p \in Process |-> Idle]
    /\ leader \in Process /\ loop = "check" /\ used = Default.interval /\ remaining = 0
    /\ asked = Default /\ doubtful = {} /\ changes = 0 /\ outages = 0

(***************************************************************************)
(* The cache                                                               *)
(***************************************************************************)
\* A call of process p reaches Redis, and if it fails p gives its client up.
Reaches(p) == p \in client /\ up
Call(p) == client' = IF up THEN client ELSE client \ {p}

\* _get_client, once the back-off is over.
Reconnect(p) ==
    /\ up /\ p \notin client /\ client' = client \cup {p}
    /\ UNCHANGED <<redisVars, updateVars, loopVars, outages>>

\* A slip: what this process wrote goes before what is shared.
GetOwnFirst(p) == IF own[p] # NoControl THEN own[p] ELSE IF shared # NoControl THEN shared ELSE Default

\* get_runtime_control: get_json falls back to the local entry only without Redis.
Get(p) ==
    LET entry == IF Reaches(p) THEN shared ELSE copy[p]
    IN IF entry # NoControl THEN entry ELSE IF own[p] # NoControl THEN own[p] ELSE Default

(***************************************************************************)
(* Updates                                                                 *)
(***************************************************************************)
Merge(control, change) ==
    [f \in Fields |-> IF f \in change.fields THEN change.to[f] ELSE control[f]]

Updating == {p \in Process : draft[p] # Idle}

\* A slip: a change starts from the settings of the deployment.
BaseDefault(p) == Default

\* The settings a change is merged into.
Base(p) == Get(p)

\* update_runtime_control up to the call that writes: settings, start and stop.
Update(p, change) ==
    /\ changes < MaxChanges /\ changes' = changes + 1
    /\ draft[p] = Idle
    /\ LET merged == Merge(Base(p), change)
       IN /\ draft' = [draft EXCEPT ![p] = [to |-> merged, fields |-> change.fields]]
          /\ own' = [own EXCEPT ![p] = merged]
          /\ copy' = [copy EXCEPT ![p] = merged]
    /\ Call(p)
    /\ asked' = Merge(asked, change)
    /\ doubtful' = IF ~Reaches(p) THEN Fields
                   ELSE IF Updating = {} THEN doubtful \ change.fields
                   ELSE doubtful \cup change.fields \cup UNION {draft[q].fields : q \in Updating}
    /\ UNCHANGED <<redisVars, loopVars, outages>>

\* set_json_persistent writes to Redis, or fails and leaves the change to this process.
Store(p) ==
    /\ draft[p] # Idle /\ draft' = [draft EXCEPT ![p] = Idle]
    /\ shared' = IF Reaches(p) THEN draft[p].to ELSE shared
    /\ doubtful' = IF Reaches(p) THEN doubtful ELSE doubtful \cup draft[p].fields
    /\ Call(p)
    /\ UNCHANGED <<up, copy, own, asked, changes, loopVars, outages>>

(***************************************************************************)
(* The loop of the simulator, on the process that leads                    *)
(***************************************************************************)
\* The loop runs between the steps of the requests of its process.
Turn == draft[leader] = Idle

LoopUnchanged == UNCHANGED <<redisVars, updateVars, leader, outages>>

Check ==
    /\ Turn /\ loop \in {"check", "paused"} /\ Call(leader)
    /\ IF Get(leader).enabled
       THEN loop' = "tick" /\ used' = Get(leader).interval
       ELSE loop' = "paused" /\ UNCHANGED used
    /\ LoopUnchanged /\ UNCHANGED remaining

Tick ==
    /\ Turn /\ loop = "tick" /\ loop' = "wait" /\ remaining' = used
    /\ LoopUnchanged /\ UNCHANGED <<client, used>>

\* One sleep of wait_for_controlled_tick, and the poll that may end the wait.
Slice ==
    /\ Turn /\ loop = "wait" /\ Call(leader)
    /\ remaining' = remaining - 1
    /\ loop' = IF remaining = 1 \/ ~Get(leader).enabled \/ Get(leader).interval # used
               THEN "check" ELSE "wait"
    /\ LoopUnchanged /\ UNCHANGED used

\* Another process becomes leader (LeaderElection) and starts the loop.
Handover(p) ==
    /\ p # leader /\ leader' = p /\ loop' = "check" /\ remaining' = 0
    /\ UNCHANGED <<redisVars, client, updateVars, used, outages>>

(***************************************************************************)
(* Redis                                                                   *)
(***************************************************************************)
\* Redis stops being reachable, or comes back without what it held.
RedisFails ==
    /\ outages < MaxOutages /\ outages' = outages + 1
    /\ \/ up /\ up' = FALSE /\ UNCHANGED <<shared, doubtful>>
       \/ shared # NoControl /\ shared' = NoControl /\ doubtful' = Fields /\ UNCHANGED up
    /\ UNCHANGED <<client, copy, own, draft, asked, changes, loopVars>>

RedisReturns ==
    /\ ~up /\ up' = TRUE
    /\ UNCHANGED <<shared, client, updateVars, loopVars, outages>>

Next ==
    \/ \E p \in Process : \/ \E change \in Changes : Update(p, change)
                          \/ Store(p) \/ Reconnect(p) \/ Handover(p)
    \/ Check \/ Tick \/ Slice \/ RedisFails \/ RedisReturns

Spec == Init /\ [][Next]_vars

\* The loop sleeps for two seconds at a time and the back-off is at most a minute.
Fairness ==
    /\ WF_vars(Check) /\ WF_vars(Tick) /\ WF_vars(Slice)
    /\ \A p \in Process : WF_vars(Store(p)) /\ WF_vars(Reconnect(p))

(***************************************************************************)
(* Properties                                                              *)
(***************************************************************************)
\* When no update is under way, the shared entry holds every field as it was asked
\* for, unless the last change of the field crossed an update in another process, or
\* was made without Redis: merging loses no other setting.
ControlIsAsAsked ==
    Updating = {} =>
        \A f \in Fields \ doubtful : (IF shared = NoControl THEN Default ELSE shared)[f] = asked[f]

\* A pause takes hold at the process that leads, whichever process was asked, while
\* Redis is there: the loop comes to rest, or somebody has asked for something else.
PauseTakesHold ==
    (~asked.enabled /\ "enabled" \notin doubtful)
        ~> (loop = "paused" \/ asked.enabled \/ "enabled" \in doubtful \/ ~up)
==============================================================================
