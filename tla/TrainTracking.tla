---------------------------- MODULE TrainTracking ----------------------------
(***************************************************************************)
(* One train on its route: the simulator that moves it                     *)
(* (app/simulator/train_simulator.py), the cache of routes it works from   *)
(* (app/services/train_tracking.py), and the feed of the metro operator    *)
(* that overwrites its position (app/api/v1/integrations.py).  A tick runs *)
(* in a thread that a change of leader does not stop, and keeps the        *)
(* direction of travel in the memory of its process only.  Segments are    *)
(* divided in Parts; the cache of positions for readers is left out.       *)
(***************************************************************************)
EXTENDS Integers, Sequences, SequencesExt

CONSTANTS Process,
          Routes,   \* the routes the timetable gives the train, one after the other
          Parts,    \* of a segment: a train on time covers it in one tick
          Delays,   \* minutes reported at a station, -10 among them or not
          Events,   \* of the feed: station, next, progress, observed
          NoRow,
          Budgets   \* bounds, one set for each scenario: of time, faults, edits and deliveries

VARIABLES
    leader,
    table,    \* the stations in the order of train_schedules
    delay,    \* delay_minutes at each station
    shared,   \* the route in Redis, or nothing
    local,    \* _routes_cache of each process
    stale,    \* processes that have committed a timetable and not invalidated the caches
    memory,   \* _train_state: index and direction
    tick,     \* the tick that runs in each process
    row,      \* of train_locations
    seen,     \* sensor_feed_events
    applied,  \* history: the events that have moved the train, in order
    rewound,  \* history: a tick has put updated_at back
    now,
    left      \* what is left of the budget

timetableVars == <<table, delay, stale>>
feedVars == <<seen, applied>>
vars == <<leader, timetableVars, shared, local, memory, tick, row, feedVars, rewound, now, left>>

Station == UNION {ToSet(Routes[i]) : i \in DOMAIN Routes}
NoRoute == <<>>
Route == ToSet(Routes) \cup {NoRoute}
Known == Station \cup {e.station : e \in Events} \cup {e.next : e \in Events}
Place == [station : Known, next : Known, progress : Int]
Row == [station : Known, next : Known, progress : Int, updated : Nat]
Stopped == [at |-> "idle", began |-> 0, from |-> NoRow, to |-> NoRow]

\* What the timetable, the feed and the delays may be.
TrackingConstants ==
    /\ Process # {} /\ Parts \in Nat /\ Delays \subseteq Int
    /\ Routes \in Seq(Seq(Station)) /\ Routes # <<>>
    /\ Events \subseteq [station : Known, next : Known, progress : Nat, observed : Nat]
    /\ IsFiniteSet(Events)
    /\ NoRow \notin Place \cup Row
    /\ Budgets \subseteq [{"time", "faults", "edits", "deliveries"} -> Nat]

TypeOK ==
    /\ leader \in Process /\ table \in ToSet(Routes) /\ delay \in [Station -> Int]
    /\ shared \in Route /\ local \in [Process -> Route] /\ stale \subseteq Process
    /\ memory \in [Process -> [index : Nat \ {0}, direction : {-1, 1}]]
    /\ tick \in [Process -> [at : {"idle", "fill", "read", "commit"}, began : Nat,
                             from : Place \cup {NoRow}, to : Place \cup {NoRow}]]
    /\ row \in Row \cup {NoRow}
    /\ seen \subseteq Events /\ applied \in Seq(Events) /\ rewound \in BOOLEAN
    /\ now \in Nat
    /\ left \in [{"time", "faults", "edits", "deliveries"} -> Nat]

Init ==
    /\ leader = CHOOSE p \in Process : TRUE  \* whichever
    /\ table = Routes[1] /\ delay = [s \in Station |-> 0] /\ stale = {}
    /\ shared = NoRoute /\ local = [p \in Process |-> NoRoute]
    /\ memory = [p \in Process |-> [index |-> 1, direction |-> 1]]
    /\ tick = [p \in Process |-> Stopped]
    /\ row = NoRow /\ seen = {} /\ applied = <<>> /\ rewound = FALSE
    /\ now = 0 /\ left \in Budgets

Spend(b) == left[b] > 0 /\ left' = [left EXCEPT ![b] = @ - 1]

(***************************************************************************)
(* The routes                                                              *)
(***************************************************************************)
\* build_routes at the start of a tick: the entry of the process, else that of Redis,
\* else the timetable, which is then to be written to Redis.
FindRoute(p) ==
    /\ p = leader /\ tick[p].at = "idle"
    /\ local' = [local EXCEPT ![p] =
           IF local[p] # NoRoute THEN @ ELSE IF shared # NoRoute THEN shared ELSE table]
    /\ tick' = [tick EXCEPT ![p] = [Stopped EXCEPT
           !.at = IF local[p] = NoRoute /\ shared = NoRoute THEN "fill" ELSE "read",
           !.began = now]]
    /\ UNCHANGED <<leader, timetableVars, shared, memory, row, feedVars, rewound, now, left>>

\* The end of _refresh_route_cache: what the process holds by now.
FillShared(p) ==
    /\ tick[p].at = "fill" /\ tick' = [tick EXCEPT ![p].at = "read"]
    /\ shared' = local[p]
    /\ UNCHANGED <<leader, timetableVars, local, memory, row, feedVars, rewound, now, left>>

\* The entries last for five minutes.
ExpireShared ==
    /\ shared # NoRoute /\ shared' = NoRoute
    /\ UNCHANGED <<leader, timetableVars, local, memory, tick, row, feedVars, rewound, now, left>>

ExpireLocal(p) ==
    /\ tick[p].at = "idle" /\ local[p] # NoRoute /\ local' = [local EXCEPT ![p] = NoRoute]
    /\ UNCHANGED <<leader, timetableVars, shared, memory, tick, row, feedVars, rewound, now, left>>

\* create_schedule or update_schedule commits a timetable that changes the route ...
Reroute(p) ==
    /\ Spend("edits")
    /\ \E i \in 1..(Len(Routes) - 1) : table = Routes[i] /\ table' = Routes[i + 1]
    /\ stale' = stale \cup {p}
    /\ UNCHANGED <<leader, delay, shared, local, memory, tick, row, feedVars, rewound, now>>

\* ... and then drops what Redis and this process hold (invalidate_route_cache).
Invalidate(p) ==
    /\ p \in stale /\ stale' = stale \ {p}
    /\ shared' = NoRoute /\ local' = [local EXCEPT ![p] = NoRoute]
    /\ UNCHANGED <<leader, table, delay, memory, tick, row, feedVars, rewound, now, left>>

\* handle_delay.
ReportDelay(s, minutes) ==
    /\ Spend("edits")
    /\ delay' = [delay EXCEPT ![s] = minutes]
    /\ UNCHANGED <<leader, table, stale, shared, local, memory, tick, row, feedVars, rewound, now>>

(***************************************************************************)
(* A tick                                                                  *)
(***************************************************************************)
\* speed_factor_for divides by nothing at ten minutes early, and runs the train backwards
\* at more.
Computable(s) == delay[s] # -10
PartsPerTick(s) ==
    LET slowness == 10 + delay[s]
    IN IF slowness > 0 THEN (Parts * 10) \div slowness ELSE -((Parts * 10) \div (-slowness))

\* A slip: the direction is not turned round at the terminus.
ArrivedOnward(route, at) ==
    LET index == at.index + at.direction
    IN [at EXCEPT !.index = IF index > Len(route) THEN Len(route) ELSE IF index < 1 THEN 1 ELSE index]

\* The train reaches the next station of the route, and turns round at either end.
Arrived(route, at) ==
    LET index == at.index + at.direction
    IN IF index >= Len(route) THEN [index |-> Len(route), direction |-> -1]
       ELSE IF index <= 1 THEN [index |-> 1, direction |-> 1]
       ELSE [at EXCEPT !.index = index]

NextStation(route, at) ==
    LET i == at.index + at.direction
    IN route[IF i < 1 THEN 1 ELSE IF i > Len(route) THEN Len(route) ELSE i]

\* _locations_for: a train without a row starts at the first station.  A row another
\* transaction is inserting is waited for.
PlaceRead(route) ==
    IF row # NoRow THEN [station |-> row.station, next |-> row.next, progress |-> row.progress]
    ELSE [station |-> route[1], next |-> route[1], progress |-> 0]

Inserting(p) == tick[p].at = "commit" /\ tick[p].from = NoRow

\* _track_tick_sync up to the commit.  A route too short is skipped; an exception ends
\* the tick but not what _train_state has been told by then.
Move(p) ==
    /\ tick[p].at = "read"
    /\ row = NoRow => \A q \in Process : ~Inserting(q)
    /\ LET route == local[p]
           place == PlaceRead(route)
           index == IF place.station \in ToSet(route)
                    THEN CHOOSE i \in DOMAIN route : route[i] = place.station
                    ELSE memory[p].index
           at == [memory[p] EXCEPT !.index = index]
           inRange == index <= Len(route) /\ Computable(route[index])
           reached == place.progress + PartsPerTick(route[index]) >= Parts
           after == IF inRange /\ reached THEN Arrived(route, at) ELSE at
           fails == ~inRange \/ ~Computable(route[after.index])
       IN IF Len(route) < 2
          THEN tick' = [tick EXCEPT ![p] = Stopped] /\ UNCHANGED memory
          ELSE /\ memory' = [memory EXCEPT ![p] = after]
               /\ tick' = [tick EXCEPT ![p] =
                      IF fails THEN Stopped
                      ELSE [@ EXCEPT !.at = "commit",
                                     !.from = IF row = NoRow THEN NoRow ELSE place,
                                     !.to = [station |-> route[after.index],
                                             next |-> NextStation(route, after),
                                             progress |-> IF reached THEN 0
                                                          ELSE place.progress + PartsPerTick(route[index])]]]
    /\ UNCHANGED <<leader, timetableVars, shared, local, row, feedVars, rewound, now, left>>

\* The columns the tick has changed are written over whatever is there by now, with the
\* time its transaction began.
Commit(p) ==
    /\ tick[p].at = "commit" /\ tick' = [tick EXCEPT ![p] = Stopped]
    /\ LET from == tick[p].from
           to == tick[p].to
           changed == from # to
           column(f) == IF from[f] # to[f] THEN to[f] ELSE row[f]
           updated == [station |-> column("station"), next |-> column("next"),
                       progress |-> column("progress"), updated |-> tick[p].began]
       IN /\ row' = IF from = NoRow
                    THEN [station |-> to.station, next |-> to.next,
                          progress |-> to.progress, updated |-> tick[p].began]
                    ELSE IF changed THEN updated ELSE row
          /\ rewound' = (rewound \/ (from # NoRow /\ changed /\ tick[p].began < row.updated))
    /\ UNCHANGED <<leader, timetableVars, shared, local, memory, feedVars, now, left>>

\* The tick ends in an exception and is rolled back.
TickFails(p) ==
    /\ Spend("faults") /\ tick[p].at # "idle" /\ tick' = [tick EXCEPT ![p] = Stopped]
    /\ UNCHANGED <<leader, timetableVars, shared, local, memory, row, feedVars, rewound, now>>

\* Another process leads; the thread of a tick goes on to its end.
Handover(p) ==
    /\ Spend("faults") /\ p # leader /\ leader' = p
    /\ UNCHANGED <<timetableVars, shared, local, memory, tick, row, feedVars, rewound, now>>

Restart(p) ==
    /\ Spend("faults") /\ p \notin stale
    /\ tick' = [tick EXCEPT ![p] = Stopped] /\ local' = [local EXCEPT ![p] = NoRoute]
    /\ memory' = [memory EXCEPT ![p] = [index |-> 1, direction |-> 1]]
    /\ UNCHANGED <<leader, timetableVars, shared, row, feedVars, rewound, now>>

(***************************************************************************)
(* The feed                                                                *)
(***************************************************************************)
At(e) == [station |-> e.station, next |-> e.next, progress |-> e.progress, updated |-> e.observed]

\* A slip: an event is only compared with the row, not with the events.
FreshByTime(state, e) == state.row = NoRow \/ state.row.updated <= e.observed

\* An event counts once, and moves the train unless the row is newer.
Fresh(state, e) == e \notin state.seen /\ (state.row = NoRow \/ state.row.updated <= e.observed)

ApplyEvent(state, e) ==
    [row |-> IF Fresh(state, e) THEN At(e) ELSE state.row,
     seen |-> state.seen \cup {e},
     applied |-> IF Fresh(state, e) THEN Append(state.applied, e) ELSE state.applied]

\* The records of a batch by the time they were observed; those of one time keep their
\* order, which may be any.
InOrder(batch) ==
    {order \in SetToSeqs(batch) :
        \A i, j \in DOMAIN order : i < j => order[i].observed <= order[j].observed}

Fed(order) == FoldLeft(ApplyEvent, [row |-> row, seen |-> seen, applied |-> applied], order)

\* A delivery of the operator, perhaps for the second time, in one transaction.
Feed(batch) ==
    /\ Spend("deliveries") /\ \A p \in Process : ~Inserting(p)
    /\ \A e \in batch : e.observed <= now
    /\ \E order \in InOrder(batch) :
          row' = Fed(order).row /\ seen' = Fed(order).seen /\ applied' = Fed(order).applied
    /\ UNCHANGED <<leader, timetableVars, shared, local, memory, tick, rewound, now>>

TimePasses ==
    /\ Spend("time") /\ now' = now + 1
    /\ UNCHANGED <<leader, timetableVars, shared, local, memory, tick, row, feedVars, rewound>>

Next ==
    \/ \E p \in Process :
          \/ FindRoute(p) \/ FillShared(p) \/ Move(p) \/ Commit(p) \/ ExpireLocal(p)
          \/ Reroute(p) \/ Invalidate(p) \/ TickFails(p) \/ Handover(p) \/ Restart(p)
    \/ \E s \in Station, minutes \in Delays : ReportDelay(s, minutes)
    \/ \E batch \in SUBSET Events \ {{}} : Feed(batch)
    \/ ExpireShared \/ TimePasses

\* The loop ticks again and again, requests end, and the entries of the caches expire.
Fairness ==
    /\ WF_vars(ExpireShared)
    /\ \A p \in Process :
          /\ WF_vars(FindRoute(p)) /\ WF_vars(FillShared(p)) /\ WF_vars(Move(p)) /\ WF_vars(Commit(p))
          /\ WF_vars(Invalidate(p)) /\ SF_vars(ExpireLocal(p))

Spec == Init /\ [][Next]_vars /\ Fairness

(***************************************************************************)
(* Properties                                                              *)
(***************************************************************************)
\* The train keeps calling at every station of its route, whatever failed ticks, changes
\* of leader or of timetable, stale routes and positions of the feed there have been,
\* unless a station of the route is reported ten minutes early, which stops every tick.
KeepsCirculating ==
    \A s \in Station :
        []<>(s \notin ToSet(table)
             \/ (row # NoRow /\ row.station = s)
             \/ \E t \in ToSet(table) : ~Computable(t))

\* Events of the feed move the train in the order they were observed, and once each
\* however often they are delivered, until a tick that began before the last of them
\* puts the time of the row back.
FeedAppliesInOrder ==
    ~rewound => \A i, j \in 1..Len(applied) : i < j =>
                    applied[i] # applied[j] /\ applied[i].observed <= applied[j].observed
==============================================================================
