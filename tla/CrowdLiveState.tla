--------------------------- MODULE CrowdLiveState ---------------------------
(***************************************************************************)
(* station_crowd_state, one row for each station, and all that writes it:  *)
(* check-ins and check-outs (app/services/journey_service.py), manual      *)
(* readings (crowd_service.py), the sensor feed (app/api/v1/               *)
(* integrations.py) and the tick of the crowd simulator (csv_replay_       *)
(* simulator.py).  Each request runs in a thread with a transaction of its *)
(* own, at READ COMMITTED: a step is one statement, a row lock is held     *)
(* from the statement that takes it to the end of the transaction, and no  *)
(* other transaction sees what is staged before the commit.  After it the  *)
(* thread drops the cache entries of the stations it wrote, which          *)
(* GET /crowd/{station_id} fills.                                          *)
(*                                                                         *)
(* A trip is a record [user, from, to, n]: n tells trips apart that are    *)
(* alike.  A reading is a record [station, count, seen] that stands for    *)
(* its event_id too.                                                       *)
(***************************************************************************)
EXTENDS Integers, FiniteSets

CONSTANTS Stations,     \* ids of stations
          Trips,        \* the journeys that may be asked for
          Readings,     \* the readings that the sensor feed may send
          Counts,       \* what a manual reading, or the CSV, may say
          Writers,      \* threads that serve requests, or run the tick
          Readers,      \* threads that serve GET /crowd/{station_id}
          Requests,     \* the kinds of request that occur
          TickOrder,    \* the place of each station in the upsert of a tick
          Nobody, NoTrip,
          LastTime,     \* bound: the clock stops here
          MaxStops      \* bound: threads that stop half-way

ASSUME LiveStateAssumption ==
    /\ Stations \subseteq Nat
    /\ IsFiniteSet(Trips)
    /\ \A t \in Trips : t.from \in Stations /\ t.to \in Stations /\ t.from # t.to
    /\ \A r \in Readings : r.station \in Stations /\ r.count \in Nat /\ r.seen \in Nat
    /\ Counts \subseteq Nat
    /\ TickOrder \in [Stations -> Int]
    /\ Nobody \notin Writers /\ NoTrip \notin Trips
    /\ LastTime \in Nat /\ MaxStops \in Nat
    /\ Requests \subseteq {"check_in", "check_out", "log", "feed", "tick"}

VARIABLES now,        \* the clock
          status,     \* journeys.status of each trip, "none" before it exists
          row,        \* station_crowd_state.current_count, or NoRow
          updated,    \* station_crowd_state.updated_at
          taken,      \* sensor_feed_events
          holder,     \* the transaction that holds the lock of a row
          guard,      \* the transaction that holds the lock of a journey
          pc,         \* where a writer is
          kind,       \* the request it serves
          trip,       \* the trip that is about
          batch,      \* the readings that are new in it
          value,      \* the counts that it sets, when they do not depend on the row
          began,      \* when its transaction began: now() inside it
          plan,       \* the stations it has yet to write, then to drop from the cache
          looked,     \* the station whose row the feed has found older
          staged,     \* what it has written and not committed
          cache,      \* crowd:latest:{station}, or NoRow
          reader,     \* the row that a reader has read and not yet cached
          stops       \* threads that have stopped half-way

database == <<status, row, updated, taken>>
threads == <<pc, kind, trip, batch, value, began, plan, looked, staged>>
vars == <<now, database, holder, guard, threads, cache, reader, stops>>

NoRow == -1
Idle == "idle"
NothingRead == [station |-> NoRow, count |-> NoRow]
Kinds == {"check_in", "check_out", "log", "feed", "tick"}

TypeOK ==
    /\ now \in 0..LastTime /\ stops \in 0..MaxStops
    /\ status \in [Trips -> {"none", "ACTIVE", "COMPLETED"}]
    /\ row \in [Stations -> Nat \cup {NoRow}]
    /\ updated \in [Stations -> Nat]
    /\ taken \subseteq Readings
    /\ holder \in [Stations -> Writers \cup {Nobody}]
    /\ guard \in [Trips -> Writers \cup {Nobody}]
    /\ pc \in [Writers -> {Idle, "writing", "publishing"}]
    /\ kind \in [Writers -> Kinds \cup {Idle}]
    /\ trip \in [Writers -> Trips \cup {NoTrip}]
    /\ batch \in [Writers -> SUBSET Readings]
    /\ value \in [Writers -> [Stations -> Nat]]
    /\ began \in [Writers -> 0..LastTime]
    /\ plan \in [Writers -> SUBSET Stations]
    /\ looked \in [Writers -> SUBSET Stations]
    /\ staged \in [Writers -> [Stations -> Nat]]
    /\ cache \in [Stations -> Nat \cup {NoRow}]
    /\ reader \in [Readers -> [station : Stations, count : Nat] \cup {NothingRead}]

Zero == [s \in Stations |-> 0]

Init ==
    /\ now = 0 /\ stops = 0
    /\ status = [t \in Trips |-> "none"]
    /\ row = [s \in Stations |-> NoRow]
    /\ updated = Zero
    /\ taken = {}
    /\ holder = [s \in Stations |-> Nobody]
    /\ guard = [t \in Trips |-> Nobody]
    /\ pc = [w \in Writers |-> Idle]
    /\ kind = [w \in Writers |-> Idle]
    /\ trip = [w \in Writers |-> NoTrip]
    /\ batch = [w \in Writers |-> {}]
    /\ value = [w \in Writers |-> Zero]
    /\ began = [w \in Writers |-> 0]
    /\ plan = [w \in Writers |-> {}]
    /\ looked = [w \in Writers |-> {}]
    /\ staged = [w \in Writers |-> Zero]
    /\ cache = [s \in Stations |-> NoRow]
    /\ reader = [r \in Readers |-> NothingRead]

Tick ==
    /\ now < LastTime
    /\ now' = now + 1
    /\ UNCHANGED <<database, holder, guard, threads, cache, reader, stops>>

-----------------------------------------------------------------------------
(* What a request does before its first write.                             *)

Start(w, k, t, readings, values, stations) ==
    /\ k \in Requests /\ pc[w] = Idle
    /\ pc' = [pc EXCEPT ![w] = "writing"]
    /\ kind' = [kind EXCEPT ![w] = k]
    /\ trip' = [trip EXCEPT ![w] = t]
    /\ batch' = [batch EXCEPT ![w] = readings]
    /\ value' = [value EXCEPT ![w] = values]
    /\ began' = [began EXCEPT ![w] = now]
    /\ plan' = [plan EXCEPT ![w] = stations]
    /\ UNCHANGED <<now, database, holder, looked, staged, cache, reader, stops>>

Active(user) == {t \in Trips : status[t] = "ACTIVE" /\ t.user = user}

\* The id of the new journey is its own: nobody else is at work on it.
CheckIn(w, t) ==
    /\ status[t] = "none" /\ \A v \in Writers : trip[v] # t
    /\ Active(t.user) = {}
    /\ Start(w, "check_in", t, {}, Zero, {t.from})
    /\ UNCHANGED guard

\* A slip: the journey is read without FOR UPDATE.
CheckOutUnlocked(w, t) ==
    /\ status[t] = "ACTIVE"
    /\ Start(w, "check_out", t, {}, Zero, {t.from, t.to})
    /\ UNCHANGED guard

\* SELECT ... FOR UPDATE on the journey waits for another check-out of it,
\* and then finds the status that one left.
CheckOut(w, t) ==
    /\ status[t] = "ACTIVE" /\ guard[t] = Nobody
    /\ Start(w, "check_out", t, {}, Zero, {t.from, t.to})
    /\ guard' = [guard EXCEPT ![t] = w]

LogCount(w, s, count) ==
    /\ Start(w, "log", NoTrip, {}, [Zero EXCEPT ![s] = count], {s})
    /\ UNCHANGED guard

Latest(readings, s) ==
    {r \in readings : r.station = s /\ \A q \in readings : q.station = s => q.seen <= r.seen}

\* The events are inserted first: the insert of one waits for another
\* transaction that has it, and one that is there already is a duplicate.
Feed(w, readings) ==
    LET new == readings \ taken
        stations == {r.station : r \in new}
    IN  /\ new # {}
        /\ \A v \in Writers : batch[v] \cap readings = {}
        /\ \E latest \in [stations -> new] :
              /\ \A s \in stations : latest[s] \in Latest(new, s)
              /\ Start(w, "feed", NoTrip, new,
                       [s \in Stations |-> IF s \in stations THEN latest[s].count ELSE 0], stations)
        /\ UNCHANGED guard

\* A slip: passengers are counted where they are going.
CheckedInTo(s) == Cardinality({t \in Trips : status[t] = "ACTIVE" /\ t.to = s})

\* The passengers that a tick adds to the count of the CSV.
CheckedIn(s) == Cardinality({t \in Trips : status[t] = "ACTIVE" /\ t.from = s})

\* Only the leader ticks.
SimulatorTick(w, base) ==
    /\ \A v \in Writers : kind[v] # "tick"
    /\ Start(w, "tick", NoTrip, {}, [s \in Stations |-> base[s] + CheckedIn(s)], Stations)
    /\ UNCHANGED guard

-----------------------------------------------------------------------------
(* Its writes, one row at a time, and the end of the transaction.          *)

Seen(w, s) == (CHOOSE r \in batch[w] : r \in Latest(batch[w], s)).seen
FirstSeen(w, s) == CHOOSE n \in {r.seen : r \in {q \in batch[w] : q.station = s}} :
                      \A r \in batch[w] : r.station = s => n <= r.seen

\* A slip: check_out takes the source first.
SourceFirst(w, s) == IF kind[w] = "check_out" /\ s # trip[w].from THEN 1 ELSE 0

\* check_out takes the rows by id, the feed by the first observation in the
\* batch, the tick in the order of its VALUES.
Rank(w, s) == CASE kind[w] = "tick" -> TickOrder[s]
                [] kind[w] = "feed" -> FirstSeen(w, s)
                [] OTHER -> s

IsNext(w, s) == s \in plan[w] /\ \A u \in plan[w] : Rank(w, s) <= Rank(w, u)

CountOf(s) == IF row[s] = NoRow THEN 0 ELSE row[s]

Delta(w, s) == IF kind[w] = "check_out" /\ s = trip[w].from THEN -1 ELSE 1

\* A slip: the count is not kept from falling below zero.
AnyCount(n) == n

AtLeastZero(n) == IF n < 0 THEN 0 ELSE n

\* A slip: the delta is upserted as if it were a count.
DeltaAsCount(w, s) == IF kind[w] \in {"check_in", "check_out"}
                      THEN AtLeastZero(Delta(w, s))
                      ELSE value[w][s]

NewCount(w, s) == IF kind[w] \in {"check_in", "check_out"}
                  THEN AtLeastZero(CountOf(s) + Delta(w, s))
                  ELSE value[w][s]

\* The feed looks at the row before it writes it, without a lock.
IsNewer(w, s) == row[s] = NoRow \/ updated[s] <= Seen(w, s)

Look(w, s) ==
    /\ pc[w] = "writing" /\ kind[w] = "feed" /\ looked[w] = {} /\ IsNext(w, s)
    /\ IF IsNewer(w, s)
       THEN looked' = [looked EXCEPT ![w] = {s}] /\ UNCHANGED plan
       ELSE plan' = [plan EXCEPT ![w] = @ \ {s}] /\ UNCHANGED looked
    /\ UNCHANGED <<now, database, holder, guard, pc, kind, trip, batch, value, began, staged,
                   cache, reader, stops>>

Wants(w, s) == pc[w] = "writing" /\ IsNext(w, s) /\ (kind[w] = "feed" => s \in looked[w])

\* INSERT ... ON CONFLICT, or that and SELECT ... FOR UPDATE.
Write(w, s) ==
    /\ Wants(w, s)
    /\ holder[s] = Nobody
    /\ holder' = [holder EXCEPT ![s] = w]
    /\ staged' = [staged EXCEPT ![w] = [staged[w] EXCEPT ![s] = NewCount(w, s)]]
    /\ plan' = [plan EXCEPT ![w] = @ \ {s}]
    /\ looked' = [looked EXCEPT ![w] = {}]
    /\ UNCHANGED <<now, database, guard, pc, kind, trip, batch, value, began, cache, reader, stops>>

Written(w) == {s \in Stations : holder[s] = w}

Release(w) ==
    /\ holder' = [s \in Stations |-> IF holder[s] = w THEN Nobody ELSE holder[s]]
    /\ guard' = [t \in Trips |-> IF guard[t] = w THEN Nobody ELSE guard[t]]

\* A row that the feed inserts is stamped with the time of the insert, by the
\* default of the column; an update that changes nothing is not sent.
Stamp(w, s) == IF kind[w] = "feed" /\ row[s] # NoRow THEN Seen(w, s)
               ELSE IF kind[w] = "check_out" /\ staged[w][s] = row[s] THEN updated[s]
               ELSE began[w]

Done(w) == pc[w] = "writing" /\ plan[w] = {}

\* The unique index ux_journeys_one_active_per_user.
Duplicate(w) == kind[w] = "check_in" /\ Active(trip[w].user) # {}

NewStatus(w) == IF kind[w] = "check_in" THEN "ACTIVE" ELSE "COMPLETED"

\* The transaction is over.
Clear(w) ==
    /\ trip' = [trip EXCEPT ![w] = NoTrip]
    /\ batch' = [batch EXCEPT ![w] = {}]
    /\ value' = [value EXCEPT ![w] = Zero]
    /\ began' = [began EXCEPT ![w] = 0]
    /\ looked' = [looked EXCEPT ![w] = {}]
    /\ staged' = [staged EXCEPT ![w] = Zero]

Commit(w) ==
    /\ Done(w) /\ ~Duplicate(w)
    /\ row' = [s \in Stations |-> IF s \in Written(w) THEN staged[w][s] ELSE row[s]]
    /\ updated' = [s \in Stations |-> IF s \in Written(w) THEN Stamp(w, s) ELSE updated[s]]
    /\ taken' = taken \cup batch[w]
    /\ status' = [t \in Trips |-> IF t = trip[w] THEN NewStatus(w) ELSE status[t]]
    /\ Release(w)
    /\ pc' = [pc EXCEPT ![w] = "publishing"]
    /\ plan' = [plan EXCEPT ![w] = Written(w)]
    /\ Clear(w)
    /\ UNCHANGED <<now, kind, cache, reader, stops>>

Forget(w) ==
    /\ pc' = [pc EXCEPT ![w] = Idle]
    /\ kind' = [kind EXCEPT ![w] = Idle]
    /\ plan' = [plan EXCEPT ![w] = {}]
    /\ Clear(w)

\* IntegrityError: all that the transaction has written is rolled back.
Refuse(w) ==
    /\ Done(w) /\ Duplicate(w)
    /\ Release(w) /\ Forget(w)
    /\ UNCHANGED <<now, database, cache, reader, stops>>

-----------------------------------------------------------------------------
(* After the commit, and the ways in which a thread ends early.            *)

Drop(w, s) ==
    /\ pc[w] = "publishing" /\ s \in plan[w]
    /\ cache' = [cache EXCEPT ![s] = NoRow]
    /\ plan' = [plan EXCEPT ![w] = @ \ {s}]
    /\ UNCHANGED <<now, database, holder, guard, pc, kind, trip, batch, value, began, looked,
                   staged, reader, stops>>

Respond(w) ==
    /\ pc[w] = "publishing" /\ plan[w] = {}
    /\ Forget(w)
    /\ UNCHANGED <<now, database, holder, guard, cache, reader, stops>>

\* A statement that times out, a lost connection or a crash: the transaction
\* is rolled back, and what comes after the commit does not happen.
Stop(w) ==
    /\ pc[w] # Idle /\ stops < MaxStops
    /\ stops' = stops + 1
    /\ Release(w) /\ Forget(w)
    /\ UNCHANGED <<now, database, cache, reader>>

Deadlocked(w) ==
    \E W \in SUBSET Writers :
        /\ w \in W
        /\ \A v \in W : \E s \in Stations : Wants(v, s) /\ holder[s] \in W

\* The database ends one transaction of a cycle.
Victim(w) ==
    /\ Deadlocked(w)
    /\ Release(w) /\ Forget(w)
    /\ UNCHANGED <<now, database, cache, reader, stops>>

-----------------------------------------------------------------------------
(* GET /crowd/{station_id}, when the cache has no entry.                   *)

Read(r, s) ==
    /\ reader[r] = NothingRead /\ cache[s] = NoRow /\ row[s] # NoRow
    /\ reader' = [reader EXCEPT ![r] = [station |-> s, count |-> row[s]]]
    /\ UNCHANGED <<now, database, holder, guard, threads, cache, stops>>

Fill(r) ==
    /\ reader[r] # NothingRead
    /\ cache' = [cache EXCEPT ![reader[r].station] = reader[r].count]
    /\ reader' = [reader EXCEPT ![r] = NothingRead]
    /\ UNCHANGED <<now, database, holder, guard, threads, stops>>

\* A slip: the entry is stored without a time to live.
Persists(s) == FALSE

\* The time to live of an entry runs out.
Expire(s) ==
    /\ cache[s] # NoRow
    /\ cache' = [cache EXCEPT ![s] = NoRow]
    /\ UNCHANGED <<now, database, holder, guard, threads, reader, stops>>

-----------------------------------------------------------------------------
Request(w) ==
    \/ \E t \in Trips : CheckIn(w, t) \/ CheckOut(w, t)
    \/ \E s \in Stations, count \in Counts : LogCount(w, s, count)
    \/ \E readings \in SUBSET Readings : Feed(w, readings)
    \/ \E base \in [Stations -> Counts] : SimulatorTick(w, base)

Proceed(w) ==
    \/ \E s \in Stations : Look(w, s) \/ Write(w, s) \/ Drop(w, s)
    \/ Commit(w) \/ Refuse(w) \/ Respond(w) \/ Victim(w)

Next ==
    \/ Tick
    \/ \E w \in Writers : Request(w) \/ Proceed(w) \/ Stop(w)
    \/ \E r \in Readers : Fill(r) \/ \E s \in Stations : Read(r, s)
    \/ \E s \in Stations : Expire(s)

Spec == Init /\ [][Next]_vars

\* Every thread goes on until its request is served, a cache entry expires, and
\* the leader ticks again and again.
FairSpec ==
    /\ Spec
    /\ \A w \in Writers : WF_vars(Proceed(w))
    /\ \A r \in Readers : WF_vars(Fill(r))
    /\ \A s \in Stations : WF_vars(Expire(s))
    /\ WF_vars(\E w \in Writers, base \in [Stations -> Counts] : SimulatorTick(w, base))
-----------------------------------------------------------------------------
Departed(s) == {t \in Trips : status[t] = "ACTIVE" /\ t.from = s}
Arrived(s) == {t \in Trips : status[t] = "COMPLETED" /\ t.to = s}

\* However check-ins and check-outs interleave, fail and are refused, the count
\* of a station is that of the passengers who are on their way from it and of
\* those who have come to it: the locks of apply_live_state_delta lose none, and
\* the lock of the journey counts no check-out twice.
Conserved ==
    \A s \in Stations : CountOf(s) = Cardinality(Departed(s)) + Cardinality(Arrived(s))

\* Check-outs take the two rows by id, so no set of requests that each write
\* their stations in that order waits in a circle.
NoCircleOfWaits == \A w \in Writers : ~Deadlocked(w)

\* Also next to readings and ticks, which overwrite the count, a check-in or a
\* check-out adds its passenger to the count that its commit replaces, and not
\* to one that it read before another commit.
DeltasAreExact ==
    [][\A w \in Writers : Commit(w) /\ kind[w] \in {"check_in", "check_out"} =>
          \A s \in Written(w) : row'[s] = AtLeastZero(CountOf(s) + Delta(w, s))]_vars

\* Once the passengers have all gone, the cache stops telling other counts than
\* the rows, whichever thread has stopped before it dropped an entry and
\* whichever reader has cached an old count: entries expire.
ReadsCatchUp == <>[](\A s \in Stations : cache[s] \in {NoRow, row[s]})

\* Once nobody sends readings any more, and deadlocks no longer end requests, a
\* check-in that a tick, or a reading, has overwritten is counted by a later tick.
Disturbs(w) == Victim(w) \/ (Commit(w) /\ kind[w] \in {"log", "feed"})
CheckInsGetCounted ==
    <>[][\A w \in Writers : ~Disturbs(w)]_vars =>
        <>[](\A s \in Stations : CountOf(s) >= Cardinality(Departed(s)))
=============================================================================
