--------------------------- MODULE CrowdRetention ---------------------------
(***************************************************************************)
(* The hourly job of app/simulator/retention.py on the history of the      *)
(* crowd counts: raw rows (crowd_logs) older than RollupAfter are summed   *)
(* up by station and hour into crowd_logs_hourly and deleted, in pages     *)
(* and batches that each commit.  A summary is modelled by the set of raw  *)
(* rows it was computed from, which settles its count, average, minimum    *)
(* and maximum.  A pass is a thread: a second one runs when leadership     *)
(* moved while the first was still at work.                                *)
(***************************************************************************)
EXTENDS Integers, FiniteSets

CONSTANTS Stations,      \* station ids
          Passes,        \* threads that run the job
          Delays,        \* ages a row can have when it is inserted
          Hour,          \* length of an hour in units of the clock
          RollupAfter,   \* CROWD_LOG_ROLLUP_AFTER_DAYS
          RawKeep,       \* CROWD_LOG_RETENTION_DAYS
          HourlyKeep,    \* CROWD_LOG_HOURLY_RETENTION_DAYS
          Page,          \* CROWD_ROLLUP_BATCH_SIZE
          Batch,         \* RETENTION_BATCH_SIZE
          PassLimit,     \* bound: a pass is over within this time
          LastTime,      \* bound: the clock stops here
          MaxRows,       \* bound: rows ever inserted
          MaxFailures    \* bound: passes that fail

ASSUME RetentionAssumption ==
    /\ Stations \subseteq Nat
    /\ Delays \subseteq Nat
    /\ Hour \in Nat \ {0} /\ Page \in Nat \ {0} /\ Batch \in Nat \ {0}
    /\ RollupAfter \in Nat /\ RawKeep \in Nat /\ HourlyKeep \in Nat
    /\ PassLimit \in Nat /\ RollupAfter + PassLimit <= RawKeep /\ RawKeep <= HourlyKeep

VARIABLES now,        \* the clock of the database and of the job
          raw,        \* crowd_logs
          hourly,     \* crowd_logs_hourly: for each row, what it sums up
          pc,         \* the step a pass is at
          page,       \* the page of summaries a pass has read
          began,      \* when a pass began
          cutoff,     \* the cutoff of that step
          offset,     \* pages already summed up
          logged,     \* history: every row ever inserted
          summed,     \* history: every row that a summary ever contained
          failures    \* passes that have failed

vars == <<now, raw, hourly, pc, page, began, cutoff, offset, logged, summed, failures>>

HourOf(row) == [station |-> row.station, hour |-> row.time \div Hour]

NoSummaries == [key \in {} |-> {}]

Row == [id : 1..MaxRows, station : Stations, time : Int]
HourlyKey == [station : Stations, hour : Int]

TypeOK ==
    /\ now \in 0..LastTime
    /\ raw \subseteq Row /\ logged \subseteq Row /\ summed \subseteq Row
    /\ DOMAIN hourly \subseteq HourlyKey
    /\ \A key \in DOMAIN hourly : hourly[key] \subseteq Row /\ hourly[key] # {}
    /\ pc \in [Passes -> {"asleep", "rollup", "upsert", "delete", "safety_net", "hourly"}]
    /\ \A p \in Passes : \A key \in DOMAIN page[p] : page[p][key] \subseteq logged
    /\ began \in [Passes -> 0..LastTime]
    /\ cutoff \in [Passes -> Int]
    /\ offset \in [Passes -> Nat]
    /\ failures \in 0..MaxFailures

Init ==
    /\ now = 0 /\ raw = {} /\ logged = {} /\ summed = {} /\ failures = 0
    /\ hourly = NoSummaries
    /\ page = [p \in Passes |-> NoSummaries]
    /\ pc = [p \in Passes |-> "asleep"]
    /\ began = [p \in Passes |-> 0]
    /\ cutoff = [p \in Passes |-> 0]
    /\ offset = [p \in Passes |-> 0]

-----------------------------------------------------------------------------
Tick ==
    /\ now < LastTime
    /\ \A p \in Passes : pc[p] = "asleep" \/ now < began[p] + PassLimit
    /\ now' = now + 1
    /\ UNCHANGED <<raw, hourly, pc, page, began, cutoff, offset, logged, summed, failures>>

\* A tick or a request logs a count as of now; the sensor feed, as of the
\* time of its observation.
Log(station, delay) ==
    LET row == [id |-> Cardinality(logged) + 1, station |-> station, time |-> now - delay]
    IN  /\ Cardinality(logged) < MaxRows
        /\ raw' = raw \cup {row}
        /\ logged' = logged \cup {row}
        /\ UNCHANGED <<now, hourly, pc, page, began, cutoff, offset, summed, failures>>

-----------------------------------------------------------------------------
OlderThan(limit) == {row \in raw : row.time < limit}

\* GROUP BY station, hour ORDER BY station, hour LIMIT Page OFFSET skip
Before(a, b) == a.station < b.station \/ (a.station = b.station /\ a.hour < b.hour)

\* A slip: the pages of the table are counted from one.
InPageFromOne(position, skip) == position \in (skip + 1)..(skip + Page)

InPage(position, skip) == position \in skip..(skip + Page - 1)

PageOf(rows, skip) ==
    LET groups == {HourOf(row) : row \in rows}
        position(g) == Cardinality({h \in groups : Before(h, g)})
        members == {g \in groups : InPage(position(g), skip)}
    IN  [g \in members |-> {row \in rows : HourOf(row) = g}]

\* The upsert replaces the summary of an hour that already has one.
Upserted(table, rows) ==
    [g \in DOMAIN table \cup DOMAIN rows |-> IF g \in DOMAIN rows THEN rows[g] ELSE table[g]]

Begin(p) ==
    /\ pc[p] = "asleep"
    /\ pc' = [pc EXCEPT ![p] = "rollup"]
    /\ began' = [began EXCEPT ![p] = now]
    /\ cutoff' = [cutoff EXCEPT ![p] = now - RollupAfter]
    /\ offset' = [offset EXCEPT ![p] = 0]
    /\ UNCHANGED <<now, raw, hourly, page, logged, summed, failures>>

ReadPage(p) ==
    LET found == PageOf(OlderThan(cutoff[p]), offset[p])
    IN  /\ pc[p] = "rollup"
        /\ page' = [page EXCEPT ![p] = found]
        /\ pc' = [pc EXCEPT ![p] = IF DOMAIN found = {} THEN "delete" ELSE "upsert"]
        /\ UNCHANGED <<now, raw, hourly, began, cutoff, offset, logged, summed, failures>>

\* A page that is not full is the last.
UpsertPage(p) ==
    LET groups == DOMAIN page[p]
    IN  /\ pc[p] = "upsert"
        /\ hourly' = Upserted(hourly, page[p])
        /\ summed' = summed \cup UNION {page[p][g] : g \in groups}
        /\ pc' = [pc EXCEPT ![p] = IF Cardinality(groups) < Page THEN "delete" ELSE "rollup"]
        /\ offset' = [offset EXCEPT ![p] = @ + Page]
        /\ page' = [page EXCEPT ![p] = NoSummaries]
        /\ UNCHANGED <<now, raw, began, cutoff, logged, failures>>

\* A slip: one batch is taken to be all there is.
AnyIsLast(batch) == TRUE

\* A slip: the loop goes on when nothing is left to delete.
NoneIsLast(batch) == FALSE

\* batched_delete: a batch has no order, and one that is not full is the last.
IsLast(batch) == Cardinality(batch) < Batch

DeleteBatch(p, limit, step, next) ==
    \E batch \in SUBSET OlderThan(limit) :
        /\ pc[p] = step
        /\ Cardinality(batch) <= Batch
        /\ Cardinality(batch) < Batch => batch = OlderThan(limit)
        /\ raw' = raw \ batch
        /\ pc' = [pc EXCEPT ![p] = IF IsLast(batch) THEN next ELSE step]
        /\ UNCHANGED <<now, hourly, page, began, offset, logged, summed, failures>>

\* A slip: the delete computes a cutoff of its own.
FreshLimit(p) == now - RollupAfter

\* The delete keeps the cutoff of the roll-up before it.
DeleteLimit(p) == cutoff[p]

DeleteRolledUp(p) ==
    /\ DeleteBatch(p, DeleteLimit(p), "delete", "safety_net")
    /\ cutoff' = [cutoff EXCEPT ![p] = IF pc'[p] = "delete" THEN @ ELSE now - RawKeep]

SafetyNet(p) ==
    /\ DeleteBatch(p, cutoff[p], "safety_net", "hourly")
    /\ cutoff' = [cutoff EXCEPT ![p] = IF pc'[p] = "safety_net" THEN @ ELSE now - HourlyKeep]

\* The summaries past their time go in batches too, taken together here; the
\* rest of the pass writes other tables.
Expired(limit) == {key \in DOMAIN hourly : key.hour * Hour < limit}

DeleteHourly(p) ==
    /\ pc[p] = "hourly"
    /\ hourly' = [key \in DOMAIN hourly \ Expired(cutoff[p]) |-> hourly[key]]
    /\ pc' = [pc EXCEPT ![p] = "asleep"]
    /\ UNCHANGED <<now, raw, page, began, cutoff, offset, logged, summed, failures>>

\* A slip: the exception ends the loop.
LoopEnds == "dead"

\* An exception or a crash: what was committed stays, and the next pass
\* starts from the beginning.
AfterFailure == "asleep"

Fail(p) ==
    /\ pc[p] # "asleep"
    /\ failures < MaxFailures
    /\ failures' = failures + 1
    /\ pc' = [pc EXCEPT ![p] = AfterFailure]
    /\ page' = [page EXCEPT ![p] = NoSummaries]
    /\ UNCHANGED <<now, raw, hourly, began, cutoff, offset, logged, summed>>

Work(p) == Begin(p) \/ ReadPage(p) \/ UpsertPage(p) \/ DeleteRolledUp(p) \/ SafetyNet(p) \/ DeleteHourly(p)

Next ==
    \/ Tick
    \/ \E station \in Stations, delay \in Delays : Log(station, delay)
    \/ \E p \in Passes : Work(p) \/ Fail(p)

Spec == Init /\ [][Next]_vars

\* The loop of the leader sleeps for an interval and never ends.
FairSpec == Spec /\ WF_vars(Tick) /\ \A p \in Passes : WF_vars(Work(p))

-----------------------------------------------------------------------------
SummedUp(row) == \E key \in DOMAIN hourly : row \in hourly[key]

\* No hour disappears: while its summary is not past its time, an hour that had
\* counts has a summary, or the count is still a row, wherever passes failed and
\* whenever they began (_rollup_and_delete).
HoursAreKept ==
    \A row \in logged : \/ row \in raw
                        \/ HourOf(row) \in DOMAIN hourly
                        \/ HourOf(row).hour * Hour < now - HourlyKeep

\* As long as no pass has failed, no count is both a row and part of a summary
\* between passes: the analytics queries add the two tables up.
CountedOnceAtRest ==
    failures = 0 /\ (\A p \in Passes : pc[p] = "asleep") =>
        \A row \in raw : ~SummedUp(row)

\* A row is deleted only after some committed summary contained it, unless it
\* is old enough for the safety net.
DeletedWasSummedUp ==
    [][\A row \in raw \ raw' : row \in summed \/ row.time < now - RawKeep]_vars

\* Every count is accounted for, as a row or in a summary, until its time has passed.
RowsAreAccountedFor == [](HoursAreKept /\ CountedOnceAtRest) /\ DeletedWasSummedUp

\* Rows past their time are deleted, whatever passes fail: the table does not
\* grow without bound.
OldRowsGo == <>[](OlderThan(now - RollupAfter) = {})
-----------------------------------------------------------------------------
\* What the documentation says, and the code does not do: the job "Aggregates
\* every raw `crowd_logs` row" before it deletes it, so every count ever logged
\* is there as a row or in a summary (docs/crowd-live-state-and-retention.md).
NothingLost ==
    \A row \in logged : \/ row \in raw
                        \/ SummedUp(row)
                        \/ HourOf(row).hour * Hour < now - HourlyKeep
=============================================================================
