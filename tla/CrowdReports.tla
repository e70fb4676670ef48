---------------------------- MODULE CrowdReports ----------------------------
(***************************************************************************)
(* The reports on the history of the crowd counts                          *)
(* (app/services/analytics_service.py and crowd_service.py) next to the    *)
(* job that rolls the history up: a report reads the rows and then the     *)
(* summaries, by queries of their own, and adds the two up while a pass    *)
(* moves rows from one to the other.  The selection by city, station or    *)
(* line is that of the set of stations; the report on the freshness of     *)
(* the data is that of a window without bounds.                            *)
(***************************************************************************)
EXTENDS CrowdRetention, Sequences, FiniteSetsExt

CONSTANTS Counts,      \* the counts that may be logged
          Requests,    \* sequences of windows: one for an analysis, two for a comparison
          MaxReports   \* bound: reports asked for

VARIABLES counts,      \* the count of each row
          report,      \* the request under way, or the last one
          disturbed,   \* history: a pass was at work since the last report was asked for
          reports      \* how many there were

reportVars == <<report, disturbed, reports>>
allVars == <<vars, counts, reportVars>>

NoReport == [todo |-> <<>>, windows |-> <<>>, due |-> <<>>, tally |-> <<>>]

ReportTypeOK ==
    /\ TypeOK
    /\ counts \in Seq(Counts) /\ Len(counts) = Cardinality(logged)
    /\ \A i \in DOMAIN report.tally : \A s \in DOMAIN report.tally[i] :
          s \in Stations /\ report.tally[i][s].samples > 0 /\ report.tally[i][s].peak \in Counts
    /\ disturbed \in BOOLEAN /\ reports \in 0..MaxReports

ReportInit ==
    /\ Init
    /\ counts = <<>> /\ report = NoReport
    /\ disturbed = FALSE /\ reports = 0

Total(rows) == MapThenSumSet(LAMBDA row : counts[row.id], rows)

-----------------------------------------------------------------------------
\* The clock of the database is fine enough that no station has two rows of one time.
LogCount(station, delay, count) ==
    /\ \A row \in logged : row.station = station => row.time # now - delay
    /\ Log(station, delay)
    /\ counts' = Append(counts, count)
    /\ UNCHANGED reportVars

(***************************************************************************)
(* _traffic_aggregates_for_period and data_freshness_report                *)
(***************************************************************************)
Within(time, window) == time >= window.since /\ time < window.until

\* A slip: the summaries are read before the rows.
SummariesFirst == <<"hourly", "raw">>

Tables == <<"raw", "hourly">>

\* What a query finds of a table, for each station.
FoundRaw(window) ==
    LET rows(s) == {row \in raw : row.station = s /\ Within(row.time, window)}
    IN  [s \in {t \in Stations : rows(t) # {}} |->
            [samples |-> Cardinality(rows(s)), total |-> Total(rows(s)),
             peak |-> Max({counts[row.id] : row \in rows(s)}),
             latest |-> Max({row.time : row \in rows(s)})]]

FoundHourly(window) ==
    LET keys(s) == {key \in DOMAIN hourly : key.station = s /\ Within(key.hour * Hour, window)}
        rows(s) == UNION {hourly[key] : key \in keys(s)}
    IN  [s \in {t \in Stations : keys(t) # {}} |->
            [samples |-> MapThenSumSet(LAMBDA key : Cardinality(hourly[key]), keys(s)),
             total |-> MapThenSumSet(LAMBDA key : Total(hourly[key]), keys(s)),
             peak |-> Max({counts[row.id] : row \in rows(s)}),
             latest |-> Max({key.hour * Hour : key \in keys(s)})]]

Added(one, two) ==
    [s \in DOMAIN one \cup DOMAIN two |->
        IF s \notin DOMAIN one THEN two[s]
        ELSE IF s \notin DOMAIN two THEN one[s]
        ELSE [samples |-> one[s].samples + two[s].samples, total |-> one[s].total + two[s].total,
              peak |-> Max({one[s].peak, two[s].peak}), latest |-> Max({one[s].latest, two[s].latest})]]

AtWork == \E p \in Passes : pc[p] # "asleep"

\* traffic_comparison_report refuses windows of different lengths and those that overlap.
Comparable(windows) ==
    \A i, j \in DOMAIN windows : i < j =>
        /\ windows[i].until - windows[i].since = windows[j].until - windows[j].since
        /\ windows[i].until <= windows[j].since \/ windows[j].until <= windows[i].since

Ask(windows) ==
    /\ report.todo = <<>> /\ reports < MaxReports /\ Comparable(windows)
    /\ report' = [todo |-> [k \in 1..(2 * Len(windows)) |->
                                [window |-> (k + 1) \div 2, table |-> Tables[2 - (k % 2)]]],
                  due |-> [i \in DOMAIN windows |-> {row \in logged : Within(row.time, windows[i])}],
                  windows |-> windows,
                  tally |-> [i \in DOMAIN windows |-> <<>>]]
    /\ disturbed' = AtWork /\ reports' = reports + 1
    /\ UNCHANGED <<vars, counts>>

Query ==
    /\ report.todo # <<>>
    /\ LET query == Head(report.todo)
           window == report.windows[query.window]
           found == IF query.table = "raw" THEN FoundRaw(window) ELSE FoundHourly(window)
       IN  report' = [report EXCEPT !.todo = Tail(@), !.tally[query.window] = Added(@, found)]
    /\ UNCHANGED <<vars, counts, disturbed, reports>>

(***************************************************************************)
(* crowd_flow_aggregate: what came and went since a time                   *)
(***************************************************************************)
RowsOf(s) == {row \in raw : row.station = s}

\* A slip: the last row before the window is not looked up.
SinceOnly(s, since) == {row \in RowsOf(s) : row.time >= since}

\* The rows of the window and, for their first difference, the last one before.
Window(s, since) ==
    LET baseline == {row.time : row \in {r \in RowsOf(s) : r.time < since}}
    IN  {row \in RowsOf(s) : row.time >= since \/ (baseline # {} /\ row.time = Max(baseline))}

\* LAG() OVER (ORDER BY created_at)
Difference(row, rows) ==
    LET earlier == {r \in rows : r.time < row.time}
        previous == CHOOSE r \in earlier : \A q \in earlier : q.time <= r.time
    IN  IF earlier = {} THEN 0 ELSE counts[row.id] - counts[previous.id]

Inflow(s, since) ==
    LET rows == Window(s, since)
    IN  MapThenSumSet(LAMBDA row : Max({Difference(row, rows), 0}), rows)

Outflow(s, since) ==
    LET rows == Window(s, since)
    IN  MapThenSumSet(LAMBDA row : Max({-Difference(row, rows), 0}), rows)

\* passenger_flow_overview
NetFlow(since) == MapThenSumSet(LAMBDA s : Inflow(s, since) - Outflow(s, since), Stations)

-----------------------------------------------------------------------------
Pass(p) ==
    /\ Work(p) \/ Fail(p)
    /\ disturbed' = TRUE
    /\ UNCHANGED <<counts, report, reports>>

ReportNext ==
    \/ Tick /\ UNCHANGED <<counts, reportVars>>
    \/ \E station \in Stations, delay \in Delays, count \in Counts : LogCount(station, delay, count)
    \/ \E p \in Passes : Pass(p)
    \/ \E windows \in Requests : Ask(windows)
    \/ Query

ReportSpec == ReportInit /\ [][ReportNext]_allVars

-----------------------------------------------------------------------------
\* What was logged when a report on whole hours was asked for is in its answer, whatever a
\* pass moves meanwhile: in the number of samples, the total, the peak and the latest hour.
ReportMissesNothing ==
    report.todo = <<>> =>
    \A i \in DOMAIN report.due : \A s \in Stations :
        LET due == {row \in report.due[i] : row.station = s /\ HourOf(row).hour * Hour >= now - HourlyKeep}
        IN  due # {} =>
              /\ s \in DOMAIN report.tally[i]
              /\ LET found == report.tally[i][s]
                 IN  /\ found.samples >= Cardinality(due) /\ found.total >= Total(due)
                     /\ \A row \in due : found.peak >= counts[row.id] /\ found.latest >= HourOf(row).hour * Hour

\* Without a pass at work meanwhile, and none that failed, it counts no row twice.
ReportCountsOnce ==
    (report.todo = <<>> /\ ~disturbed /\ failures = 0) =>
    \A i \in DOMAIN report.due : \A s \in DOMAIN report.tally[i] :
        report.tally[i][s].samples <= Cardinality({row \in logged : row.station = s /\ Within(row.time, report.windows[i])})

\* Passengers that came less those that went since a time are the change of the counts from
\* the last one before it, as long as none of those rows has been rolled up and deleted.
FlowIsTheChange ==
    \A since \in 0..now :
        LET of(s) == {row \in logged : row.station = s}
            before(s) == {row \in of(s) : row.time < since}
            last(rows) == CHOOSE row \in rows : \A r \in rows : r.time <= row.time
            whole(s) == before(s) # {} /\ \A row \in of(s) : row.time < last(before(s)).time \/ row \in raw
        IN  (\A s \in Stations : whole(s))
            => NetFlow(since) =
               MapThenSumSet(LAMBDA s : counts[last(of(s)).id] - counts[last(before(s)).id], Stations)
=============================================================================
