---------------------------- MODULE ScheduleBoard ----------------------------
(***************************************************************************)
(* The timetable and the cached pages it is read through                   *)
(* (app/services/schedule_service.py, app/api/v1/schedule.py) on the cache *)
(* of app/core/cache.py: an entry in Redis for every process, and a copy   *)
(* in each process that is only read without Redis.  A request commits,    *)
(* then deletes the pages it knows of one by one; a reader that misses     *)
(* reads the table and stores what it has read later.  Broadcasts and      *)
(* notices are left out; the routes of trains are in TrainTracking.        *)
(***************************************************************************)
EXTENDS Integers, Sequences, FiniteSets, SequencesExt

CONSTANTS Process,
          Schedules,   \* ids of rows
          First, New,  \* the rows there are at first, and those that may be created
          Changes,     \* what update_schedule and adjust_frequency may set
          Minutes,     \* of delay that may be reported
          Day,         \* a day has that many minutes: arrivals are in 0..(Day - 1)
          CityOf,      \* the city of a station
          Pages,       \* the pages that are looked at
          Missing, All,
          Budgets      \* bounds, one set for each scenario: of writes, reads, outages and expiries

VARIABLES
    table,    \* train_schedules
    up,       \* Redis is reachable
    entry,    \* the pages in Redis
    copy,     \* the pages in _local_cache of each process
    reading,  \* a reader of a process that has read the table
    sweep,    \* the pages a request of a process has still to delete, by their turn
    refused,  \* history: reports of a delay that were answered by an error
    crossed,  \* history: pages that a reader stored, or Redis kept, across a change
    left      \* what is left of the budget

cacheVars == <<entry, copy, crossed>>
vars == <<table, up, cacheVars, reading, sweep, refused, left>>

(***************************************************************************)
(* The pages                                                               *)
(***************************************************************************)
Page(kind, station, train, state) ==
    [kind |-> kind, station |-> station, train |-> train, state |-> state]

Delayed(row) == row.delay > 0 \/ row.late

Listed(page, row) ==
    /\ page.station = All \/ row.station = page.station
    /\ page.train = All \/ row.train = page.train
    /\ page.state = All \/ CityOf[row.station] = page.state
    /\ page.kind = "peak" => row.peak
    /\ page.kind \in {"delayed", "count"} => Delayed(row)

\* list_schedules, peak_hour_schedules, delayed_schedules and delayed_schedules_count
\* on the table: their first pages, without a day_type.
Query(page) ==
    LET ids == {i \in DOMAIN table : Listed(page, table[i])}
    IN IF page.kind = "count" THEN Cardinality(ids) ELSE [i \in ids |-> table[i]]

\* A slip: the peak pages of a station are forgotten.
SweptMostly(row) ==
    <<Page("list", All, All, All), Page("list", All, row.train, All), Page("list", row.station, All, All),
      Page("peak", All, All, All), Page("delayed", All, All, All), Page("delayed", row.station, All, All)>>

\* _invalidate_schedule_caches: neither counts, nor pages of a state.
Swept(row) ==
    <<Page("list", All, All, All), Page("list", All, row.train, All), Page("list", row.station, All, All),
      Page("peak", All, All, All), Page("peak", row.station, All, All),
      Page("delayed", All, All, All), Page("delayed", row.station, All, All)>>

\* What the proofs assume: a page of the rush hours or of delays is not that of one train,
\* rows have a station and a train, and the requests change neither.
PagesAreOffered ==
    \A page \in Pages :
        /\ page = Page(page.kind, page.station, page.train, page.state)
        /\ page.kind \in {"list", "peak", "delayed", "count"}
        /\ page.kind # "list" => page.train = All
IsRow(row) == row = [f \in DOMAIN row |-> row[f]] /\ {"station", "train"} \subseteq DOMAIN row
RowsKeepTheirPlace ==
    /\ \A row \in New \cup Range(First) : IsRow(row)
    /\ \A change \in Changes : {"station", "train"} \cap DOMAIN change = {}

TypeOK ==
    /\ DOMAIN table \subseteq Schedules /\ up \in BOOLEAN
    /\ DOMAIN entry = Pages /\ DOMAIN copy = Process /\ crossed \subseteq Pages
    /\ \A p \in Process :
          /\ DOMAIN copy[p] = Pages
          /\ reading[p].page \in Pages \cup {Missing}
          /\ \E i \in DOMAIN table : Range(sweep[p]) \subseteq ToSet(Swept(table[i]))
    /\ refused \subseteq Schedules \X Minutes
    /\ left \in [{"writes", "reads", "outages", "expiries"} -> Nat]

NoReader == [page |-> Missing, rows |-> Missing]

Init ==
    /\ table = First /\ up = TRUE
    /\ entry = [g \in Pages |-> Missing] /\ copy = [p \in Process |-> entry]
    /\ reading = [p \in Process |-> NoReader] /\ sweep = [p \in Process |-> <<>>]
    /\ refused = {} /\ crossed = {}
    /\ left \in Budgets

Spend(b) == left[b] > 0 /\ left' = [left EXCEPT ![b] = @ - 1]

(***************************************************************************)
(* Readers                                                                 *)
(***************************************************************************)
Served(p, page) == IF up THEN entry[page] ELSE copy[p][page]

\* _cached_schedule_list, when the page is not there: the table is read ...
Compute(p, page) ==
    /\ Spend("reads")
    /\ reading[p] = NoReader /\ Served(p, page) = Missing
    /\ reading' = [reading EXCEPT ![p] = [page |-> page, rows |-> Query(page)]]
    /\ UNCHANGED <<table, up, cacheVars, sweep, refused>>

\* ... and stored (set_json): in the process, and in Redis if it can be reached.
Store(p) ==
    /\ reading[p] # NoReader /\ reading' = [reading EXCEPT ![p] = NoReader]
    /\ LET page == reading[p].page
           rows == reading[p].rows
       IN /\ copy' = [copy EXCEPT ![p][page] = rows]
          /\ entry' = IF up THEN [entry EXCEPT ![page] = rows] ELSE entry
          /\ crossed' = IF ~up THEN crossed
                        ELSE IF rows = Query(page) THEN crossed \ {page} ELSE crossed \cup {page}
    /\ UNCHANGED <<table, up, sweep, refused, left>>

\* SCHEDULE_CACHE_TTL_SECONDS have passed.
Expire(page) ==
    /\ Spend("expiries")
    /\ entry[page] # Missing /\ entry' = [entry EXCEPT ![page] = Missing]
    /\ crossed' = crossed \ {page}
    /\ UNCHANGED <<table, up, copy, reading, sweep, refused>>

(***************************************************************************)
(* Requests of operators                                                   *)
(***************************************************************************)
\* The row is committed; the pages it is on, of those looked at, are to be deleted.
Put(p, i, row) ==
    LET turns == {n \in DOMAIN Swept(row) : Swept(row)[n] \in Pages}
    IN /\ table' = [k \in DOMAIN table \cup {i} |-> IF k = i THEN row ELSE table[k]]
       /\ sweep' = [sweep EXCEPT ![p] = [n \in turns |-> Swept(row)[n]]]

Request(p) == Spend("writes") /\ DOMAIN sweep[p] = {}

Create(p, i, row) ==
    /\ Request(p) /\ i \in Schedules \ DOMAIN table /\ Put(p, i, row)
    /\ UNCHANGED <<up, cacheVars, reading, refused>>

\* update_schedule and adjust_frequency: neither the train nor the station may change.
Update(p, i, change) ==
    /\ Request(p) /\ i \in DOMAIN table
    /\ Put(p, i, [f \in DOMAIN table[i] |-> IF f \in DOMAIN change THEN change[f] ELSE table[i][f]])
    /\ UNCHANGED <<up, cacheVars, reading, refused>>

\* The hours and minutes of the arrival are moved on by hand.
PastMidnight(row, minutes) == minutes > 0 /\ row.arrival + minutes >= Day

\* handle_delay: an arrival after midnight has an hour that replace() refuses.
ReportDelay(p, i, minutes) ==
    /\ Request(p) /\ i \in DOMAIN table
    /\ IF PastMidnight(table[i], minutes)
       THEN refused' = refused \cup {<<i, minutes>>} /\ UNCHANGED <<table, sweep>>
       ELSE /\ Put(p, i, [table[i] EXCEPT
                   !.delay = minutes, !.late = minutes > 0,
                   !.actual = IF minutes > 0 THEN table[i].arrival + minutes ELSE @])
            /\ UNCHANGED refused
    /\ UNCHANGED <<up, cacheVars, reading>>

\* cache.delete of one page: the copy of this process, and the entry if Redis is there.
Delete(p) ==
    /\ \E n \in DOMAIN sweep[p] :
          /\ \A k \in DOMAIN sweep[p] : n <= k
          /\ sweep' = [sweep EXCEPT ![p] = [k \in DOMAIN sweep[p] \ {n} |-> sweep[p][k]]]
          /\ LET page == sweep[p][n]
             IN /\ copy' = [copy EXCEPT ![p][page] = Missing]
                /\ entry' = IF up THEN [entry EXCEPT ![page] = Missing] ELSE entry
                /\ crossed' = IF up THEN crossed \ {page} ELSE crossed \cup {page}
    /\ UNCHANGED <<table, up, reading, refused, left>>

RedisFails ==
    /\ up /\ Spend("outages") /\ up' = FALSE
    /\ UNCHANGED <<table, cacheVars, reading, sweep, refused>>

RedisReturns ==
    /\ ~up /\ up' = TRUE
    /\ UNCHANGED <<table, cacheVars, reading, sweep, refused, left>>

Next ==
    \/ \E p \in Process :
          \/ \E page \in Pages : Compute(p, page)
          \/ Store(p) \/ Delete(p)
          \/ \E i \in Schedules :
                \/ \E row \in New : Create(p, i, row)
                \/ \E change \in Changes : Update(p, i, change)
                \/ \E minutes \in Minutes : ReportDelay(p, i, minutes)
    \/ \E page \in Pages : Expire(page)
    \/ RedisFails \/ RedisReturns

(***************************************************************************)
(* Properties                                                              *)
(***************************************************************************)
\* A first page of the board that Redis holds for a station, or a train, or all of them shows
\* the table, once the requests that changed it have deleted their pages, unless a reader
\* stored what it had read before such a change, or Redis was away when it was deleted.
BoardIsCurrent ==
    \A page \in Pages :
        (/\ page.kind # "count" /\ page.state = All /\ All \in {page.station, page.train}
         /\ entry[page] \notin {Missing, Query(page)})
        => page \in crossed \cup UNION {Range(sweep[p]) : p \in Process}

\* docs/architecture-audit.md (P1-2): reporting a delay does not fail because the train
\* arrives after midnight.
DelaysAreRecorded == refused = {}
==============================================================================
