----------------------------- MODULE MCServices -----------------------------
(***************************************************************************)
(* What requests do, and the programs that fill the database, of which a   *)
(* behaviour runs one: the dispatch of jobs, the responses to alerts, the  *)
(* inbox, the schedule board, the forecasts, the departures, the loaded    *)
(* models, the accounts, the reports about crowds next to the retention    *)
(* job, the replay of the CSV file, and the seed programs.  All but the    *)
(* dispatch share the variables x1, x2, ..., whose values are those of the *)
(* one that runs.                                                          *)
(***************************************************************************)
EXTENDS NotificationDispatch, Sequences, TLC
CONSTANTS u1, u2, a1, p1, p2, r1, r2, r3,  \* users, an alert, processes, threads
          j1, j2, mail, phone,             \* jobs, and their targets
          t1, t2, t3, s1, s2, s3, c1, c2,  \* trains, stations, states
          None, Gone, Missing, All, Everyone, NotLoaded, Nobody, NoAlert

\* The second job is for no SMS.
For == (j1 :> {mail, phone}) @@ (j2 :> {mail})

\* A notice for everyone and one of the first user.
Owners == <<Everyone, u1>>

\* The board: a row and one that may be added, changes of a row, the pages looked at.
Scheduled(s, arrival, peak) ==
    [train |-> t1, station |-> s, arrival |-> arrival, peak |-> peak,
     delay |-> 0, late |-> FALSE, actual |-> -1, every |-> 1]
OneRow == 1 :> Scheduled(s1, 1, FALSE)
LateRow == Scheduled(s2, 0, TRUE)
Edits == {[peak |-> TRUE], [every |-> 2, peak |-> FALSE]}
States == (s1 :> c1) @@ (s2 :> c2)
Shown(kind, s, t, state) == [kind |-> kind, station |-> s, train |-> t, state |-> state]
Looked == {Shown("list", All, All, All), Shown("list", All, t1, All), Shown("peak", s1, All, All),
           Shown("peak", All, All, c1), Shown("delayed", All, All, All),
           Shown("count", All, All, All)}
BoardBudget(w, r, o, e) == [writes |-> w, reads |-> r, outages |-> o, expiries |-> e]
BoardBudgets == {BoardBudget(2, 1, 0, 1), BoardBudget(1, 1, 1, 0), BoardBudget(1, 2, 0, 0)}

\* Forecasts: two threads of one process and one of another.
Where == (r1 :> p1) @@ (r2 :> p1) @@ (r3 :> p2)
Budget(r, w, o, e, f) ==
    [requests |-> r, writes |-> w, outages |-> o, expiries |-> e, failures |-> f]
ForecastBudgets == {Budget(2, 0, 0, 2, 1), Budget(2, 0, 1, 0, 0),
                    Budget(1, 2, 0, 1, 0), Budget(1, 1, 1, 1, 0)}

\* Timetables of at most five of nine rows: three trains, two kinds of day, one cancelled.
Calls(i, t, s, time, n, on, cancelled) ==
    [id |-> i, train |-> t, station |-> s, time |-> time, sequence |-> n, on |-> on,
     cancelled |-> cancelled]
Stops == {Calls(1, t1, s1, 0, 1, "weekday", FALSE), Calls(2, t1, s2, 1, 2, "weekday", FALSE),
          Calls(3, t1, s3, 2, 3, "weekday", FALSE), Calls(4, t2, s2, 0, 1, "weekday", FALSE),
          Calls(5, t2, s1, 2, 2, "weekday", FALSE), Calls(6, t3, s1, 1, 1, "weekday", TRUE),
          Calls(7, t3, s2, 2, 0, "weekday", FALSE), Calls(8, t1, s1, 1, 1, "weekend", FALSE),
          Calls(9, t1, s2, 2, 2, "weekend", FALSE)}
Tables == {S \in SUBSET Stops : Cardinality(S) <= 5}

\* Model files: without one, with a failing candidate, with another winner.
Bundle(i, winner, known, failing) ==
    [id |-> i, models |-> <<"rf", "xgb">>, name |-> winner, model |-> winner,
     known |-> known, failing |-> failing]
Bundles == [crowd |-> {Bundle("old", "xgb", TRUE, {}), Bundle("new", "xgb", TRUE, {"rf"}), Missing},
            delay |-> {Bundle("old", "rf", TRUE, {}), Bundle("new", "rf", FALSE, {})},
            frequency |-> {Bundle("old", "rf", TRUE, {})}]

\* Windows of reports: one, two that can be compared, and one that outlasts the clock.
Interval(since, until) == [since |-> since, until |-> until]
Asked == {<<Interval(0, 2)>>, <<Interval(1, 2), Interval(0, 1)>>, <<Interval(0, 9)>>}

\* The CSV file: a station whose day ends, one with fewer rows than its buffer takes, one
\* whose day wraps, and one without rows.
Line(s, day, net) == [station |-> s, day |-> day, net |-> net]
Entries == << Line(s1, 1, 2), Line(s1, 1, -1), Line(s1, 2, -1), Line(s1, 2, 2), Line(s1, 2, 1),
              Line(s3, 1, -1), Line(s2, 1, 1), Line(s2, 1, 1), Line(s2, 2, 1) >>

\* The CSV files of the seed, and the first day of two stations.
Operation(slot, arrival) == [slot |-> slot, arrival |-> arrival]
Operations == <<Operation("a", 1), Operation("b", 2), Operation("x", 1), Operation("a", 3),
                Operation("b", 1)>>
Days == (1 :> <<2, -3, 4>>) @@ (2 :> <<1>>)

VARIABLES part,   \* the one that runs
          \* the variables of another one than the dispatch, in the order of its module
          x1, x2, x3, x4, x5, x6, x7, x8, x9, x10, x11, x12, x13, x14, x15, x16, x17, x18

xVars == <<x1, x2, x3, x4, x5, x6, x7, x8, x9, x10, x11, x12, x13, x14, x15, x16, x17, x18>>

A == INSTANCE CrowdResponse
     WITH Alerts <- {a1}, Staff <- {u1, u2}, Admins <- {u1}, Threads <- {r1, r2},
          Actions <- {1, 2}, MaxRequests <- 4, MaxStops <- 1, exists <- x1, is_resolved <- x2,
          acknowledged_by <- x3, assigned_to <- x4, history <- x5, jobs <- x6, wanted <- x7,
          locker <- x8, pc <- x9, alert <- x10, whom <- x11, notify <- x12, requests <- x13,
          stops <- x14, action <- x15, job <- x16, started <- x17, advised <- x18

\* What the proofs about responses assume.
ASSUME ResponsesAssumption == A!ResponseAssumption

N == INSTANCE NotificationInbox
     WITH User <- {u1, u2}, Request <- {r1, r2}, Notes <- {1, 2}, OwnerOf <- Owners,
          Retention <- 2, BinRetention <- 0, Batch <- 1, MaxTime <- 2, MaxOps <- 3, row <- x1,
          about <- x2, open <- x3, now <- x4, left <- x5, emptied <- x6, dated <- x7,
          cleared <- x8, ops <- x9

\* What the proofs about the inbox assume.
ASSUME InboxAssumption == N!NotesAreNamed

B == INSTANCE ScheduleBoard
     WITH Process <- {p1, p2}, Schedules <- {1, 2}, First <- OneRow, New <- {LateRow},
          Changes <- Edits, Minutes <- {1, 2}, Day <- 3, CityOf <- States, Pages <- Looked,
          Budgets <- BoardBudgets, table <- x1, up <- x2, entry <- x3, copy <- x4,
          reading <- x5, sweep <- x6, refused <- x7, crossed <- x8, left <- x9

\* What the proofs about the timetable assume.
ASSUME BoardAssumption == B!PagesAreOffered /\ B!RowsKeepTheirPlace

P == INSTANCE PredictionService
     WITH Process <- {p1, p2}, Thread <- {r1, r2, r3}, Home <- Where,
          Budgets <- ForecastBudgets, clock <- x1, up <- x2, redis <- x3, own <- x4,
          fleet <- x5, stats <- x6, thread <- x7, rows <- x8, loose <- x9, crossed <- x10,
          left <- x11

\* What the proofs about forecasts assume.
ASSUME ForecastsAssumption == P!HomesAreProcesses /\ P!RequestsAreNamed

D == INSTANCE Departures
     WITH Timetables <- Tables, Midnight <- 3, FirstDay <- 4, LastDay <- 5, Limit <- 2,
          Factor <- 2, ChatLimit <- 2, NoSequence <- 0, NoStop <- None, timetable <- x1,
          day <- x2, now <- x3

M == INSTANCE ModelRegistry
     WITH Threads <- {r1, r2}, Files <- Bundles, LightModes <- {TRUE, FALSE}, MaxCalls <- 2,
          MaxReplaced <- 1, NoThread <- None, lightMode <- x1, file <- x2, registry <- x3,
          loads <- x4, holder <- x5, thread <- x6, answers <- x7, calls <- x8, replaced <- x9

\* What the proofs about models assume.
ASSUME ModelsAssumption == M!BundlesAreWhole({"old", "new"}, {"rf", "xgb"})

U == INSTANCE UserAccounts
     WITH Requests <- {r1, r2}, MaxVersion <- 4, MaxRequests <- 3, Absent <- Missing,
          NoEntry <- None, row <- x1, entry <- x2, marker <- x3, notices <- x4, request <- x5,
          version <- x6, begun <- x7, late <- x8

\* What the proofs about accounts assume.
ASSUME AccountsAssumption == U!VersionsAreRows

R == INSTANCE CrowdReports
     WITH Stations <- {1}, Passes <- {p1}, Delays <- {0}, Hour <- 1, RollupAfter <- 1,
          RawKeep <- 2, HourlyKeep <- 3, Page <- 1, Batch <- 1, PassLimit <- 1, LastTime <- 3,
          MaxRows <- 2, MaxFailures <- 1, Counts <- {1, 3}, Requests <- Asked, MaxReports <- 1,
          now <- x1, raw <- x2, hourly <- x3, pc <- x4, page <- x5, began <- x6, cutoff <- x7,
          offset <- x8, logged <- x9, summed <- x10, failures <- x11, counts <- x12,
          report <- x13, disturbed <- x14, reports <- x15

F == INSTANCE CrowdReplay
     WITH Process <- {p1, p2}, Stations <- <<s1, s2, s3, "closed">>, File <- Entries, Chunk <- 4,
          Window <- 2, MaxFaults <- 2, leader <- x1, loaded <- x2, index <- x3, buffer <- x4,
          cursor <- x5, occupancy <- x6, day <- x7, saved <- x8, served <- x9, carried <- x10,
          faults <- x11

\* What the proofs about the replay assume.
ASSUME ReplayAssumption == F!ReplayConstants

S == INSTANCE DatabaseSeed
     WITH Ops <- Operations, Unknown <- "x", Flow <- Days, ChunkSize <- 3, Attempts <- 2,
          Tables <- <<"journeys", "news">>, Target <- 4, Cleared <- {"journeys"}, MaxRuns <- 4,
          MaxFaults <- 3, stations <- x1, history <- x2, timetable <- x3, logs <- x4,
          live <- x5, made <- x6, at <- x7, next <- x8, chunk <- x9, slots <- x10,
          attempt <- x11, ended <- x12, lost <- x13, runs <- x14, faults <- x15

\* What the proofs about the seed programs assume.
ASSUME SeedAssumption == S!SeedConstants

sumVars == <<part, vars, xVars>>

\* The variables that a module with n of them leaves alone.
After15 == <<x16, x17, x18>>
After11 == <<x12, x13, x14, x15, After15>>
After9 == <<x10, x11, After11>>
After8 == <<x9, After9>>
After3 == <<x4, x5, x6, x7, x8, After8>>

\* They stay without a value.
NoneAfter15 == x16 = None /\ x17 = None /\ x18 = None
NoneAfter11 == x12 = None /\ x13 = None /\ x14 = None /\ x15 = None /\ NoneAfter15
NoneAfter9 == x10 = None /\ x11 = None /\ NoneAfter11
NoneAfter8 == x9 = None /\ NoneAfter9
NoneAfter3 == x4 = None /\ x5 = None /\ x6 = None /\ x7 = None /\ x8 = None /\ NoneAfter8
NoneAfter0 == x1 = None /\ x2 = None /\ x3 = None /\ NoneAfter3

SumInit ==
    /\ Init
    /\ \/ part = "dispatch" /\ NoneAfter0
       \/ part = "response" /\ A!ResponseInit
       \/ part = "inbox" /\ N!Init /\ NoneAfter9
       \/ part = "board" /\ B!Init /\ NoneAfter9
       \/ part = "forecasts" /\ P!Init /\ NoneAfter11
       \/ part = "departures" /\ D!Init /\ NoneAfter3
       \/ part = "models" /\ M!Init /\ NoneAfter9
       \/ part = "accounts" /\ U!Init /\ NoneAfter8
       \/ part = "reports" /\ R!ReportInit /\ NoneAfter15
       \/ part = "replay" /\ F!Init /\ NoneAfter11
       \/ part = "seed" /\ S!Init /\ NoneAfter15

Other(name) == part = name /\ UNCHANGED <<part, vars>>

SumNext ==
    \/ part = "dispatch" /\ Next /\ UNCHANGED <<part, xVars>>
    \/ Other("response") /\ A!ResponseNext
    \/ Other("inbox") /\ N!Next /\ UNCHANGED After9
    \/ Other("board") /\ B!Next /\ UNCHANGED After9
    \/ Other("forecasts") /\ P!Next /\ UNCHANGED After11
    \/ Other("departures") /\ D!Tick /\ UNCHANGED After3
    \/ Other("models") /\ M!Next /\ UNCHANGED After9
    \/ Other("accounts") /\ U!Next /\ UNCHANGED After8
    \/ Other("reports") /\ R!ReportNext /\ UNCHANGED After15
    \/ Other("replay") /\ F!Next /\ UNCHANGED After11
    \/ Other("seed") /\ S!Next /\ UNCHANGED After15

SumSpec == SumInit /\ [][SumNext]_sumVars

-----------------------------------------------------------------------------
\* What they promise, each in its module, while it runs.

\* Every variable has its type.
TypesOK ==
    /\ TypeOK
    /\ part = "response" => A!TypeOK /\ A!ResponseTypeOK
    /\ part = "inbox" => N!TypeOK
    /\ part = "board" => B!TypeOK
    /\ part = "forecasts" => P!TypeOK
    /\ part = "departures" => D!TypeOK
    /\ part = "models" => M!TypeOK
    /\ part = "accounts" => U!TypeOK
    /\ part = "reports" => R!ReportTypeOK
    /\ part = "replay" => F!TypeOK
    /\ part = "seed" => S!TypeOK

\* The history of an alert agrees with its row, it is resolved once, and announced as asked.
HistoryIsWhole == part = "response" => A!HistoryIsWhole
ResolutionIsAnnounced == part = "response" => A!ResolutionIsAnnounced

\* The advisories of an alert end together, and what was completed had been started.
ActionsRunTheirCourse == part = "response" => A!AdvisoriesEndTogether /\ A!CompletedWasStarted

\* A notice that a user has cleared stays away, and emptying the bin leaves none in it.
InboxStaysCleared == part = "inbox" => N!NothingComesBack /\ N!ClearedIsGone

\* A page of the board, the figures of the fleet and an account that are read from a cache
\* are those of the database, but for what the modules except.
EntriesAreCurrent ==
    /\ part = "board" => B!BoardIsCurrent
    /\ part = "forecasts" => P!FleetIsCurrent
    /\ part = "accounts" => U!AccountIsCurrent

\* A forecast is stored once, whoever asks for it at the same time.
OneRowPerForecast == part = "forecasts" => P!OneRowPerForecast

\* The departures listed are the next ones, and a saved route is served by a direct train.
DeparturesAreNext == part = "departures" => D!UpcomingIsNext /\ D!RouteIsDirect

\* A model file is loaded once, and what is said of one station and of all is the same.
ModelsAreOne == part = "models" => M!LoadedOnce /\ M!AnswersAgree

\* A report misses no row while rows are rolled up, counts none twice if no pass is at
\* work, and the flow it tells is the change of the counts.
ReportsAreExact ==
    part = "reports" => R!ReportMissesNothing /\ R!ReportCountsOnce /\ R!FlowIsTheChange

\* Every station is served its rows of the file in order, whatever fails.
ReplayFollowsTheFile == part = "replay" => F!ReplayFollowsTheFile

\* A program that ends well has filled the database once, whatever happened before.
SeededIsWhole == part = "seed" => S!SeededIsWhole /\ S!LoadedIsEnough

\* What a document says of a delay after midnight, and what the chat says of the trains
\* it lists for tomorrow.
DelaysAreRecorded == part = "board" => B!DelaysAreRecorded
TomorrowsAreTomorrows == part = "departures" => D!TomorrowsAreTomorrows
=============================================================================
