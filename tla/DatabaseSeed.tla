---------------------------- MODULE DatabaseSeed ----------------------------
(***************************************************************************)
(* The two programs that fill the database: seed_real_data.py, from the    *)
(* files of the operator, and seed_load_test.py, with made-up rows for a   *)
(* load test.  Both commit in chunks, so a run that stops leaves a part    *)
(* behind; the first tries a chunk again when the connection fails, also   *)
(* when only the answer to its commit was lost.                            *)
(* One of the programs runs at a time, next to no other writer.            *)
(***************************************************************************)
EXTENDS Integers, Sequences, FiniteSets, SequencesExt

CONSTANTS Ops,        \* train_operations.csv: rows with a slot of the timetable and an arrival
          Unknown,    \* the slot of a row whose train or station is unknown
          Flow,       \* passenger_flow.csv: for each station, the changes on its first day
          ChunkSize,  \* CHUNK_SIZE, and the 1000 of the load test
          Attempts,   \* of _bulk_insert_with_retry
          Tables,     \* the tables of the load test, in order
          Target,     \* rows that each is to have
          Cleared,    \* those that --reset truncates
          MaxRuns,    \* bound: runs of the programs
          MaxFaults   \* bound: crashes, failures of a chunk and lost answers

VARIABLES stations,   \* stations, lines and trains are there
          history,    \* train_schedule_history: for each row of the file, how often it is there
          timetable,  \* train_schedules: the rows of the file that are in the timetable
          logs, live, \* crowd_logs and station_crowd_state
          made,       \* for each table of the load test, how many rows it has
          at,         \* the statement of the program
          next,       \* the row of the file, or the table, it is at
          chunk,      \* history_dicts, or what is left to insert of a table
          slots,      \* timetable_by_slot, in the order of its keys
          attempt,
          ended,      \* how the last run ended
          lost,       \* history: answers lost since the tables were empty
          runs, faults

data == <<stations, history, timetable, logs, live, made>>
program == <<at, next, chunk, slots, attempt>>
vars == <<data, program, ended, lost, runs, faults>>

Rows == DOMAIN Ops

\* What the files and the options may be.
SeedConstants ==
    /\ Ops \in Seq([slot : {Ops[i].slot : i \in Rows}, arrival : Int])
    /\ Flow \in [DOMAIN Flow -> Seq(Int)]
    /\ Tables \in Seq(ToSet(Tables))
    /\ ChunkSize \in Nat \ {0} /\ Target \in Nat \ {0}

TypeOK ==
    /\ stations \in BOOLEAN
    /\ history \in [Rows -> Nat]
    /\ timetable \in Seq(Rows)
    /\ DOMAIN logs = DOMAIN Flow /\ DOMAIN live \subseteq DOMAIN Flow
    /\ made \in [ToSet(Tables) -> Nat]
    /\ at \in {"idle", "base", "read", "history", "timetable", "crowd", "load"}
    /\ next \in Nat /\ attempt \in 1..Attempts
    /\ slots \in Seq(Rows)
    /\ Cardinality({Ops[i].slot : i \in ToSet(slots)}) = Len(slots)
    /\ ended \in {"never", "refused", "seeded", "loaded", "failed"}

NoHistory == [i \in Rows |-> 0]

NoLogs == [s \in DOMAIN Flow |-> <<>>]

Init ==
    /\ stations = FALSE /\ history = NoHistory /\ timetable = <<>>
    /\ logs = NoLogs /\ live = <<>> /\ lost = 0
    /\ at = "idle" /\ next = 1 /\ chunk = <<>> /\ slots = <<>> /\ attempt = 1
    /\ made = [t \in ToSet(Tables) |-> 0]
    /\ ended = "never" /\ runs = 0 /\ faults = 0

-----------------------------------------------------------------------------
Started == at = "idle" /\ runs < MaxRuns /\ runs' = runs + 1

Ends(how) ==
    /\ at' = "idle" /\ next' = 1 /\ chunk' = <<>> /\ slots' = <<>> /\ attempt' = 1
    /\ ended' = how

\* seed: without --reset it leaves a database that has stations alone, whole or not.
Refuse ==
    /\ Started /\ stations /\ ended' = "refused"
    /\ UNCHANGED <<data, program, lost, faults>>

Begin(reset) ==
    /\ Started
    /\ IF reset
       THEN /\ stations' = FALSE /\ history' = NoHistory /\ timetable' = <<>>
            /\ logs' = NoLogs /\ live' = <<>> /\ lost' = 0
            /\ made' = [t \in DOMAIN made |-> IF t \in Cleared THEN 0 ELSE made[t]]
       ELSE ~stations /\ UNCHANGED <<data, lost>>
    /\ at' = "base" /\ ended' = "failed"
    /\ UNCHANGED <<next, chunk, slots, attempt, faults>>

\* Stations, lines and trains are flushed one after the other and committed together.
CommitBase ==
    /\ at = "base" /\ at' = "read" /\ stations' = TRUE
    /\ UNCHANGED <<history, timetable, logs, live, made, next, chunk, slots, attempt, ended, lost, runs, faults>>

\* A slip: the first row of a slot is the one that is kept.
FirstKept(i, j) == FALSE

\* Of two rows of a slot the later arrival is kept, of equals the one further down.
Replaces(i, j) == Ops[i].arrival >= Ops[j].arrival

Slotted(i) ==
    IF \E k \in DOMAIN slots : Ops[slots[k]].slot = Ops[i].slot
    THEN [k \in DOMAIN slots |->
             IF Ops[slots[k]].slot = Ops[i].slot /\ Replaces(i, slots[k]) THEN i ELSE slots[k]]
    ELSE Append(slots, i)

ReadRow ==
    /\ at = "read" /\ next <= Len(Ops) /\ next' = next + 1
    /\ IF Ops[next].slot = Unknown
       THEN UNCHANGED <<at, chunk, slots>>
       ELSE /\ chunk' = Append(chunk, next)
            /\ at' = IF Len(chunk') >= ChunkSize THEN "history" ELSE "read"
            /\ slots' = Slotted(next)
    /\ UNCHANGED <<data, attempt, ended, lost, runs, faults>>

\* A slip: what is left of the last chunk is forgotten.
NothingLeft == TRUE

NoRowLeft == chunk = <<>>

FirstChunk(rows) == IF Len(rows) <= ChunkSize THEN rows ELSE SubSeq(rows, 1, ChunkSize)

EndOfFile ==
    /\ at = "read" /\ next > Len(Ops)
    /\ IF NoRowLeft
       THEN at' = "timetable" /\ chunk' = FirstChunk(slots)
       ELSE at' = "history" /\ UNCHANGED chunk
    /\ UNCHANGED <<data, next, slots, attempt, ended, lost, runs, faults>>

(***************************************************************************)
(* _bulk_insert_with_retry                                                 *)
(***************************************************************************)
\* The rows are inserted and committed.
Insert ==
    IF at = "history"
    THEN history' = [i \in Rows |-> history[i] + Cardinality({k \in DOMAIN chunk : chunk[k] = i})] /\ UNCHANGED timetable
    ELSE timetable' = timetable \o chunk /\ UNCHANGED history

Done ==
    /\ attempt' = 1
    /\ IF at = "history"
       THEN at' = "read" /\ chunk' = <<>> /\ UNCHANGED slots
       ELSE LET rest == SubSeq(slots, Len(chunk) + 1, Len(slots))
            IN  /\ slots' = rest /\ chunk' = FirstChunk(rest)
                /\ at' = IF rest = <<>> THEN "crowd" ELSE "timetable"

Inserting == at \in {"history", "timetable"}

InsertChunk ==
    /\ Inserting /\ Insert /\ Done
    /\ UNCHANGED <<stations, logs, live, made, next, ended, lost, runs, faults>>

\* An OperationalError, before the commit or instead of its answer.
InsertFails ==
    /\ Inserting /\ faults < MaxFaults /\ faults' = faults + 1
    /\ \/ UNCHANGED <<history, timetable, lost>>
       \/ Insert /\ lost' = lost + 1
    /\ IF attempt = Attempts
       THEN Ends("failed")
       ELSE attempt' = attempt + 1 /\ UNCHANGED <<at, next, chunk, slots, ended>>
    /\ UNCHANGED <<stations, logs, live, made, runs>>

(***************************************************************************)
(* The first day of each station                                           *)
(***************************************************************************)
\* _build_seed_crowd_rows: the count after each change, never below zero.
Walk(changes) ==
    FoldLeft(LAMBDA walk, change :
                 LET sum == change + (IF walk = <<>> THEN 0 ELSE Last(walk))
                 IN  Append(walk, IF sum < 0 THEN 0 ELSE sum),
             <<>>, changes)

SeedCrowd ==
    /\ at = "crowd" /\ Ends("seeded")
    /\ logs' = [s \in DOMAIN Flow |-> logs[s] \o Walk(Flow[s])]
    /\ live' = [s \in DOMAIN Flow |-> Last(Walk(Flow[s]))]
    /\ UNCHANGED <<stations, history, timetable, made, lost, runs, faults>>

(***************************************************************************)
(* seed_load_test.py: a table that has too few rows gets as many again     *)
(***************************************************************************)
BeginLoad ==
    /\ Started /\ stations
    /\ at' = "load" /\ ended' = "failed"
    /\ UNCHANGED <<data, next, chunk, slots, attempt, lost, faults>>

\* A slip: what is left after the full chunks is not committed.
FullOnly(left) == IF left >= ChunkSize THEN ChunkSize ELSE 0

Size(left) == IF left < ChunkSize THEN left ELSE ChunkSize

\* A commit for each chunk, and one for what is left; the table is then counted no more.
Fill ==
    /\ at = "load" /\ next <= Len(Tables)
    /\ LET table == Tables[next]
           begun == chunk # <<>>
           left == IF begun THEN Head(chunk) ELSE Target
       IN  IF ~begun /\ made[table] >= Target
           THEN next' = next + 1 /\ UNCHANGED <<made, chunk>>
           ELSE /\ made' = [made EXCEPT ![table] = @ + Size(left)]
                /\ IF left <= ChunkSize
                   THEN next' = next + 1 /\ chunk' = <<>>
                   ELSE next' = next /\ chunk' = <<left - ChunkSize>>
    /\ UNCHANGED <<stations, history, timetable, logs, live, at, slots, attempt, ended, lost, runs, faults>>

Loaded ==
    /\ at = "load" /\ next > Len(Tables) /\ Ends("loaded")
    /\ UNCHANGED <<data, lost, runs, faults>>

-----------------------------------------------------------------------------
\* The program stops, or raises (so does the load test when it gives a passenger a second
\* ride under way); what it has not committed is gone.
Crash ==
    /\ at # "idle" /\ faults < MaxFaults /\ faults' = faults + 1
    /\ Ends("failed")
    /\ UNCHANGED <<data, lost, runs>>

Next ==
    \/ Refuse \/ Begin(TRUE) \/ Begin(FALSE) \/ CommitBase
    \/ ReadRow \/ EndOfFile \/ InsertChunk \/ InsertFails \/ SeedCrowd
    \/ BeginLoad \/ Fill \/ Loaded
    \/ Crash

Spec == Init /\ [][Next]_vars

-----------------------------------------------------------------------------
Known == {i \in Rows : Ops[i].slot # Unknown}

Latest(i) == \A j \in Known : Ops[j].slot = Ops[i].slot => Ops[j].arrival <= Ops[i].arrival

\* A run that says it has seeded the database has done so whole, whatever was left of the
\* runs before it: each known row of the file is in the history, each slot is in the
\* timetable with its latest arrival, both once as far as no answer was lost, and each
\* station has the count its first day ended with.
SeededIsWhole ==
    ended = "seeded" =>
        /\ \A i \in Rows : IF i \in Known THEN history[i] >= 1 ELSE history[i] = 0
        /\ \A i \in ToSet(timetable) : Latest(i)
        /\ {Ops[i].slot : i \in ToSet(timetable)} = {Ops[i].slot : i \in Known}
        /\ lost = 0 => /\ \A i \in Known : history[i] = 1
                       /\ Len(timetable) = Cardinality({Ops[i].slot : i \in Known})
        /\ \A s \in DOMAIN Flow : live[s] = Last(logs[s]) /\ Len(logs[s]) = Len(Flow[s])

\* A load test that has ended leaves each table with its rows, and with less than twice as
\* many, whatever was left of one that was stopped.
LoadedIsEnough == ended = "loaded" => \A t \in DOMAIN made : made[t] \in Target..(2 * Target - 1)
=============================================================================
