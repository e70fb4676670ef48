----------------------------- MODULE CrowdReplay -----------------------------
(***************************************************************************)
(* The replay of recorded passenger flow by the simulator                  *)
(* (app/simulator/csv_replay_simulator.py).  The file is read once in      *)
(* chunks, to learn where the rows of each station are and to fill its     *)
(* buffer; later windows are read from the file when a buffer runs empty,  *)
(* and the rows start again when the last is served.  The rows served, the *)
(* occupancy they add up to and the day they belong to live in the process *)
(* that leads; occupancy and day are handed to the next leader through the *)
(* cache.  The write to station_crowd_state is part of CrowdLiveState; the *)
(* notices and history rows of a tick are left out.                        *)
(***************************************************************************)
EXTENDS Integers, Sequences, FiniteSets, SequencesExt

CONSTANTS Process,
          Stations,   \* the active stations, in the order of a tick
          File,       \* the rows: station, day, and entries less exits
          Chunk,      \* _CSV_CHUNKSIZE
          Window,     \* _STATION_BUFFER_ROWS
          MaxFaults   \* bound: failed ticks, crashes, and losses of the saved state

VARIABLES
    leader,
    loaded,   \* processes that have read the file
    index,    \* _STATION_INDEX: where the rows of a station start, and how many they are
    buffer,   \* _rows_by_station: the rows of the file that are served next
    cursor,   \* _cursor: rows of the station that were buffered since the last wrap
    occupancy, day,  \* _occupancy_by_station, _last_row_date_by_station
    saved,    \* the entry of the cache: occupancy and day, or nothing
    served,   \* history: how many rows of the station the process has served
    carried,  \* history: what was restored belongs to the day of the first row
    faults

memory == <<index, buffer, cursor, occupancy, day, served, carried>>
vars == <<leader, loaded, memory, saved, faults>>

Station == ToSet(Stations)

\* What the file may be: the rows of a station are together, and its last one is not of the
\* day of its first.
ReplayConstants ==
    /\ Chunk \in Nat \ {0} /\ Window \in Nat \ {0} /\ MaxFaults \in Nat
    /\ File \in Seq([station : {File[i].station : i \in 1..Len(File)}, day : Nat \ {0}, net : Int])
    /\ \A i, j, k \in 1..Len(File) :
          i < j /\ j < k /\ File[i].station = File[k].station => File[j].station = File[i].station
    /\ \A i, k \in 1..Len(File) :
          /\ File[i].station = File[k].station
          /\ \A j \in 1..Len(File) : File[j].station = File[i].station => j \in i..k
          => i = k \/ File[i].day # File[k].day
NoDay == 0
NotRead == [start |-> 0, count |-> 0]
Nothing == [s \in Station |-> [occupancy |-> 0, day |-> NoDay]]

(***************************************************************************)
(* Reading the file                                                        *)
(***************************************************************************)
\* A row is the last of a run when the chunk ends or another station follows.
RunEnds(i) == \/ i = Len(File) \/ i % Chunk = 0
              \/ File[i].station # File[i + 1].station

RunStart(i) == Max({0} \cup {j \in 1..(i - 1) : RunEnds(j)}) + 1

ChunkEnd(i) == Min({j \in i..Len(File) : j = Len(File) \/ j % Chunk = 0})

Least(a, b) == IF a < b THEN a ELSE b

\* What _load_csv_once does with a run of a station: the buffer takes as many rows as it
\* has room for, and past the end of a shorter run those of the next stations in the chunk.
AddRun(known, from, to) ==
    LET s == File[from].station
        length == to - from + 1
        old == known[s]
        room == Window - Len(old.buffer)
        taken == Least(room, ChunkEnd(from) - from + 1)
    IN [known EXCEPT ![s] =
           [start  |-> IF old.count = 0 THEN from - 1 ELSE old.start,
            count  |-> old.count + length,
            buffer |-> old.buffer \o [i \in 1..taken |-> from + i - 1],
            cursor |-> old.cursor + Least(room, length)]]

ReadRow(known, i) == IF RunEnds(i) THEN AddRun(known, RunStart(i), i) ELSE known

Named == {File[i].station : i \in 1..Len(File)} \cup Station

Unread == [s \in Named |-> [start |-> 0, count |-> 0, buffer |-> <<>>, cursor |-> 0]]

Index == FoldLeft(ReadRow, Unread, [i \in 1..Len(File) |-> i])

\* A slip: a window is read whole, past the last row of the station.
TakenWhole(p, s, from) == Window

\* The rows of the next window.
Taken(p, s, from) == Least(Window, index[p][s].count - from)

\* _refill_station_buffer: the next window, from the first row again after the last.
Refill(p, s, at) ==
    LET from == IF at >= index[p][s].count THEN 0 ELSE at
        taken == Taken(p, s, from)
    IN [buffer |-> [i \in 1..taken |-> index[p][s].start + from + i], cursor |-> from + taken]

\* The buffer and the cursor from which a row is taken (_next_row).
Ready(p, s) ==
    IF buffer[p][s] = <<>> THEN Refill(p, s, cursor[p][s])
    ELSE [buffer |-> buffer[p][s], cursor |-> cursor[p][s]]

InFile(p, s) == index[p][s].count > 0

(***************************************************************************)
(* State                                                                   *)
(***************************************************************************)
TypeOK ==
    /\ leader \in Process /\ loaded \subseteq Process
    /\ index \in [Process -> [Station -> [start : 0..Len(File), count : 0..Len(File)]]]
    /\ buffer \in [Process -> [Station -> Seq(1..Len(File))]]
    /\ cursor \in [Process -> [Station -> 0..Len(File)]]
    /\ occupancy \in [Process -> [Station -> Nat]]
    /\ day \in [Process -> [Station -> Nat]]
    /\ DOMAIN saved \subseteq Station
    /\ served \in [Process -> [Station -> Nat]]
    /\ carried \subseteq Process \X Station
    /\ faults \in 0..MaxFaults

Empty(x) == [p \in Process |-> [s \in Station |-> x]]

Init ==
    /\ leader \in Process /\ loaded = {}
    /\ index = Empty(NotRead) /\ buffer = Empty(<<>>) /\ cursor = Empty(0)
    /\ occupancy = Empty(0) /\ day = Empty(NoDay)
    /\ saved = <<>>
    /\ served = Empty(0) /\ carried = {} /\ faults = 0

\* The first tick of a process: _load_csv_once, then _restore_replay_state.
Load ==
    LET p == leader
        read == Index
        kept == {s \in DOMAIN saved : read[s].count > 0}
        firstDay(s) == File[read[s].buffer[1]].day
    IN /\ p \notin loaded /\ loaded' = loaded \cup {p}
       /\ index' = [index EXCEPT ![p] = [s \in Station |->
                                         [start |-> read[s].start, count |-> read[s].count]]]
       /\ buffer' = [buffer EXCEPT ![p] = [s \in Station |-> read[s].buffer]]
       /\ cursor' = [cursor EXCEPT ![p] = [s \in Station |-> read[s].cursor]]
       /\ occupancy' = [occupancy EXCEPT ![p] =
              [s \in Station |-> IF s \in kept THEN saved[s].occupancy ELSE @[s]]]
       /\ day' = [day EXCEPT ![p] = [s \in Station |-> IF s \in kept THEN saved[s].day ELSE @[s]]]
       /\ carried' = carried \cup {<<p, s>> : s \in {k \in kept : saved[k].day = firstDay(k)}}
       /\ UNCHANGED <<leader, saved, served, faults>>

\* _current_count_from_row: a new day starts from nothing, and occupancy is never negative.
Counted(old, oldDay, row) ==
    LET start == IF oldDay = NoDay \/ row.day # oldDay THEN 0 ELSE old
    IN IF start + row.net > 0 THEN start + row.net ELSE 0

RowCount(s) == Cardinality({i \in 1..Len(File) : File[i].station = s})

\* The stations of S are served a row each.
Serve(p, S) ==
    LET next(s) == File[Head(Ready(p, s).buffer)]
        T == {s \in S : InFile(p, s)}
    IN /\ buffer' = [buffer EXCEPT ![p] =
              [s \in Station |-> IF s \in T THEN Tail(Ready(p, s).buffer) ELSE @[s]]]
       /\ cursor' = [cursor EXCEPT ![p] =
              [s \in Station |-> IF s \in T THEN Ready(p, s).cursor ELSE @[s]]]
       /\ occupancy' = [occupancy EXCEPT ![p] =
              [s \in Station |-> IF s \in T THEN Counted(@[s], day[p][s], next(s)) ELSE @[s]]]
       /\ day' = [day EXCEPT ![p] = [s \in Station |-> IF s \in T THEN next(s).day ELSE @[s]]]
       /\ UNCHANGED index
       /\ served' = [served EXCEPT ![p] =
              [s \in Station |-> IF s \in T THEN (@[s] + 1) % RowCount(s) ELSE @[s]]]
       /\ carried' = carried \ {<<p, s>> : s \in {t \in T : next(t).day # day[p][t]}}

\* _tick_sync: the stations in turn, the commit, and then the state for the next leader.
Tick ==
    /\ leader \in loaded
    /\ Serve(leader, Station)
    /\ saved' = [s \in {t \in Station : InFile(leader, t)} |->
                    [occupancy |-> occupancy'[leader][s], day |-> day'[leader][s]]]
    /\ UNCHANGED <<leader, loaded, faults>>

\* A tick fails at the n-th station, when its window cannot be read, or at the commit:
\* the rows of the stations before it are served for nothing, and nothing is saved.
TickFails(n) ==
    /\ leader \in loaded /\ faults < MaxFaults /\ faults' = faults + 1
    /\ n <= Len(Stations) => InFile(leader, Stations[n]) /\ buffer[leader][Stations[n]] = <<>>
    /\ Serve(leader, {Stations[i] : i \in 1..(n - 1)})
    /\ UNCHANGED <<leader, loaded, saved>>

\* Leadership passes on; the process that led keeps what it holds in memory.
Handover(p) ==
    /\ p # leader /\ leader' = p
    /\ UNCHANGED <<loaded, memory, saved, faults>>

\* A process ends and is started again.
Crash(p) ==
    /\ faults < MaxFaults /\ faults' = faults + 1
    /\ loaded' = loaded \ {p}
    /\ index' = [index EXCEPT ![p] = [s \in Station |-> NotRead]]
    /\ buffer' = [buffer EXCEPT ![p] = [s \in Station |-> <<>>]]
    /\ cursor' = [cursor EXCEPT ![p] = [s \in Station |-> 0]]
    /\ occupancy' = [occupancy EXCEPT ![p] = [s \in Station |-> 0]]
    /\ day' = [day EXCEPT ![p] = [s \in Station |-> NoDay]]
    /\ served' = [served EXCEPT ![p] = [s \in Station |-> 0]]
    /\ carried' = carried \ ({p} \X Station)
    /\ UNCHANGED <<leader, saved>>

\* The entry of the cache expires after an hour, or Redis loses it.
Forget ==
    /\ faults < MaxFaults /\ faults' = faults + 1
    /\ saved # <<>> /\ saved' = <<>>
    /\ UNCHANGED <<leader, loaded, memory>>

Next ==
    \/ Load \/ Tick \/ Forget
    \/ \E n \in 1..(Len(Stations) + 1) : TickFails(n)
    \/ \E p \in Process : Handover(p) \/ Crash(p)

Spec == Init /\ [][Next]_vars

(***************************************************************************)
(* Properties                                                              *)
(***************************************************************************)
\* The n-th row of a station.
RowOf(s, n) ==
    CHOOSE i \in 1..Len(File) :
        File[i].station = s /\ Cardinality({j \in 1..i : File[j].station = s}) = n

\* What the rows of a day add up to.
AddRow(sum, i) == [occupancy |-> Counted(sum.occupancy, sum.day, File[i]), day |-> File[i].day]

\* The occupancy after the first n rows of a station, without windows or restarts.
Sum(s, n) == FoldLeft(AddRow, Nothing[s], [k \in 1..n |-> RowOf(s, k)]).occupancy

\* Each station with as many rows as a buffer takes is served its own rows, one after the
\* other and from the first again after the last, across the chunks and windows they are
\* read in and whatever tick fails; and the occupancy is what the rows of the day add up
\* to, unless a process that starts on the first day was handed that day's occupancy.
ReplayFollowsTheFile ==
    \A p \in loaded, s \in Station :
        InFile(p, s) /\ RowCount(s) >= Window =>
            /\ \A i \in 1..Len(buffer[p][s]) :
                  buffer[p][s][i] = RowOf(s, ((served[p][s] + i - 1) % RowCount(s)) + 1)
            /\ (cursor[p][s] - served[p][s] - Len(buffer[p][s])) % RowCount(s) = 0
            /\ served[p][s] > 0 /\ <<p, s>> \notin carried
                  => occupancy[p][s] = Sum(s, served[p][s])
==============================================================================
