----------------------------- MODULE Departures -----------------------------
(***************************************************************************)
(* What passengers are told about the next trains: the upcoming departures *)
(* (get_upcoming_schedules in app/services/schedule_service.py), the next  *)
(* one of a saved route (app/services/saved_route_service.py) and the next *)
(* ones of a station in the chat (app/services/chatbot_tools.py).  Each is *)
(* a query on the timetable of a kind of day and the clock.  The timetable *)
(* is any one of some; its changes are in ScheduleBoard.                   *)
(***************************************************************************)
EXTENDS Integers, Sequences, FiniteSets, SequencesExt, FiniteSetsExt

CONSTANTS Timetables,   \* sets of stops: id, train, station, time, sequence, on, cancelled
          Midnight,     \* the time of a day is in 0..(Midnight - 1)
          FirstDay,     \* 0 is a Monday
          LastDay,      \* bound: the clock stops at the end of that day
          Limit,        \* the trains asked for
          Factor,       \* stops that are looked at for each of them
          ChatLimit,    \* NEXT_TRAINS_LIMIT
          NoSequence, NoStop

VARIABLES timetable, day, now

vars == <<timetable, day, now>>

Stops == UNION Timetables
Stations == {stop.station : stop \in Stops}

TypeOK == timetable \in Timetables /\ day \in Nat /\ now \in 0..(Midnight - 1)

Init == timetable \in Timetables /\ day = FirstDay /\ now = 0

\* The business clock.
Tick ==
    /\ IF now < Midnight - 1 THEN now' = now + 1 /\ UNCHANGED day
       ELSE day < LastDay /\ now' = 0 /\ day' = day + 1
    /\ UNCHANGED timetable

Spec == Init /\ [][Tick]_vars

-----------------------------------------------------------------------------
DayType(d) == IF d % 7 >= 5 THEN "weekend" ELSE "weekday"

Today == {stop \in timetable : stop.on = DayType(day)}

Later(stops) == {stop \in stops : stop.time >= now}

\* ORDER BY the time; the order of equals is that of the table.
InOrder(stops) == SetToSortSeq(stops, LAMBDA a, b : a.time < b.time \/ (a.time = b.time /\ a.id < b.id))

FirstOf(stops, limit) == SubSeq(InOrder(stops), 1, Min({limit, Cardinality(stops)}))

Runs(stops) == {stop \in stops : ~stop.cancelled}

(***************************************************************************)
(* get_upcoming_schedules                                                  *)
(***************************************************************************)
\* A slip: no more stops are looked at than trains are asked for.
CandidatesOfLimit(stops) == FirstOf(stops, Limit)

Candidates(stops) == FirstOf(stops, Limit * Factor)

\* The first stop of each train.
Deduped(stops) ==
    FoldLeft(LAMBDA kept, stop :
                 IF Len(kept) >= Limit \/ \E i \in DOMAIN kept : kept[i].train = stop.train
                 THEN kept ELSE Append(kept, stop),
             <<>>, stops)

\* With no departure left today, those of the day from its beginning.
Upcoming ==
    LET upcoming == Deduped(Candidates(Later(Today)))
    IN  IF upcoming # <<>> THEN upcoming ELSE Deduped(Candidates(Today))

\* The stop of the train that comes next, if both have their place in its sequence.
NextStop(stop) ==
    LET after == {s \in Today : /\ s.train = stop.train
                                /\ s.sequence # NoSequence /\ stop.sequence # NoSequence
                                /\ s.sequence > stop.sequence}
    IN  IF after = {} THEN NoStop
        ELSE CHOOSE s \in after : \A t \in after : s.sequence <= t.sequence

(***************************************************************************)
(* get_my_route_live                                                       *)
(***************************************************************************)
\* A slip: trains in both directions will do.
EitherWay(from, to) == from.sequence # to.sequence

Onward(from, to) == from.sequence < to.sequence

Direct(from, destination) ==
    \E to \in timetable :
        /\ to.train = from.train /\ to.station = destination
        /\ to.sequence # NoSequence /\ from.sequence # NoSequence
        /\ Onward(from, to)

\* The next direct train, or else the next one of whatever direction.
NextDeparture(origin, destination) ==
    LET leaving == Later(Runs({stop \in Today : stop.station = origin}))
        directional == {stop \in leaving : Direct(stop, destination)}
        found == IF directional # {} THEN directional ELSE leaving
    IN  [stop |-> IF found = {} THEN NoStop ELSE Head(InOrder(found)),
         matched |-> directional # {}]

(***************************************************************************)
(* get_station_status                                                      *)
(***************************************************************************)
\* The note says that the trains are those of tomorrow.
NextTrains(station) ==
    LET running == Runs({stop \in Today : stop.station = station})
        upcoming == FirstOf(Later(running), ChatLimit)
    IN  IF upcoming # <<>> THEN [trains |-> upcoming, note |-> FALSE]
        ELSE [trains |-> FirstOf(running, ChatLimit), note |-> TRUE]

-----------------------------------------------------------------------------
\* As long as no train stops more than Factor times a day, the board of upcoming departures
\* has the earliest one still to come of each train, and leaves out a train only for others
\* that go before it; each names the stop that follows in the sequence of its train.
UpcomingIsNext ==
    LET shown == ToSet(Upcoming)
        later == Later(Today)
        stopsOf(train) == {stop \in Today : stop.train = train}
    IN  (later # {} /\ \A stop \in Today : Cardinality(stopsOf(stop.train)) <= Factor) =>
        /\ shown \subseteq later /\ Cardinality({stop.train : stop \in shown}) = Len(Upcoming)
        /\ \A stop \in later :
              IF \E s \in shown : s.train = stop.train
              THEN \E s \in shown : s.train = stop.train /\ s.time <= stop.time
              ELSE Cardinality(shown) = Limit /\ \A s \in shown : s.time <= stop.time
        /\ \A s \in shown : NextStop(s) = NoStop =>
              \A stop \in stopsOf(s.train) : NoSequence \in {s.sequence, stop.sequence} \/ stop.sequence <= s.sequence

\* A saved route that is answered with a direct train names the first that goes there, as
\* long as trains stop at the same stations on all days; any other answer means there is
\* none.
RouteIsDirect ==
    \A origin, destination \in Stations :
        LET answer == NextDeparture(origin, destination)
            goes(stop) == \E to \in Today : /\ to.train = stop.train /\ to.station = destination
                                            /\ NoSequence \notin {to.sequence, stop.sequence}
                                            /\ to.sequence > stop.sequence
            sameOnAllDays == \A stop \in timetable : \E s \in Today :
                                s.train = stop.train /\ s.station = stop.station /\ s.sequence = stop.sequence
            trains == {stop \in Later(Today) : stop.station = origin /\ ~stop.cancelled /\ goes(stop)}
        IN  sameOnAllDays =>
            /\ answer.matched <=> trains # {}
            /\ answer.matched => answer.stop \in trains /\ \A stop \in trains : answer.stop.time <= stop.time

\* What the chat says of the trains it lists when none is left today: "times below are
\* tomorrow's first departures" (chatbot_tools.py).
TomorrowsAreTomorrows ==
    \A station \in Stations :
        NextTrains(station).note => \A stop \in ToSet(NextTrains(station).trains) : stop.on = DayType(day + 1)
=============================================================================
