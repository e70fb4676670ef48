--------------------------- MODULE AlertLifecycle ---------------------------
(***************************************************************************)
(* An alert from its creation to its resolution (app/services/             *)
(* alert_service.py and app/api/v1/alerts.py): it is created, acknowledged,*)
(* assigned and resolved by requests that threads serve side by side, each *)
(* with a database session of its own, at READ COMMITTED.  A request reads *)
(* the alert, decides, and commits its change together with an event of    *)
(* the history; creating and resolving then hand a job to the dispatch of  *)
(* notifications (NotificationDispatch), in another transaction.  A thread *)
(* may stop at any point, and clients send requests again.                 *)
(***************************************************************************)
EXTENDS Integers, Sequences

CONSTANTS Alerts,       \* the alerts that may be created
          Staff,        \* administrators and operators
          Threads,
          Nobody, NoAlert,
          MaxRequests,  \* bound: requests that are served
          MaxStops      \* bound: threads that stop half-way

VARIABLES exists,          \* the alerts that are in the table
          is_resolved,     \* those that are resolved
          acknowledged_by, \* acknowledged_by_id, set together with acknowledged_at
          assigned_to,     \* assigned_to_id
          history,         \* alert_incident_events of each alert
          jobs,            \* kinds of the notification jobs of each alert
          wanted,          \* alerts whose resolution is to be announced
          locker,          \* the transaction that has updated an alert
          pc, alert, whom, notify, \* what a thread is doing
          requests, stops

tables == <<exists, is_resolved, acknowledged_by, assigned_to, history, jobs, wanted>>
thread == <<pc, alert, whom, notify>>
vars == <<tables, locker, thread, requests, stops>>

Idle == "idle"

Steps == {Idle, "insert", "record", "acknowledge", "assign", "resolve", "resolved",
          "ALERT_CREATED", "ALERT_RESOLVED"}

Event(action, who) == [action |-> action, whom |-> who]

TypeOK ==
    /\ exists \subseteq Alerts /\ is_resolved \subseteq exists /\ wanted \subseteq is_resolved
    /\ acknowledged_by \in [Alerts -> Staff \cup {Nobody}]
    /\ assigned_to \in [Alerts -> Staff \cup {Nobody}]
    /\ history \in [Alerts -> Seq([action : {"created", "acknowledged", "assigned", "resolved"},
                                   whom : Staff \cup {Nobody}])]
    /\ jobs \in [Alerts -> Seq({"ALERT_CREATED", "ALERT_RESOLVED"})]
    /\ locker \in [Alerts -> Threads \cup {Nobody}]
    /\ pc \in [Threads -> Steps]
    /\ alert \in [Threads -> Alerts \cup {NoAlert}]
    /\ whom \in [Threads -> Staff \cup {Nobody}]
    /\ notify \in [Threads -> BOOLEAN]
    /\ requests \in 0..MaxRequests /\ stops \in 0..MaxStops

Init ==
    /\ exists = {} /\ is_resolved = {} /\ wanted = {}
    /\ acknowledged_by = [a \in Alerts |-> Nobody]
    /\ assigned_to = [a \in Alerts |-> Nobody]
    /\ history = [a \in Alerts |-> <<>>]
    /\ jobs = [a \in Alerts |-> <<>>]
    /\ locker = [a \in Alerts |-> Nobody]
    /\ pc = [t \in Threads |-> Idle]
    /\ alert = [t \in Threads |-> NoAlert]
    /\ whom = [t \in Threads |-> Nobody]
    /\ notify = [t \in Threads |-> FALSE]
    /\ requests = 0 /\ stops = 0

-----------------------------------------------------------------------------
(* A thread takes a request and reads the alert.                           *)

Take(t, step, a, who, note) ==
    /\ pc[t] = Idle /\ requests < MaxRequests
    /\ requests' = requests + 1
    /\ pc' = [pc EXCEPT ![t] = step]
    /\ alert' = [alert EXCEPT ![t] = a]
    /\ whom' = [whom EXCEPT ![t] = who]
    /\ notify' = [notify EXCEPT ![t] = note]
    /\ UNCHANGED <<tables, locker, stops>>

Create(t, a, note) ==
    /\ a \notin exists /\ \A u \in Threads : alert[u] # a
    /\ Take(t, "insert", a, Nobody, note)

Open(a) == a \in exists /\ a \notin is_resolved

\* A resolved alert is refused with 409; one that somebody has acknowledged is
\* returned as it is.
Acknowledge(t, a, who) ==
    /\ Open(a) /\ acknowledged_by[a] = Nobody
    /\ Take(t, "acknowledge", a, who, FALSE)

\* Nobody clears the assignment.
Assign(t, a, who) ==
    /\ Open(a) /\ assigned_to[a] # who
    /\ Take(t, "assign", a, who, FALSE)

\* A slip: the alert is not looked up first.
ResolveUnknown(t, a, note) == Take(t, "resolve", a, Nobody, note)

\* The removal of a passenger advisory (crowd_response_service.delete_action)
\* resolves its alert too, and asks for no announcement.
Resolve(t, a, note) ==
    /\ a \in exists
    /\ Take(t, "resolve", a, Nobody, note)

-----------------------------------------------------------------------------
(* What it does with it.                                                   *)

Forget(t) ==
    /\ pc' = [pc EXCEPT ![t] = Idle]
    /\ alert' = [alert EXCEPT ![t] = NoAlert]
    /\ whom' = [whom EXCEPT ![t] = Nobody]
    /\ notify' = [notify EXCEPT ![t] = FALSE]

Goto(t, step) == pc' = [pc EXCEPT ![t] = step] /\ UNCHANGED <<alert, whom, notify>>

\* A slip: the job depends on the channels, which a resolution leaves to its job.
NotifyByChannel(t, kind) ==
    IF notify[t] /\ kind = "ALERT_CREATED" THEN Goto(t, kind) ELSE Forget(t)

\* The response, or first a job for the dispatch if the request asks for one.
EndOrNotify(t, kind) == IF notify[t] THEN Goto(t, kind) ELSE Forget(t)

Insert(t) ==
    /\ pc[t] = "insert"
    /\ exists' = exists \cup {alert[t]}
    /\ Goto(t, "record")
    /\ UNCHANGED <<is_resolved, acknowledged_by, assigned_to, history, jobs, wanted, locker,
                   requests, stops>>

Log(t, action) == history' = [history EXCEPT ![alert[t]] = Append(@, Event(action, whom[t]))]

Record(t) ==
    /\ pc[t] = "record"
    /\ Log(t, "created")
    /\ EndOrNotify(t, "ALERT_CREATED")
    /\ UNCHANGED <<exists, is_resolved, acknowledged_by, assigned_to, jobs, wanted, locker,
                   requests, stops>>

\* The update has no condition on what was read, and waits for the row.
CommitAcknowledge(t) ==
    /\ pc[t] = "acknowledge" /\ locker[alert[t]] = Nobody
    /\ acknowledged_by' = [acknowledged_by EXCEPT ![alert[t]] = whom[t]]
    /\ Log(t, "acknowledged")
    /\ Forget(t)
    /\ UNCHANGED <<exists, is_resolved, assigned_to, jobs, wanted, locker, requests, stops>>

\* A slip: the assignment is committed without its event.
AssignSilently(t) ==
    /\ pc[t] = "assign" /\ locker[alert[t]] = Nobody
    /\ assigned_to' = [assigned_to EXCEPT ![alert[t]] = whom[t]]
    /\ Forget(t)
    /\ UNCHANGED <<exists, is_resolved, acknowledged_by, history, jobs, wanted, locker, requests, stops>>

CommitAssign(t) ==
    /\ pc[t] = "assign" /\ locker[alert[t]] = Nobody
    /\ assigned_to' = [assigned_to EXCEPT ![alert[t]] = whom[t]]
    /\ Log(t, "assigned")
    /\ Forget(t)
    /\ UNCHANGED <<exists, is_resolved, acknowledged_by, jobs, wanted, locker, requests, stops>>

\* A slip: UPDATE alerts without AND is_resolved IS FALSE.
AnyRow(a) == TRUE

\* The condition of the UPDATE, on the row as the last commit has left it.
Matches(a) == a \notin is_resolved

\* UPDATE ... WHERE is_resolved IS FALSE, which waits for the row: a request that
\* finds no row ends here, and answers that the alert is resolved.
UpdateResolved(t) ==
    /\ pc[t] = "resolve" /\ locker[alert[t]] = Nobody
    /\ IF Matches(alert[t])
       THEN locker' = [locker EXCEPT ![alert[t]] = t] /\ Goto(t, "resolved")
       ELSE Forget(t) /\ UNCHANGED locker
    /\ UNCHANGED <<tables, requests, stops>>

CommitResolved(t) ==
    /\ pc[t] = "resolved"
    /\ is_resolved' = is_resolved \cup {alert[t]}
    /\ wanted' = IF notify[t] THEN wanted \cup {alert[t]} ELSE wanted
    /\ Log(t, "resolved")
    /\ locker' = [locker EXCEPT ![alert[t]] = Nobody]
    /\ EndOrNotify(t, "ALERT_RESOLVED")
    /\ UNCHANGED <<exists, acknowledged_by, assigned_to, jobs, requests, stops>>

\* enqueue_and_submit, up to its commit.
Enqueue(t) ==
    /\ pc[t] \in {"ALERT_CREATED", "ALERT_RESOLVED"}
    /\ jobs' = [jobs EXCEPT ![alert[t]] = Append(@, pc[t])]
    /\ Forget(t)
    /\ UNCHANGED <<exists, is_resolved, acknowledged_by, assigned_to, history, wanted, locker,
                   requests, stops>>

\* A crash, a statement that times out or a lost connection: an open transaction
\* is rolled back, and the rest of the request does not happen.
Stop(t) ==
    /\ pc[t] # Idle /\ stops < MaxStops
    /\ stops' = stops + 1
    /\ locker' = [a \in Alerts |-> IF locker[a] = t THEN Nobody ELSE locker[a]]
    /\ Forget(t)
    /\ UNCHANGED <<tables, requests>>

Next ==
    \E t \in Threads :
        \/ \E a \in Alerts :
              \/ \E note \in BOOLEAN : Create(t, a, note) \/ Resolve(t, a, note)
              \/ \E who \in Staff : Acknowledge(t, a, who)
              \/ \E who \in Staff \cup {Nobody} : Assign(t, a, who)
        \/ Insert(t) \/ Record(t) \/ CommitAcknowledge(t) \/ CommitAssign(t)
        \/ UpdateResolved(t) \/ CommitResolved(t) \/ Enqueue(t) \/ Stop(t)

Spec == Init /\ [][Next]_vars

-----------------------------------------------------------------------------
\* The last event of that kind names who, or there is none and who is nobody.
LastNamed(events, kind, who) ==
    \/ who = Nobody /\ \A i \in DOMAIN events : events[i].action # kind
    \/ \E i \in DOMAIN events :
          /\ events[i] = Event(kind, who)
          /\ \A j \in DOMAIN events : j > i => events[j].action # kind

Announced(a) == \E i \in DOMAIN jobs[a] : jobs[a][i] = "ALERT_RESOLVED"

\* However often an alert is resolved, by how many at once and again by clients
\* who got no answer, it is resolved once in its history and announced at most
\* once, and announced only if the request that resolved it asked for that.
ResolvedOnce ==
    \A a \in Alerts :
        /\ a \in is_resolved <=> \E i \in DOMAIN history[a] : history[a][i].action = "resolved"
        /\ \A i, j \in DOMAIN history[a] :
              history[a][i].action = "resolved" /\ history[a][j].action = "resolved" => i = j
        /\ Announced(a) => a \in wanted
        /\ \A i, j \in DOMAIN jobs[a] :
              jobs[a][i] = "ALERT_RESOLVED" /\ jobs[a][j] = "ALERT_RESOLVED" => i = j

\* Whatever stops half-way, the history agrees with the alert: its last
\* acknowledgement and its last assignment are those of the row.
HistoryTellsTheState ==
    \A a \in Alerts :
        /\ LastNamed(history[a], "acknowledged", acknowledged_by[a])
        /\ LastNamed(history[a], "assigned", assigned_to[a])

\* The history of an alert is whole, and so are its announcements.
HistoryIsWhole == ResolvedOnce /\ HistoryTellsTheState

\* As long as no thread stops half-way, however requests race, an alert whose
\* resolution is to be announced has a job for that once they are done with it.
ResolutionIsAnnounced ==
    stops = 0 => \A a \in wanted : (\A t \in Threads : alert[t] # a) => Announced(a)
=============================================================================
