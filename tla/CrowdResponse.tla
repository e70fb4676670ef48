---------------------------- MODULE CrowdResponse ----------------------------
(***************************************************************************)
(* The response to a crowded station (app/services/                        *)
(* crowd_response_service.py): staff is sent, or passengers are advised by *)
(* an alert, which is created and resolved as in AlertLifecycle by the     *)
(* same thread, in transactions of their own, before the row of the        *)
(* response is written or removed.  A request reads the row, decides, and  *)
(* writes the columns it changes.  The crowd of the one station stays      *)
(* high; notices to staff are left out.                                    *)
(***************************************************************************)
EXTENDS AlertLifecycle

CONSTANTS Actions,   \* rows of crowd_response_actions that may be created
          Admins     \* of the staff

VARIABLES
    action,    \* the rows
    job,       \* what a thread is doing to which row: the rest of its request
    started,   \* history: responses that have been in progress
    advised    \* history: alerts of advisories, but for those whose request stopped

responseVars == <<action, job, started, advised>>
allVars == <<vars, responseVars>>

NoAction == [type |-> "none", status |-> "none", assignee |-> Nobody, creator |-> Nobody, alert |-> NoAlert]
NoJob == [do |-> "none", row |-> 0, alert |-> NoAlert, who |-> Nobody, set |-> <<>>]
Closed == {"completed", "cancelled"}
There(i) == action[i] # NoAction

\* What the proofs assume of the constants.
ResponseAssumption ==
    /\ MaxRequests \in Nat /\ MaxStops \in Nat
    /\ Nobody \notin Threads /\ NoAlert \notin Alerts /\ 0 \notin Actions /\ Admins \subseteq Staff

ResponseTypeOK ==
    /\ \A i \in Actions :
          /\ action[i].type \in {"none", "staff_dispatch", "passenger_advisory"}
          /\ action[i].status \in {"none", "open", "in_progress"} \cup Closed
          /\ action[i].assignee \in Staff \cup {Nobody}
          /\ action[i].alert \in exists \cup {NoAlert}
    /\ \A t \in Threads : /\ job[t].do \in {"none", "dispatch", "advise", "update", "remove"}
                          /\ job[t].row \in Actions \cup {0}
    /\ started \subseteq Actions /\ advised \subseteq Alerts

ResponseInit ==
    /\ Init
    /\ action = [i \in Actions |-> NoAction]
    /\ job = [t \in Threads |-> NoJob]
    /\ started = {} /\ advised = {}

-----------------------------------------------------------------------------
(* Creation.                                                               *)

Begin(t, do, i, a, who, set) ==
    /\ job[t] = NoJob
    /\ job' = [job EXCEPT ![t] = [do |-> do, row |-> i, alert |-> a, who |-> who, set |-> set]]

Finish(t) == job' = [job EXCEPT ![t] = NoJob]

\* A request that does not go through AlertLifecycle!Take.
Served(t) ==
    /\ pc[t] = Idle /\ requests < MaxRequests /\ requests' = requests + 1
    /\ UNCHANGED <<tables, locker, thread, stops>>

Unused(i) == ~There(i) /\ \A t \in Threads : job[t].row # i

\* create_action for staff: none is on its way there.
SendStaff(t, i, who) ==
    /\ Unused(i) /\ Served(t)
    /\ \A k \in Actions : ~(action[k].type = "staff_dispatch" /\ action[k].status \in {"open", "in_progress"})
    /\ Begin(t, "dispatch", i, NoAlert, who, <<>>)
    /\ UNCHANGED <<action, started, advised>>

\* create_action for passengers, up to the call of create_alert: no advisory is open.
Advise(t, i, a, who) ==
    /\ Unused(i)
    /\ \A k \in Actions : ~(action[k].type = "passenger_advisory" /\ Open(action[k].alert))
    /\ Begin(t, "advise", i, a, who, <<>>) /\ Create(t, a, FALSE)
    /\ advised' = advised \cup {a}
    /\ UNCHANGED <<action, started>>

\* The row is written, for an advisory after its alert.
WriteRow(t) ==
    /\ pc[t] = Idle /\ job[t].do \in {"dispatch", "advise"} /\ Finish(t)
    /\ action' = [action EXCEPT ![job[t].row] =
           [type |-> IF job[t].do = "dispatch" THEN "staff_dispatch" ELSE "passenger_advisory",
            status |-> IF job[t].do = "dispatch" THEN "open" ELSE "completed",
            assignee |-> Nobody, creator |-> job[t].who, alert |-> job[t].alert]]
    /\ UNCHANGED <<vars, started, advised>>

-----------------------------------------------------------------------------
(* Progress and removal.                                                   *)

MayChange(row, who) == row.assignee \in {Nobody, who} \/ who \in Admins

\* A slip: an open response may be completed.
MaySetAny(row, status) == TRUE

MaySet(row, status) == status = "completed" => row.status # "open"

\* update_action up to its commit: assignment to oneself, a new status, or both.
Change(t, i, who, assign, status) ==
    /\ There(i) /\ action[i].status \notin Closed
    /\ MayChange(action[i], who) /\ MaySet(action[i], status)
    /\ Served(t)
    /\ Begin(t, "update", i, NoAlert, who,
             <<IF assign THEN who ELSE action[i].assignee,
               IF status = "none" THEN action[i].status ELSE status, action[i]>>)
    /\ UNCHANGED <<action, started, advised>>

\* The columns that change are written; of a row that is gone, none.
CommitChange(t) ==
    LET i == job[t].row
        set == job[t].set
        read == set[3]
    IN /\ job[t].do = "update" /\ Finish(t)
       /\ action' = IF ~There(i) THEN action
                    ELSE [action EXCEPT ![i].assignee = IF set[1] # read.assignee THEN set[1] ELSE @,
                                        ![i].status = IF set[2] # read.status THEN set[2] ELSE @]
       /\ started' = IF There(i) /\ action'[i].status = "in_progress" THEN started \cup {i} ELSE started
       /\ UNCHANGED <<vars, advised>>

Owner(row) == IF row.type = "staff_dispatch" THEN row.assignee ELSE row.creator

\* delete_action, for a closed one: the alert of an advisory is resolved first.
RemoveResponse(t, i, who) ==
    LET row == action[i]
    IN /\ There(i) /\ row.status \in Closed /\ who \in Admins \cup {Owner(row)}
       /\ Begin(t, "remove", i, row.alert, who, <<>>)
       /\ IF row.alert # NoAlert THEN Resolve(t, row.alert, FALSE) ELSE Served(t)
       /\ UNCHANGED <<action, started, advised>>

\* A slip: the row does not wait for the alert.
ReadyAtOnce(t) == TRUE

\* resolve_alert has returned.
Ready(t) == pc[t] = Idle

DeleteRow(t) ==
    /\ job[t].do = "remove" /\ Ready(t) /\ Finish(t)
    /\ action' = [action EXCEPT ![job[t].row] = NoAction]
    /\ started' = started \ {job[t].row}
    /\ UNCHANGED <<vars, advised>>

-----------------------------------------------------------------------------
\* A request that stops half-way has done nothing more; its alert may be there already.
StopRequest(t) ==
    /\ job[t] # NoJob /\ Finish(t)
    /\ IF pc[t] # Idle THEN Stop(t)
       ELSE /\ stops < MaxStops /\ stops' = stops + 1
            /\ UNCHANGED <<tables, locker, thread, requests>>
    /\ advised' = IF job[t].do = "advise" THEN advised \ {job[t].alert} ELSE advised
    /\ UNCHANGED <<action, started>>

\* The requests of AlertLifecycle, and the steps that a request has there.
AlertRequest(t) ==
    /\ job[t] = NoJob
    /\ \E a \in Alerts :
          \/ \E note \in BOOLEAN : Create(t, a, note) \/ Resolve(t, a, note)
          \/ \E who \in Staff : Acknowledge(t, a, who)
          \/ \E who \in Staff \cup {Nobody} : Assign(t, a, who)
    /\ UNCHANGED responseVars

AlertStep(t) ==
    /\ \/ Insert(t) \/ Record(t) \/ CommitAcknowledge(t) \/ CommitAssign(t)
       \/ UpdateResolved(t) \/ CommitResolved(t) \/ Enqueue(t)
       \/ job[t] = NoJob /\ Stop(t)
    /\ UNCHANGED responseVars

ResponseStep(t) ==
    \/ \E i \in Actions, who \in Staff :
          \/ SendStaff(t, i, who) \/ RemoveResponse(t, i, who)
          \/ \E a \in Alerts : Advise(t, i, a, who)
          \/ \E assign \in BOOLEAN, status \in {"none", "in_progress", "completed", "cancelled"} :
                Change(t, i, who, assign, status)
    \/ WriteRow(t) \/ CommitChange(t) \/ DeleteRow(t) \/ StopRequest(t)

ResponseNext == \E t \in Threads : AlertRequest(t) \/ AlertStep(t) \/ ResponseStep(t)

ResponseSpec == ResponseInit /\ [][ResponseNext]_allVars

-----------------------------------------------------------------------------
Linked(a) == \E i \in Actions : action[i].alert = a
Advising(a) == \E t \in Threads : job[t].do = "advise" /\ job[t].alert = a

\* While the alert of an advisory is open the row of the advisory is there, or about to
\* be: removing it, also while others resolve the alert or stop half-way, never leaves an
\* alert that nobody finds again.
AdvisoriesEndTogether == \A a \in advised : Open(a) => Linked(a) \/ Advising(a)

\* Staff that is reported to be done had been under way: of requests that cross, none
\* takes a response from open to completed.
CompletedWasStarted ==
    \A i \in Actions : (action[i].type = "staff_dispatch" /\ action[i].status = "completed") => i \in started
=============================================================================
