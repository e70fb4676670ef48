-------------------------- MODULE NotificationInbox --------------------------
(***************************************************************************)
(* What users see of in-app notifications                                  *)
(* (app/services/notification_service.py, app/api/v1/notifications.py,     *)
(* app/simulator/notification_bin_retention.py).  A personal notification  *)
(* is a row that its user reads, bins and deletes.  A broadcast is one row *)
(* for everybody, and each user has a row of their own about it.  Requests *)
(* for all notifications select, and then write what they have selected,   *)
(* while other requests of the user go on.  Preferences, filters, pages    *)
(* and the events sent to open tabs are left out.                          *)
(***************************************************************************)
EXTENDS Integers, FiniteSets

CONSTANTS User, Everyone,
          Request,       \* requests for all notifications under way at the same time
          Notes,         \* ids of notifications, some created in the course of a behaviour
          OwnerOf,       \* the user a notification is for, or everyone
          Retention,     \* NOTIFICATION_RETENTION_DAYS
          BinRetention,  \* NOTIFICATION_BIN_RETENTION_HOURS, less than that
          Batch,         \* RETENTION_BATCH_SIZE
          None, Gone,
          MaxTime, MaxOps  \* bounds: the clock, requests

VARIABLES
    row,      \* notifications
    about,    \* notification_read_states: of a user and a broadcast
    open,     \* the requests under way, and what they have selected
    now,
    left,     \* history: what has left the inbox of a user
    emptied,  \* history: what has left the bin of a user
    dated,    \* history: what reading all has dated again in the bin of a user
    cleared,  \* history: what there was when a user deleted everything
    ops

history == <<left, emptied, dated, cleared>>
vars == <<row, about, open, now, history, ops>>

Never == -1
Time == {Never} \cup 0..MaxTime
Known == {n \in Notes : row[n] \notin {None, Gone}}
Broadcasts == {n \in Known : OwnerOf[n] = Everyone}
Personal(u) == {n \in Known : OwnerOf[n] = u}
Idle == [op |-> None, user |-> None, personal |-> {}, broadcasts |-> {}]

\* What the proofs assume of names, and of the times that are kept.
Rows == [created : Nat, read : BOOLEAN, binned : Nat \cup {Never}]
Marks == [read : BOOLEAN, binned : Nat \cup {Never}, deleted : BOOLEAN]
NotesAreNamed ==
    /\ None \notin Rows \cup Marks \cup {"read all", "delete all"} /\ Gone \notin Rows \cup {None}
    /\ Everyone \notin User /\ Retention \in Nat /\ BinRetention \in Nat

TypeOK ==
    /\ row \in [Notes -> [created : 0..MaxTime, read : BOOLEAN, binned : Time] \cup {None, Gone}]
    /\ about \in [User -> [Notes -> [read : BOOLEAN, binned : Time, deleted : BOOLEAN] \cup {None}]]
    /\ \A r \in Request : /\ open[r].op \in {None, "read all", "delete all"}
                          /\ open[r].user \in User \cup {None}
                          /\ open[r].broadcasts \subseteq Broadcasts
    /\ now \in 0..MaxTime /\ ops \in 0..MaxOps
    /\ \A u \in User : left[u] \cup emptied[u] \cup dated[u] \cup cleared[u] \subseteq Notes

Init ==
    /\ row = [n \in Notes |-> None] /\ about = [u \in User |-> row]
    /\ open = [r \in Request |-> Idle] /\ now = 0 /\ ops = 0
    /\ left = [u \in User |-> {}] /\ emptied = left /\ dated = left /\ cleared = left

(***************************************************************************)
(* What a user sees                                                        *)
(***************************************************************************)
Addressed(u, n) == n \in Known /\ OwnerOf[n] \in {u, Everyone}

Read(u, n) == IF OwnerOf[n] = Everyone THEN about[u][n] # None /\ about[u][n].read ELSE row[n].read

\* _effective_binned_at: nobody bins the row of a broadcast itself.
BinnedAt(u, n) ==
    IF about[u][n] # None /\ about[u][n].binned # Never THEN about[u][n].binned ELSE row[n].binned

Deleted(u, n) == OwnerOf[n] = Everyone /\ about[u][n] # None /\ about[u][n].deleted

\* _notifications_query and list_notifications.
InInbox(u, n) ==
    /\ Addressed(u, n) /\ row[n].created >= now - Retention
    /\ BinnedAt(u, n) = Never /\ ~Deleted(u, n)

\* list_binned_notifications.
InBin(u, n) ==
    /\ Addressed(u, n) /\ BinnedAt(u, n) # Never /\ BinnedAt(u, n) >= now - BinRetention
    /\ ~Deleted(u, n)

\* What the step takes out of sight is remembered.
Remember ==
    /\ left' = [u \in User |-> left[u] \cup {n \in Notes : InInbox(u, n) /\ ~InInbox(u, n)'}]
    /\ emptied' = [u \in User |-> emptied[u] \cup {n \in Notes : InBin(u, n) /\ ~InBin(u, n)'}]

(***************************************************************************)
(* Operations                                                              *)
(***************************************************************************)
Op == ops < MaxOps /\ ops' = ops + 1

\* create_notification.
Create(n) ==
    /\ row[n] = None
    /\ row' = [row EXCEPT ![n] = [created |-> now, read |-> FALSE, binned |-> Never]]
    /\ UNCHANGED <<about, open, now, dated, cleared, ops>> /\ Remember

Fresh == [read |-> FALSE, binned |-> Never, deleted |-> FALSE]

\* A slip: what the user had done before is not kept.
NotedAnew(state) == Fresh

\* _mark_broadcast_state and its like: a row is inserted, or the one there is is changed.
Noted(state) == IF state = None THEN Fresh ELSE state

\* A personal row that a request under way has changed is waited for.
Locked(n) == \E r \in Request : n \in open[r].personal

\* mark_read.
MarkRead(u, n) ==
    /\ Op /\ Addressed(u, n) /\ ~Locked(n)
    /\ IF OwnerOf[n] = Everyone
       THEN /\ about' = [about EXCEPT ![u][n] = [Noted(@) EXCEPT !.read = TRUE]]
            /\ UNCHANGED row
       ELSE row' = [row EXCEPT ![n].read = TRUE] /\ UNCHANGED about
    /\ UNCHANGED <<open, now, dated, cleared>> /\ Remember

\* Into the bin, with the time of the first request.
Binned(it) == [it EXCEPT !.binned = IF @ = Never THEN now ELSE @]

\* delete_notification.
Bin(u, n) ==
    /\ Op /\ Addressed(u, n) /\ ~Locked(n)
    /\ IF OwnerOf[n] = Everyone
       THEN about' = [about EXCEPT ![u][n] = Binned(Noted(@))] /\ UNCHANGED row
       ELSE row' = [row EXCEPT ![n] = Binned(@)] /\ UNCHANGED about
    /\ UNCHANGED <<open, now, dated, cleared>> /\ Remember

\* mark_all_read up to the select of broadcasts: those binned are not excluded.
SelectUnread(r, u) ==
    /\ Op /\ open[r] = Idle
    /\ open' = [open EXCEPT ![r] =
           [op |-> "read all", user |-> u,
            personal |-> {n \in Personal(u) : /\ row[n].created >= now - Retention
                                              /\ row[n].binned = Never /\ ~row[n].read},
            broadcasts |-> {n \in Broadcasts : /\ row[n].created >= now - Retention
                                               /\ ~Read(u, n) /\ ~Deleted(u, n)}]]
    /\ \A n \in open'[r].personal : ~Locked(n)
    /\ UNCHANGED <<row, about, now, dated, cleared>> /\ Remember

\* The rest of it: what is still unread is read and binned.
ReadAll(r) ==
    LET u == open[r].user
        unread == {n \in open[r].broadcasts : ~Read(u, n)}
    IN /\ open[r].op = "read all" /\ open' = [open EXCEPT ![r] = Idle]
       /\ row' = [n \in Notes |-> IF n \in open[r].personal
                                  THEN [row[n] EXCEPT !.read = TRUE, !.binned = now] ELSE row[n]]
       /\ about' = [about EXCEPT ![u] = [n \in Notes |->
              IF n \in unread THEN [Noted(@[n]) EXCEPT !.read = TRUE, !.binned = now] ELSE @[n]]]
       /\ dated' = [dated EXCEPT ![u] =
              @ \cup {n \in unread : about[u][n] # None /\ about[u][n].binned # Never}]
       /\ UNCHANGED <<now, cleared, ops>> /\ Remember

\* delete_all_notifications up to the select of broadcasts.
SelectAll(r, u) ==
    /\ Op /\ open[r] = Idle
    /\ \A n \in Personal(u) : ~Locked(n)
    /\ open' = [open EXCEPT ![r] =
           [op |-> "delete all", user |-> u, personal |-> Personal(u),
            broadcasts |-> {n \in Broadcasts : ~Deleted(u, n)}]]
    /\ UNCHANGED <<row, about, now, dated, cleared>> /\ Remember

\* A slip: rows that are there are not updated.
ToInsert(u, selected) == {n \in selected : about[u][n] = None}

\* The rows are inserted, and updated where they were there.
ToDelete(u, selected) == selected

DeleteAll(r) ==
    LET u == open[r].user
    IN /\ open[r].op = "delete all" /\ open' = [open EXCEPT ![r] = Idle]
       /\ row' = [n \in Notes |-> IF n \in open[r].personal THEN Gone ELSE row[n]]
       /\ about' = [about EXCEPT ![u] = [n \in Notes |->
              IF n \in ToDelete(u, open[r].broadcasts)
              THEN [Noted(@[n]) EXCEPT !.deleted = TRUE] ELSE @[n]]]
       /\ cleared' = [cleared EXCEPT ![u] = @ \cup open[r].broadcasts]
       /\ UNCHANGED <<now, dated, ops>> /\ Remember

\* One batch of run_retention_once, of the binned rows.
Purge(batch) ==
    /\ Cardinality(batch) <= Batch
    /\ \A n \in batch : row[n].binned # Never /\ row[n].binned < now - BinRetention /\ ~Locked(n)
    /\ row' = [n \in Notes |-> IF n \in batch THEN Gone ELSE row[n]]
    /\ UNCHANGED <<about, open, now, dated, cleared, ops>> /\ Remember

TimePasses ==
    /\ now < MaxTime /\ now' = now + 1
    /\ UNCHANGED <<row, about, open, dated, cleared, ops>> /\ Remember

Next ==
    \/ \E n \in Notes : Create(n) \/ \E u \in User : MarkRead(u, n) \/ Bin(u, n)
    \/ \E r \in Request : \/ \E u \in User : SelectUnread(r, u) \/ SelectAll(r, u)
                          \/ ReadAll(r) \/ DeleteAll(r)
    \/ \E batch \in SUBSET Known \ {{}} : Purge(batch)
    \/ TimePasses

(***************************************************************************)
(* Properties                                                              *)
(***************************************************************************)
\* What has left the inbox of a user is never in it again, and what has left the bin is
\* not in the bin again, in whatever order requests of the user cross, unless reading
\* everything has dated a binned broadcast again that had not been read.
NothingComesBack ==
    \A u \in User :
        /\ \A n \in left[u] : ~InInbox(u, n)
        /\ \A n \in emptied[u] \ dated[u] : ~InBin(u, n)

\* What there was when a user deleted everything is out of sight for good, also what the
\* user read or binned while that request was under way.
ClearedIsGone ==
    \A u \in User : \A n \in cleared[u] : ~InInbox(u, n) /\ ~InBin(u, n)
==============================================================================
