---------------------------- MODULE UserAccounts ----------------------------
(***************************************************************************)
(* The profile of a user and the saved route, their entries in the cache   *)
(* and the requests that read and change them: signing in (get_current_user*)
(* in app/core/security.py), the notice of a login, a change of a profile  *)
(* and the saved route (app/services/saved_route_service.py).  The cache is*)
(* one store here; its local fallback is in ScheduleBoard.                 *)
(***************************************************************************)
EXTENDS Integers

CONSTANTS Requests,
          MaxVersion,   \* bound: changes of a row
          MaxRequests,  \* bound: requests that begin
          Absent, NoEntry

VARIABLES row,        \* per kind, the version in the database
          entry,      \* per kind, what the cache has of it
          marker,     \* login-notified:<id> is in the cache
          notices,    \* notifications of a login
          request,    \* per request, its operation, its step and the version it has read
          version, begun,
          late        \* history: kinds whose entry was older than the row when it was put

vars == <<row, entry, marker, notices, request, version, begun, late>>

Kinds == {"profile", "route"}

Operations == {"me", "live", "update", "setRoute", "deleteRoute"}

\* A row is known by the number of the change that wrote it; a profile may be disabled.
Versions == [number : 1..MaxVersion, active : BOOLEAN]

\* A row that is written is there.
VersionsAreRows == MaxVersion \in Nat /\ Absent \notin Versions

Idle == [step |-> "idle", op |-> "me", read |-> Absent]

TypeOK ==
    /\ row \in [Kinds -> Versions \cup {Absent}] /\ entry \in [Kinds -> Versions \cup {NoEntry}]
    /\ marker \in BOOLEAN /\ notices \in 0..MaxRequests
    /\ \A r \in Requests : request[r].op \in Operations /\ request[r].read \in Versions \cup {Absent}
    /\ version \in 0..MaxVersion /\ begun \in 0..MaxRequests /\ late \subseteq Kinds

Init ==
    /\ row = [k \in Kinds |-> Absent] /\ entry = [k \in Kinds |-> NoEntry]
    /\ marker = FALSE /\ notices = 0
    /\ request = [r \in Requests |-> Idle]
    /\ version = 0 /\ begun = 0 /\ late = {}

At(r, step) == request[r].step = step

\* A request goes on to a step, with the version it has read.
ReadAs(r, value, step) ==
    request' = [request EXCEPT ![r] = [step |-> step, op |-> request[r].op, read |-> value]]

Goto(r, step) == ReadAs(r, request[r].read, step)

Finish(r) == request' = [request EXCEPT ![r] = Idle]

\* set_json and delete
Put(kind, value) ==
    /\ entry' = [entry EXCEPT ![kind] = value]
    /\ late' = IF value = row[kind] THEN late \ {kind} ELSE late \cup {kind}

Drop(kind) == entry' = [entry EXCEPT ![kind] = NoEntry] /\ late' = late \ {kind}

Write(kind, value) == row' = [row EXCEPT ![kind] = value] /\ version' = version + 1

-----------------------------------------------------------------------------
(***************************************************************************)
(* get_current_user                                                        *)
(***************************************************************************)
Begin(r) ==
    \E op \in Operations :
        /\ At(r, "idle") /\ begun < MaxRequests
        /\ request' = [request EXCEPT ![r] = [step |-> "look", op |-> op, read |-> Absent]]
        /\ begun' = begun + 1
        /\ UNCHANGED <<row, entry, marker, notices, version, late>>

\* A disabled account is refused.
Admitted(r, profile) == IF profile.active THEN Goto(r, request[r].op) ELSE Finish(r)

LookProfile(r) ==
    /\ At(r, "look")
    /\ IF entry["profile"] = NoEntry THEN Goto(r, "query") ELSE Admitted(r, entry["profile"])
    /\ UNCHANGED <<row, entry, marker, notices, version, begun, late>>

QueryProfile(r) ==
    /\ At(r, "query")
    /\ ReadAs(r, row["profile"], IF row["profile"] = Absent THEN "insert" ELSE "keep")
    /\ UNCHANGED <<row, entry, marker, notices, version, begun, late>>

\* Of two first requests of a user, one fails on the key.
InsertProfile(r) ==
    LET new == [number |-> version + 1, active |-> TRUE]
    IN  /\ At(r, "insert") /\ version < MaxVersion
        /\ IF row["profile"] # Absent THEN Finish(r) /\ UNCHANGED <<row, version>>
           ELSE Write("profile", new) /\ ReadAs(r, new, "keep")
        /\ UNCHANGED <<entry, marker, notices, begun, late>>

KeepProfile(r) ==
    /\ At(r, "keep")
    /\ Put("profile", request[r].read) /\ Admitted(r, request[r].read)
    /\ UNCHANGED <<row, marker, notices, version, begun>>

(***************************************************************************)
(* _maybe_notify_login                                                     *)
(***************************************************************************)
LookMarker(r) ==
    /\ At(r, "me")
    /\ IF marker THEN Finish(r) ELSE Goto(r, "mark")
    /\ UNCHANGED <<row, entry, marker, notices, version, begun, late>>

Mark(r) ==
    /\ At(r, "mark")
    /\ marker' = TRUE /\ Goto(r, "notify")
    /\ UNCHANGED <<row, entry, notices, version, begun, late>>

\* The row of the notification may fail; the marker is set all the same.
Notify(r) ==
    /\ At(r, "notify")
    /\ notices' \in {notices, notices + 1} /\ Finish(r)
    /\ UNCHANGED <<row, entry, marker, version, begun, late>>

(***************************************************************************)
(* update_user, set_my_route, delete_my_route: the commit, then the cache  *)
(***************************************************************************)
KindOf(op) == IF op = "update" THEN "profile" ELSE "route"

ReadRow(r) ==
    LET op == request[r].op
        current == row[KindOf(op)]
    IN  /\ request[r].step \in {"update", "setRoute", "deleteRoute"}
        /\ IF op = "deleteRoute" /\ current = Absent THEN Finish(r) ELSE ReadAs(r, current, "commit")
        /\ UNCHANGED <<row, entry, marker, notices, version, begun, late>>

\* A row that came or went since it was read fails the insert or the update; a deletion of a
\* row that is gone succeeds.
Succeeds(r, current) == request[r].op = "deleteRoute" \/ (request[r].read = Absent <=> current = Absent)

\* A deletion leaves nothing; a profile may be disabled.
Outcomes(op) ==
    IF op = "deleteRoute" THEN {Absent}
    ELSE {[number |-> version + 1, active |-> a] : a \in IF op = "update" THEN BOOLEAN ELSE {TRUE}}

Commit(r) ==
    LET op == request[r].op
        kind == KindOf(op)
    IN  /\ At(r, "commit") /\ version < MaxVersion
        /\ IF ~Succeeds(r, row[kind]) THEN Finish(r) /\ UNCHANGED <<row, version>>
           ELSE \E value \in Outcomes(op) : Write(kind, value) /\ Goto(r, "drop")
        /\ UNCHANGED <<entry, marker, notices, begun, late>>

\* A slip: the entry stays until it expires.
LeftEntry(r) == At(r, "drop") /\ Finish(r) /\ UNCHANGED <<row, entry, marker, notices, version, begun, late>>

DropEntry(r) ==
    /\ At(r, "drop")
    /\ Drop(KindOf(request[r].op)) /\ Finish(r)
    /\ UNCHANGED <<row, marker, notices, version, begun>>

(***************************************************************************)
(* get_my_route_live                                                       *)
(***************************************************************************)
\* The row is read before the cache is looked at.
ReadRoute(r) ==
    /\ At(r, "live")
    /\ IF row["route"] = Absent THEN Finish(r) ELSE ReadAs(r, row["route"], "lookLive")
    /\ UNCHANGED <<row, entry, marker, notices, version, begun, late>>

LookLive(r) ==
    /\ At(r, "lookLive")
    /\ IF entry["route"] # NoEntry THEN Finish(r) ELSE Goto(r, "keepLive")
    /\ UNCHANGED <<row, entry, marker, notices, version, begun, late>>

KeepLive(r) ==
    /\ At(r, "keepLive")
    /\ Put("route", request[r].read) /\ Finish(r)
    /\ UNCHANGED <<row, marker, notices, version, begun>>

-----------------------------------------------------------------------------
Expire ==
    /\ \/ \E kind \in Kinds : entry[kind] # NoEntry /\ Drop(kind) /\ UNCHANGED marker
       \/ marker /\ marker' = FALSE /\ UNCHANGED <<entry, late>>
    /\ UNCHANGED <<row, notices, request, version, begun>>

Next ==
    \/ \E r \in Requests : \/ Begin(r) \/ LookProfile(r) \/ QueryProfile(r) \/ InsertProfile(r)
                           \/ KeepProfile(r) \/ LookMarker(r) \/ Mark(r) \/ Notify(r) \/ ReadRow(r)
                           \/ Commit(r) \/ DropEntry(r) \/ ReadRoute(r) \/ LookLive(r) \/ KeepLive(r)
    \/ Expire

Spec == Init /\ [][Next]_vars

-----------------------------------------------------------------------------
\* An entry of the cache that is not the row it was made from is about to be deleted by the
\* request that changed the row, unless a reader that had read the row before the change
\* put the entry after it.
AccountIsCurrent ==
    \A kind \in Kinds : entry[kind] \in {NoEntry, row[kind]}
        \/ kind \in late
        \/ \E r \in Requests : At(r, "drop") /\ KindOf(request[r].op) = kind
=============================================================================
