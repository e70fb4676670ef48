--------------------------- MODULE ServicesProofs ---------------------------
(***************************************************************************)
(* Proofs about what requests share: the cached profile of a user (U), the *)
(* models that a process has loaded (M), the rows of forecasts (P), the    *)
(* notifications of a user (N), the pages of the timetable (B) and the     *)
(* settings of the simulators (C), each for any number of requests,        *)
(* threads and processes.  A part is proved of its own module; the         *)
(* constants and variables are declared here, once where two parts have a  *)
(* name in common: no theorem is about two of them.                        *)
(***************************************************************************)
EXTENDS Integers, Sequences, FiniteSetTheorems, TLAPS

CONSTANTS Callers, MaxVersion, MaxRequests, Absent, NoEntry
VARIABLES account, entry, marker, notices, request, version, begun, late
U == INSTANCE UserAccounts WITH Requests <- Callers, row <- account

CONSTANTS Threads, Files, LightModes, MaxCalls, MaxReplaced, Missing, NotLoaded, NoThread,
          Ids, Names  \* of the bundles
VARIABLES lightMode, file, registry, loads, holder, caller, answers, calls, replaced
M == INSTANCE ModelRegistry WITH thread <- caller

CONSTANTS Process, Thread, Home, None, Budgets
VARIABLES clock, up, redis, own, fleet, stats, thread, rows, loose, crossed, left
P == INSTANCE PredictionService

CONSTANTS User, Everyone, Bulk, Notes, OwnerOf, Retention, BinRetention, Batch, Gone,
          MaxTime, MaxOps
VARIABLES note, about, open, now, gone, emptied, dated, cleared, ops
N == INSTANCE NotificationInbox WITH Request <- Bulk, row <- note, left <- gone

CONSTANTS Schedules, First, New, Changes, Minutes, Day, CityOf, Pages, All
VARIABLES table, copy, reading, sweep, refused
B == INSTANCE ScheduleBoard

CONSTANTS Default, NoControl, MaxChanges, MaxOutages
VARIABLES control, client, draft, leader, loop, used, remaining, asked, doubtful, changes, outages
C == INSTANCE RuntimeControl WITH shared <- control

-----------------------------------------------------------------------------
(*****************************************************************************)
(* The profile and the saved route of a user                                 *)
(*****************************************************************************)
Steps == {"idle", "look", "query", "insert", "keep", "mark", "notify", "commit", "drop",
          "lookLive", "keepLive"} \cup U!Operations

\* What a request may have read, and what may be in a row.
Readable == U!Versions \cup {Absent}

AccountTypes ==
  /\ account \in [U!Kinds -> Readable] /\ DOMAIN entry = U!Kinds
  /\ version \in Nat /\ version <= MaxVersion /\ late \subseteq U!Kinds
  /\ request \in [Callers -> [step : Steps, op : U!Operations, read : Readable]]

\* A profile is never deleted, so only one that is there can have an entry.
ProfileStays ==
  /\ account["profile"] = Absent => entry["profile"] = NoEntry
  /\ \A r \in Callers : U!At(r, "keep") => account["profile"] # Absent

AccountInv == AccountTypes /\ ProfileStays /\ U!AccountIsCurrent

-----------------------------------------------------------------------------
\* Steps that leave the rows and the cache alone, and no deletion to come behind.
LEMMA OtherSteps ==
  ASSUME AccountInv, UNCHANGED <<account, entry, late, version>>, AccountTypes',
         \A r \in Callers : U!At(r, "drop") => request'[r] = request[r],
         \A r \in Callers : U!At(r, "keep")' => U!At(r, "keep") \/ account["profile"] # Absent
  PROVE  AccountInv'
<1>1. ProfileStays'
  BY DEF AccountInv, ProfileStays
<1>2. U!AccountIsCurrent'
  BY DEF AccountInv, U!AccountIsCurrent, U!At
<1> QED BY <1>1, <1>2 DEF AccountInv

\* A step of a request is its own, and what it has to remember is well typed.
LEMMA OwnStep ==
  ASSUME AccountTypes, NEW r \in Callers, NEW step \in Steps, NEW value \in Readable,
         U!Finish(r) \/ U!ReadAs(r, value, step)
  PROVE  /\ request' \in [Callers -> [step : Steps, op : U!Operations, read : Readable]]
         /\ \A q \in Callers \ {r} : request'[q] = request[q]
         /\ U!Finish(r) => request'[r].step = "idle"
         /\ U!ReadAs(r, value, step) =>
              request'[r].step = step /\ request'[r].op = request[r].op /\ request'[r].read = value
<1> USE DEF AccountTypes
<1> DEFINE Record == [step : Steps, op : U!Operations, read : Readable]
<1>1. CASE U!Finish(r)
  <2>1. U!Idle \in Record /\ U!Idle.step = "idle"
    BY DEF U!Idle, Steps, U!Operations, Readable
  <2>2. request'[r] = U!Idle
    BY <1>1 DEF U!Finish
  <2> QED BY <1>1, <2>1, <2>2 DEF U!Finish, U!ReadAs
<1>2. CASE U!ReadAs(r, value, step)
  <2>1. [step |-> step, op |-> request[r].op, read |-> value] \in Record
    OBVIOUS
  <2> QED BY <1>2, <2>1 DEF U!ReadAs, U!Finish, U!Idle
<1> QED BY <1>1, <1>2

-----------------------------------------------------------------------------
\* Steps that read the database, the cache or the marker of the login.
LEMMA Reading ==
  ASSUME AccountInv, NEW r \in Callers,
         \/ U!Begin(r) \/ U!LookProfile(r) \/ U!QueryProfile(r) \/ U!LookMarker(r) \/ U!Mark(r) \/ U!Notify(r)
         \/ U!ReadRow(r) \/ U!ReadRoute(r) \/ U!LookLive(r)
  PROVE  AccountInv'
<1> USE DEF AccountInv, AccountTypes
<1>1. ~U!At(r, "drop") /\ UNCHANGED <<account, entry, late, version>>
  BY DEF U!Begin, U!LookProfile, U!QueryProfile, U!LookMarker, U!Mark, U!Notify, U!ReadRow, U!ReadRoute, U!LookLive, U!At
<1> DEFINE Fits == /\ request' \in [Callers -> [step : Steps, op : U!Operations, read : Readable]]
                   /\ \A q \in Callers \ {r} : request'[q] = request[q]
                   /\ request'[r].step = "keep" => account["profile"] # Absent
<1>2. Fits
  <2>1. ASSUME NEW step \in Steps, NEW value \in Readable, U!Finish(r) \/ U!ReadAs(r, value, step),
               step = "keep" => account["profile"] # Absent
        PROVE  Fits
    BY <2>1, OwnStep
  <2>2. request[r].read \in Readable /\ request[r].op \in U!Operations /\ account["profile"] \in Readable
        /\ account["route"] \in Readable /\ account[U!KindOf(request[r].op)] \in Readable
    BY DEF U!Kinds, U!KindOf
  <2>3. CASE U!Begin(r)
    BY <2>3 DEF U!Begin, Steps, Readable
  <2>4. CASE U!LookProfile(r)
    BY <2>1, <2>2, <2>4 DEF U!LookProfile, U!Admitted, U!Goto, Steps, U!Operations
  <2>5. CASE U!QueryProfile(r)
    BY <2>1, <2>2, <2>5 DEF U!QueryProfile, Steps
  <2>6. CASE U!LookMarker(r) \/ U!Mark(r) \/ U!Notify(r)
    BY <2>1, <2>2, <2>6 DEF U!LookMarker, U!Mark, U!Notify, U!Goto, Steps
  <2>7. CASE U!ReadRow(r)
    BY <2>1, <2>2, <2>7 DEF U!ReadRow, Steps
  <2>8. CASE U!ReadRoute(r) \/ U!LookLive(r)
    BY <2>1, <2>2, <2>8 DEF U!ReadRoute, U!LookLive, U!Goto, Steps
  <2> QED BY <2>3, <2>4, <2>5, <2>6, <2>7, <2>8
<1> QED BY <1>1, <1>2, OtherSteps DEF U!At

\* Steps that commit a row, which its request is then about to drop from the cache; the first
\* profile has no entry.
LEMMA Writing ==
  ASSUME U!VersionsAreRows, AccountInv, NEW r \in Callers, U!InsertProfile(r) \/ U!Commit(r)
  PROVE  AccountInv'
<1> USE DEF AccountInv, AccountTypes
<1>1. request[r].read \in Readable /\ request[r].op \in U!Operations /\ U!KindOf(request[r].op) \in U!Kinds
      /\ UNCHANGED <<entry, late>> /\ ~U!At(r, "drop")
  BY DEF U!Kinds, U!KindOf, U!InsertProfile, U!Commit, U!At
<1>2. CASE account' = account /\ version' = version /\ U!Finish(r)
  BY <1>1, <1>2, OwnStep, OtherSteps DEF U!At, Steps
<1>3. CASE U!InsertProfile(r) /\ account["profile"] = Absent
  <2> DEFINE new == [number |-> version + 1, active |-> TRUE]
  <2>1. U!Write("profile", new) /\ U!ReadAs(r, new, "keep") /\ version < MaxVersion
    BY <1>3 DEF U!InsertProfile
  <2>2. new \in U!Versions /\ new \in Readable /\ new # Absent
    <3>1. new \in U!Versions
      BY <2>1, U!VersionsAreRows DEF U!VersionsAreRows, U!Versions
    <3> HIDE DEF new
    <3> QED BY <3>1, U!VersionsAreRows DEF U!VersionsAreRows, Readable
  <2>3. AccountTypes'
    BY <1>1, <2>1, <2>2, OwnStep DEF U!Write, Steps, U!Kinds, U!VersionsAreRows
  <2>4. account'["profile"] # Absent /\ account'["route"] = account["route"] /\ entry'["profile"] = NoEntry
    BY <1>1, <1>3, <2>1, <2>2 DEF U!Write, U!Kinds, ProfileStays
  <2>5. \A q \in Callers : U!At(q, "drop") => request'[q] = request[q]
    BY <1>1, <2>1, <2>2, OwnStep DEF U!At, Steps
  <2>6. U!AccountIsCurrent'
    BY <1>1, <2>4, <2>5 DEF U!AccountIsCurrent, U!At, U!Kinds
  <2> QED BY <2>3, <2>4, <2>6 DEF ProfileStays
<1>4. CASE U!Commit(r) /\ U!Succeeds(r, account[U!KindOf(request[r].op)])
  <2> DEFINE kind == U!KindOf(request[r].op)
  <2>1. PICK value \in U!Outcomes(request[r].op) : U!Write(kind, value) /\ U!Goto(r, "drop")
    BY <1>4 DEF U!Commit
  <2>2. version < MaxVersion /\ value \in Readable /\ (request[r].op = "update" => value # Absent)
    <3>1. version < MaxVersion
      BY <1>4 DEF U!Commit
    <3>2. value \in U!Versions \/ (value = Absent /\ request[r].op = "deleteRoute")
      <4>1. CASE request[r].op = "deleteRoute"
        BY <2>1, <4>1 DEF U!Outcomes
      <4>2. CASE request[r].op # "deleteRoute"
        <5>1. PICK a \in BOOLEAN : value = [number |-> version + 1, active |-> a]
          BY <2>1, <4>2 DEF U!Outcomes
        <5> QED BY <3>1, <5>1, U!VersionsAreRows DEF U!VersionsAreRows, U!Versions
      <4> QED BY <4>1, <4>2
    <3> QED BY <3>1, <3>2, U!VersionsAreRows DEF U!VersionsAreRows, Readable
  <2>3. U!ReadAs(r, request[r].read, "drop")
    BY <2>1 DEF U!Goto
  <2>4. /\ request' \in [Callers -> [step : Steps, op : U!Operations, read : Readable]]
        /\ request'[r].step = "drop" /\ request'[r].op = request[r].op
        /\ \A q \in Callers \ {r} : request'[q] = request[q]
    BY <1>1, <2>3, OwnStep DEF Steps
  <2>5. AccountTypes'
    BY <1>1, <2>1, <2>2, <2>4 DEF U!Write, U!VersionsAreRows
  <2>6. account'["profile"] = account["profile"] \/ account'["profile"] # Absent
    BY <1>1, <2>1, <2>2 DEF U!Write, U!Kinds, U!KindOf
  <2>7. ProfileStays'
    BY <1>1, <2>4, <2>6 DEF ProfileStays, U!At
  <2>8. \A k \in U!Kinds : k # kind => account'[k] = account[k]
    BY <1>1, <2>1 DEF U!Write
  <2>9. U!AccountIsCurrent'
    BY <1>1, <2>4, <2>8 DEF U!AccountIsCurrent, U!At
  <2> QED BY <2>5, <2>7, <2>9
<1> QED BY <1>2, <1>3, <1>4 DEF U!InsertProfile, U!Commit

\* Steps that put an entry: it is the row, or known to be late.
LEMMA Putting ==
  ASSUME AccountInv, NEW r \in Callers, U!KeepProfile(r) \/ U!KeepLive(r)
  PROVE  AccountInv'
<1> USE DEF AccountInv, AccountTypes
<1>1. PICK kind \in U!Kinds : U!Put(kind, request[r].read) /\ (kind = "profile" => U!At(r, "keep"))
  BY DEF U!KeepProfile, U!KeepLive, U!Kinds
<1>2. request[r].read \in Readable /\ request[r].op \in U!Operations /\ UNCHANGED <<account, version>>
      /\ ~U!At(r, "drop")
  BY DEF U!KeepProfile, U!KeepLive, U!At
<1>3. /\ request' \in [Callers -> [step : Steps, op : U!Operations, read : Readable]]
      /\ \A q \in Callers \ {r} : request'[q] = request[q]
      /\ ~U!At(r, "keep")'
  BY <1>2, OwnStep DEF U!KeepProfile, U!KeepLive, U!Admitted, U!Goto, U!At, Steps, U!Operations
<1>4. AccountTypes'
  BY <1>1, <1>2, <1>3 DEF U!Put
<1>5. ProfileStays'
  BY <1>1, <1>2, <1>3 DEF ProfileStays, U!Put, U!At, U!Kinds
<1>6. U!AccountIsCurrent'
  BY <1>1, <1>2, <1>3 DEF U!AccountIsCurrent, U!Put, U!At
<1> QED BY <1>4, <1>5, <1>6

\* Steps that drop an entry, of a request or in time, and those that expire the marker.
LEMMA Dropping ==
  ASSUME AccountInv, U!Expire \/ \E r \in Callers : U!DropEntry(r)
  PROVE  AccountInv'
<1> USE DEF AccountInv, AccountTypes
<1>1. CASE UNCHANGED <<account, entry, late, version, request>>
  BY <1>1, OtherSteps DEF U!At
<1>2. CASE \E kind \in U!Kinds : U!Drop(kind) /\ UNCHANGED <<account, version, request>>
  BY <1>2 DEF ProfileStays, U!AccountIsCurrent, U!Drop, U!At
<1>3. ASSUME NEW r \in Callers, U!DropEntry(r) PROVE AccountInv'
  <2> DEFINE kind == U!KindOf(request[r].op)
  <2>1. kind \in U!Kinds /\ U!Drop(kind) /\ UNCHANGED <<account, version>> /\ U!Finish(r)
    BY <1>3 DEF U!DropEntry, U!Kinds, U!KindOf
  <2>2. request[r].read \in Readable /\ request[r].step \in Steps
    OBVIOUS
  <2>3. /\ request' \in [Callers -> [step : Steps, op : U!Operations, read : Readable]]
        /\ \A q \in Callers \ {r} : request'[q] = request[q]
        /\ request'[r].step = "idle"
    BY <2>1, <2>2, OwnStep
  <2>4. AccountTypes'
    BY <2>1, <2>3 DEF U!Drop
  <2>5. ProfileStays'
    BY <2>1, <2>3 DEF ProfileStays, U!Drop, U!At
  <2>6. U!AccountIsCurrent'
    BY <2>1, <2>3 DEF U!AccountIsCurrent, U!Drop, U!At
  <2> QED BY <2>4, <2>5, <2>6
<1> QED BY <1>1, <1>2, <1>3 DEF U!Expire

-----------------------------------------------------------------------------
\* For any number of requests that cross: an entry of the cache that is not the row is about to
\* be deleted by the request that changed the row, unless it was put by a reader who had read the
\* row before (get_current_user, update_user, set_my_route, get_my_route_live).
THEOREM AccountsAreCurrent ==
  ASSUME U!VersionsAreRows
  PROVE  U!Spec => []U!AccountIsCurrent
<1>1. U!Init => AccountInv
  BY DEF U!VersionsAreRows, U!Init, AccountInv, AccountTypes, ProfileStays, U!AccountIsCurrent, U!Kinds, U!Idle,
         Steps, U!Operations, Readable, U!At
<1>2. AccountInv /\ [U!Next]_U!vars => AccountInv'
  <2> SUFFICES ASSUME AccountInv, [U!Next]_U!vars PROVE AccountInv'
    OBVIOUS
  <2>1. CASE UNCHANGED U!vars
    BY <2>1, OtherSteps DEF U!vars, U!At, AccountInv, AccountTypes
  <2>2. ASSUME NEW r \in Callers, U!DropEntry(r) PROVE AccountInv'
    BY <2>2, Dropping
  <2>3. CASE U!Expire
    BY <2>3, Dropping
  <2> QED BY <2>1, <2>2, <2>3, Reading, Writing, Putting, U!VersionsAreRows DEF U!Next
<1>3. AccountInv => U!AccountIsCurrent
  BY DEF AccountInv
<1> QED BY <1>1, <1>2, <1>3, PTL DEF U!Spec
-----------------------------------------------------------------------------
(*****************************************************************************)
(* The models of a process                                                   *)
(*****************************************************************************)
\* The bundles that there may be.
Written == M!Bundles(Ids, Names)

\* A thread goes through the models that its call needs, and predicts with one that the
\* process has loaded, or failed to load.
ThreadsAsk ==
  \A t \in Threads :
    /\ caller[t].step # "idle" => caller[t].needs # <<>>
    /\ caller[t].step = "predict" => registry[M!Key(t)] # NotLoaded

\* What is in the registry stays, and every answer is still the one that it gives.
AnswersStand ==
  \A a \in answers : registry[a.key] # NotLoaded /\ a.forecast = M!Forecast(a.call, registry[a.key])

RegistryTypes ==
  /\ lightMode \in BOOLEAN /\ \A k \in M!Keys : file[k] \in Files[k]
  /\ file \in [M!Keys -> Written \cup {Missing}]
  /\ registry \in [M!Keys -> Written \cup {Missing, NotLoaded}]
  /\ \A k \in M!Keys : registry[k] \in Written => registry[k].model = M!Winner(registry[k])
  /\ loads \in [M!Keys -> Nat] /\ \A k \in M!Keys : loads[k] <= IF registry[k] = NotLoaded THEN 0 ELSE 1
  /\ caller \in [Threads -> [step : {"idle", "look", "lock", "load", "predict"},
                             call : DOMAIN M!Needs, needs : Seq(M!Keys)]]
  /\ \A a \in answers : a.key \in M!Keys

RegistryInv == RegistryTypes /\ ThreadsAsk /\ AnswersStand

-------------------------------------------------------------------------------
\* The winner of a bundle is one of its models.
LEMMA WinnersAreModels ==
  ASSUME NEW b \in Written
  PROVE  M!Winner(b) \in Names
<1>1. b.models \in Seq(Names) /\ b.models # <<>> /\ b.name \in Names
  BY DEF Written, M!Bundles
<1>2. Head(b.models) \in Names
  BY <1>1
<1> QED BY <1>1, <1>2 DEF M!Winner

\* A bundle that is kept without its other candidates has the same winner.
LEMMA KeptIsWhole ==
  ASSUME NEW b \in Written, b.model = M!Winner(b)
  PROVE  M!Kept(b) \in Written /\ M!Kept(b).model = M!Winner(M!Kept(b))
<1> DEFINE w == M!Winner(b)
           pruned == [b EXCEPT !.models = <<w>>, !.name = w, !.model = w]
<1>1. w \in Names
  BY WinnersAreModels
<1> HIDE DEF w
<1>2. <<w>> \in Seq(Names) /\ <<w>> # <<>> /\ Head(<<w>>) = w
  BY <1>1
<1>3. pruned \in Written /\ pruned.model = w /\ pruned.name = w /\ pruned.models = <<w>>
  BY <1>1, <1>2 DEF Written, M!Bundles
<1>4. M!Winner(pruned) = w
  BY <1>2, <1>3 DEF M!Winner
<1>5. M!Kept(b) = b \/ M!Kept(b) = pruned
  BY DEF M!Kept, w
<1> QED BY <1>3, <1>4, <1>5

\* Every call asks for a model, and for models that there are.
LEMMA CallsNeedModels == \A call \in DOMAIN M!Needs : M!Needs[call] \in Seq(M!Keys) /\ M!Needs[call] # <<>>
<1>1. /\ M!Needs.one = <<"crowd">> /\ M!Needs.light = <<"crowd">> /\ M!Needs.bulk = <<"crowd">>
      /\ M!Needs.delay = <<"crowd", "delay">> /\ M!Needs.frequency = <<"frequency">>
      /\ M!Needs.warmup = <<"crowd", "delay", "frequency">>
      /\ DOMAIN M!Needs = {"one", "light", "bulk", "delay", "frequency", "warmup"}
  BY DEF M!Needs
<1>2. "crowd" \in M!Keys /\ "delay" \in M!Keys /\ "frequency" \in M!Keys
  BY DEF M!Keys
<1>4. <<"crowd">> \in Seq(M!Keys) /\ <<"crowd">> # <<>>
  BY <1>2
<1>5. <<"frequency">> \in Seq(M!Keys) /\ <<"frequency">> # <<>>
  BY <1>2
<1>6. <<"crowd", "delay">> \in Seq(M!Keys) /\ <<"crowd", "delay">> # <<>>
  BY <1>2
<1>7. <<"crowd", "delay", "frequency">> \in Seq(M!Keys) /\ <<"crowd", "delay", "frequency">> # <<>>
  BY <1>2
<1>3. \A call \in DOMAIN M!Needs :
        M!Needs[call] \in {<<"crowd">>, <<"crowd", "delay">>, <<"frequency">>, <<"crowd", "delay", "frequency">>}
  BY <1>1
<1> QED BY <1>3, <1>4, <1>5, <1>6, <1>7, Zenon

\* A process starts with nothing loaded.
LEMMA RegistryInit == M!BundlesAreWhole(Ids, Names) /\ M!Init => RegistryInv
<1> SUFFICES ASSUME M!BundlesAreWhole(Ids, Names), M!Init PROVE RegistryInv
  OBVIOUS
<1>1. M!Idle \in [step : {"idle", "look", "lock", "load", "predict"}, call : DOMAIN M!Needs, needs : Seq(M!Keys)]
  BY DEF M!Idle, M!Needs
<1>2. file \in [M!Keys -> Written \cup {Missing}] /\ \A k \in M!Keys : file[k] \in Files[k]
  BY DEF M!BundlesAreWhole, Written, M!Init
<1>3. lightMode \in BOOLEAN
  BY DEF M!BundlesAreWhole, Written, M!Init
<1>4. RegistryTypes
  BY <1>1, <1>2, <1>3 DEF M!Init, RegistryTypes, M!BundlesAreWhole, Written
<1> QED BY <1>4 DEF M!Init, RegistryInv, ThreadsAsk, AnswersStand, M!Idle

\* Steps of threads that leave the registry alone.
LEMMA ThreadsStep ==
  ASSUME M!BundlesAreWhole(Ids, Names), RegistryInv, NEW t \in Threads, M!Begin(t) \/ M!Look(t) \/ M!Lock(t)
  PROVE  RegistryInv'
<1> USE DEF RegistryInv, RegistryTypes
<1> DEFINE Request == [step : {"idle", "look", "lock", "load", "predict"}, call : DOMAIN M!Needs, needs : Seq(M!Keys)]
<1>1. UNCHANGED <<lightMode, file, registry, loads, answers>>
  BY DEF M!Begin, M!Look, M!Lock
<1>2. /\ caller' \in [Threads -> Request]
      /\ \A u \in Threads \ {t} : caller'[u] = caller[u]
      /\ caller'[t].needs # <<>>
      /\ caller'[t].step = "predict" => registry[Head(caller'[t].needs)] # NotLoaded
  <2>1. CASE M!Begin(t)
    <3>1. PICK call \in DOMAIN M!Needs :
            caller' = [caller EXCEPT ![t] = [step |-> "look", call |-> call, needs |-> M!Needs[call]]]
      BY <2>1 DEF M!Begin
    <3>2. M!Needs[call] \in Seq(M!Keys) /\ M!Needs[call] # <<>>
      BY CallsNeedModels
    <3> QED BY <3>1, <3>2
  <2>2. CASE M!Look(t)
    BY <2>2 DEF M!Look, M!Step, ThreadsAsk, M!Key
  <2>3. CASE M!Lock(t)
    BY <2>3 DEF M!Lock, M!Step, ThreadsAsk
  <2> QED BY <2>1, <2>2, <2>3
<1>3. ThreadsAsk'
  BY <1>1, <1>2 DEF ThreadsAsk, M!Key
<1>4. AnswersStand'
  BY <1>1 DEF AnswersStand
<1> QED BY <1>1, <1>2, <1>3, <1>4

\* A thread that holds the lock loads what the registry still misses.
LEMMA LoadStep ==
  ASSUME M!BundlesAreWhole(Ids, Names), RegistryInv, NEW t \in Threads, M!Load(t)
  PROVE  RegistryInv'
<1> USE DEF RegistryInv, RegistryTypes
<1> DEFINE key == M!Key(t)
<1>1. key \in M!Keys /\ caller[t].step = "load"
  BY DEF M!Load, M!Key, ThreadsAsk
<1>2. /\ registry' \in [M!Keys -> Written \cup {Missing, NotLoaded}]
      /\ registry'[key] # NotLoaded
      /\ registry'[key] \in Written => registry'[key].model = M!Winner(registry'[key])
      /\ \A k \in M!Keys : k # key \/ registry[k] # NotLoaded => registry'[k] = registry[k]
      /\ loads' \in [M!Keys -> Nat] /\ loads'[key] <= 1 /\ \A k \in M!Keys \ {key} : loads'[k] = loads[k]
  <2>1. CASE ~M!StillMissing(key)
    BY <1>1, <2>1 DEF M!Load, M!StillMissing
  <2>2. CASE M!StillMissing(key) /\ file[key] = Missing
    <3>1. registry' = [registry EXCEPT ![key] = Missing] /\ loads' = loads /\ registry[key] = NotLoaded
      BY <2>2 DEF M!Load, M!StillMissing
    <3> QED BY <1>1, <3>1 DEF M!BundlesAreWhole, Written
  <2>3. CASE M!StillMissing(key) /\ file[key] # Missing
    <3>1. /\ registry' = [registry EXCEPT ![key] = M!Kept(file[key])]
          /\ loads' = [loads EXCEPT ![key] = loads[key] + 1] /\ registry[key] = NotLoaded
      BY <2>3 DEF M!Load, M!StillMissing
    <3>2. file[key] \in Written /\ file[key].model = M!Winner(file[key])
      BY <1>1, <2>3 DEF M!BundlesAreWhole, Written, M!Winner
    <3>3. M!Kept(file[key]) \in Written /\ M!Kept(file[key]).model = M!Winner(M!Kept(file[key]))
      BY <3>2, KeptIsWhole
    <3>4. M!Kept(file[key]) # NotLoaded
      BY <3>3 DEF M!BundlesAreWhole, Written
    <3>5. loads[key] = 0
      BY <1>1, <3>1
    <3> HIDE DEF key
    <3> QED BY <1>1, <3>1, <3>3, <3>4, <3>5
  <2> QED BY <2>1, <2>2, <2>3
<1>3. /\ caller' \in [Threads -> [step : {"idle", "look", "lock", "load", "predict"},
                                  call : DOMAIN M!Needs, needs : Seq(M!Keys)]]
      /\ \A u \in Threads \ {t} : caller'[u] = caller[u]
      /\ caller'[t].needs = caller[t].needs
  BY DEF M!Load, M!Step
<1>4. UNCHANGED <<lightMode, file, answers>>
  BY DEF M!Load
<1>5. ThreadsAsk'
  <2> SUFFICES ASSUME NEW u \in Threads
               PROVE  /\ caller'[u].step # "idle" => caller'[u].needs # <<>>
                      /\ caller'[u].step = "predict" => registry'[Head(caller'[u].needs)] # NotLoaded
    BY DEF ThreadsAsk, M!Key
  <2>1. CASE u = t
    BY <1>1, <1>2, <1>3, <2>1 DEF ThreadsAsk, M!Key
  <2>2. CASE u # t
    <3>1. caller[u].step = "predict" => Head(caller[u].needs) \in M!Keys /\ registry[Head(caller[u].needs)] # NotLoaded
      BY DEF ThreadsAsk, M!Key
    <3> QED BY <1>2, <1>3, <2>2, <3>1 DEF ThreadsAsk
  <2> QED BY <2>1, <2>2
<1>6. AnswersStand'
  BY <1>2, <1>4 DEF AnswersStand
<1>7. RegistryTypes'
  <2> HIDE DEF key
  <2>1. \A k \in M!Keys : loads'[k] <= IF registry'[k] = NotLoaded THEN 0 ELSE 1
    BY <1>1, <1>2
  <2>2. \A k \in M!Keys : registry'[k] \in Written => registry'[k].model = M!Winner(registry'[k])
    BY <1>1, <1>2
  <2> QED BY <1>2, <1>3, <1>4, <2>1, <2>2
<1> QED BY <1>5, <1>6, <1>7

\* An answer is what the registry gives, now and later.
LEMMA PredictStep ==
  ASSUME M!BundlesAreWhole(Ids, Names), RegistryInv, NEW t \in Threads, M!Predict(t)
  PROVE  RegistryInv'
<1> USE DEF RegistryInv, RegistryTypes
<1>1. /\ caller[t].step = "predict" /\ caller[t].needs # <<>> /\ M!Key(t) \in M!Keys
      /\ registry[M!Key(t)] # NotLoaded /\ UNCHANGED <<lightMode, file, registry, loads>>
  BY DEF M!Predict, ThreadsAsk, M!Key
<1>2. /\ caller' \in [Threads -> [step : {"idle", "look", "lock", "load", "predict"},
                                  call : DOMAIN M!Needs, needs : Seq(M!Keys)]]
      /\ \A u \in Threads \ {t} : caller'[u] = caller[u]
      /\ caller'[t].step # "predict"
      /\ caller'[t].step # "idle" => caller'[t].needs # <<>>
  <2>1. Tail(caller[t].needs) \in Seq(M!Keys)
    BY <1>1
  <2>2. CASE Tail(caller[t].needs) = <<>>
    <3>1. caller' = [caller EXCEPT ![t] = M!Idle]
      BY <2>2 DEF M!Predict
    <3>2. M!Idle \in [step : {"idle", "look", "lock", "load", "predict"}, call : DOMAIN M!Needs, needs : Seq(M!Keys)]
          /\ M!Idle.step = "idle"
      BY DEF M!Idle, M!Needs
    <3> QED BY <3>1, <3>2
  <2>3. CASE Tail(caller[t].needs) # <<>>
    <3>1. caller' = [caller EXCEPT ![t] = [caller[t] EXCEPT !.step = "look", !.needs = Tail(caller[t].needs)]]
      BY <2>3 DEF M!Predict
    <3> QED BY <2>1, <2>3, <3>1
  <2> QED BY <2>2, <2>3
<1>3. ThreadsAsk'
  BY <1>1, <1>2 DEF ThreadsAsk, M!Key
<1>4. answers' \subseteq answers \cup
        {[key |-> M!Key(t), call |-> caller[t].call, forecast |-> M!Forecast(caller[t].call, registry[M!Key(t)])]}
  BY DEF M!Predict
<1>5. AnswersStand' /\ \A a \in answers' : a.key \in M!Keys
  BY <1>1, <1>4 DEF AnswersStand
<1> QED BY <1>1, <1>2, <1>3, <1>5

\* A file is replaced, which no registry sees before a restart.
LEMMA ProcessStep ==
  ASSUME M!BundlesAreWhole(Ids, Names), RegistryInv, M!Replace \/ M!Restart \/ UNCHANGED M!vars
  PROVE  RegistryInv'
<1> USE DEF RegistryInv, RegistryTypes
<1>1. CASE UNCHANGED M!vars
  BY <1>1 DEF M!vars, ThreadsAsk, M!Key, AnswersStand
<1>2. CASE M!Replace
  <2>1. PICK key \in M!Keys : \E content \in Files[key] : file' = [file EXCEPT ![key] = content]
    BY <1>2 DEF M!Replace
  <2>4. PICK content \in Files[key] : file' = [file EXCEPT ![key] = content]
    BY <2>1
  <2>2. content \in Written \cup {Missing}
    BY DEF M!BundlesAreWhole, Written
  <2>3. file' \in [M!Keys -> Written \cup {Missing}] /\ \A k \in M!Keys : file'[k] \in Files[k]
    BY <2>2, <2>4
  <2> QED BY <1>2, <2>3 DEF M!Replace, ThreadsAsk, M!Key, AnswersStand
<1>3. CASE M!Restart
  <2>1. M!Idle \in [step : {"idle", "look", "lock", "load", "predict"}, call : DOMAIN M!Needs, needs : Seq(M!Keys)]
        /\ M!Idle.step = "idle"
    BY DEF M!Idle, M!Needs
  <2>2. lightMode' \in BOOLEAN
    BY <1>3 DEF M!Restart, M!BundlesAreWhole, Written
  <2> QED BY <1>3, <2>1, <2>2 DEF M!Restart, M!BundlesAreWhole, Written, ThreadsAsk, AnswersStand
<1> QED BY <1>1, <1>2, <1>3

\* The invariant of the registry.
LEMMA RegistryHolds == ASSUME M!BundlesAreWhole(Ids, Names) PROVE M!Spec => []RegistryInv
<1>1. M!Init => RegistryInv
  BY RegistryInit
<1>2. RegistryInv /\ [M!Next]_M!vars => RegistryInv'
  BY ThreadsStep, LoadStep, PredictStep, ProcessStep DEF M!Next
<1> QED BY <1>1, <1>2, PTL DEF M!Spec

\* However many threads ask at once, a process loads a model of each kind at most once
\* (get_or_load looks at the registry again under its lock).
THEOREM ModelsAreLoadedOnce == ASSUME M!BundlesAreWhole(Ids, Names) PROVE M!Spec => []M!LoadedOnce
<1>1. RegistryInv => M!LoadedOnce
  BY DEF RegistryInv, RegistryTypes, M!LoadedOnce
<1> QED BY <1>1, RegistryHolds, PTL

\* For any number of threads and any bundles that training writes, the forecasts of a process
\* come from one model of one file, whatever replaces the file meanwhile; only a call that
\* asks other candidates may get the heuristic (get_or_load, prune_to_winner, predict).
THEOREM AnswersAlwaysAgree == ASSUME M!BundlesAreWhole(Ids, Names) PROVE M!Spec => []M!AnswersAgree
<1>1. RegistryInv => M!AnswersAgree
  <2> SUFFICES ASSUME RegistryInv, NEW one \in answers, NEW other \in answers, one.key = other.key
               PROVE  \/ one.forecast = other.forecast
                      \/ M!Heuristic \in {one.forecast, other.forecast} /\ one.call # other.call
    BY DEF M!AnswersAgree
  <2> DEFINE bundle == registry[one.key]
  <2>1. one.forecast = M!Forecast(one.call, bundle) /\ other.forecast = M!Forecast(other.call, bundle)
    BY DEF RegistryInv, AnswersStand
  <2>2. bundle = Missing \/ bundle.model = M!Winner(bundle)
    BY DEF RegistryInv, RegistryTypes, AnswersStand
  <2> HIDE DEF bundle
  <2>3. \A call : bundle # Missing => M!Chosen(call, bundle) = M!Winner(bundle)
    BY <2>2 DEF M!Chosen
  <2>4. CASE one.call = other.call
    BY <2>1, <2>4
  <2>5. CASE one.call # other.call
    BY <2>1, <2>3, <2>5 DEF M!Forecast
  <2> QED BY <2>4, <2>5
<1> QED BY <1>1, RegistryHolds, PTL
-----------------------------------------------------------------------------
(*****************************************************************************)
(* The rows of forecasts                                                     *)
(*****************************************************************************)
Forecasts == P!AllKeys \X (Nat \ {0})
AskingSteps == {"look", "stats", "take", "query", "keep", "put"}
ClaimingSteps == {"claim", "poll"}
Row == {row \in [key : P!AllKeys, moment : Nat, by : P!Asks] : row.by # "smart" => row.moment # 0}
Requests == [ask : P!Asks \cup {None},
             at : AskingSteps \cup ClaimingSteps \cup {"idle", "commit", "delete", "clear"},
             moment : Nat, todo : Seq(P!AllKeys), answers : [P!AllKeys -> Nat], found : Nat \cup {None},
             looks : Nat, added : SUBSET Row]

ForecastTypes ==
  /\ clock \in Nat /\ redis \in P!Store /\ own \in [Process -> P!Store] /\ fleet \in Nat
  /\ stats \in [Process -> Nat \cup {None}]
  /\ thread \in [Thread -> Requests] /\ rows \in Seq(Row)

\* A request asks for each of its hours once, and has an answer before it claims one.
AsksOnce(r) ==
  /\ \A i, j \in DOMAIN r.todo : r.todo[i] = r.todo[j] => i = j
  /\ r.at \in AskingSteps \cup ClaimingSteps => r.todo # <<>>
  /\ r.at # "idle" => r.ask # None
  /\ r.at \in ClaimingSteps => r.answers[Head(r.todo)] # 0
  /\ \A row \in r.added : row.by = r.ask
  /\ IsFiniteSet(r.added)

\* Requests under way have moments of their own.
Moments ==
  \A t \in Thread : ~P!At(t, "idle") =>
    /\ thread[t].moment \in 1..clock
    /\ \A u \in Thread \ {t} : ~P!At(u, "idle") => thread[u].moment # thread[t].moment

\* A row of a forecast, written or about to be committed, that counts.
Made(row, f) == row.by # "smart" /\ row.key = f[1] /\ row.moment = f[2]
WrittenRow(f) == \E i \in DOMAIN rows : Made(rows[i], f)
AddedRow(t, f) == \E row \in thread[t].added : Made(row, f)
HasRow(f) == WrittenRow(f) \/ \E t \in Thread : AddedRow(t, f)

\* Where a forecast may be met.
Seen(f) == P!Kept(f) \/ HasRow(f) \/ \E t \in Thread : thread[t].answers[f[1]] = f[2]

\* The hours that a request has no answer for yet.
Ahead(r, k) ==
  \E i \in DOMAIN r.todo : r.todo[i] = k /\ (r.at \in AskingSteps \/ (r.at \in ClaimingSteps /\ i # 1))

SeenInTime == \A f \in Forecasts : Seen(f) => f[2] <= clock
NotYet ==
  \A t \in Thread : \A f \in Forecasts : Ahead(thread[t], f[1]) /\ f[2] = thread[t].moment => ~Seen(f)

\* No two rows of a forecast, written or about to be.
OneWrites ==
  /\ P!OneRowPerForecast
  /\ \A f \in Forecasts \ loose : \A t \in Thread : AddedRow(t, f) =>
        ~WrittenRow(f) /\ \A u \in Thread \ {t} : ~AddedRow(u, f)

\* Once its claim is gone, nobody can get at a forecast that has a row.
Settled ==
  \A f \in Forecasts \ loose : HasRow(f) /\ f \notin redis.claims =>
    /\ ~P!Kept(f)
    /\ \A t \in Thread : P!At(t, "claim") /\ thread[t].ask # "smart" => P!Forecast(t) # f

ForecastInv ==
  /\ ForecastTypes /\ (\A t \in Thread : AsksOnce(thread[t])) /\ Moments
  /\ SeenInTime /\ NotYet /\ OneWrites /\ Settled

-------------------------------------------------------------------------------
\* Steps of Redis, of its keys and of statistics.
LEMMA ElsewhereKeeps ==
  ASSUME ForecastInv, ForecastTypes', UNCHANGED <<clock, thread, rows>>, loose \subseteq loose',
         \A f \in Forecasts : P!Kept(f)' => P!Kept(f),
         \A f \in redis.claims \ redis'.claims : f \in Forecasts => f \in loose' \/
            (~P!Kept(f)' /\ \A t \in Thread : thread[t].todo # <<>> => P!Forecast(t) # f)
  PROVE  ForecastInv'
<1> USE DEF ForecastInv
<1>1. \A f \in Forecasts : (HasRow(f)' <=> HasRow(f)) /\ (Seen(f)' => Seen(f))
  BY DEF HasRow, Seen, WrittenRow, AddedRow, Made
<1>2. (\A t \in Thread : AsksOnce(thread[t]))' /\ Moments'
  BY DEF AsksOnce, Moments, P!At
<1>3. SeenInTime'
  BY <1>1 DEF SeenInTime
<1>4. NotYet'
  BY <1>1 DEF NotYet
<1>5. OneWrites'
  BY DEF OneWrites, P!OneRowPerForecast, AddedRow, WrittenRow, Made
<1>6. Settled'
  <2> SUFFICES ASSUME NEW f \in Forecasts, f \notin loose', HasRow(f), f \notin redis'.claims
               PROVE  /\ ~P!Kept(f)'
                      /\ \A t \in Thread : P!At(t, "claim") /\ thread[t].ask # "smart" => P!Forecast(t) # f
    BY <1>1 DEF Settled, P!At, P!Forecast
  <2>1. CASE f \in redis.claims
    BY <2>1 DEF AsksOnce, P!At, ClaimingSteps
  <2>2. CASE f \notin redis.claims
    BY <2>2 DEF Settled
  <2> QED BY <2>1, <2>2
<1> QED BY <1>2, <1>3, <1>4, <1>5, <1>6

\* Steps of a request that neither compute an answer nor commit, and by which it adds a
\* row only of a forecast that it has claimed.
LEMMA OwnStepKeeps ==
  ASSUME ForecastInv, ForecastTypes', NEW t \in Thread, \A u \in Thread \ {t} : thread'[u] = thread[u],
         UNCHANGED <<clock, rows>>, loose \subseteq loose', redis.claims \subseteq redis'.claims,
         AsksOnce(thread'[t]),
         \A f \in Forecasts : P!Kept(f)' => P!Kept(f),
         thread'[t].at # "idle" => thread'[t].moment = thread[t].moment /\ thread[t].at # "idle",
         \A k \in P!AllKeys : Ahead(thread'[t], k) => Ahead(thread[t], k),
         \A k \in P!AllKeys : \/ thread'[t].answers[k] \in {0, thread[t].answers[k]}
                            \/ P!Kept(<<k, thread'[t].answers[k]>>),
         \A row \in thread'[t].added : row \in thread[t].added \/ row.by = "smart" \/
            LET f == <<row.key, row.moment>>
            IN  Seen(f) /\ (f \in loose' \/ (f \in redis'.claims /\ ~HasRow(f))),
         P!At(t, "claim")' /\ thread'[t].ask # "smart" => P!Kept(P!Forecast(t)')
  PROVE  ForecastInv'
<1> USE DEF ForecastInv
<1>1. \A f \in Forecasts : AddedRow(t, f)' =>
        AddedRow(t, f) \/ (Seen(f) /\ (f \in loose' \/ (f \in redis'.claims /\ ~HasRow(f))))
  <2> SUFFICES ASSUME NEW f \in Forecasts, NEW row \in thread'[t].added, Made(row, f)
               PROVE  AddedRow(t, f) \/ (Seen(f) /\ (f \in loose' \/ (f \in redis'.claims /\ ~HasRow(f))))
    BY DEF AddedRow
  <2>1. row.by # "smart" /\ <<row.key, row.moment>> = f
    BY DEF Made, Forecasts
  <2> QED BY <2>1 DEF AddedRow
<1>2. \A u \in Thread \ {t} : \A f : AddedRow(u, f)' <=> AddedRow(u, f)
  BY DEF AddedRow
<1>3. \A f : WrittenRow(f)' <=> WrittenRow(f)
  BY DEF WrittenRow
<1>4. \A f \in Forecasts : Seen(f)' => Seen(f)
  <2> SUFFICES ASSUME NEW f \in Forecasts, Seen(f)' PROVE Seen(f)
    OBVIOUS
  <2>1. CASE P!Kept(f)'
    BY <2>1 DEF Seen
  <2>2. CASE HasRow(f)'
    BY <1>1, <1>2, <1>3, <2>2 DEF HasRow, Seen
  <2>3. ASSUME NEW u \in Thread, thread'[u].answers[f[1]] = f[2] PROVE Seen(f)
    <3>1. CASE u # t
      BY <2>3, <3>1 DEF Seen
    <3>2. CASE u = t
      <4>1. f[1] \in P!AllKeys /\ f[2] # 0 /\ f = <<f[1], f[2]>>
        BY DEF Forecasts
      <4>2. thread[t].answers[f[1]] = f[2] \/ P!Kept(f)
        BY <2>3, <3>2, <4>1
      <4> QED BY <4>2 DEF Seen
    <3> QED BY <3>1, <3>2
  <2> QED BY <2>1, <2>2, <2>3 DEF Seen
<1>5. (\A u \in Thread : AsksOnce(thread[u]))'
  BY DEF AsksOnce
<1>6. Moments'
  BY DEF Moments, P!At
<1>7. SeenInTime'
  BY <1>4 DEF SeenInTime
<1>8. NotYet'
  <2> SUFFICES ASSUME NEW u \in Thread, NEW f \in Forecasts, Ahead(thread'[u], f[1]), f[2] = thread'[u].moment
               PROVE  ~Seen(f)'
    BY DEF NotYet
  <2>1. thread'[u].at # "idle" /\ f[1] \in P!AllKeys
    BY DEF Ahead, AskingSteps, ClaimingSteps, Forecasts
  <2>2. Ahead(thread[u], f[1]) /\ thread'[u].moment = thread[u].moment
    BY <2>1
  <2> QED BY <1>4, <2>2 DEF NotYet
<1>9. OneWrites'
  <2>1. P!OneRowPerForecast'
    BY DEF OneWrites, P!OneRowPerForecast
  <2>2. ASSUME NEW f \in Forecasts, f \notin loose', NEW u \in Thread, AddedRow(u, f)'
        PROVE  ~WrittenRow(f)' /\ \A v \in Thread \ {u} : ~AddedRow(v, f)'
    <3>1. f \notin loose
      BY <2>2
    <3>2. CASE AddedRow(t, f)' /\ ~AddedRow(t, f)
      <4>1. ~HasRow(f)
        BY <1>1, <2>2, <3>2
      <4>2. u = t /\ \A v \in Thread \ {t} : ~AddedRow(v, f)'
        BY <1>2, <2>2, <4>1 DEF HasRow
      <4> QED BY <1>3, <4>1, <4>2 DEF HasRow
    <3>3. CASE ~AddedRow(t, f)' \/ AddedRow(t, f)
      <4>1. \A v \in Thread : AddedRow(v, f)' => AddedRow(v, f)
        BY <1>2, <3>3
      <4> QED BY <1>3, <2>2, <3>1, <4>1 DEF OneWrites
    <3> QED BY <3>2, <3>3
  <2> QED BY <2>1, <2>2 DEF OneWrites
<1>10. Settled'
  <2> SUFFICES ASSUME NEW f \in Forecasts, f \notin loose', HasRow(f)', f \notin redis'.claims
               PROVE  /\ ~P!Kept(f)'
                      /\ \A u \in Thread : P!At(u, "claim")' /\ thread'[u].ask # "smart" => P!Forecast(u)' # f
    BY DEF Settled
  <2>1. HasRow(f) /\ f \notin loose /\ f \notin redis.claims
    BY <1>1, <1>2, <1>3 DEF HasRow
  <2>2. ~P!Kept(f) /\ \A u \in Thread : P!At(u, "claim") /\ thread[u].ask # "smart" => P!Forecast(u) # f
    BY <2>1 DEF Settled
  <2>3. ASSUME NEW u \in Thread, P!At(u, "claim")', thread'[u].ask # "smart" PROVE P!Forecast(u)' # f
    <3>1. CASE u = t
      BY <2>2, <2>3, <3>1
    <3>2. CASE u # t
      BY <2>2, <2>3, <3>2 DEF P!At, P!Forecast
    <3> QED BY <3>1, <3>2
  <2> QED BY <2>2, <2>3
<1> QED BY <1>5, <1>6, <1>7, <1>8, <1>9, <1>10

-------------------------------------------------------------------------------
\* What is left of the hours is still asked for once.
LEMMA OneHourLess ==
  ASSUME NEW todo \in Seq(P!AllKeys), todo # <<>>, \A i, j \in DOMAIN todo : todo[i] = todo[j] => i = j
  PROVE  /\ Head(todo) \in P!AllKeys /\ 1 \in DOMAIN todo /\ todo[1] = Head(todo)
         /\ Tail(todo) \in Seq(P!AllKeys) /\ (Len(todo) > 1 => Tail(todo) # <<>>)
         /\ \A i, j \in DOMAIN Tail(todo) : Tail(todo)[i] = Tail(todo)[j] => i = j
         /\ \A i \in DOMAIN Tail(todo) : i + 1 \in DOMAIN todo /\ i + 1 # 1 /\ Tail(todo)[i] = todo[i + 1]
         /\ \A i \in DOMAIN todo : todo[i] = Head(todo) => i = 1
<1>1. Len(todo) \in Nat /\ Len(todo) > 0 /\ DOMAIN todo = 1..Len(todo)
  OBVIOUS
<1>2. /\ Tail(todo) \in Seq(P!AllKeys) /\ Len(Tail(todo)) = Len(todo) - 1 /\ DOMAIN Tail(todo) = 1..(Len(todo) - 1)
      /\ \A i \in 1..(Len(todo) - 1) : Tail(todo)[i] = todo[i + 1]
  BY <1>1
<1>3. Head(todo) = todo[1] /\ Head(todo) \in P!AllKeys
  BY <1>1
<1> HIDE <1>2
<1> QED BY <1>1, <1>2, <1>3

\* A request that has an answer goes on to its next hour or to claim the forecast.
LEMMA AnsweredGoesOn ==
  ASSUME ForecastTypes, NEW t \in Thread, AsksOnce(thread[t]), thread[t].at \in AskingSteps,
         NEW m \in Nat \ {0}, NEW r, r = P!Answered(t, m)
  PROVE  /\ r \in Requests /\ AsksOnce(r) /\ r.at # "idle"
         /\ r.moment = thread[t].moment /\ r.added = thread[t].added
         /\ \A k : Ahead(r, k) => Ahead(thread[t], k) /\ k # Head(thread[t].todo)
         /\ \A k \in P!AllKeys : r.answers[k] = IF k = Head(thread[t].todo) THEN m ELSE thread[t].answers[k]
         /\ r.at = "claim" /\ r.ask # "smart" => r.todo = thread[t].todo
<1> DEFINE q == thread[t]
           k0 == Head(q.todo)
<1>1. q \in Requests /\ q.todo \in Seq(P!AllKeys) /\ q.todo # <<>> /\ q.ask # None
  BY DEF ForecastTypes, Requests, AsksOnce, AskingSteps
<1>2. /\ k0 \in P!AllKeys /\ 1 \in DOMAIN q.todo /\ q.todo[1] = k0
      /\ Tail(q.todo) \in Seq(P!AllKeys) /\ (Len(q.todo) > 1 => Tail(q.todo) # <<>>)
      /\ \A i, j \in DOMAIN Tail(q.todo) : Tail(q.todo)[i] = Tail(q.todo)[j] => i = j
      /\ \A i \in DOMAIN Tail(q.todo) : i + 1 \in DOMAIN q.todo /\ i + 1 # 1 /\ Tail(q.todo)[i] = q.todo[i + 1]
      /\ \A i \in DOMAIN q.todo : q.todo[i] = k0 => i = 1
  BY <1>1, OneHourLess DEF AsksOnce
<1> DEFINE given == [q.answers EXCEPT ![k0] = m]
<1>3. /\ given \in [P!AllKeys -> Nat] /\ given[k0] = m
      /\ \A k \in P!AllKeys : given[k] = IF k = k0 THEN m ELSE q.answers[k]
  <2>1. q.answers \in [P!AllKeys -> Nat]
    BY <1>1 DEF Requests
  <2> QED BY <1>2, <2>1
<1>4. CASE q.ask = "smart" /\ Len(q.todo) > 1
  <2>1. r = [q EXCEPT !.answers = given, !.at = "look", !.todo = Tail(q.todo)]
    BY <1>1, <1>4 DEF P!Answered, Requests
  <2> HIDE DEF given
  <2>2. /\ r \in Requests /\ r.at = "look" /\ r.todo = Tail(q.todo) /\ r.moment = q.moment /\ r.added = q.added
        /\ r.answers = given /\ r.ask = q.ask
    BY <1>1, <1>2, <1>3, <2>1 DEF Requests, AskingSteps
  <2>3. AsksOnce(r)
    BY <1>1, <1>2, <1>4, <2>2 DEF AsksOnce, ClaimingSteps, AskingSteps
  <2>4. \A k : Ahead(r, k) => Ahead(q, k) /\ k # k0
    BY <1>2, <2>2 DEF Ahead, AskingSteps, ClaimingSteps
  <2> QED BY <1>3, <2>2, <2>3, <2>4
<1>5. CASE ~(q.ask = "smart" /\ Len(q.todo) > 1)
  <2>1. r = [q EXCEPT !.answers = given, !.at = "claim"]
    BY <1>1, <1>5 DEF P!Answered, Requests
  <2> HIDE DEF given
  <2>2. /\ r \in Requests /\ r.at = "claim" /\ r.todo = q.todo /\ r.moment = q.moment /\ r.added = q.added
        /\ r.answers = given /\ r.ask = q.ask
    BY <1>1, <1>2, <1>3, <2>1 DEF Requests, ClaimingSteps
  <2>3. AsksOnce(r)
    BY <1>1, <1>2, <1>3, <2>2 DEF AsksOnce, ClaimingSteps, AskingSteps
  <2>4. \A k : Ahead(r, k) => Ahead(q, k) /\ k # k0
    BY <1>2, <2>2 DEF Ahead, AskingSteps, ClaimingSteps
  <2> QED BY <1>3, <2>2, <2>3, <2>4
<1> QED BY <1>4, <1>5

\* What changes in a store, and what does not.
LEMMA StoresAreStores ==
  ASSUME NEW s \in P!Store
  PROVE  /\ \A k \in P!AllKeys, m \in Nat :
              /\ [s EXCEPT !.answers[k] = m] \in P!Store /\ [s EXCEPT !.answers[k] = m].claims = s.claims
              /\ \A h \in P!AllKeys : [s EXCEPT !.answers[k] = m].answers[h] = IF h = k THEN m ELSE s.answers[h]
         /\ \A v \in Nat \cup {None} : [s EXCEPT !.stats = v] \in P!Store /\ [s EXCEPT !.stats = v].claims = s.claims
                                       /\ [s EXCEPT !.stats = v].answers = s.answers
         /\ \A b \in BOOLEAN : [s EXCEPT !.triple = b] \in P!Store /\ [s EXCEPT !.triple = b].claims = s.claims
                               /\ [s EXCEPT !.triple = b].answers = s.answers
         /\ \A c \in SUBSET (P!AllKeys \X Nat) :
              [s EXCEPT !.claims = c] \in P!Store /\ [s EXCEPT !.claims = c].claims = c
              /\ [s EXCEPT !.claims = c].answers = s.answers
BY DEF P!Store

\* An answer that is computed is new: nobody has met the forecast before.
LEMMA PutKeeps ==
  ASSUME P!HomesAreProcesses, ForecastInv, NEW t \in Thread, P!Put(t)
  PROVE  ForecastInv'
<1> USE DEF ForecastInv
<1> DEFINE q == thread[t]
           k0 == Head(q.todo)
           m == q.moment
           f0 == <<k0, m>>
<1>1. q \in Requests /\ q.at = "put" /\ q.todo \in Seq(P!AllKeys) /\ q.todo # <<>> /\ q.at \in AskingSteps /\ AsksOnce(q)
  BY DEF ForecastTypes, Requests, AsksOnce, AskingSteps, P!Put, P!At
<1>2. k0 \in P!AllKeys /\ 1 \in DOMAIN q.todo /\ q.todo[1] = k0
  BY <1>1, OneHourLess DEF AsksOnce
<1>3. m \in 1..clock /\ m \in Nat \ {0} /\ \A u \in Thread \ {t} : ~P!At(u, "idle") => thread[u].moment # m
  BY <1>1 DEF Moments, P!At, ForecastTypes
<1>4. f0 \in Forecasts /\ f0[1] = k0 /\ f0[2] = m
  BY <1>2, <1>3 DEF Forecasts
<1>5. ~Seen(f0)
  BY <1>1, <1>2, <1>4 DEF NotYet, Ahead
<1>6. Home[t] \in Process /\ own[Home[t]] \in P!Store /\ redis \in P!Store
  BY DEF P!HomesAreProcesses, ForecastTypes
<1>7. /\ own' = [own EXCEPT ![Home[t]] = [own[Home[t]] EXCEPT !.answers[k0] = m]]
      /\ redis' = redis \/ redis' = [redis EXCEPT !.answers[k0] = m]
      /\ thread' = [thread EXCEPT ![t] = P!Answered(t, m)]
      /\ UNCHANGED <<clock, up, fleet, stats, rows, loose>>
  BY <1>6 DEF P!Put, P!SetBoth, P!Goes, P!fleetVars
<1>8. /\ own' \in [Process -> P!Store] /\ redis' \in P!Store /\ redis'.claims = redis.claims
      /\ \A f \in Forecasts : P!Kept(f)' => P!Kept(f) \/ f = f0
  <2> DEFINE mine == [own[Home[t]] EXCEPT !.answers[k0] = m]
  <2>1. mine \in P!Store /\ \A h \in P!AllKeys : mine.answers[h] = IF h = k0 THEN m ELSE own[Home[t]].answers[h]
    BY <1>2, <1>3, <1>6, StoresAreStores
  <2> DEFINE shared == [redis EXCEPT !.answers[k0] = m]
  <2>5. shared \in P!Store /\ shared.claims = redis.claims
        /\ \A h \in P!AllKeys : shared.answers[h] = IF h = k0 THEN m ELSE redis.answers[h]
    BY <1>2, <1>3, <1>6, StoresAreStores
  <2>6. redis' = redis \/ redis' = shared
    BY <1>7
  <2> HIDE DEF shared
  <2>2. redis' \in P!Store /\ redis'.claims = redis.claims
        /\ \A h \in P!AllKeys : redis'.answers[h] = redis.answers[h] \/ (h = k0 /\ redis'.answers[h] = m)
    BY <1>6, <2>5, <2>6
  <2> HIDE DEF mine, f0
  <2>3. own' \in [Process -> P!Store] /\ own'[Home[t]] = mine /\ \A p \in Process \ {Home[t]} : own'[p] = own[p]
    BY <1>6, <1>7, <2>1 DEF ForecastTypes, mine
  <2>4. ASSUME NEW f \in Forecasts, P!Kept(f)' PROVE P!Kept(f) \/ f = f0
    <3>1. f[1] \in P!AllKeys /\ f = <<f[1], f[2]>>
      BY DEF Forecasts
    <3>2. CASE redis'.answers[f[1]] = f[2]
      BY <2>2, <3>1, <3>2 DEF P!Kept, f0
    <3>3. ASSUME NEW p \in Process, own'[p].answers[f[1]] = f[2] PROVE P!Kept(f) \/ f = f0
      <4>1. CASE p = Home[t]
        BY <1>6, <2>1, <2>3, <3>1, <3>3, <4>1 DEF P!Kept, f0
      <4>2. CASE p # Home[t]
        BY <2>3, <3>3, <4>2 DEF P!Kept
      <4> QED BY <4>1, <4>2
    <3> QED BY <2>4, <3>2, <3>3 DEF P!Kept
  <2> QED BY <2>2, <2>3, <2>4
<1> DEFINE r == P!Answered(t, m)
<1>9. /\ r \in Requests /\ AsksOnce(r) /\ r.at # "idle" /\ r.moment = m /\ r.added = q.added
      /\ \A k : Ahead(r, k) => Ahead(q, k) /\ k # k0
      /\ \A k \in P!AllKeys : r.answers[k] = IF k = k0 THEN m ELSE q.answers[k]
      /\ r.at = "claim" /\ r.ask # "smart" => r.todo = q.todo
  BY <1>1, <1>3, AnsweredGoesOn
<1> HIDE DEF r, f0
<1>10. thread' \in [Thread -> Requests] /\ thread'[t] = r /\ \A u \in Thread \ {t} : thread'[u] = thread[u]
  BY <1>7, <1>9 DEF ForecastTypes, r
<1>11. \A f : (HasRow(f)' <=> HasRow(f)) /\ (WrittenRow(f)' <=> WrittenRow(f)) /\ \A u \in Thread : AddedRow(u, f)' <=> AddedRow(u, f)
  BY <1>7, <1>9, <1>10 DEF HasRow, WrittenRow, AddedRow
<1>12. \A f \in Forecasts : Seen(f)' => Seen(f) \/ f = f0
  <2> SUFFICES ASSUME NEW f \in Forecasts, NEW u \in Thread, thread'[u].answers[f[1]] = f[2] PROVE Seen(f) \/ f = f0
    BY <1>8, <1>11 DEF Seen
  <2>1. f[1] \in P!AllKeys /\ f = <<f[1], f[2]>>
    BY DEF Forecasts
  <2>2. CASE u = t
    BY <1>9, <1>10, <2>1, <2>2 DEF f0, Seen
  <2>3. CASE u # t
    BY <1>10, <2>3 DEF Seen
  <2> QED BY <2>2, <2>3
<1>13. ForecastTypes'
  BY <1>7, <1>8, <1>10 DEF ForecastTypes
<1>14. (\A u \in Thread : AsksOnce(thread[u]))' /\ Moments'
  BY <1>1, <1>7, <1>9, <1>10 DEF Moments, P!At
<1>15. SeenInTime'
  BY <1>3, <1>4, <1>7, <1>12 DEF SeenInTime
<1>16. NotYet'
  <2> SUFFICES ASSUME NEW u \in Thread, NEW f \in Forecasts, Ahead(thread'[u], f[1]), f[2] = thread'[u].moment
               PROVE  ~Seen(f)'
    BY DEF NotYet
  <2>1. Ahead(thread[u], f[1]) /\ thread[u].moment = f[2] /\ ~P!At(u, "idle")
    BY <1>9, <1>10 DEF Ahead, P!At, AskingSteps, ClaimingSteps
  <2>2. f # f0
    BY <1>3, <1>4, <1>9, <1>10, <2>1
  <2> QED BY <1>12, <2>1, <2>2 DEF NotYet
<1>17. OneWrites'
  BY <1>7, <1>11 DEF OneWrites, P!OneRowPerForecast
<1>18. Settled'
  <2> SUFFICES ASSUME NEW f \in Forecasts, f \notin loose, HasRow(f), f \notin redis.claims
               PROVE  /\ ~P!Kept(f)'
                      /\ \A u \in Thread : P!At(u, "claim")' /\ thread'[u].ask # "smart" => P!Forecast(u)' # f
    BY <1>7, <1>8, <1>11 DEF Settled
  <2>1. f # f0
    BY <1>5 DEF Seen
  <2>2. ASSUME NEW u \in Thread, P!At(u, "claim")', thread'[u].ask # "smart" PROVE P!Forecast(u)' # f
    <3>1. CASE u = t
      BY <1>2, <1>9, <1>10, <2>1, <2>2, <3>1 DEF P!At, P!Forecast, f0
    <3>2. CASE u # t
      BY <1>10, <2>2, <3>2 DEF Settled, P!At, P!Forecast
    <3> QED BY <3>1, <3>2
  <2> QED BY <1>8, <2>1, <2>2 DEF Settled
<1> QED BY <1>13, <1>14, <1>15, <1>16, <1>17, <1>18

-------------------------------------------------------------------------------
\* The hours that a request asks for are different.
LEMMA HoursOfRequests ==
  \A ask \in P!Asks :
    /\ P!Keys(ask) \in Seq(P!AllKeys) /\ (ask # "train" => P!Keys(ask) # <<>>)
    /\ \A i, j \in DOMAIN P!Keys(ask) : P!Keys(ask)[i] = P!Keys(ask)[j] => i = j
<1> DEFINE Fine(hours) == hours \in Seq(P!AllKeys) /\ \A i, j \in DOMAIN hours : hours[i] = hours[j] => i = j
<1>1. "crowd" \in P!AllKeys /\ "delay" \in P!AllKeys /\ "soon" \in P!AllKeys /\ "later" \in P!AllKeys
  BY DEF P!AllKeys
<1>2. Fine(<<"crowd">>) /\ <<"crowd">> # <<>>
  BY <1>1
<1>3. Fine(<<"soon", "later">>) /\ <<"soon", "later">> # <<>>
  BY <1>1
<1>4. Fine(<<"crowd", "delay">>) /\ <<"crowd", "delay">> # <<>>
  BY <1>1
<1>5. Fine(<<>>)
  OBVIOUS
<1>6. /\ P!Keys("forecast") = <<"crowd">> /\ P!Keys("demand") = <<"soon", "later">>
      /\ P!Keys("smart") = <<"crowd", "delay">> /\ P!Keys("train") = <<>>
  BY DEF P!Keys
<1>7. P!Asks = {"forecast", "demand", "smart", "train"}
  BY DEF P!Asks
<1> HIDE DEF Fine
<1>8. \A ask \in P!Asks : Fine(P!Keys(ask)) /\ (ask # "train" => P!Keys(ask) # <<>>)
  BY <1>2, <1>3, <1>4, <1>5, <1>6, <1>7
<1> QED BY <1>8 DEF Fine

\* A thread without a request has no answers and no rows.
LEMMA IdleAsksNothing ==
  /\ P!NoAnswers \in [P!AllKeys -> Nat] /\ \A k \in P!AllKeys : P!NoAnswers[k] = 0
  /\ P!Idle \in Requests /\ AsksOnce(P!Idle)
  /\ P!Idle.at = "idle" /\ P!Idle.added = {} /\ P!Idle.answers = P!NoAnswers /\ P!Idle.todo = <<>>
<1>1. P!NoAnswers \in [P!AllKeys -> Nat] /\ \A k \in P!AllKeys : P!NoAnswers[k] = 0
  BY DEF P!NoAnswers
<1>2. P!Idle.at = "idle" /\ P!Idle.added = {} /\ P!Idle.answers = P!NoAnswers /\ P!Idle.todo = <<>>
  BY DEF P!Idle
<1>3. <<>> \in Seq(P!AllKeys) /\ {} \in SUBSET Row /\ IsFiniteSet({})
  BY FS_EmptySet
<1>4. P!Idle \in Requests
  BY <1>1, <1>3 DEF P!Idle, Requests
<1>5. AsksOnce(P!Idle)
  BY <1>2, <1>3 DEF AsksOnce, AskingSteps, ClaimingSteps
<1> QED BY <1>1, <1>2, <1>4, <1>5

\* A request begins, with a moment that no answer has.
LEMMA BeginKeeps ==
  ASSUME P!RequestsAreNamed, ForecastInv, NEW t \in Thread, NEW ask \in P!Asks, P!Begin(t, ask)
  PROVE  ForecastInv'
<1> USE DEF ForecastInv
<1> DEFINE r == [P!Idle EXCEPT !.ask = ask, !.moment = clock + 1, !.todo = P!Keys(ask),
                             !.at = IF ask = "train" THEN "commit" ELSE "look"]
<1>1. /\ P!At(t, "idle") /\ clock' = clock + 1 /\ thread' = [thread EXCEPT ![t] = r]
      /\ UNCHANGED <<redis, own, fleet, stats, rows, loose>>
  BY DEF P!Begin, P!Goes, P!cacheVars, P!fleetVars
<1>2. P!Keys(ask) \in Seq(P!AllKeys) /\ (ask # "train" => P!Keys(ask) # <<>>)
      /\ \A i, j \in DOMAIN P!Keys(ask) : P!Keys(ask)[i] = P!Keys(ask)[j] => i = j
  BY HoursOfRequests
<1>3. clock \in Nat /\ P!NoAnswers \in [P!AllKeys -> Nat] /\ \A k \in P!AllKeys : P!NoAnswers[k] = 0
  BY DEF ForecastTypes, P!NoAnswers
<1>4. /\ r.ask = ask /\ r.at = (IF ask = "train" THEN "commit" ELSE "look")
      /\ r.moment = clock + 1 /\ r.todo = P!Keys(ask) /\ r.answers = P!NoAnswers /\ r.added = {}
  BY DEF P!Idle
<1>5. r \in Requests
  <2> DEFINE where == IF ask = "train" THEN "commit" ELSE "look"
  <2>1. where \in AskingSteps \cup {"commit"}
    BY DEF AskingSteps
  <2>2. P!Idle \in Requests /\ clock + 1 \in Nat
    BY <1>3, IdleAsksNothing
  <2>3. r = [P!Idle EXCEPT !.ask = ask, !.moment = clock + 1, !.todo = P!Keys(ask), !.at = where]
    OBVIOUS
  <2> HIDE DEF where, r
  <2> QED BY <1>2, <2>1, <2>2, <2>3 DEF Requests
<1> HIDE DEF r
<1>6. AsksOnce(r)
  <2>2. IsFiniteSet({})
    BY FS_EmptySet
  <2> QED BY <1>2, <1>4, <2>2 DEF AsksOnce, AskingSteps, ClaimingSteps, P!RequestsAreNamed
<1>7. thread' \in [Thread -> Requests] /\ thread'[t] = r /\ \A u \in Thread \ {t} : thread'[u] = thread[u]
  BY <1>1, <1>5 DEF ForecastTypes
<1>8. \A f : /\ (WrittenRow(f)' <=> WrittenRow(f)) /\ (P!Kept(f)' <=> P!Kept(f))
             /\ \A u \in Thread : AddedRow(u, f)' => AddedRow(u, f)
  BY <1>1, <1>4, <1>7 DEF WrittenRow, AddedRow, P!Kept
<1>9. \A f \in Forecasts : (HasRow(f)' => HasRow(f)) /\ (Seen(f)' => Seen(f))
  <2>1. \A f \in Forecasts : f[1] \in P!AllKeys /\ f[2] # 0
    BY DEF Forecasts
  <2> QED BY <1>3, <1>4, <1>7, <1>8, <2>1 DEF HasRow, Seen
<1>10. ForecastTypes'
  BY <1>1, <1>3, <1>7 DEF ForecastTypes
<1>11. (\A u \in Thread : AsksOnce(thread[u]))'
  BY <1>6, <1>7
<1>12. Moments'
  <2> SUFFICES ASSUME NEW u \in Thread, thread'[u].at # "idle"
               PROVE  /\ thread'[u].moment \in 1..clock'
                      /\ \A v \in Thread \ {u} : thread'[v].at # "idle" => thread'[v].moment # thread'[u].moment
    BY DEF Moments, P!At
  <2>1. \A v \in Thread \ {t} : thread'[v].at # "idle" => thread'[v].moment \in 1..clock
    BY <1>7 DEF Moments, P!At
  <2>2. CASE u = t
    BY <1>1, <1>3, <1>4, <1>7, <2>1, <2>2
  <2>3. CASE u # t
    <3>1. \A v \in Thread \ {u, t} : thread'[v].at # "idle" => thread'[v].moment # thread'[u].moment
      BY <1>7, <2>3 DEF Moments, P!At
    <3> QED BY <1>1, <1>3, <1>4, <1>7, <2>1, <2>3, <3>1
  <2> QED BY <2>2, <2>3
<1>13. SeenInTime'
  <2> SUFFICES ASSUME NEW f \in Forecasts, Seen(f) PROVE f[2] <= clock + 1
    BY <1>1, <1>9 DEF SeenInTime
  <2>1. f[2] <= clock /\ f[2] \in Nat
    BY DEF SeenInTime, Forecasts
  <2> QED BY <1>3, <2>1
<1>14. NotYet'
  <2> SUFFICES ASSUME NEW u \in Thread, NEW f \in Forecasts, Ahead(thread'[u], f[1]), f[2] = thread'[u].moment
               PROVE  ~Seen(f)
    BY <1>9 DEF NotYet
  <2>1. CASE u = t
    BY <1>3, <1>4, <1>7, <2>1 DEF SeenInTime
  <2>2. CASE u # t
    BY <1>7, <2>2 DEF NotYet
  <2> QED BY <2>1, <2>2
<1>15. OneWrites'
  BY <1>1, <1>8 DEF OneWrites, P!OneRowPerForecast
<1>16. Settled'
  <2> SUFFICES ASSUME NEW f \in Forecasts, f \notin loose, HasRow(f), f \notin redis.claims
               PROVE  /\ ~P!Kept(f)
                      /\ \A u \in Thread : P!At(u, "claim")' /\ thread'[u].ask # "smart" => P!Forecast(u)' # f
    BY <1>1, <1>8, <1>9 DEF Settled
  <2> QED BY <1>4, <1>7 DEF Settled, P!At, P!Forecast
<1> QED BY <1>10, <1>11, <1>12, <1>13, <1>14, <1>15, <1>16

-------------------------------------------------------------------------------
\* Each of the rows that are added is written once.
LEMMA Listed ==
  ASSUME NEW S, IsFiniteSet(S)
  PROVE  /\ P!SetToSeq(S) \in Seq(S)
         /\ \A i, j \in DOMAIN P!SetToSeq(S) : P!SetToSeq(S)[i] = P!SetToSeq(S)[j] => i = j
<1> DEFINE n == Cardinality(S)
           s == P!SetToSeq(S)
<1>1. n \in Nat /\ ExistsBijection(1..n, S)
  BY FS_CardinalityType
<1>2. PICK f : f \in Bijection(1..n, S)
  BY <1>1 DEF ExistsBijection
<1>3. f \in [1..n -> S] /\ P!IsInjective(f)
  BY <1>2 DEF Bijection, Injection, IsInjective, P!IsInjective
<1>4. s = CHOOSE g \in [1..n -> S] : P!IsInjective(g)
  BY DEF P!SetToSeq, P!Cardinality, Cardinality, P!IsFiniteSet, IsFiniteSet
<1>5. s \in [1..n -> S] /\ P!IsInjective(s)
  <2> HIDE DEF s
  <2> QED BY <1>3, <1>4
<1> QED BY <1>1, <1>5 DEF P!IsInjective

\* What ends a request takes nothing with it but its rows.
LEMMA CommitKeeps ==
  ASSUME ForecastInv, NEW t \in Thread, P!Commit(t)
  PROVE  ForecastInv'
<1> USE DEF ForecastInv
<1> DEFINE added == thread[t].added
           s == P!SetToSeq(added)
<1>1. /\ rows' = rows \o s /\ thread' = [thread EXCEPT ![t] = P!Idle]
      /\ UNCHANGED <<clock, redis, own, fleet, stats, loose>>
  BY DEF P!Commit, P!Goes, P!cacheVars, P!fleetVars
<1>2. added \subseteq Row /\ IsFiniteSet(added) /\ \A row \in added : row.by = thread[t].ask
  BY DEF ForecastTypes, Requests, AsksOnce
<1>3. s \in Seq(added) /\ \A i, j \in DOMAIN s : s[i] = s[j] => i = j
  BY <1>2, Listed
<1> HIDE DEF s
<1>4. /\ rows' \in Seq(Row)
      /\ \A i \in DOMAIN rows : i \in DOMAIN rows' /\ rows'[i] = rows[i]
      /\ \A i \in DOMAIN rows' : \/ i \in DOMAIN rows /\ rows'[i] = rows[i]
                                 \/ i \notin DOMAIN rows /\ i - Len(rows) \in DOMAIN s /\ rows'[i] = s[i - Len(rows)]
      /\ DOMAIN rows' \subseteq Nat /\ DOMAIN rows \subseteq Nat /\ Len(rows) \in Nat
  <2>1. rows \in Seq(Row) /\ s \in Seq(Row)
    BY <1>2, <1>3 DEF ForecastTypes
  <2> QED BY <1>1, <2>1
<1>5. \A i \in DOMAIN s : s[i] \in added
  BY <1>3
<1>6. /\ \A k \in P!AllKeys : P!NoAnswers[k] = 0
      /\ P!Idle.at = "idle" /\ P!Idle.added = {} /\ P!Idle.answers = P!NoAnswers /\ P!Idle.todo = <<>>
  BY IdleAsksNothing
<1>7. P!Idle \in Requests /\ AsksOnce(P!Idle)
  BY IdleAsksNothing
<1>8. thread' \in [Thread -> Requests] /\ thread'[t] = P!Idle /\ \A u \in Thread \ {t} : thread'[u] = thread[u]
  BY <1>1, <1>7 DEF ForecastTypes
<1> HIDE DEF added
<1>9. \A f : /\ (WrittenRow(f)' => WrittenRow(f) \/ AddedRow(t, f))
             /\ ~AddedRow(t, f)' /\ \A u \in Thread \ {t} : AddedRow(u, f)' <=> AddedRow(u, f)
  <2> SUFFICES ASSUME NEW f
               PROVE  /\ (WrittenRow(f)' => WrittenRow(f) \/ AddedRow(t, f))
                      /\ ~AddedRow(t, f)' /\ \A u \in Thread \ {t} : AddedRow(u, f)' <=> AddedRow(u, f)
    OBVIOUS
  <2>1. WrittenRow(f)' => WrittenRow(f) \/ AddedRow(t, f)
    BY <1>4, <1>5 DEF WrittenRow, AddedRow, added
  <2>2. ~AddedRow(t, f)' /\ \A u \in Thread \ {t} : AddedRow(u, f)' <=> AddedRow(u, f)
    BY <1>6, <1>8 DEF AddedRow
  <2> QED BY <2>1, <2>2
<1>10. \A f \in Forecasts : (HasRow(f)' => HasRow(f)) /\ (P!Kept(f)' <=> P!Kept(f)) /\ (Seen(f)' => Seen(f))
  <2>1. \A f \in Forecasts : f[1] \in P!AllKeys /\ f[2] # 0
    BY DEF Forecasts
  <2>2. \A f : P!Kept(f)' <=> P!Kept(f)
    BY <1>1 DEF P!Kept
  <2>3. \A f : HasRow(f)' => HasRow(f)
    BY <1>9 DEF HasRow
  <2> QED BY <1>6, <1>8, <2>1, <2>2, <2>3 DEF Seen
<1>11. ForecastTypes'
  BY <1>1, <1>4, <1>8 DEF ForecastTypes
<1>12. (\A u \in Thread : AsksOnce(thread[u]))' /\ Moments' /\ SeenInTime'
  BY <1>1, <1>6, <1>7, <1>8, <1>10 DEF Moments, P!At, SeenInTime
<1>13. NotYet'
  BY <1>6, <1>8, <1>10 DEF NotYet, Ahead, AskingSteps, ClaimingSteps
<1>14. OneWrites'
  <2>1. ASSUME NEW i \in DOMAIN rows', NEW j \in DOMAIN rows', i # j,
               rows'[i].key = rows'[j].key, rows'[i].moment = rows'[j].moment,
               rows'[i].by # "smart", rows'[j].by # "smart"
        PROVE  <<rows'[i].key, rows'[i].moment>> \in loose
    <3> DEFINE f == <<rows'[i].key, rows'[i].moment>>
    <3>1. f \in Forecasts /\ Made(rows'[i], f) /\ Made(rows'[j], f)
      <4>1. rows'[i] \in Row
        BY <1>4, <2>1
      <4> QED BY <2>1, <4>1 DEF Forecasts, Made, Row
    <3>2. CASE i \in DOMAIN rows /\ j \in DOMAIN rows
      BY <1>4, <2>1, <3>2 DEF OneWrites, P!OneRowPerForecast
    <3>3. CASE i \notin DOMAIN rows /\ j \notin DOMAIN rows
      <4>1. /\ i - Len(rows) \in DOMAIN s /\ rows'[i] = s[i - Len(rows)]
            /\ j - Len(rows) \in DOMAIN s /\ rows'[j] = s[j - Len(rows)]
            /\ i \in Nat /\ j \in Nat /\ Len(rows) \in Nat
        BY <1>4, <2>1, <3>3
      <4>2. rows'[i] \in added /\ rows'[j] \in added
        BY <1>5, <4>1
      <4>3. rows'[i] = rows'[j]
        BY <1>2, <2>1, <4>2 DEF Row, added
      <4>4. i - Len(rows) = j - Len(rows)
        BY <1>3, <4>1, <4>3 DEF added
      <4> QED BY <2>1, <4>1, <4>4
    <3> HIDE DEF f
    <3>4. CASE (i \in DOMAIN rows) # (j \in DOMAIN rows)
      <4>1. WrittenRow(f) /\ AddedRow(t, f)
        BY <1>4, <1>5, <2>1, <3>1, <3>4 DEF WrittenRow, AddedRow, added
      <4>2. f \in loose
        BY <3>1, <4>1 DEF OneWrites
      <4> QED BY <4>2 DEF f
    <3> QED BY <3>2, <3>3, <3>4
  <2>2. P!OneRowPerForecast'
    BY <1>1, <2>1 DEF P!OneRowPerForecast
  <2>3. ASSUME NEW f \in Forecasts, f \notin loose, NEW u \in Thread, AddedRow(u, f)'
        PROVE  ~WrittenRow(f)' /\ \A v \in Thread \ {u} : ~AddedRow(v, f)'
    <3>1. u # t /\ AddedRow(u, f)
      BY <1>9, <2>3
    <3> QED BY <1>9, <2>3, <3>1 DEF OneWrites
  <2> QED BY <1>1, <2>2, <2>3 DEF OneWrites
<1>15. Settled'
  <2> SUFFICES ASSUME NEW f \in Forecasts, f \notin loose, HasRow(f), f \notin redis.claims
               PROVE  /\ ~P!Kept(f)
                      /\ \A u \in Thread : P!At(u, "claim")' /\ thread'[u].ask # "smart" => P!Forecast(u)' # f
    BY <1>1, <1>10 DEF Settled
  <2> QED BY <1>6, <1>8 DEF Settled, P!At, P!Forecast
<1> QED BY <1>11, <1>12, <1>13, <1>14, <1>15

-------------------------------------------------------------------------------
\* A row is added to those that the request is going to commit.
LEMMA SavingAdds ==
  ASSUME NEW q \in Requests, AsksOnce(q), q.at \in ClaimingSteps, NEW key \in P!AllKeys,
         q.ask = "smart" \/ q.answers[key] # 0, NEW r, r = P!Saving(q, key)
  PROVE  /\ r \in Requests /\ AsksOnce(r) /\ r.at = q.at /\ r.ask = q.ask /\ r.moment = q.moment
         /\ r.todo = q.todo /\ r.answers = q.answers
         /\ r.added = q.added \cup {[key |-> key, moment |-> q.answers[key], by |-> q.ask]}
<1> DEFINE row == [key |-> key, moment |-> q.answers[key], by |-> q.ask]
<1>1. q.ask # None /\ q.ask \in P!Asks
  BY DEF AsksOnce, ClaimingSteps, Requests
<1>2. row \in Row /\ row.by = q.ask
  BY <1>1 DEF Row, Requests
<1>3. r = [q EXCEPT !.added = q.added \cup {row}]
  BY DEF P!Saving, Requests
<1>4. IsFiniteSet(q.added \cup {row})
  <2>1. IsFiniteSet(q.added)
    BY DEF AsksOnce
  <2> HIDE DEF row
  <2> QED BY <2>1, FS_AddElement
<1> HIDE DEF row
<1>5. /\ r \in Requests /\ r.at = q.at /\ r.ask = q.ask /\ r.moment = q.moment
      /\ r.todo = q.todo /\ r.answers = q.answers /\ r.added = q.added \cup {row}
  BY <1>2, <1>3 DEF Requests
<1>6. AsksOnce(r)
  BY <1>2, <1>4, <1>5 DEF AsksOnce
<1> QED BY <1>5, <1>6 DEF row

\* A request goes on without any new answer or row.
LEMMA OnwardGoesOn ==
  ASSUME NEW q \in Requests, AsksOnce(q), q.at \in ClaimingSteps, NEW r, r = P!Onward(q)
  PROVE  /\ r \in Requests /\ AsksOnce(r) /\ r.at \in {"look", "commit", "idle"}
         /\ r.at # "idle" => r.moment = q.moment
         /\ \A k : Ahead(r, k) => Ahead(q, k)
         /\ \A k \in P!AllKeys : r.answers[k] \in {0, q.answers[k]}
         /\ r.added \subseteq q.added
<1>1. q.todo \in Seq(P!AllKeys) /\ q.todo # <<>> /\ q.ask # None
  BY DEF AsksOnce, Requests, ClaimingSteps
<1>2. /\ Tail(q.todo) \in Seq(P!AllKeys) /\ (Len(q.todo) > 1 => Tail(q.todo) # <<>>)
      /\ \A i, j \in DOMAIN Tail(q.todo) : Tail(q.todo)[i] = Tail(q.todo)[j] => i = j
      /\ \A i \in DOMAIN Tail(q.todo) : i + 1 \in DOMAIN q.todo /\ i + 1 # 1 /\ Tail(q.todo)[i] = q.todo[i + 1]
  BY <1>1, OneHourLess DEF AsksOnce
<1>3. CASE Len(q.todo) > 1 /\ q.ask = "demand"
  <2>1. r = [q EXCEPT !.at = "look", !.todo = Tail(q.todo)]
    BY <1>3 DEF P!Onward, Requests
  <2>2. /\ r \in Requests /\ r.at = "look" /\ r.todo = Tail(q.todo) /\ r.moment = q.moment /\ r.added = q.added
        /\ r.answers = q.answers /\ r.ask = q.ask
    BY <1>2, <2>1 DEF Requests, AskingSteps
  <2>3. AsksOnce(r)
    BY <1>1, <1>2, <1>3, <2>2 DEF AsksOnce, AskingSteps, ClaimingSteps
  <2>4. \A k : Ahead(r, k) => Ahead(q, k)
    BY <1>2, <2>2 DEF Ahead, AskingSteps, ClaimingSteps
  <2> QED BY <2>2, <2>3, <2>4
<1>4. CASE ~(Len(q.todo) > 1 /\ q.ask = "demand") /\ q.added # {}
  <2>1. r = [q EXCEPT !.at = "commit"]
    BY <1>4 DEF P!Onward
  <2>2. /\ r \in Requests /\ r.at = "commit" /\ r.todo = q.todo /\ r.moment = q.moment /\ r.added = q.added
        /\ r.answers = q.answers /\ r.ask = q.ask
    BY <2>1 DEF Requests
  <2>3. AsksOnce(r)
    BY <1>1, <2>2 DEF AsksOnce, AskingSteps, ClaimingSteps
  <2>4. \A k : ~Ahead(r, k)
    BY <2>2 DEF Ahead, AskingSteps, ClaimingSteps
  <2> QED BY <2>2, <2>3, <2>4
<1>5. CASE ~(Len(q.todo) > 1 /\ q.ask = "demand") /\ q.added = {}
  <2>1. r = P!Idle
    BY <1>5 DEF P!Onward
  <2> QED BY <2>1, IdleAsksNothing DEF Ahead, AskingSteps, ClaimingSteps
<1> QED BY <1>3, <1>4, <1>5

\* The one that claims a forecast is the first to write it, or it is let write it.
LEMMA ClaimKeeps ==
  ASSUME P!HomesAreProcesses, ForecastInv, NEW t \in Thread, P!Claim(t)
  PROVE  ForecastInv'
<1> USE DEF ForecastInv
<1> DEFINE q == thread[t]
           f0 == P!Forecast(t)
<1>1. /\ q \in Requests /\ AsksOnce(q) /\ P!At(t, "claim") /\ q.at \in ClaimingSteps /\ q.ask # "smart"
      /\ q.todo \in Seq(P!AllKeys) /\ q.todo # <<>> /\ UNCHANGED <<clock, rows, fleet, stats>>
  BY DEF ForecastTypes, Requests, AsksOnce, ClaimingSteps, P!Claim, P!At, P!fleetVars
<1>2. f0[1] = Head(q.todo) /\ f0[2] = q.answers[f0[1]] /\ f0[1] \in P!AllKeys /\ f0[2] # 0 /\ f0 \in Forecasts
      /\ f0 = <<f0[1], f0[2]>> /\ f0 \in P!AllKeys \X Nat
  BY <1>1, OneHourLess DEF P!Forecast, AsksOnce, Forecasts, Requests
<1>3. Seen(f0)
  BY <1>2 DEF Seen
<1>4. Home[t] \in Process /\ own[Home[t]] \in P!Store /\ redis \in P!Store
  BY DEF P!HomesAreProcesses, ForecastTypes
<1> HIDE DEF f0
<1>5. CASE P!Claimable(P!Read(Home[t]), f0)
  <2> DEFINE saved == P!Saving(q, f0[1])
             r == P!Onward(saved)
  <2>1. /\ IF up THEN redis' = [redis EXCEPT !.claims = redis.claims \cup {f0}] /\ own' = own
                 ELSE own' = [own EXCEPT ![Home[t]] = [own[Home[t]] EXCEPT !.claims = own[Home[t]].claims \cup {f0}]]
                      /\ redis' = redis
        /\ loose' = IF up THEN loose ELSE loose \cup {f0}
        /\ thread' = [thread EXCEPT ![t] = r]
    BY <1>4, <1>5 DEF P!Claim, P!SetOne, P!Goes, f0
  <2>2. /\ saved \in Requests /\ AsksOnce(saved) /\ saved.at = q.at /\ saved.moment = q.moment
        /\ saved.todo = q.todo /\ saved.answers = q.answers
        /\ saved.added = q.added \cup {[key |-> f0[1], moment |-> f0[2], by |-> q.ask]}
    BY <1>1, <1>2, SavingAdds
  <2>3. /\ r \in Requests /\ AsksOnce(r) /\ r.at \in {"look", "commit", "idle"}
        /\ r.at # "idle" => r.moment = q.moment
        /\ \A k : Ahead(r, k) => Ahead(saved, k)
        /\ \A k \in P!AllKeys : r.answers[k] \in {0, q.answers[k]}
        /\ r.added \subseteq q.added \cup {[key |-> f0[1], moment |-> f0[2], by |-> q.ask]}
    <3> HIDE DEF saved
    <3> QED BY <1>1, <2>2, OnwardGoesOn
  <2>4. \A k : Ahead(saved, k) => Ahead(q, k)
    BY <2>2 DEF Ahead
  <2> HIDE DEF r, saved
  <2>5. thread' \in [Thread -> Requests] /\ thread'[t] = r /\ \A u \in Thread \ {t} : thread'[u] = thread[u]
    BY <2>1, <2>3 DEF ForecastTypes
  <2>6. /\ redis' \in P!Store /\ own' \in [Process -> P!Store] /\ redis.claims \subseteq redis'.claims
        /\ \A f : P!Kept(f)' <=> P!Kept(f)
    <3>1. \A c \in SUBSET (P!AllKeys \X Nat), s \in P!Store :
            [s EXCEPT !.claims = c] \in P!Store /\ [s EXCEPT !.claims = c].claims = c
            /\ [s EXCEPT !.claims = c].answers = s.answers
      BY StoresAreStores
    <3>2. \A s \in P!Store : s.claims \cup {f0} \in SUBSET (P!AllKeys \X Nat)
      BY <1>2 DEF P!Store
    <3>3. CASE up
      <4>1. redis' = [redis EXCEPT !.claims = redis.claims \cup {f0}] /\ own' = own
        BY <2>1, <3>3
      <4>2. redis' \in P!Store /\ redis'.claims = redis.claims \cup {f0} /\ redis'.answers = redis.answers
        BY <1>4, <3>1, <3>2, <4>1
      <4> QED BY <4>1, <4>2 DEF P!Kept, ForecastTypes
    <3>4. CASE ~up
      <4> DEFINE mine == [own[Home[t]] EXCEPT !.claims = own[Home[t]].claims \cup {f0}]
      <4>1. own' = [own EXCEPT ![Home[t]] = mine] /\ redis' = redis
        BY <2>1, <3>4
      <4>2. mine \in P!Store /\ mine.answers = own[Home[t]].answers
        BY <1>4, <3>1, <3>2
      <4> HIDE DEF mine
      <4>3. own' \in [Process -> P!Store] /\ \A p \in Process : own'[p].answers = own[p].answers
        BY <1>4, <4>1, <4>2 DEF ForecastTypes
      <4> QED BY <4>1, <4>3 DEF P!Kept, ForecastTypes
    <3> QED BY <3>3, <3>4
  <2>7. f0 \in loose' \/ (f0 \in redis'.claims /\ ~HasRow(f0))
    <3>1. CASE ~up \/ f0 \in loose
      BY <2>1, <3>1
    <3>2. CASE up /\ f0 \notin loose
      <4>1. f0 \notin redis.claims
        BY <1>5, <3>2 DEF P!Claimable, P!Read
      <4>2. ~HasRow(f0)
        BY <1>1, <1>2, <3>2, <4>1 DEF Settled, f0
      <4>3. f0 \in redis'.claims
        BY <1>4, <2>1, <3>2 DEF P!Store
      <4> QED BY <4>2, <4>3
    <3> QED BY <3>1, <3>2
  <2>8. \A row \in thread'[t].added : row \in thread[t].added \/ row.by = "smart" \/
          LET f == <<row.key, row.moment>> IN Seen(f) /\ (f \in loose' \/ (f \in redis'.claims /\ ~HasRow(f)))
    <3> SUFFICES ASSUME NEW row \in thread'[t].added, row \notin q.added
                 PROVE  LET f == <<row.key, row.moment>> IN Seen(f) /\ (f \in loose' \/ (f \in redis'.claims /\ ~HasRow(f)))
      OBVIOUS
    <3>1. row = [key |-> f0[1], moment |-> f0[2], by |-> q.ask]
      BY <2>3, <2>5
    <3>2. <<row.key, row.moment>> = f0
      BY <1>2, <3>1
    <3> QED BY <1>3, <2>7, <3>2
  <2>9. ForecastTypes' /\ loose \subseteq loose'
    BY <1>1, <2>1, <2>5, <2>6 DEF ForecastTypes
  <2> QED BY <1>1, <2>3, <2>4, <2>5, <2>6, <2>8, <2>9, OwnStepKeeps DEF P!At, ClaimingSteps
<1>6. CASE ~P!Claimable(P!Read(Home[t]), f0)
  <2> DEFINE r == [q EXCEPT !.at = "poll", !.looks = 0]
  <2>1. thread' = [thread EXCEPT ![t] = r] /\ UNCHANGED <<redis, own, loose>>
    BY <1>6 DEF P!Claim, P!Goes, P!cacheVars, f0
  <2>2. /\ r \in Requests /\ r.at = "poll" /\ r.ask = q.ask /\ r.moment = q.moment /\ r.todo = q.todo
        /\ r.answers = q.answers /\ r.added = q.added
    BY <1>1 DEF Requests, ClaimingSteps
  <2> HIDE DEF r
  <2>3. thread' \in [Thread -> Requests] /\ thread'[t] = r /\ \A u \in Thread \ {t} : thread'[u] = thread[u]
    BY <2>1, <2>2 DEF ForecastTypes
  <2>4. AsksOnce(r) /\ \A k : Ahead(r, k) => Ahead(q, k)
    BY <1>1, <2>2 DEF AsksOnce, Ahead, AskingSteps, ClaimingSteps
  <2>5. ForecastTypes' /\ \A f : P!Kept(f)' <=> P!Kept(f)
    BY <1>1, <2>1, <2>3 DEF ForecastTypes, P!Kept
  <2> QED BY <1>1, <2>1, <2>2, <2>3, <2>4, <2>5, OwnStepKeeps DEF P!At, ClaimingSteps
<1> QED BY <1>5, <1>6

\* The one that looks for a row writes it in the end, which is then loose.
LEMMA PollKeeps ==
  ASSUME ForecastInv, NEW t \in Thread, P!Poll(t)
  PROVE  ForecastInv'
<1> USE DEF ForecastInv
<1> DEFINE q == thread[t]
           f0 == P!Forecast(t)
<1>1. /\ q \in Requests /\ AsksOnce(q) /\ P!At(t, "poll") /\ q.at \in ClaimingSteps
      /\ q.todo \in Seq(P!AllKeys) /\ q.todo # <<>> /\ UNCHANGED <<clock, rows, redis, own, fleet, stats>>
  BY DEF ForecastTypes, Requests, AsksOnce, ClaimingSteps, P!Poll, P!At, P!fleetVars, P!cacheVars
<1>2. f0[1] = Head(q.todo) /\ f0[2] = q.answers[f0[1]] /\ f0[1] \in P!AllKeys /\ f0[2] # 0 /\ f0 \in Forecasts
      /\ f0 = <<f0[1], f0[2]>>
  BY <1>1, OneHourLess DEF P!Forecast, AsksOnce, Forecasts, Requests
<1>3. Seen(f0)
  BY <1>2 DEF Seen
<1> HIDE DEF f0
<1> DEFINE saved == P!Saving(q, f0[1])
<1>4. /\ saved \in Requests /\ AsksOnce(saved) /\ saved.at = q.at /\ saved.moment = q.moment
      /\ saved.todo = q.todo /\ saved.answers = q.answers
      /\ saved.added = q.added \cup {[key |-> f0[1], moment |-> f0[2], by |-> q.ask]}
  BY <1>1, <1>2, SavingAdds
<1>5. \E r : /\ thread' = [thread EXCEPT ![t] = r]
             /\ r \in Requests /\ AsksOnce(r) /\ r.at # "claim"
             /\ r.at # "idle" => r.moment = q.moment
             /\ \A k : Ahead(r, k) => Ahead(q, k)
             /\ \A k \in P!AllKeys : r.answers[k] \in {0, q.answers[k]}
             /\ \/ r.added \subseteq q.added /\ loose' = loose
                \/ /\ r.added \subseteq q.added \cup {[key |-> f0[1], moment |-> f0[2], by |-> q.ask]}
                   /\ loose' = loose \cup {f0}
  <2>1. CASE P!Goes(t, P!Onward(q)) /\ loose' = loose
    <3>1. thread' = [thread EXCEPT ![t] = P!Onward(q)]
      BY <2>1 DEF P!Goes
    <3> QED BY <1>1, <2>1, <3>1, OnwardGoesOn
  <2>2. CASE P!Goes(t, [q EXCEPT !.looks = @ + 1]) /\ loose' = loose
    <3> DEFINE r == [q EXCEPT !.looks = q.looks + 1]
    <3>1. thread' = [thread EXCEPT ![t] = r]
      BY <1>1, <2>2 DEF P!Goes, Requests
    <3>2. q.at = "poll" /\ q.looks + 1 \in Nat
      BY <1>1 DEF Requests, P!At
    <3>3. /\ r \in Requests /\ r.at = "poll" /\ r.ask = q.ask /\ r.moment = q.moment /\ r.todo = q.todo
          /\ r.answers = q.answers /\ r.added = q.added
      BY <1>1, <3>2 DEF Requests
    <3> HIDE DEF r
    <3>4. AsksOnce(r) /\ \A k : Ahead(r, k) => Ahead(q, k)
      BY <1>1, <3>2, <3>3 DEF AsksOnce, Ahead, AskingSteps, ClaimingSteps
    <3> QED BY <2>2, <3>1, <3>3, <3>4
  <2>3. CASE P!Goes(t, P!Onward(saved)) /\ loose' = loose \cup {f0}
    <3>1. thread' = [thread EXCEPT ![t] = P!Onward(saved)]
      BY <2>3 DEF P!Goes
    <3>2. \A k : Ahead(saved, k) => Ahead(q, k)
      BY <1>4 DEF Ahead
    <3> DEFINE r == P!Onward(saved)
    <3>3. /\ r \in Requests /\ AsksOnce(r) /\ r.at \in {"look", "commit", "idle"}
          /\ r.at # "idle" => r.moment = q.moment
          /\ \A k : Ahead(r, k) => Ahead(saved, k)
          /\ \A k \in P!AllKeys : r.answers[k] \in {0, q.answers[k]}
          /\ r.added \subseteq q.added \cup {[key |-> f0[1], moment |-> f0[2], by |-> q.ask]}
      <4> HIDE DEF saved
      <4> QED BY <1>1, <1>4, OnwardGoesOn
    <3> HIDE DEF r, saved
    <3> QED BY <2>3, <3>1, <3>2, <3>3 DEF r
  <2> QED BY <2>1, <2>2, <2>3 DEF P!Poll, f0
<1>6. PICK r : /\ thread' = [thread EXCEPT ![t] = r]
               /\ r \in Requests /\ AsksOnce(r) /\ r.at # "claim"
               /\ r.at # "idle" => r.moment = q.moment
               /\ \A k : Ahead(r, k) => Ahead(q, k)
               /\ \A k \in P!AllKeys : r.answers[k] \in {0, q.answers[k]}
               /\ \/ r.added \subseteq q.added /\ loose' = loose
                  \/ /\ r.added \subseteq q.added \cup {[key |-> f0[1], moment |-> f0[2], by |-> q.ask]}
                     /\ loose' = loose \cup {f0}
  BY <1>5
<1>7. thread' \in [Thread -> Requests] /\ thread'[t] = r /\ \A u \in Thread \ {t} : thread'[u] = thread[u]
  BY <1>6 DEF ForecastTypes
<1>8. \A row \in thread'[t].added : row \in thread[t].added \/ row.by = "smart" \/
        LET f == <<row.key, row.moment>> IN Seen(f) /\ (f \in loose' \/ (f \in redis'.claims /\ ~HasRow(f)))
  <2> SUFFICES ASSUME NEW row \in thread'[t].added, row \notin q.added
               PROVE  LET f == <<row.key, row.moment>> IN Seen(f) /\ f \in loose'
    OBVIOUS
  <2>1. row = [key |-> f0[1], moment |-> f0[2], by |-> q.ask] /\ f0 \in loose'
    BY <1>6, <1>7
  <2>2. <<row.key, row.moment>> = f0
    BY <1>2, <2>1
  <2> QED BY <1>3, <2>1, <2>2
<1>9. ForecastTypes' /\ loose \subseteq loose' /\ \A f : P!Kept(f)' <=> P!Kept(f)
  BY <1>1, <1>6, <1>7 DEF ForecastTypes, P!Kept
<1> QED BY <1>1, <1>6, <1>7, <1>8, <1>9, OwnStepKeeps DEF P!At, ClaimingSteps

\* The rows of recommendations do not count.
LEMMA ClaimTripleKeeps ==
  ASSUME P!HomesAreProcesses, ForecastInv, NEW t \in Thread, P!ClaimTriple(t)
  PROVE  ForecastInv'
<1> USE DEF ForecastInv
<1> DEFINE q == thread[t]
<1>1. /\ q \in Requests /\ AsksOnce(q) /\ P!At(t, "claim") /\ q.at \in ClaimingSteps /\ q.ask = "smart"
      /\ UNCHANGED <<clock, rows, fleet, stats, loose>>
  BY DEF ForecastTypes, Requests, ClaimingSteps, P!ClaimTriple, P!At, P!fleetVars
<1>2. Home[t] \in Process /\ own[Home[t]] \in P!Store /\ redis \in P!Store
  BY DEF P!HomesAreProcesses, ForecastTypes
<1> DEFINE one == P!Saving(q, "crowd")
           both == P!Saving(one, "delay")
<1>3. /\ both \in Requests /\ AsksOnce(both) /\ both.at = q.at /\ both.moment = q.moment
      /\ both.todo = q.todo /\ both.answers = q.answers
      /\ \A row \in both.added : row \in q.added \/ row.by = "smart"
  <2>1. "crowd" \in P!AllKeys /\ "delay" \in P!AllKeys
    BY DEF P!AllKeys
  <2>2. /\ one \in Requests /\ AsksOnce(one) /\ one.at = q.at /\ one.moment = q.moment /\ one.ask = "smart"
        /\ one.todo = q.todo /\ one.answers = q.answers
        /\ one.added = q.added \cup {[key |-> "crowd", moment |-> q.answers["crowd"], by |-> "smart"]}
    BY <1>1, <2>1, SavingAdds
  <2> HIDE DEF one
  <2>3. /\ both \in Requests /\ AsksOnce(both) /\ both.at = q.at /\ both.moment = q.moment
        /\ both.todo = q.todo /\ both.answers = q.answers
        /\ both.added = one.added \cup {[key |-> "delay", moment |-> one.answers["delay"], by |-> "smart"]}
    BY <1>1, <2>1, <2>2, SavingAdds
  <2> QED BY <2>2, <2>3
<1> DEFINE r == P!Onward(both)
<1>4. /\ r \in Requests /\ AsksOnce(r) /\ r.at \in {"look", "commit", "idle"}
      /\ r.at # "idle" => r.moment = q.moment
      /\ \A k : Ahead(r, k) => Ahead(q, k)
      /\ \A k \in P!AllKeys : r.answers[k] \in {0, q.answers[k]}
      /\ \A row \in r.added : row \in q.added \/ row.by = "smart"
  <2> HIDE DEF both
  <2>1. \A k : Ahead(both, k) => Ahead(q, k)
    BY <1>3 DEF Ahead
  <2>2. /\ r \in Requests /\ AsksOnce(r) /\ r.at \in {"look", "commit", "idle"}
        /\ r.at # "idle" => r.moment = both.moment
        /\ \A k : Ahead(r, k) => Ahead(both, k)
        /\ \A k \in P!AllKeys : r.answers[k] \in {0, both.answers[k]}
        /\ r.added \subseteq both.added
    BY <1>1, <1>3, OnwardGoesOn
  <2> HIDE DEF r
  <2> QED BY <1>3, <2>1, <2>2
<1>5. \/ thread' = [thread EXCEPT ![t] = P!Idle] /\ UNCHANGED <<redis, own>>
      \/ /\ thread' = [thread EXCEPT ![t] = r]
         /\ IF up THEN redis' = [redis EXCEPT !.triple = TRUE] /\ own' = own
                  ELSE own' = [own EXCEPT ![Home[t]] = [own[Home[t]] EXCEPT !.triple = TRUE]] /\ redis' = redis
  BY <1>2 DEF P!ClaimTriple, P!Goes, P!SetOne, P!cacheVars
<1> HIDE DEF r
<1>6. redis' \in P!Store /\ own' \in [Process -> P!Store] /\ redis.claims \subseteq redis'.claims /\ \A f : P!Kept(f)' <=> P!Kept(f)
  <2>1. \A s \in P!Store : /\ [s EXCEPT !.triple = TRUE] \in P!Store /\ [s EXCEPT !.triple = TRUE].claims = s.claims
                         /\ [s EXCEPT !.triple = TRUE].answers = s.answers
    BY StoresAreStores
  <2>2. redis' \in P!Store /\ redis'.claims = redis.claims /\ redis'.answers = redis.answers
    BY <1>2, <1>5, <2>1
  <2> DEFINE mine == [own[Home[t]] EXCEPT !.triple = TRUE]
  <2>3. mine \in P!Store /\ mine.answers = own[Home[t]].answers
    BY <1>2, <2>1
  <2>4. own' = own \/ own' = [own EXCEPT ![Home[t]] = mine]
    BY <1>5
  <2> HIDE DEF mine
  <2>5. own' \in [Process -> P!Store] /\ \A p \in Process : own'[p].answers = own[p].answers
    BY <1>2, <2>3, <2>4 DEF ForecastTypes
  <2> QED BY <2>2, <2>5 DEF P!Kept
<1>7. CASE thread' = [thread EXCEPT ![t] = r]
  <2>1. thread' \in [Thread -> Requests] /\ thread'[t] = r /\ \A u \in Thread \ {t} : thread'[u] = thread[u]
    BY <1>4, <1>7 DEF ForecastTypes
  <2>2. ForecastTypes'
    BY <1>1, <1>6, <2>1 DEF ForecastTypes
  <2> QED BY <1>1, <1>4, <1>6, <2>1, <2>2, OwnStepKeeps DEF P!At
<1>8. CASE thread' = [thread EXCEPT ![t] = P!Idle]
  <2>1. thread' \in [Thread -> Requests] /\ thread'[t] = P!Idle /\ \A u \in Thread \ {t} : thread'[u] = thread[u]
    BY <1>8, IdleAsksNothing DEF ForecastTypes
  <2>2. ForecastTypes' /\ \A k : ~Ahead(P!Idle, k)
    BY <1>1, <1>6, <2>1, IdleAsksNothing DEF ForecastTypes, Ahead, AskingSteps, ClaimingSteps
  <2> QED BY <1>1, <1>6, <2>1, <2>2, IdleAsksNothing, OwnStepKeeps DEF P!At
<1> QED BY <1>5, <1>7, <1>8
-------------------------------------------------------------------------------
\* An answer found in a cache is met there.
LEMMA LookKeeps ==
  ASSUME P!HomesAreProcesses, ForecastInv, NEW t \in Thread, P!Look(t)
  PROVE  ForecastInv'
<1> USE DEF ForecastInv
<1> DEFINE q == thread[t]
           k0 == Head(q.todo)
           m == P!Read(Home[t]).answers[k0]
<1>1. /\ q \in Requests /\ AsksOnce(q) /\ q.at = "look" /\ q.at \in AskingSteps
      /\ q.todo \in Seq(P!AllKeys) /\ q.todo # <<>> /\ UNCHANGED <<clock, rows, redis, own, fleet, stats, loose>>
  BY DEF ForecastTypes, Requests, AsksOnce, AskingSteps, P!Look, P!At, P!fleetVars, P!cacheVars
<1>2. k0 \in P!AllKeys
  BY <1>1, OneHourLess DEF AsksOnce
<1>3. m \in Nat /\ (m # 0 => P!Kept(<<k0, m>>))
  <2>1. Home[t] \in Process /\ own[Home[t]] \in P!Store /\ redis \in P!Store
    BY DEF P!HomesAreProcesses, ForecastTypes
  <2>2. P!Read(Home[t]) \in {redis} \cup {own[p] : p \in Process} /\ P!Read(Home[t]) \in P!Store
    BY <2>1 DEF P!Read
  <2> QED BY <1>2, <2>2 DEF P!Kept, P!Store
<1>4. \A f : P!Kept(f)' <=> P!Kept(f)
  BY <1>1 DEF P!Kept
<1>5. CASE m # 0
  <2> DEFINE r == P!Answered(t, m)
  <2>1. thread' = [thread EXCEPT ![t] = r]
    BY <1>5 DEF P!Look, P!Goes
  <2>2. /\ r \in Requests /\ AsksOnce(r) /\ r.at # "idle"
        /\ r.moment = q.moment /\ r.added = q.added
        /\ \A k : Ahead(r, k) => Ahead(q, k) /\ k # k0
        /\ \A k \in P!AllKeys : r.answers[k] = IF k = k0 THEN m ELSE q.answers[k]
        /\ r.at = "claim" /\ r.ask # "smart" => r.todo = q.todo
    BY <1>1, <1>3, <1>5, AnsweredGoesOn
  <2> HIDE DEF r, m
  <2>3. thread' \in [Thread -> Requests] /\ thread'[t] = r /\ \A u \in Thread \ {t} : thread'[u] = thread[u]
    BY <2>1, <2>2 DEF ForecastTypes
  <2>4. ForecastTypes'
    BY <1>1, <2>3 DEF ForecastTypes
  <2>5. P!At(t, "claim")' /\ thread'[t].ask # "smart" => P!Kept(P!Forecast(t)')
    <3> SUFFICES ASSUME r.at = "claim", r.ask # "smart" PROVE P!Kept(P!Forecast(t)')
      BY <2>3 DEF P!At
    <3>1. P!Forecast(t)' = <<k0, m>>
      BY <1>2, <2>2, <2>3 DEF P!Forecast
    <3> QED BY <1>3, <1>5, <3>1
  <2>6. \A k \in P!AllKeys : thread'[t].answers[k] \in {0, q.answers[k]} \/ P!Kept(<<k, thread'[t].answers[k]>>)
    BY <1>3, <1>5, <2>2, <2>3
  <2> QED BY <1>1, <1>4, <2>2, <2>3, <2>4, <2>5, <2>6, OwnStepKeeps
<1>6. CASE m = 0
  <2>1. PICK where \in {"stats", "put"} : thread' = [thread EXCEPT ![t] = [q EXCEPT !.at = where]]
    BY <1>6 DEF P!Look, P!Goes
  <2> DEFINE r == [q EXCEPT !.at = where]
  <2>2. /\ r \in Requests /\ r.at = where /\ r.ask = q.ask /\ r.moment = q.moment /\ r.todo = q.todo
        /\ r.answers = q.answers /\ r.added = q.added /\ where \in AskingSteps /\ where # "idle" /\ where # "claim"
    BY <1>1 DEF Requests, AskingSteps
  <2>3. thread' = [thread EXCEPT ![t] = r]
    BY <2>1
  <2> HIDE DEF r
  <2>4. thread' \in [Thread -> Requests] /\ thread'[t] = r /\ \A u \in Thread \ {t} : thread'[u] = thread[u]
    BY <2>2, <2>3 DEF ForecastTypes
  <2>5. AsksOnce(r) /\ \A k : Ahead(r, k) => Ahead(q, k)
    BY <1>1, <2>2 DEF AsksOnce, Ahead, AskingSteps, ClaimingSteps
  <2>6. ForecastTypes'
    BY <1>1, <2>4 DEF ForecastTypes
  <2> QED BY <1>1, <1>4, <2>2, <2>4, <2>5, <2>6, OwnStepKeeps DEF P!At
<1> QED BY <1>5, <1>6

\* Steps about the statistics or a train: they leave the request's answers as they are.
LEMMA StatsStepKeeps ==
  ASSUME ForecastInv, NEW t \in Thread, ~P!At(t, "idle"),
         NEW where \in AskingSteps \cup {"delete", "clear"}, NEW v \in Nat \cup {None},
         where \in AskingSteps => thread[t].at \in AskingSteps,
         thread' = [thread EXCEPT ![t] = [thread[t] EXCEPT !.at = where, !.found = v]],
         UNCHANGED <<clock, rows, loose>>,
         redis' \in P!Store, own' \in [Process -> P!Store], fleet' \in Nat, stats' \in [Process -> Nat \cup {None}],
         redis'.claims = redis.claims, \A f : P!Kept(f)' => P!Kept(f)
  PROVE  ForecastInv'
<1> USE DEF ForecastInv
<1> DEFINE q == thread[t]
           r == [q EXCEPT !.at = where, !.found = v]
<1>1. q \in Requests /\ AsksOnce(q) /\ q.at # "idle"
  BY DEF ForecastTypes, P!At
<1>2. /\ r \in Requests /\ r.at = where /\ r.ask = q.ask /\ r.moment = q.moment /\ r.todo = q.todo
      /\ r.answers = q.answers /\ r.added = q.added
  BY <1>1 DEF Requests
<1> HIDE DEF r
<1>3. thread' \in [Thread -> Requests] /\ thread'[t] = r /\ \A u \in Thread \ {t} : thread'[u] = thread[u]
  BY <1>2 DEF ForecastTypes, r
<1>4. where \notin ClaimingSteps /\ where # "idle" /\ where # "claim"
  BY DEF AskingSteps, ClaimingSteps
<1>5. AsksOnce(r) /\ \A k : Ahead(r, k) => Ahead(q, k)
  BY <1>1, <1>2, <1>4 DEF AsksOnce, Ahead
<1>6. ForecastTypes'
  BY <1>3 DEF ForecastTypes
<1> QED BY <1>1, <1>2, <1>3, <1>4, <1>5, <1>6, OwnStepKeeps DEF P!At

\* A step that finds nothing keeps what the request has found.
LEMMA FoundStays ==
  ASSUME NEW q \in Requests, NEW where
  PROVE  [q EXCEPT !.at = where] = [q EXCEPT !.at = where, !.found = q.found] /\ q.found \in Nat \cup {None}
BY DEF Requests

\* The statistics are kept beside the answers and the claims.
LEMMA StatsAreBeside ==
  ASSUME P!HomesAreProcesses, ForecastTypes, NEW t \in Thread, NEW v \in Nat \cup {None},
         P!SetBoth(Home[t], [s \in P!Store |-> [s EXCEPT !.stats = v]])
  PROVE  redis' \in P!Store /\ own' \in [Process -> P!Store] /\ redis'.claims = redis.claims /\ \A f : P!Kept(f)' => P!Kept(f)
<1>1. Home[t] \in Process /\ own[Home[t]] \in P!Store /\ redis \in P!Store
  BY DEF P!HomesAreProcesses, ForecastTypes
<1>2. \A s \in P!Store : /\ [s EXCEPT !.stats = v] \in P!Store /\ [s EXCEPT !.stats = v].claims = s.claims
                       /\ [s EXCEPT !.stats = v].answers = s.answers
  BY StoresAreStores
<1> DEFINE mine == [own[Home[t]] EXCEPT !.stats = v]
<1>3. /\ own' = [own EXCEPT ![Home[t]] = mine]
      /\ redis' = redis \/ redis' = [redis EXCEPT !.stats = v]
  BY <1>1 DEF P!SetBoth
<1>4. mine \in P!Store /\ mine.answers = own[Home[t]].answers
  BY <1>1, <1>2
<1> HIDE DEF mine
<1>5. redis' \in P!Store /\ redis'.claims = redis.claims /\ redis'.answers = redis.answers
  BY <1>1, <1>2, <1>3
<1>6. own' \in [Process -> P!Store] /\ \A p \in Process : own'[p].answers = own[p].answers
  BY <1>1, <1>3, <1>4 DEF ForecastTypes
<1> QED BY <1>5, <1>6 DEF P!Kept

\* Steps about the statistics touch neither answers nor rows.
LEMMA StatsStepsKeep ==
  ASSUME P!HomesAreProcesses, ForecastInv, NEW t \in Thread,
         P!TestStats(t) \/ P!TakeStats(t) \/ P!QueryStats(t) \/ P!KeepStats(t) \/ P!CommitTrain(t) \/ P!DeleteStats(t)
  PROVE  ForecastInv'
<1> DEFINE q == thread[t]
           To(where, v) == thread' = [thread EXCEPT ![t] = [q EXCEPT !.at = where, !.found = v]]
<1>1. /\ q \in Requests /\ ForecastTypes /\ ~P!At(t, "idle") /\ UNCHANGED <<clock, rows, loose>>
      /\ Home[t] \in Process /\ redis \in P!Store /\ own \in [Process -> P!Store] /\ own[Home[t]] \in P!Store
  BY DEF ForecastInv, ForecastTypes, P!HomesAreProcesses, P!At, P!TestStats, P!TakeStats, P!QueryStats, P!KeepStats, P!CommitTrain, P!DeleteStats
<1>2. \A where : [q EXCEPT !.at = where] = [q EXCEPT !.at = where, !.found = q.found]
  BY <1>1, FoundStays
<1>3. q.found \in Nat \cup {None}
  BY <1>1, FoundStays
<1>4. UNCHANGED <<redis, own>> => redis' \in P!Store /\ own' \in [Process -> P!Store] /\ redis'.claims = redis.claims
                                  /\ \A f : P!Kept(f)' => P!Kept(f)
  BY <1>1 DEF P!Kept
<1>5. CASE P!TestStats(t)
  <2>1. P!Read(Home[t]).stats \in Nat \cup {None}
    BY <1>1 DEF P!Read, P!Store
  <2>2. PICK where \in {"take", "query", "put"} : thread' = [thread EXCEPT ![t] = [q EXCEPT !.at = where]]
    BY <1>5 DEF P!TestStats, P!Goes
  <2>3. To(where, q.found)
    BY <1>2, <2>2
  <2>4. stats' \in [Process -> Nat \cup {None}] /\ UNCHANGED <<redis, own, fleet>>
    BY <1>1, <1>5, <2>1 DEF P!TestStats, ForecastTypes, P!cacheVars
  <2>5. where \in AskingSteps /\ q.at \in AskingSteps
    BY <1>5 DEF AskingSteps, P!TestStats, P!At
  <2> QED BY <1>1, <1>3, <2>3, <2>4, <2>5, <1>4, StatsStepKeeps DEF ForecastTypes
<1>6. CASE P!TakeStats(t)
  <2>1. To("put", q.found) /\ UNCHANGED <<redis, own, fleet, stats>>
    BY <1>2, <1>6 DEF P!TakeStats, P!Goes, P!cacheVars, P!fleetVars
  <2>2. "put" \in AskingSteps /\ q.at \in AskingSteps
    BY <1>6 DEF AskingSteps, P!TakeStats, P!At
  <2> QED BY <1>1, <1>3, <2>1, <2>2, <1>4, StatsStepKeeps DEF ForecastTypes
<1>7. CASE P!QueryStats(t)
  <2>1. To("keep", fleet) /\ UNCHANGED <<redis, own, fleet, stats>>
    BY <1>7 DEF P!QueryStats, P!Goes, P!cacheVars, P!fleetVars
  <2>2. "keep" \in AskingSteps /\ q.at \in AskingSteps /\ fleet \in Nat \cup {None}
    BY <1>1, <1>7 DEF AskingSteps, P!QueryStats, P!At, ForecastTypes
  <2> QED BY <1>1, <2>1, <2>2, <1>4, StatsStepKeeps DEF ForecastTypes
<1>8. CASE P!KeepStats(t)
  <2>1. To("put", q.found) /\ UNCHANGED fleet
    BY <1>2, <1>8 DEF P!KeepStats, P!Goes
  <2>2. stats' \in [Process -> Nat \cup {None}]
    BY <1>1, <1>3, <1>8 DEF P!KeepStats, ForecastTypes
  <2>3. P!SetBoth(Home[t], [s \in P!Store |-> [s EXCEPT !.stats = q.found]])
    BY <1>8 DEF P!KeepStats
  <2>4. redis' \in P!Store /\ own' \in [Process -> P!Store] /\ redis'.claims = redis.claims /\ \A f : P!Kept(f)' => P!Kept(f)
    BY <1>1, <1>3, <2>3, StatsAreBeside
  <2>5. "put" \in AskingSteps /\ q.at \in AskingSteps
    BY <1>8 DEF AskingSteps, P!KeepStats, P!At
  <2> QED BY <1>1, <1>3, <2>1, <2>2, <2>4, <2>5, StatsStepKeeps DEF ForecastTypes
<1>9. CASE P!CommitTrain(t)
  <2>1. To("delete", q.found) /\ UNCHANGED <<redis, own, stats>> /\ fleet' = fleet + 1
    BY <1>2, <1>9 DEF P!CommitTrain, P!Goes, P!cacheVars
  <2>2. fleet' \in Nat /\ "delete" \notin AskingSteps
    BY <1>1, <2>1 DEF ForecastTypes, AskingSteps
  <2> QED BY <1>1, <1>3, <2>1, <2>2, <1>4, StatsStepKeeps DEF ForecastTypes
<1>10. CASE P!DeleteStats(t)
  <2>1. To("clear", q.found) /\ UNCHANGED <<fleet, stats>>
    BY <1>2, <1>10 DEF P!DeleteStats, P!Goes
  <2>2. P!SetBoth(Home[t], [s \in P!Store |-> [s EXCEPT !.stats = None]])
    BY <1>10 DEF P!DeleteStats
  <2>3. redis' \in P!Store /\ own' \in [Process -> P!Store] /\ redis'.claims = redis.claims /\ \A f : P!Kept(f)' => P!Kept(f)
    BY <1>1, <2>2, StatsAreBeside
  <2>4. "clear" \notin AskingSteps
    BY DEF AskingSteps
  <2> QED BY <1>1, <1>3, <2>1, <2>3, <2>4, StatsStepKeeps DEF ForecastTypes
<1> QED BY <1>5, <1>6, <1>7, <1>8, <1>9, <1>10

\* A request that ends without its rows.
LEMMA EndKeeps ==
  ASSUME ForecastInv, NEW t \in Thread, P!CommitFails(t) \/ P!ClearStats(t)
  PROVE  ForecastInv'
<1> USE DEF ForecastInv
<1>1. /\ thread' = [thread EXCEPT ![t] = P!Idle] /\ UNCHANGED <<clock, redis, own, fleet, rows, loose>>
      /\ stats' \in [Process -> Nat \cup {None}]
  BY DEF P!CommitFails, P!ClearStats, P!Goes, P!cacheVars, P!fleetVars, ForecastTypes
<1>2. thread' \in [Thread -> Requests] /\ thread'[t] = P!Idle /\ \A u \in Thread \ {t} : thread'[u] = thread[u]
  BY <1>1, IdleAsksNothing DEF ForecastTypes
<1>3. ForecastTypes' /\ (\A k : ~Ahead(P!Idle, k)) /\ \A f : P!Kept(f)' <=> P!Kept(f)
  BY <1>1, <1>2, IdleAsksNothing DEF ForecastTypes, Ahead, AskingSteps, ClaimingSteps, P!Kept
<1> QED BY <1>1, <1>2, <1>3, IdleAsksNothing, OwnStepKeeps DEF P!At

\* An answer that is forgotten is kept nowhere more than before.
LEMMA AnswerExpiresKeeps ==
  ASSUME ForecastInv, P!AnswerExpires
  PROVE  ForecastInv'
<1> USE DEF ForecastInv
<1>1. redis \in P!Store /\ own \in [Process -> P!Store] /\ UNCHANGED <<clock, fleet, stats, thread, rows, loose>>
  BY DEF ForecastTypes, P!AnswerExpires, P!fleetVars
<1>2. \A s \in P!Store, k \in P!AllKeys :
        /\ [s EXCEPT !.answers[k] = 0] \in P!Store /\ [s EXCEPT !.answers[k] = 0].claims = s.claims
        /\ \A h \in P!AllKeys : [s EXCEPT !.answers[k] = 0].answers[h] = IF h = k THEN 0 ELSE s.answers[h]
  BY StoresAreStores
<1>3. PICK k \in P!AllKeys :
        \/ \E p \in Process : own' = [own EXCEPT ![p] = [own[p] EXCEPT !.answers[k] = 0]] /\ UNCHANGED redis
        \/ redis' = [redis EXCEPT !.answers[k] = 0] /\ UNCHANGED own
  BY <1>1 DEF P!AnswerExpires
<1>4. CASE redis' = [redis EXCEPT !.answers[k] = 0] /\ UNCHANGED own
  <2>1. /\ redis' \in P!Store /\ redis'.claims = redis.claims
        /\ \A h \in P!AllKeys : redis'.answers[h] = IF h = k THEN 0 ELSE redis.answers[h]
    BY <1>1, <1>2, <1>4
  <2>2. \A f \in Forecasts : P!Kept(f)' => P!Kept(f)
    <3> SUFFICES ASSUME NEW f \in Forecasts, P!Kept(f)' PROVE P!Kept(f)
      OBVIOUS
    <3>1. f[1] \in P!AllKeys /\ f[2] # 0
      BY DEF Forecasts
    <3>2. redis'.answers[f[1]] = f[2] \/ \E p \in Process : own[p].answers[f[1]] = f[2]
      BY <1>4 DEF P!Kept
    <3>3. redis'.answers[f[1]] = f[2] => redis.answers[f[1]] = f[2]
      BY <2>1, <3>1
    <3> QED BY <3>2, <3>3 DEF P!Kept
  <2>3. ForecastTypes'
    BY <1>1, <1>4, <2>1 DEF ForecastTypes
  <2> QED BY <1>1, <2>1, <2>2, <2>3, ElsewhereKeeps
<1>5. ASSUME NEW p \in Process, own' = [own EXCEPT ![p] = [own[p] EXCEPT !.answers[k] = 0]], UNCHANGED redis
      PROVE  ForecastInv'
  <2> DEFINE mine == [own[p] EXCEPT !.answers[k] = 0]
  <2>1. mine \in P!Store /\ \A h \in P!AllKeys : mine.answers[h] = IF h = k THEN 0 ELSE own[p].answers[h]
    BY <1>1, <1>2
  <2>2. own' = [own EXCEPT ![p] = mine]
    BY <1>5
  <2> HIDE DEF mine
  <2>3. /\ own' \in [Process -> P!Store] /\ own'[p] = mine
        /\ \A o \in Process \ {p} : own'[o] = own[o]
    BY <1>1, <2>1, <2>2
  <2>4. \A f \in Forecasts : P!Kept(f)' => P!Kept(f)
    BY <1>1, <1>5, <2>1, <2>3 DEF P!Kept, Forecasts
  <2>5. ForecastTypes'
    BY <1>1, <1>5, <2>3 DEF ForecastTypes
  <2> QED BY <1>1, <1>5, <2>4, <2>5, ElsewhereKeeps
<1> QED BY <1>3, <1>4, <1>5

\* What a store may lose of its other keys.
LEMMA ExpiredStores ==
  ASSUME NEW s \in P!Store, NEW e \in P!Expired(s)
  PROVE  e \in P!Store /\ e.answers = s.answers /\ \A f \in s.claims \ e.claims : ~P!Kept(f)
<1>1. CASE e = [s EXCEPT !.triple = FALSE] \/ e = [s EXCEPT !.stats = None]
  <2>1. /\ [s EXCEPT !.triple = FALSE] \in P!Store /\ [s EXCEPT !.triple = FALSE].claims = s.claims
        /\ [s EXCEPT !.triple = FALSE].answers = s.answers
    BY StoresAreStores
  <2>2. /\ [s EXCEPT !.stats = None] \in P!Store /\ [s EXCEPT !.stats = None].claims = s.claims
        /\ [s EXCEPT !.stats = None].answers = s.answers
    BY StoresAreStores
  <2> QED BY <1>1, <2>1, <2>2
<1>2. ASSUME NEW f \in s.claims, ~P!Kept(f), e = [s EXCEPT !.claims = s.claims \ {f}]
      PROVE  e \in P!Store /\ e.answers = s.answers /\ \A g \in s.claims \ e.claims : ~P!Kept(g)
  <2>1. s.claims \ {f} \in SUBSET (P!AllKeys \X Nat)
    BY DEF P!Store
  <2>2. e \in P!Store /\ e.answers = s.answers /\ e.claims = s.claims \ {f}
    BY <1>2, <2>1, StoresAreStores
  <2> QED BY <1>2, <2>2
<1>3. e \in {[s EXCEPT !.claims = s.claims \ {f}] : f \in {f \in s.claims : ~P!Kept(f)}}
      \/ e = [s EXCEPT !.triple = FALSE] \/ e = [s EXCEPT !.stats = None]
  BY DEF P!Expired, P!Store
<1> QED BY <1>1, <1>2, <1>3

\* The claim of a forecast that expires under a request lets it be written again.
LEMMA ExpiresKeeps ==
  ASSUME ForecastInv, P!Expires
  PROVE  ForecastInv'
<1> USE DEF ForecastInv
<1>1. redis \in P!Store /\ own \in [Process -> P!Store] /\ UNCHANGED <<clock, fleet, stats, thread, rows>>
  BY DEF ForecastTypes, P!Expires
<1>2. ASSUME NEW s \in P!Expired(redis), redis' = s, UNCHANGED own,
             loose' = loose \cup {f \in redis.claims \ s.claims : f \in P!Held}
      PROVE  ForecastInv'
  <2>1. s \in P!Store /\ s.answers = redis.answers /\ \A f \in redis.claims \ s.claims : ~P!Kept(f)
    BY <1>1, ExpiredStores
  <2>2. \A f : P!Kept(f)' <=> P!Kept(f)
    BY <1>2, <2>1 DEF P!Kept
  <2>3. ForecastTypes'
    BY <1>1, <1>2, <2>1 DEF ForecastTypes
  <2>4. \A f \in redis.claims \ redis'.claims : f \in loose' \/
          (~P!Kept(f)' /\ \A t \in Thread : thread[t].todo # <<>> => P!Forecast(t) # f)
    BY <1>2, <2>1, <2>2 DEF P!Held
  <2> QED BY <1>1, <1>2, <2>2, <2>3, <2>4, ElsewhereKeeps
<1>3. ASSUME NEW p \in Process, NEW s \in P!Expired(own[p]), own' = [own EXCEPT ![p] = s], UNCHANGED <<redis, loose>>
      PROVE  ForecastInv'
  <2>1. s \in P!Store /\ s.answers = own[p].answers
    BY <1>1, ExpiredStores
  <2>2. own' \in [Process -> P!Store] /\ \A o \in Process : own'[o].answers = own[o].answers
    BY <1>1, <1>3, <2>1
  <2>3. \A f : P!Kept(f)' <=> P!Kept(f)
    BY <1>3, <2>2 DEF P!Kept
  <2>4. ForecastTypes'
    BY <1>1, <1>3, <2>2 DEF ForecastTypes
  <2> QED BY <1>1, <1>3, <2>3, <2>4, ElsewhereKeeps
<1> QED BY <1>2, <1>3 DEF P!Expires

\* Redis comes and goes, and a process forgets its statistics.
LEMMA OutagesKeep ==
  ASSUME ForecastInv,
         (\E p \in Process : P!StatsExpire(p)) \/ P!RedisFails \/ P!RedisReturns \/ UNCHANGED P!vars
  PROVE  ForecastInv'
<1> USE DEF ForecastInv
<1>1. /\ UNCHANGED <<clock, redis, own, fleet, thread, rows, loose>>
      /\ stats' \in [Process -> Nat \cup {None}]
  BY DEF P!StatsExpire, P!RedisFails, P!RedisReturns, P!vars, P!cacheVars, P!fleetVars, ForecastTypes
<1>2. ForecastTypes' /\ \A f : P!Kept(f)' <=> P!Kept(f)
  BY <1>1 DEF ForecastTypes, P!Kept
<1> QED BY <1>1, <1>2, ElsewhereKeeps

\* Nothing is known of any forecast before the first request.
LEMMA ForecastInit ==
  ASSUME P!Init
  PROVE  ForecastInv
<1>1. P!Empty \in P!Store /\ P!Empty.answers = P!NoAnswers /\ P!Empty.claims = {}
  BY IdleAsksNothing DEF P!Empty, P!Store
<1>2. /\ clock = 0 /\ redis = P!Empty /\ own = [p \in Process |-> P!Empty] /\ fleet = 0
      /\ stats = [p \in Process |-> None] /\ thread = [t \in Thread |-> P!Idle] /\ rows = <<>>
  BY DEF P!Init
<1>3. ForecastTypes
  BY <1>1, <1>2, IdleAsksNothing DEF ForecastTypes
<1>4. \A t \in Thread : thread[t] = P!Idle /\ P!At(t, "idle")
  BY <1>2, IdleAsksNothing DEF P!At
<1>5. \A f \in Forecasts : ~Seen(f)
  <2>1. \A k \in P!AllKeys : redis.answers[k] = 0 /\ (\A p \in Process : own[p].answers[k] = 0)
                           /\ \A t \in Thread : thread[t].answers[k] = 0
    BY <1>1, <1>2, <1>4, IdleAsksNothing
  <2>2. \A f \in Forecasts : ~HasRow(f)
    BY <1>2, <1>4, IdleAsksNothing DEF HasRow, WrittenRow, AddedRow
  <2> QED BY <2>1, <2>2 DEF Seen, P!Kept, Forecasts
<1>6. (\A t \in Thread : AsksOnce(thread[t])) /\ Moments
  BY <1>4, IdleAsksNothing DEF Moments
<1>7. SeenInTime /\ NotYet
  BY <1>5 DEF SeenInTime, NotYet
<1>8. OneWrites /\ Settled
  BY <1>2, <1>5 DEF OneWrites, P!OneRowPerForecast, Settled, Seen, HasRow
<1> QED BY <1>3, <1>6, <1>7, <1>8 DEF ForecastInv

\* Requests for one forecast write one row of it (_get_or_save_prediction), whatever the
\* number of processes and of requests, unless it is among the loose ones.
THEOREM OneRowAlways ==
  ASSUME P!HomesAreProcesses, P!RequestsAreNamed
  PROVE  P!Init /\ [][P!Next]_P!vars => []P!OneRowPerForecast
<1>1. P!Init => ForecastInv
  BY ForecastInit
<1>2. ForecastInv /\ [P!Next]_P!vars => ForecastInv'
  <2> SUFFICES ASSUME ForecastInv, [P!Next]_P!vars PROVE ForecastInv'
    OBVIOUS
  <2>1. ASSUME NEW t \in Thread, NEW ask \in P!Asks, P!Begin(t, ask) PROVE ForecastInv'
    BY <2>1, BeginKeeps
  <2>2. ASSUME NEW t \in Thread, P!Look(t) PROVE ForecastInv'
    BY <2>2, LookKeeps
  <2>3. ASSUME NEW t \in Thread, P!Put(t) PROVE ForecastInv'
    BY <2>3, PutKeeps
  <2>4. ASSUME NEW t \in Thread,
               P!TestStats(t) \/ P!TakeStats(t) \/ P!QueryStats(t) \/ P!KeepStats(t) \/ P!CommitTrain(t) \/ P!DeleteStats(t)
        PROVE  ForecastInv'
    BY <2>4, StatsStepsKeep
  <2>5. ASSUME NEW t \in Thread, P!Claim(t) PROVE ForecastInv'
    BY <2>5, ClaimKeeps
  <2>6. ASSUME NEW t \in Thread, P!Poll(t) PROVE ForecastInv'
    BY <2>6, PollKeeps
  <2>7. ASSUME NEW t \in Thread, P!ClaimTriple(t) PROVE ForecastInv'
    BY <2>7, ClaimTripleKeeps
  <2>8. ASSUME NEW t \in Thread, P!Commit(t) PROVE ForecastInv'
    BY <2>8, CommitKeeps
  <2>9. ASSUME NEW t \in Thread, P!CommitFails(t) \/ P!ClearStats(t) PROVE ForecastInv'
    BY <2>9, EndKeeps
  <2>10. CASE P!AnswerExpires
    BY <2>10, AnswerExpiresKeeps
  <2>11. CASE P!Expires
    BY <2>11, ExpiresKeeps
  <2>12. CASE (\E p \in Process : P!StatsExpire(p)) \/ P!RedisFails \/ P!RedisReturns \/ UNCHANGED P!vars
    BY <2>12, OutagesKeep
  <2> QED BY <2>1, <2>2, <2>3, <2>4, <2>5, <2>6, <2>7, <2>8, <2>9, <2>10, <2>11, <2>12 DEF P!Next
<1>3. ForecastInv => P!OneRowPerForecast
  BY DEF ForecastInv, OneWrites
<1> QED BY <1>1, <1>2, <1>3, PTL
-----------------------------------------------------------------------------
(*****************************************************************************)
(* The inbox and the bin of a user                                           *)
(*****************************************************************************)
InboxTypes ==
  /\ note \in [Notes -> N!Rows \cup {None, Gone}] /\ about \in [User -> [Notes -> N!Marks \cup {None}]]
  /\ open \in [Bulk -> [op : {None, "read all", "delete all"}, user : User \cup {None},
                           personal : SUBSET Notes, broadcasts : SUBSET Notes]]
  /\ now \in Nat
  /\ gone \in [User -> SUBSET Notes] /\ emptied \in [User -> SUBSET Notes]
  /\ dated \in [User -> SUBSET Notes] /\ cleared \in [User -> SUBSET Notes]

\* What a request has selected: rows of its user, which nobody else changes before it ends,
\* and broadcasts.
Selected ==
  \A r \in Bulk :
    /\ open[r].op # None => open[r].user \in User
    /\ \A n \in open[r].personal : /\ n \in N!Known /\ OwnerOf[n] = open[r].user /\ OwnerOf[n] \in User
                                   /\ open[r].op = "read all" => note[n].binned = N!Never
                                   /\ \A q \in Bulk \ {r} : n \notin open[q].personal
    /\ \A n \in open[r].broadcasts : OwnerOf[n] = Everyone

\* The row of a broadcast is not binned, and nothing is noted about a personal one.
Apart ==
  \A n \in Notes : /\ OwnerOf[n] = Everyone /\ n \in N!Known => note[n].binned = N!Never
                   /\ OwnerOf[n] # Everyone => \A u \in User : about[u][n] = None

Remembered ==
  \A u \in User :
    /\ \A n \in gone[u] : note[n] # None /\ ~N!InInbox(u, n)
    /\ \A n \in emptied[u] : note[n] # None /\ (note[n] # Gone => N!BinnedAt(u, n) # N!Never)
    /\ \A n \in emptied[u] \ dated[u] : ~N!InBin(u, n)
    /\ \A n \in cleared[u] : N!Deleted(u, n)

InboxInv == InboxTypes /\ Selected /\ Apart /\ Remembered

-------------------------------------------------------------------------------
\* How rows, and what users have noted about them, go on.
RowGoesOn(n) ==
  \/ note'[n] = note[n]
  \/ note[n] = None /\ note'[n] \in N!Rows
  \/ note[n] \in N!Rows /\ note'[n] = Gone
  \/ /\ note[n] \in N!Rows /\ note'[n] \in N!Rows /\ note'[n].created = note[n].created
     /\ note[n].binned # N!Never => note'[n].binned = note[n].binned

NoteGoesOn(u, n) ==
  \/ about'[u][n] = about[u][n]
  \/ /\ OwnerOf[n] = Everyone /\ about'[u][n] \in N!Marks
     /\ about[u][n] # None =>
          /\ about[u][n].binned # N!Never =>
               about'[u][n].binned # N!Never /\ (about'[u][n].binned = about[u][n].binned \/ n \in dated'[u])
          /\ about[u][n].deleted => about'[u][n].deleted

GoesOn ==
  /\ now' \in Nat /\ now' >= now
  /\ \A n \in Notes : RowGoesOn(n) /\ \A u \in User : NoteGoesOn(u, n)
  /\ \A u \in User : dated[u] \subseteq dated'[u] /\ \A n \in cleared'[u] \ cleared[u] : N!Deleted(u, n)'

\* Nothing that goes on like this comes back.
LEMMA RememberedStays ==
  ASSUME N!NotesAreNamed, InboxTypes, InboxTypes', Apart, Apart', Remembered, GoesOn, N!Remember
  PROVE  Remembered'
<1>1. ASSUME NEW n \in Notes
      PROVE  /\ note[n] # None => note'[n] # None
             /\ note[n] # None /\ n \in N!Known' => n \in N!Known /\ note'[n].created = note[n].created
             /\ note[n] \in N!Rows \cup {None, Gone} /\ note'[n] \in N!Rows \cup {None, Gone}
             /\ n \in N!Known => note[n] \in N!Rows
             /\ n \in N!Known' => note'[n] \in N!Rows
  <2>1. note[n] \in N!Rows \cup {None, Gone} /\ note'[n] \in N!Rows \cup {None, Gone} /\ RowGoesOn(n)
    BY DEF InboxTypes, GoesOn
  <2> QED BY <2>1 DEF RowGoesOn, N!NotesAreNamed, N!Known
<1>2. ASSUME NEW u \in User, NEW n \in Notes, N!Deleted(u, n)
      PROVE  N!Deleted(u, n)'
  <2>1. NoteGoesOn(u, n) /\ OwnerOf[n] = Everyone /\ about[u][n] # None /\ about[u][n].deleted
    BY <1>2 DEF GoesOn, N!Deleted
  <2>2. about'[u][n] # None /\ about'[u][n].deleted
    BY <2>1 DEF NoteGoesOn, N!NotesAreNamed
  <2> QED BY <2>1, <2>2 DEF N!Deleted
<1>3. ASSUME NEW u \in User, NEW n \in Notes, n \in N!Known, n \in N!Known', N!BinnedAt(u, n) # N!Never
      PROVE  N!BinnedAt(u, n)' # N!Never /\ (N!BinnedAt(u, n)' = N!BinnedAt(u, n) \/ n \in dated'[u])
  <2>1. RowGoesOn(n) /\ NoteGoesOn(u, n) /\ note[n] \in N!Rows /\ note'[n] \in N!Rows
    BY <1>1, <1>3 DEF GoesOn
  <2>2. CASE OwnerOf[n] = Everyone
    <3>1. note[n].binned = N!Never /\ note'[n].binned = N!Never
      BY <1>3, <2>2 DEF Apart
    <3>2. about[u][n] # None /\ about[u][n].binned # N!Never /\ N!BinnedAt(u, n) = about[u][n].binned
      BY <1>3, <3>1 DEF N!BinnedAt
    <3>3. /\ about'[u][n] # None /\ about'[u][n].binned # N!Never
          /\ about'[u][n].binned = about[u][n].binned \/ n \in dated'[u]
      BY <2>1, <3>2 DEF NoteGoesOn, N!NotesAreNamed
    <3> QED BY <3>2, <3>3 DEF N!BinnedAt
  <2>3. CASE OwnerOf[n] # Everyone
    <3>1. about[u][n] = None /\ about'[u][n] = None
      BY <2>3 DEF Apart
    <3>2. N!BinnedAt(u, n) = note[n].binned /\ N!BinnedAt(u, n)' = note'[n].binned
      BY <3>1 DEF N!BinnedAt
    <3> QED BY <1>3, <2>1, <3>2 DEF RowGoesOn, N!NotesAreNamed
  <2> QED BY <2>2, <2>3
<1>4. now \in Nat /\ now' \in Nat /\ now' >= now /\ Retention \in Nat /\ BinRetention \in Nat
  BY DEF InboxTypes, GoesOn, N!NotesAreNamed
<1>5. ASSUME NEW u \in User, NEW n \in Notes, note[n] # None, N!InInbox(u, n)'
      PROVE  N!InInbox(u, n)
  <2>1. n \in N!Known /\ n \in N!Known' /\ note'[n].created = note[n].created /\ note[n] \in N!Rows
        /\ OwnerOf[n] \in {u, Everyone} /\ note'[n].created >= now' - Retention
    BY <1>1, <1>5 DEF N!InInbox, N!Addressed
  <2>2. note[n].created \in Nat
    BY <2>1 DEF N!Rows
  <2>3. note[n].created >= now - Retention
    BY <1>4, <2>1, <2>2
  <2>4. N!BinnedAt(u, n) = N!Never /\ ~N!Deleted(u, n)
    BY <1>2, <1>3, <1>5, <2>1 DEF N!InInbox
  <2> QED BY <2>1, <2>3, <2>4 DEF N!InInbox, N!Addressed
<1>6. ASSUME NEW u \in User, NEW n \in Notes, n \in N!Known, N!BinnedAt(u, n) # N!Never, n \notin dated'[u], N!InBin(u, n)'
      PROVE  N!InBin(u, n)
  <2>1. n \in N!Known' /\ OwnerOf[n] \in {u, Everyone} /\ N!BinnedAt(u, n)' = N!BinnedAt(u, n)
        /\ N!BinnedAt(u, n)' >= now' - BinRetention /\ ~N!Deleted(u, n)'
    BY <1>3, <1>6 DEF N!InBin, N!Addressed
  <2>2. N!BinnedAt(u, n) \in Nat
    <3>1. note[n] \in N!Rows
      BY <1>1, <1>6
    <3>2. about[u][n] \in N!Marks \cup {None}
      <4>1. about \in [User -> [Notes -> N!Marks \cup {None}]]
        BY DEF InboxTypes
      <4> QED BY <4>1
    <3> QED BY <1>6, <3>1, <3>2 DEF N!BinnedAt, N!Rows, N!Marks
  <2>3. N!BinnedAt(u, n) >= now - BinRetention
    BY <1>4, <2>1, <2>2
  <2> QED BY <1>2, <1>6, <2>1, <2>3 DEF N!InBin, N!Addressed
<1>7. \A u \in User : /\ gone'[u] = gone[u] \cup {n \in Notes : N!InInbox(u, n) /\ ~N!InInbox(u, n)'}
                      /\ emptied'[u] = emptied[u] \cup {n \in Notes : N!InBin(u, n) /\ ~N!InBin(u, n)'}
                      /\ gone[u] \subseteq Notes /\ emptied[u] \subseteq Notes /\ cleared[u] \subseteq Notes
                      /\ cleared'[u] \subseteq Notes
  BY DEF N!Remember, InboxTypes
<1> SUFFICES ASSUME NEW u \in User
             PROVE  /\ \A n \in gone'[u] : note'[n] # None /\ ~N!InInbox(u, n)'
                    /\ \A n \in emptied'[u] : note'[n] # None /\ (note'[n] # Gone => N!BinnedAt(u, n)' # N!Never)
                    /\ \A n \in emptied'[u] \ dated'[u] : ~N!InBin(u, n)'
                    /\ \A n \in cleared'[u] : N!Deleted(u, n)'
  BY DEF Remembered
<1>8. ASSUME NEW n \in gone'[u] PROVE note'[n] # None /\ ~N!InInbox(u, n)'
  <2>1. n \in Notes
    BY <1>7
  <2>2. CASE n \in gone[u]
    BY <1>1, <1>5, <2>1, <2>2 DEF Remembered
  <2>3. CASE n \notin gone[u]
    <3>1. N!InInbox(u, n) /\ ~N!InInbox(u, n)'
      BY <1>7, <2>3
    <3> QED BY <1>1, <2>1, <3>1 DEF N!InInbox, N!Addressed, N!Known
  <2> QED BY <2>2, <2>3
<1>9. ASSUME NEW n \in emptied'[u] PROVE note'[n] # None /\ (note'[n] # Gone => N!BinnedAt(u, n)' # N!Never)
  <2>1. n \in Notes /\ note[n] # None /\ (note[n] # Gone => N!BinnedAt(u, n) # N!Never)
    <3>1. CASE n \in emptied[u]
      BY <1>7, <3>1 DEF Remembered
    <3>2. CASE n \notin emptied[u]
      BY <1>7, <3>2 DEF N!InBin, N!Addressed, N!Known
    <3> QED BY <3>1, <3>2
  <2>2. note'[n] # None /\ (note'[n] # Gone => n \in N!Known /\ n \in N!Known')
    BY <1>1, <2>1 DEF N!Known
  <2> QED BY <1>3, <2>1, <2>2 DEF N!Known
<1>10. ASSUME NEW n \in emptied'[u] \ dated'[u], N!InBin(u, n)' PROVE FALSE
  <2>1. n \in emptied[u]
    BY <1>7, <1>10
  <2>2. n \in emptied[u] \ dated[u] /\ n \in Notes
    BY <1>7, <2>1 DEF GoesOn
  <2>3. ~N!InBin(u, n) /\ note[n] # None /\ (note[n] # Gone => N!BinnedAt(u, n) # N!Never)
    BY <2>2 DEF Remembered
  <2>4. n \in N!Known'
    BY <1>10 DEF N!InBin, N!Addressed
  <2>5. n \in N!Known
    BY <1>1, <2>2, <2>3, <2>4
  <2> QED BY <1>6, <1>10, <2>2, <2>3, <2>5 DEF N!Known
<1>11. ASSUME NEW n \in cleared'[u] PROVE N!Deleted(u, n)'
  <2>1. CASE n \in cleared[u]
    BY <1>2, <1>7, <2>1 DEF Remembered
  <2>2. CASE n \notin cleared[u]
    BY <2>2 DEF GoesOn
  <2> QED BY <2>1, <2>2
<1> QED BY <1>8, <1>9, <1>10, <1>11

-------------------------------------------------------------------------------
OpenTypes == [Bulk -> [op : {None, "read all", "delete all"}, user : User \cup {None},
                          personal : SUBSET Notes, broadcasts : SUBSET Notes]]

\* What a step has to do for all of this to hold after it.
LEMMA StepKeeps ==
  ASSUME N!NotesAreNamed, InboxInv, N!Remember, GoesOn, Selected',
         note' \in [Notes -> N!Rows \cup {None, Gone}], about' \in [User -> [Notes -> N!Marks \cup {None}]],
         open' \in OpenTypes, dated' \in [User -> SUBSET Notes], cleared' \in [User -> SUBSET Notes],
         \A n \in Notes : OwnerOf[n] = Everyone => note'[n] \in {note[n], None, Gone} \/ note'[n].binned = N!Never
  PROVE  InboxInv'
<1>1. gone' \in [User -> SUBSET Notes] /\ emptied' \in [User -> SUBSET Notes]
  BY DEF N!Remember, InboxInv, InboxTypes
<1>2. InboxTypes'
  BY <1>1 DEF InboxTypes, OpenTypes, GoesOn
<1>3. Apart'
  <2> SUFFICES ASSUME NEW n \in Notes
               PROVE  /\ OwnerOf[n] = Everyone /\ n \in N!Known' => note'[n].binned = N!Never
                      /\ OwnerOf[n] # Everyone => \A u \in User : about'[u][n] = None
    BY DEF Apart
  <2>1. ASSUME OwnerOf[n] = Everyone, n \in N!Known' PROVE note'[n].binned = N!Never
    BY <2>1 DEF N!Known, InboxInv, Apart
  <2>2. ASSUME OwnerOf[n] # Everyone, NEW u \in User PROVE about'[u][n] = None
    BY <2>2 DEF GoesOn, NoteGoesOn, InboxInv, Apart
  <2> QED BY <2>1, <2>2
<1> QED BY <1>2, <1>3, RememberedStays DEF InboxInv

\* A step that ends requests or none, and changes nothing that the others have selected.
LEMMA SelectedStays ==
  ASSUME N!NotesAreNamed, InboxTypes, Selected, \A q \in Bulk : open'[q] = open[q] \/ open'[q] = N!Idle,
         \A q \in Bulk : \A n \in open'[q].personal : note'[n] = note[n]
  PROVE  Selected'
<1>1. N!Idle.op = None /\ N!Idle.personal = {} /\ N!Idle.broadcasts = {}
  BY DEF N!Idle
<1> SUFFICES ASSUME NEW r \in Bulk
             PROVE  /\ open'[r].op # None => open'[r].user \in User
                    /\ \A n \in open'[r].personal :
                          /\ n \in N!Known' /\ OwnerOf[n] = open'[r].user /\ OwnerOf[n] \in User
                          /\ open'[r].op = "read all" => note'[n].binned = N!Never
                          /\ \A q \in Bulk \ {r} : n \notin open'[q].personal
                    /\ \A n \in open'[r].broadcasts : OwnerOf[n] = Everyone
  BY DEF Selected
<1>2. CASE open'[r] = N!Idle
  BY <1>1, <1>2
<1>3. CASE open'[r] = open[r]
  <2>1. ASSUME NEW n \in open[r].personal
        PROVE  /\ n \in N!Known' /\ OwnerOf[n] = open[r].user /\ OwnerOf[n] \in User
               /\ open[r].op = "read all" => note'[n].binned = N!Never
               /\ \A q \in Bulk \ {r} : n \notin open'[q].personal
    <3>1. note'[n] = note[n]
      BY <1>3, <2>1
    <3> QED BY <1>1, <2>1, <3>1 DEF Selected, N!Known
  <2> QED BY <1>3, <2>1 DEF Selected
<1> QED BY <1>2, <1>3

LEMMA NotedIs ==
  ASSUME NEW state \in N!Marks \cup {None}
  PROVE  N!Noted(state) \in N!Marks /\ (state # None => N!Noted(state) = state)
BY DEF N!Noted, N!Fresh, N!Marks, N!Never

\* Rows of users.
LEMMA RowStepKeeps ==
  ASSUME N!NotesAreNamed, InboxInv, N!Remember, UNCHANGED <<about, open, dated, cleared>>, now' \in Nat, now' >= now,
         note' \in [Notes -> N!Rows \cup {None, Gone}], \A n \in Notes : RowGoesOn(n),
         \A n \in Notes : note'[n] = note[n] \/ ~N!Locked(n),
         \A n \in Notes : OwnerOf[n] = Everyone => note'[n] \in {note[n], None, Gone} \/ note'[n].binned = N!Never
  PROVE  InboxInv'
<1>1. GoesOn
  BY DEF GoesOn, NoteGoesOn
<1>2. Selected'
  <2>1. \A q \in Bulk : \A n \in open[q].personal : n \in Notes /\ N!Locked(n)
    BY DEF N!Locked, InboxInv, InboxTypes
  <2>2. \A q \in Bulk : open'[q] = open[q] /\ \A n \in open'[q].personal : note'[n] = note[n]
    BY <2>1
  <2> QED BY <2>2, SelectedStays DEF InboxInv
<1> QED BY <1>1, <1>2, StepKeeps DEF InboxInv, InboxTypes, OpenTypes

\* What a user notes about a broadcast.
LEMMA NoteStepKeeps ==
  ASSUME N!NotesAreNamed, InboxInv, N!Remember, UNCHANGED <<note, open, now, dated, cleared>>,
         about' \in [User -> [Notes -> N!Marks \cup {None}]], \A u \in User, n \in Notes : NoteGoesOn(u, n)
  PROVE  InboxInv'
<1>1. GoesOn
  <2>1. now \in Nat
    BY DEF InboxInv, InboxTypes
  <2> QED BY <2>1 DEF GoesOn, RowGoesOn
<1>2. Selected'
  BY SelectedStays DEF InboxInv
<1> QED BY <1>1, <1>2, StepKeeps DEF InboxInv, InboxTypes, OpenTypes

\* A user notes one thing about one broadcast.
LEMMA OneNote ==
  ASSUME N!NotesAreNamed, InboxInv, N!Remember, UNCHANGED <<note, open, now, dated, cleared>>,
         NEW u \in User, NEW n \in Notes, OwnerOf[n] = Everyone, NEW mark \in N!Marks,
         about' = [about EXCEPT ![u][n] = mark],
         about[u][n] # None => /\ about[u][n].binned # N!Never => mark.binned = about[u][n].binned
                               /\ mark.deleted = about[u][n].deleted
  PROVE  InboxInv'
<1>1. about \in [User -> [Notes -> N!Marks \cup {None}]]
  BY DEF InboxInv, InboxTypes
<1>2. about' \in [User -> [Notes -> N!Marks \cup {None}]]
  BY <1>1
<1>3. \A v \in User, m \in Notes : about'[v][m] = IF v = u /\ m = n THEN mark ELSE about[v][m]
  BY <1>1
<1>4. \A v \in User, m \in Notes : NoteGoesOn(v, m)
  BY <1>3 DEF NoteGoesOn
<1> QED BY <1>2, <1>4, NoteStepKeeps

LEMMA MarkReadKeeps ==
  ASSUME N!NotesAreNamed, InboxInv, NEW u \in User, NEW n \in Notes, N!MarkRead(u, n) \/ N!Bin(u, n)
  PROVE  InboxInv'
<1>1. /\ note \in [Notes -> N!Rows \cup {None, Gone}] /\ about[u][n] \in N!Marks \cup {None} /\ now \in Nat
      /\ n \in N!Known /\ note[n] \in N!Rows /\ ~N!Locked(n) /\ N!Remember /\ UNCHANGED <<open, now, dated, cleared>>
  <2>1. /\ note \in [Notes -> N!Rows \cup {None, Gone}] /\ about \in [User -> [Notes -> N!Marks \cup {None}]]
        /\ now \in Nat
    BY DEF InboxInv, InboxTypes
  <2>2. n \in N!Known /\ ~N!Locked(n) /\ N!Remember /\ UNCHANGED <<open, now, dated, cleared>>
    BY DEF N!MarkRead, N!Bin, N!Addressed
  <2> QED BY <2>1, <2>2 DEF N!Known
<1> DEFINE old == N!Noted(about[u][n])
<1>2. old \in N!Marks /\ (about[u][n] # None => old = about[u][n])
  BY <1>1, NotedIs
<1> HIDE DEF old
<1>3. CASE OwnerOf[n] = Everyone
  <2>1. PICK mark : /\ about' = [about EXCEPT ![u][n] = mark] /\ UNCHANGED note
                    /\ mark = [old EXCEPT !.read = TRUE]
                       \/ mark = [old EXCEPT !.binned = IF old.binned = N!Never THEN now ELSE old.binned]
    <3>1. about \in [User -> [Notes -> N!Marks \cup {None}]]
      BY DEF InboxInv, InboxTypes
    <3>2. CASE N!MarkRead(u, n)
      <4> DEFINE mark == [old EXCEPT !.read = TRUE]
      <4>1. about' = [about EXCEPT ![u][n] = mark] /\ UNCHANGED note
        BY <1>3, <3>1, <3>2 DEF N!MarkRead, old
      <4> QED BY <4>1
    <3>3. CASE N!Bin(u, n)
      <4> DEFINE mark == [old EXCEPT !.binned = IF old.binned = N!Never THEN now ELSE old.binned]
      <4>1. about' = [about EXCEPT ![u][n] = mark] /\ UNCHANGED note
        BY <1>3, <3>3 DEF N!Bin, N!Binned, old
      <4> QED BY <4>1
    <3> QED BY <3>2, <3>3
  <2>2. mark \in N!Marks /\ mark.deleted = old.deleted /\ (old.binned # N!Never => mark.binned = old.binned)
    BY <1>1, <1>2, <2>1 DEF N!Marks
  <2> QED BY <1>1, <1>2, <1>3, <2>1, <2>2, OneNote
<1>4. CASE OwnerOf[n] # Everyone
  <2>1. PICK new : /\ note' = [note EXCEPT ![n] = new] /\ UNCHANGED about
                   /\ new = [note[n] EXCEPT !.read = TRUE]
                      \/ new = [note[n] EXCEPT !.binned = IF note[n].binned = N!Never THEN now ELSE note[n].binned]
    BY <1>4 DEF N!MarkRead, N!Bin, N!Binned, InboxInv, InboxTypes
  <2>2. new \in N!Rows /\ new.created = note[n].created /\ (note[n].binned # N!Never => new.binned = note[n].binned)
    BY <1>1, <2>1 DEF N!Rows
  <2>3. note' \in [Notes -> N!Rows \cup {None, Gone}] /\ \A m \in Notes : note'[m] = IF m = n THEN new ELSE note[m]
    BY <1>1, <2>1, <2>2
  <2>4. \A m \in Notes : RowGoesOn(m)
    BY <1>1, <2>2, <2>3 DEF RowGoesOn
  <2> QED BY <1>1, <1>4, <2>1, <2>3, <2>4, RowStepKeeps
<1> QED BY <1>3, <1>4

\* Notices come and are purged, and time passes.
LEMMA OthersKeep ==
  ASSUME N!NotesAreNamed, InboxInv,
         \/ \E n \in Notes : N!Create(n)
         \/ \E batch \in SUBSET N!Known \ {{}} : N!Purge(batch)
         \/ N!TimePasses
  PROVE  InboxInv'
<1>1. note \in [Notes -> N!Rows \cup {None, Gone}] /\ now \in Nat
  BY DEF InboxInv, InboxTypes
<1>2. ASSUME NEW n \in Notes, N!Create(n) PROVE InboxInv'
  <2> DEFINE new == [created |-> now, read |-> FALSE, binned |-> N!Never]
  <2>1. new \in N!Rows /\ new.binned = N!Never
    BY <1>1 DEF N!Rows
  <2>2. note' = [note EXCEPT ![n] = new] /\ note[n] = None /\ N!Remember /\ UNCHANGED <<about, open, now, dated, cleared>>
    BY <1>2 DEF N!Create
  <2> HIDE DEF new
  <2>3. note' \in [Notes -> N!Rows \cup {None, Gone}] /\ \A m \in Notes : note'[m] = IF m = n THEN new ELSE note[m]
    BY <1>1, <2>1, <2>2
  <2>4. ~N!Locked(n)
    BY <2>2 DEF N!Locked, InboxInv, Selected, N!Known
  <2>5. \A m \in Notes : RowGoesOn(m)
    BY <2>1, <2>2, <2>3 DEF RowGoesOn
  <2> QED BY <1>1, <2>1, <2>2, <2>3, <2>4, <2>5, RowStepKeeps
<1>3. ASSUME NEW batch \in SUBSET N!Known \ {{}}, N!Purge(batch) PROVE InboxInv'
  <2>1. /\ note' = [n \in Notes |-> IF n \in batch THEN Gone ELSE note[n]] /\ N!Remember
        /\ UNCHANGED <<about, open, now, dated, cleared>> /\ \A n \in batch : ~N!Locked(n)
    BY <1>3 DEF N!Purge
  <2>2. note' \in [Notes -> N!Rows \cup {None, Gone}]
    BY <1>1, <2>1
  <2>3. \A n \in batch : note[n] \in N!Rows
    BY <1>1, <1>3 DEF N!Known
  <2>4. \A n \in Notes : RowGoesOn(n)
    BY <2>1, <2>3 DEF RowGoesOn
  <2> QED BY <1>1, <2>1, <2>2, <2>4, RowStepKeeps
<1>4. CASE N!TimePasses
  <2>1. now' \in Nat /\ now' >= now /\ N!Remember /\ UNCHANGED <<note, about, open, dated, cleared>>
    BY <1>1, <1>4 DEF N!TimePasses
  <2> QED BY <1>1, <2>1, RowStepKeeps DEF RowGoesOn
<1> QED BY <1>2, <1>3, <1>4

-------------------------------------------------------------------------------
\* A request for all notifications selects what it is going to write.
LEMMA SelectKeeps ==
  ASSUME N!NotesAreNamed, InboxInv, NEW r \in Bulk, NEW u \in User, N!SelectUnread(r, u) \/ N!SelectAll(r, u)
  PROVE  InboxInv'
<1>1. /\ N!Remember /\ UNCHANGED <<note, about, now, dated, cleared>> /\ open[r] = N!Idle
      /\ note \in [Notes -> N!Rows \cup {None, Gone}] /\ about \in [User -> [Notes -> N!Marks \cup {None}]]
      /\ open \in OpenTypes /\ now \in Nat
  BY DEF N!SelectUnread, N!SelectAll, InboxInv, InboxTypes, OpenTypes
<1>2. PICK new : /\ open' = [open EXCEPT ![r] = new] /\ new.op \in {"read all", "delete all"}
                 /\ new \in [op : {None, "read all", "delete all"}, user : User \cup {None},
                             personal : SUBSET Notes, broadcasts : SUBSET Notes]
                 /\ new.user = u /\ new.personal \subseteq N!Personal(u) /\ new.broadcasts \subseteq N!Broadcasts
                 /\ new.op = "read all" => \A n \in new.personal : note[n].binned = N!Never
                 /\ \A n \in new.personal : ~N!Locked(n)
  <2>1. N!Personal(u) \subseteq Notes /\ N!Broadcasts \subseteq Notes
    BY DEF N!Personal, N!Broadcasts, N!Known
  <2>2. CASE N!SelectUnread(r, u)
    <3> DEFINE new == [op |-> "read all", user |-> u,
                       personal |-> {n \in N!Personal(u) : /\ note[n].created >= now - Retention
                                                         /\ note[n].binned = N!Never /\ ~note[n].read},
                       broadcasts |-> {n \in N!Broadcasts : /\ note[n].created >= now - Retention
                                                          /\ ~N!Read(u, n) /\ ~N!Deleted(u, n)}]
    <3>1. open' = [open EXCEPT ![r] = new] /\ \A n \in open'[r].personal : ~N!Locked(n)
      BY <2>2 DEF N!SelectUnread
    <3>2. /\ new.op = "read all" /\ new.user = u /\ new.personal \subseteq N!Personal(u)
          /\ new.broadcasts \subseteq N!Broadcasts /\ \A n \in new.personal : note[n].binned = N!Never
      OBVIOUS
    <3>3. new \in [op : {None, "read all", "delete all"}, user : User \cup {None},
                   personal : SUBSET Notes, broadcasts : SUBSET Notes]
      BY <2>1
    <3> HIDE DEF new
    <3>4. open'[r] = new
      BY <1>1, <3>1 DEF OpenTypes
    <3> QED BY <3>1, <3>2, <3>3, <3>4
  <2>3. CASE N!SelectAll(r, u)
    <3> DEFINE new == [op |-> "delete all", user |-> u, personal |-> N!Personal(u),
                       broadcasts |-> {n \in N!Broadcasts : ~N!Deleted(u, n)}]
    <3>1. open' = [open EXCEPT ![r] = new] /\ \A n \in N!Personal(u) : ~N!Locked(n)
      BY <2>3 DEF N!SelectAll
    <3>2. /\ new.op = "delete all" /\ new.user = u /\ new.personal = N!Personal(u)
          /\ new.broadcasts \subseteq N!Broadcasts /\ new.op # "read all"
      OBVIOUS
    <3>3. new \in [op : {None, "read all", "delete all"}, user : User \cup {None},
                   personal : SUBSET Notes, broadcasts : SUBSET Notes]
      BY <2>1
    <3> HIDE DEF new
    <3> QED BY <3>1, <3>2, <3>3
  <2> QED BY <2>2, <2>3
<1>3. open' \in OpenTypes /\ open'[r] = new /\ \A q \in Bulk \ {r} : open'[q] = open[q]
  BY <1>1, <1>2 DEF OpenTypes
<1>4. \A n \in new.personal : n \in N!Known /\ OwnerOf[n] = u /\ \A q \in Bulk : n \notin open[q].personal
  BY <1>2 DEF N!Personal, N!Locked
<1>5. Selected'
  <2> SUFFICES ASSUME NEW q \in Bulk
               PROVE  /\ open'[q].op # None => open'[q].user \in User
                      /\ \A n \in open'[q].personal :
                            /\ n \in N!Known' /\ OwnerOf[n] = open'[q].user /\ OwnerOf[n] \in User
                            /\ open'[q].op = "read all" => note'[n].binned = N!Never
                            /\ \A o \in Bulk \ {q} : n \notin open'[o].personal
                      /\ \A n \in open'[q].broadcasts : OwnerOf[n] = Everyone
    BY DEF Selected
  <2>1. N!Known' = N!Known /\ note' = note
    BY <1>1 DEF N!Known
  <2>2. CASE q = r
    <3>1. open'[q] = new
      BY <1>3, <2>2
    <3>2. \A n \in new.personal : \A o \in Bulk \ {q} : n \notin open'[o].personal
      BY <1>3, <1>4, <2>2
    <3>3. \A n \in new.broadcasts : OwnerOf[n] = Everyone
      BY <1>2 DEF N!Broadcasts
    <3> QED BY <1>2, <1>4, <2>1, <3>1, <3>2, <3>3
  <2>3. CASE q # r
    <3>1. open'[q] = open[q]
      BY <1>3, <2>3
    <3>2. \A n \in open[q].personal : \A o \in Bulk \ {q} : n \notin open'[o].personal
      BY <1>3, <1>4 DEF InboxInv, Selected
    <3> QED BY <2>1, <3>1, <3>2 DEF InboxInv, Selected
  <2> QED BY <2>2, <2>3
<1>6. GoesOn
  BY <1>1 DEF GoesOn, RowGoesOn, NoteGoesOn
<1> QED BY <1>1, <1>3, <1>5, <1>6, StepKeeps DEF InboxInv, InboxTypes

\* It ends: the rows that it has selected are its own, whoever else is at work.
LEMMA EndedRows ==
  ASSUME N!NotesAreNamed, InboxTypes, Selected, NEW r \in Bulk, open[r].op # None, open' = [open EXCEPT ![r] = N!Idle],
         \A n \in Notes \ open[r].personal : note'[n] = note[n]
  PROVE  /\ open' \in OpenTypes /\ Selected'
         /\ \A n \in open[r].personal : n \in Notes /\ note[n] \in N!Rows /\ OwnerOf[n] # Everyone
<1>1. open \in OpenTypes /\ note \in [Notes -> N!Rows \cup {None, Gone}]
  BY DEF InboxTypes, OpenTypes
<1>2. N!Idle \in [op : {None, "read all", "delete all"}, user : User \cup {None},
                personal : SUBSET Notes, broadcasts : SUBSET Notes]
      /\ N!Idle.personal = {}
  BY DEF N!Idle
<1>3. open' \in OpenTypes /\ open'[r] = N!Idle /\ \A q \in Bulk \ {r} : open'[q] = open[q]
  BY <1>1, <1>2 DEF OpenTypes
<1>4. \A q \in Bulk : \A n \in open'[q].personal : note'[n] = note[n]
  <2> SUFFICES ASSUME NEW q \in Bulk, NEW n \in open'[q].personal PROVE note'[n] = note[n]
    OBVIOUS
  <2>1. q # r /\ n \in open[q].personal
    BY <1>2, <1>3
  <2>2. n \in Notes /\ n \notin open[r].personal
    BY <2>1 DEF Selected, N!Known
  <2> QED BY <2>2
<1>5. Selected'
  BY <1>3, <1>4, SelectedStays
<1>6. \A n \in open[r].personal : n \in Notes /\ note[n] \in N!Rows /\ OwnerOf[n] # Everyone
  BY <1>1 DEF Selected, N!Known, N!NotesAreNamed
<1> QED BY <1>3, <1>5, <1>6

LEMMA ReadAllKeeps ==
  ASSUME N!NotesAreNamed, InboxInv, NEW r \in Bulk, N!ReadAll(r)
  PROVE  InboxInv'
<1> DEFINE u == open[r].user
           mine == open[r].personal
           unread == {n \in open[r].broadcasts : ~N!Read(u, n)}
<1>1. /\ note \in [Notes -> N!Rows \cup {None, Gone}] /\ about \in [User -> [Notes -> N!Marks \cup {None}]] /\ now \in Nat
      /\ dated \in [User -> SUBSET Notes] /\ cleared \in [User -> SUBSET Notes]
      /\ open[r].broadcasts \subseteq Notes /\ mine \subseteq Notes
  BY DEF InboxInv, InboxTypes
<1>2. open[r].op = "read all" /\ open[r].op # None /\ u \in User
  BY DEF N!ReadAll, N!NotesAreNamed, InboxInv, Selected
<1>3. /\ open' = [open EXCEPT ![r] = N!Idle] /\ N!Remember /\ UNCHANGED <<now, cleared>>
      /\ note' = [n \in Notes |-> IF n \in mine THEN [note[n] EXCEPT !.read = TRUE, !.binned = now] ELSE note[n]]
      /\ dated' = [dated EXCEPT ![u] = dated[u] \cup {n \in unread : about[u][n] # None /\ about[u][n].binned # N!Never}]
  BY <1>1, <1>2 DEF N!ReadAll
<1>4. about' = [about EXCEPT ![u] = [n \in Notes |->
                  IF n \in unread THEN [N!Noted(about[u][n]) EXCEPT !.read = TRUE, !.binned = now] ELSE about[u][n]]]
  BY DEF N!ReadAll
<1> HIDE DEF u, mine
<1>5. open' \in OpenTypes /\ Selected' /\ \A n \in mine : n \in Notes /\ note[n] \in N!Rows /\ OwnerOf[n] # Everyone
  <2>1. \A n \in Notes \ mine : note'[n] = note[n]
    BY <1>3
  <2> QED BY <1>2, <1>3, <2>1, EndedRows DEF InboxInv, mine
<1>6. \A n \in mine : note[n].binned = N!Never
  BY <1>2 DEF InboxInv, Selected, mine
<1>7. note' \in [Notes -> N!Rows \cup {None, Gone}] /\ \A n \in Notes : RowGoesOn(n)
  <2>1. \A n \in mine : /\ [note[n] EXCEPT !.read = TRUE, !.binned = now] \in N!Rows
                        /\ [note[n] EXCEPT !.read = TRUE, !.binned = now].created = note[n].created
    BY <1>1, <1>5 DEF N!Rows
  <2>2. note' \in [Notes -> N!Rows \cup {None, Gone}]
    BY <1>1, <1>3, <2>1
  <2>3. \A n \in Notes : RowGoesOn(n)
    BY <1>3, <1>5, <1>6, <2>1 DEF RowGoesOn
  <2> QED BY <2>2, <2>3
<1>8. /\ dated' \in [User -> SUBSET Notes] /\ \A v \in User : dated[v] \subseteq dated'[v]
      /\ \A n \in unread : about[u][n] # None /\ about[u][n].binned # N!Never => n \in dated'[u]
  <2>1. unread \subseteq Notes
    BY <1>1
  <2> HIDE DEF unread
  <2> QED BY <1>1, <1>2, <1>3, <2>1
<1>9. about' \in [User -> [Notes -> N!Marks \cup {None}]] /\ \A v \in User, n \in Notes : NoteGoesOn(v, n)
  <2> DEFINE mark(n) == [N!Noted(about[u][n]) EXCEPT !.read = TRUE, !.binned = now]
  <2>1. \A n \in Notes : about[u][n] \in N!Marks \cup {None}
    BY <1>1, <1>2
  <2>2. ASSUME NEW n \in Notes
        PROVE  /\ mark(n) \in N!Marks /\ mark(n).binned = now
               /\ about[u][n] # None => mark(n).deleted = about[u][n].deleted
    <3>1. N!Noted(about[u][n]) \in N!Marks /\ (about[u][n] # None => N!Noted(about[u][n]) = about[u][n])
      BY <2>1, NotedIs
    <3> QED BY <1>1, <3>1 DEF N!Marks
  <2>3. \A n \in unread : OwnerOf[n] = Everyone /\ n \in Notes
    BY <1>1 DEF InboxInv, Selected
  <2> HIDE DEF unread, mark
  <2> DEFINE marks == [n \in Notes |-> IF n \in unread THEN mark(n) ELSE about[u][n]]
  <2>4. marks \in [Notes -> N!Marks \cup {None}] /\ about' = [about EXCEPT ![u] = marks]
    BY <1>4, <2>1, <2>2 DEF mark
  <2>5. \A n \in Notes : marks[n] = IF n \in unread THEN mark(n) ELSE about[u][n]
    OBVIOUS
  <2> HIDE DEF marks
  <2>6. about' \in [User -> [Notes -> N!Marks \cup {None}]]
    BY <1>1, <2>4
  <2>7. \A v \in User, n \in Notes : about'[v][n] = IF v = u THEN marks[n] ELSE about[v][n]
    BY <1>1, <2>4
  <2>8. now # N!Never
    BY <1>1 DEF N!Never
  <2>9. ASSUME NEW n \in Notes PROVE NoteGoesOn(u, n)
    <3>1. CASE n \in unread
      <4>1. about'[u][n] = mark(n)
        BY <1>2, <2>5, <2>7, <3>1
      <4> QED BY <1>8, <2>2, <2>3, <2>8, <3>1, <4>1 DEF NoteGoesOn
    <3>2. CASE n \notin unread
      BY <1>2, <2>5, <2>7, <3>2 DEF NoteGoesOn
    <3> QED BY <3>1, <3>2
  <2>10. ASSUME NEW v \in User, v # u, NEW n \in Notes PROVE NoteGoesOn(v, n)
    BY <2>7, <2>10 DEF NoteGoesOn
  <2> QED BY <2>6, <2>9, <2>10
<1>10. GoesOn
  <2>1. now' = now /\ cleared' = cleared
    BY <1>3
  <2>2. now' \in Nat /\ now' >= now
    BY <1>1, <2>1
  <2> QED BY <1>7, <1>8, <1>9, <2>1, <2>2 DEF GoesOn
<1>11. \A n \in Notes : OwnerOf[n] = Everyone => note'[n] = note[n]
  BY <1>3, <1>5
<1> QED BY <1>1, <1>3, <1>5, <1>7, <1>8, <1>9, <1>10, <1>11, StepKeeps

\* Everything is deleted that the request had selected, whatever was noted meanwhile.
LEMMA DeleteAllKeeps ==
  ASSUME N!NotesAreNamed, InboxInv, NEW r \in Bulk, N!DeleteAll(r)
  PROVE  InboxInv'
<1> DEFINE u == open[r].user
           mine == open[r].personal
           chosen == open[r].broadcasts
<1>1. /\ note \in [Notes -> N!Rows \cup {None, Gone}] /\ about \in [User -> [Notes -> N!Marks \cup {None}]] /\ now \in Nat
      /\ dated \in [User -> SUBSET Notes] /\ cleared \in [User -> SUBSET Notes]
      /\ chosen \subseteq Notes /\ mine \subseteq Notes
  BY DEF InboxInv, InboxTypes
<1>2. open[r].op = "delete all" /\ open[r].op # None /\ u \in User
  BY DEF N!DeleteAll, N!NotesAreNamed, InboxInv, Selected
<1>3. /\ open' = [open EXCEPT ![r] = N!Idle] /\ N!Remember /\ UNCHANGED <<now, dated>>
      /\ note' = [n \in Notes |-> IF n \in mine THEN Gone ELSE note[n]]
      /\ cleared' = [cleared EXCEPT ![u] = cleared[u] \cup chosen]
  BY DEF N!DeleteAll
<1>4. about' = [about EXCEPT ![u] = [n \in Notes |->
                  IF n \in chosen THEN [N!Noted(about[u][n]) EXCEPT !.deleted = TRUE] ELSE about[u][n]]]
  BY DEF N!DeleteAll, N!ToDelete
<1>5. \A n \in chosen : OwnerOf[n] = Everyone
  BY DEF InboxInv, Selected
<1> HIDE DEF u, mine, chosen
<1>6. open' \in OpenTypes /\ Selected' /\ \A n \in mine : n \in Notes /\ note[n] \in N!Rows /\ OwnerOf[n] # Everyone
  <2>1. \A n \in Notes \ mine : note'[n] = note[n]
    BY <1>3
  <2> QED BY <1>2, <1>3, <2>1, EndedRows DEF InboxInv, mine
<1>7. note' \in [Notes -> N!Rows \cup {None, Gone}] /\ \A n \in Notes : RowGoesOn(n)
  BY <1>1, <1>3, <1>6 DEF RowGoesOn
<1> DEFINE mark(n) == [N!Noted(about[u][n]) EXCEPT !.deleted = TRUE]
<1>8. ASSUME NEW n \in Notes
      PROVE  /\ mark(n) \in N!Marks /\ mark(n).deleted
             /\ about[u][n] # None => mark(n).binned = about[u][n].binned
  <2>1. about[u][n] \in N!Marks \cup {None}
    BY <1>1, <1>2
  <2>2. N!Noted(about[u][n]) \in N!Marks /\ (about[u][n] # None => N!Noted(about[u][n]) = about[u][n])
    BY <2>1, NotedIs
  <2> QED BY <2>2 DEF N!Marks
<1> HIDE DEF mark
<1> DEFINE marks == [n \in Notes |-> IF n \in chosen THEN mark(n) ELSE about[u][n]]
<1>9. marks \in [Notes -> N!Marks \cup {None}] /\ about' = [about EXCEPT ![u] = marks]
  <2>1. about' = [about EXCEPT ![u] = marks]
    BY <1>4 DEF mark
  <2>2. \A n \in Notes : mark(n) \in N!Marks /\ about[u][n] \in N!Marks \cup {None}
    BY <1>1, <1>2, <1>8
  <2> QED BY <2>1, <2>2
<1>10. \A n \in Notes : marks[n] = IF n \in chosen THEN mark(n) ELSE about[u][n]
  OBVIOUS
<1> HIDE DEF marks
<1>11. /\ about' \in [User -> [Notes -> N!Marks \cup {None}]]
       /\ \A v \in User, n \in Notes : about'[v][n] = IF v = u THEN marks[n] ELSE about[v][n]
  BY <1>1, <1>9
<1>12. \A v \in User, n \in Notes : NoteGoesOn(v, n)
  <2>1. ASSUME NEW n \in Notes PROVE NoteGoesOn(u, n)
    <3>1. CASE n \in chosen
      <4>1. about'[u][n] = mark(n)
        BY <1>2, <1>10, <1>11, <3>1
      <4> QED BY <1>5, <1>8, <3>1, <4>1 DEF NoteGoesOn
    <3>2. CASE n \notin chosen
      BY <1>2, <1>10, <1>11, <3>2 DEF NoteGoesOn
    <3> QED BY <3>1, <3>2
  <2>2. ASSUME NEW v \in User, v # u, NEW n \in Notes PROVE NoteGoesOn(v, n)
    BY <1>11, <2>2 DEF NoteGoesOn
  <2> QED BY <2>1, <2>2
<1>13. cleared' \in [User -> SUBSET Notes] /\ \A v \in User : \A n \in cleared'[v] \ cleared[v] : N!Deleted(v, n)'
  <2>1. cleared' \in [User -> SUBSET Notes] /\ \A v \in User : \A n \in cleared'[v] \ cleared[v] : v = u /\ n \in chosen
    BY <1>1, <1>2, <1>3
  <2>2. ASSUME NEW v \in User, v = u, NEW n \in chosen PROVE N!Deleted(v, n)'
    <3>1. about'[v][n] = mark(n) /\ n \in Notes
      BY <1>1, <1>10, <1>11, <2>2
    <3>2. about'[v][n] # None /\ about'[v][n].deleted /\ OwnerOf[n] = Everyone
      BY <1>5, <1>8, <3>1 DEF N!NotesAreNamed
    <3> QED BY <3>2 DEF N!Deleted
  <2> QED BY <2>1, <2>2
<1>14. GoesOn
  BY <1>1, <1>3, <1>7, <1>12, <1>13 DEF GoesOn
<1>15. \A n \in Notes : OwnerOf[n] = Everyone => note'[n] = note[n]
  BY <1>3, <1>6
<1> QED BY <1>1, <1>3, <1>6, <1>7, <1>11, <1>13, <1>14, <1>15, StepKeeps

-------------------------------------------------------------------------------
\* Nobody has seen anything before the first notification.
LEMMA InboxInit == N!NotesAreNamed /\ N!Init => InboxInv
<1> SUFFICES ASSUME N!NotesAreNamed, N!Init PROVE InboxInv
  OBVIOUS
<1>1. /\ note = [n \in Notes |-> None] /\ about = [u \in User |-> note] /\ open = [r \in Bulk |-> N!Idle] /\ now = 0
      /\ gone = [u \in User |-> {}] /\ emptied = gone /\ dated = gone /\ cleared = gone
  BY DEF N!Init
<1>2. N!Idle \in [op : {None, "read all", "delete all"}, user : User \cup {None},
                personal : SUBSET Notes, broadcasts : SUBSET Notes]
      /\ N!Idle.op = None /\ N!Idle.personal = {} /\ N!Idle.broadcasts = {}
  BY DEF N!Idle
<1>3. InboxTypes
  BY <1>1, <1>2 DEF InboxTypes
<1>4. Selected /\ Apart
  BY <1>1, <1>2 DEF Selected, Apart, N!Known
<1>5. Remembered
  BY <1>1 DEF Remembered
<1> QED BY <1>3, <1>4, <1>5 DEF InboxInv

LEMMA InboxHolds == ASSUME N!NotesAreNamed PROVE N!Init /\ [][N!Next]_N!vars => []InboxInv
<1>1. N!Init => InboxInv
  BY InboxInit
<1>2. InboxInv /\ [N!Next]_N!vars => InboxInv'
  <2> SUFFICES ASSUME InboxInv, [N!Next]_N!vars PROVE InboxInv'
    OBVIOUS
  <2>1. ASSUME NEW n \in Notes, NEW u \in User, N!MarkRead(u, n) \/ N!Bin(u, n) PROVE InboxInv'
    BY <2>1, MarkReadKeeps
  <2>2. ASSUME NEW r \in Bulk, NEW u \in User, N!SelectUnread(r, u) \/ N!SelectAll(r, u) PROVE InboxInv'
    BY <2>2, SelectKeeps
  <2>3. ASSUME NEW r \in Bulk, N!ReadAll(r) PROVE InboxInv'
    BY <2>3, ReadAllKeeps
  <2>4. ASSUME NEW r \in Bulk, N!DeleteAll(r) PROVE InboxInv'
    BY <2>4, DeleteAllKeeps
  <2>5. CASE \/ \E n \in Notes : N!Create(n)
             \/ \E batch \in SUBSET N!Known \ {{}} : N!Purge(batch)
             \/ N!TimePasses
    BY <2>5, OthersKeep
  <2>6. CASE UNCHANGED N!vars
    <3> USE DEF InboxInv
    <3>1. UNCHANGED <<note, about, open, now, gone, emptied, dated, cleared>>
      BY <2>6 DEF N!vars, N!history
    <3>2. InboxTypes' /\ Selected' /\ Apart'
      BY <3>1 DEF InboxTypes, Selected, Apart, N!Known
    <3>3. \A u \in User, n \in Notes : N!InInbox(u, n)' <=> N!InInbox(u, n)
      BY <3>1 DEF N!InInbox, N!BinnedAt, N!Deleted, N!Addressed, N!Known
    <3>3a. \A u \in User, n \in Notes : N!InBin(u, n)' <=> N!InBin(u, n)
      BY <3>1 DEF N!InBin, N!BinnedAt, N!Deleted, N!Addressed, N!Known
    <3>4. \A u \in User, n \in Notes : N!BinnedAt(u, n)' = N!BinnedAt(u, n) /\ (N!Deleted(u, n)' <=> N!Deleted(u, n))
      BY <3>1 DEF N!BinnedAt, N!Deleted
    <3>5. \A u \in User : gone[u] \subseteq Notes /\ emptied[u] \subseteq Notes /\ cleared[u] \subseteq Notes
      BY DEF InboxTypes
    <3>6. Remembered'
      <4> SUFFICES ASSUME NEW u \in User
                   PROVE  /\ \A n \in gone'[u] : note'[n] # None /\ ~N!InInbox(u, n)'
                          /\ \A n \in emptied'[u] : note'[n] # None /\ (note'[n] # Gone => N!BinnedAt(u, n)' # N!Never)
                          /\ \A n \in emptied'[u] \ dated'[u] : ~N!InBin(u, n)'
                          /\ \A n \in cleared'[u] : N!Deleted(u, n)'
        BY DEF Remembered
      <4>1. \A n \in gone[u] : note[n] # None /\ ~N!InInbox(u, n)'
        <5> SUFFICES ASSUME NEW n \in gone[u] PROVE note[n] # None /\ ~N!InInbox(u, n)'
          OBVIOUS
        <5>1. note[n] # None /\ ~N!InInbox(u, n) /\ n \in Notes
          BY <3>5 DEF Remembered
        <5> QED BY <5>1, <3>3, ZenonT(30)
      <4>2. \A n \in emptied[u] : note[n] # None /\ (note[n] # Gone => N!BinnedAt(u, n)' # N!Never)
        BY <3>4, <3>5 DEF Remembered
      <4>3. \A n \in emptied[u] \ dated[u] : ~N!InBin(u, n)'
        <5> SUFFICES ASSUME NEW n \in emptied[u], n \notin dated[u] PROVE ~N!InBin(u, n)'
          OBVIOUS
        <5>1. ~N!InBin(u, n) /\ n \in Notes
          BY <3>5 DEF Remembered
        <5> QED BY <5>1, <3>3a, ZenonT(30)
      <4>4. \A n \in cleared[u] : N!Deleted(u, n)'
        BY <3>4, <3>5 DEF Remembered
      <4> QED BY <3>1, <4>1, <4>2, <4>3, <4>4
    <3> QED BY <3>2, <3>6
  <2> QED BY <2>1, <2>2, <2>3, <2>4, <2>5, <2>6 DEF N!Next
<1> QED BY <1>1, <1>2, PTL

\* For any users, notices and requests that cross, what has left the inbox or the bin of a user
\* does not come back into it, but for what reading everything has dated again in the bin.
THEOREM NothingEverComesBack == ASSUME N!NotesAreNamed PROVE N!Init /\ [][N!Next]_N!vars => []N!NothingComesBack
<1>1. InboxInv => N!NothingComesBack
  BY DEF InboxInv, Remembered, N!NothingComesBack
<1> QED BY <1>1, InboxHolds, PTL

\* For any users, notices and requests that cross, what a user has deleted with everything else
\* is in neither, whatever was read or binned while that request was under way.
THEOREM ClearedIsAlwaysGone == ASSUME N!NotesAreNamed PROVE N!Init /\ [][N!Next]_N!vars => []N!ClearedIsGone
<1>1. InboxInv => N!ClearedIsGone
  BY DEF InboxInv, Remembered, N!ClearedIsGone, N!InInbox, N!InBin
<1> QED BY <1>1, InboxHolds, PTL
-----------------------------------------------------------------------------
(*****************************************************************************)
(* The pages of the timetable                                                *)
(*****************************************************************************)
BoardInv ==
  /\ DOMAIN entry = Pages /\ DOMAIN sweep = Process
  /\ \A i \in DOMAIN table : B!IsRow(table[i])
  /\ B!BoardIsCurrent

\* A page that a request is still to delete.
Pending(page) == \E p \in Process : \E n \in DOMAIN sweep[p] : sweep[p][n] = page

\* The pages that are deleted when one of their rows is written.
OnBoard(page) == page.kind # "count" /\ page.state = All /\ All \in {page.station, page.train}

AreCurrent ==
  \A page \in Pages :
    OnBoard(page) => entry[page] \in {Missing, B!Query(page)} \/ page \in crossed \/ Pending(page)

LEMMA CurrentIs == B!BoardIsCurrent <=> AreCurrent
<1>1. ASSUME NEW page PROVE page \in UNION {B!Range(sweep[p]) : p \in Process} <=> Pending(page)
  BY DEF Pending, B!Range
<1> QED BY <1>1, Zenon DEF B!BoardIsCurrent, AreCurrent, OnBoard

\* A page on the board that lists a row is one of those deleted when that row is written.
LEMMA ListedIsSwept ==
  ASSUME B!PagesAreOffered, NEW page \in Pages, OnBoard(page), NEW row, B!Listed(page, row)
  PROVE  \E n \in DOMAIN B!Swept(row) : B!Swept(row)[n] = page
<1>1. /\ page = B!Page(page.kind, page.station, page.train, page.state) /\ page.state = All
      /\ page.station \in {All, row.station} /\ page.train \in {All, row.train}
      /\ All \in {page.station, page.train}
      /\ page.kind \in {"list", "peak", "delayed"} /\ (page.kind # "list" => page.train = All)
  BY DEF B!PagesAreOffered, OnBoard, B!Listed
<1>2. DOMAIN B!Swept(row) = 1..7
  BY DEF B!Swept
<1>3. /\ B!Swept(row)[1] = B!Page("list", All, All, All) /\ B!Swept(row)[2] = B!Page("list", All, row.train, All)
      /\ B!Swept(row)[3] = B!Page("list", row.station, All, All)
      /\ B!Swept(row)[4] = B!Page("peak", All, All, All) /\ B!Swept(row)[5] = B!Page("peak", row.station, All, All)
      /\ B!Swept(row)[6] = B!Page("delayed", All, All, All)
      /\ B!Swept(row)[7] = B!Page("delayed", row.station, All, All)
  BY DEF B!Swept
<1>4. page \in {B!Swept(row)[n] : n \in 1..7}
  <2>1. CASE page.kind = "list"
    BY <1>1, <1>3, <2>1
  <2>2. CASE page.kind = "peak"
    BY <1>1, <1>3, <2>2
  <2>3. CASE page.kind = "delayed"
    BY <1>1, <1>3, <2>3
  <2> QED BY <1>1, <2>1, <2>2, <2>3
<1> QED BY <1>2, <1>4

\* Writing a row leaves every page as it is, but for those that are then to be deleted.
LEMMA WrittenKeeps ==
  ASSUME B!PagesAreOffered, BoardInv, NEW p \in Process, NEW i, NEW row, B!IsRow(row), B!Put(p, i, row),
         i \in DOMAIN table => row.station = table[i].station /\ row.train = table[i].train,
         DOMAIN sweep[p] = {}, UNCHANGED <<entry, crossed>>
  PROVE  BoardInv'
<1> DEFINE turns == {n \in DOMAIN B!Swept(row) : B!Swept(row)[n] \in Pages}
<1>1. /\ DOMAIN table' = DOMAIN table \cup {i} /\ table'[i] = row
      /\ \A k \in DOMAIN table \ {i} : table'[k] = table[k]
  BY DEF B!Put
<1>2. /\ DOMAIN sweep = Process /\ DOMAIN sweep' = Process
      /\ sweep'[p] = [n \in turns |-> B!Swept(row)[n]] /\ \A q \in Process \ {p} : sweep'[q] = sweep[q]
  BY DEF B!Put, BoardInv
<1>3. ASSUME NEW page \in Pages, Pending(page) PROVE Pending(page)'
  BY <1>2, <1>3 DEF Pending
<1>4. ASSUME NEW page \in Pages, OnBoard(page), ~Pending(page)' PROVE B!Query(page)' = B!Query(page)
  <2>1. ~B!Listed(page, row)
    <3> SUFFICES ASSUME B!Listed(page, row) PROVE Pending(page)'
      BY <1>4
    <3>1. PICK n \in DOMAIN B!Swept(row) : B!Swept(row)[n] = page
      BY <1>4, ListedIsSwept
    <3>2. n \in DOMAIN sweep'[p] /\ sweep'[p][n] = page
      BY <1>2, <3>1
    <3> QED BY <3>2 DEF Pending
  <2>2. i \in DOMAIN table => ~B!Listed(page, table[i])
    <3> SUFFICES ASSUME i \in DOMAIN table, B!Listed(page, table[i]) PROVE Pending(page)'
      BY <1>4
    <3>1. PICK n \in DOMAIN B!Swept(table[i]) : B!Swept(table[i])[n] = page
      BY <1>4, ListedIsSwept
    <3>2. B!Swept(table[i]) = B!Swept(row)
      BY DEF B!Swept
    <3>3. n \in DOMAIN sweep'[p] /\ sweep'[p][n] = page
      BY <1>2, <3>1, <3>2
    <3> QED BY <3>3 DEF Pending
  <2>3. {k \in DOMAIN table' : B!Listed(page, table'[k])} = {k \in DOMAIN table : B!Listed(page, table[k])}
    <3>1. ASSUME NEW k \in DOMAIN table, k # i PROVE B!Listed(page, table'[k]) <=> B!Listed(page, table[k])
      BY <1>1, <3>1 
    <3> QED BY <1>1, <2>1, <2>2, <3>1
  <2>4. \A k \in DOMAIN table : B!Listed(page, table[k]) => table'[k] = table[k]
    BY <1>1, <2>2
  <2> QED BY <1>4, <2>3, <2>4 DEF B!Query, OnBoard
<1>5. AreCurrent'
  <2> SUFFICES ASSUME NEW page \in Pages, OnBoard(page), ~Pending(page)'
               PROVE  entry[page] \in {Missing, B!Query(page)'} \/ page \in crossed
    BY DEF AreCurrent, OnBoard
  <2>1. B!Query(page)' = B!Query(page) /\ ~Pending(page)
    BY <1>3, <1>4
  <2>2. AreCurrent
    BY CurrentIs DEF BoardInv
  <2> QED BY <2>1, <2>2 DEF AreCurrent
<1>6. \A k \in DOMAIN table' : B!IsRow(table'[k])
  BY <1>1 DEF BoardInv
<1>7. B!BoardIsCurrent'
  BY <1>5, CurrentIs, PTL
<1> QED BY <1>2, <1>6, <1>7 DEF BoardInv

\* No other step changes the rows; a page goes out of date only as the property says.
LEMMA StoreKeeps == ASSUME BoardInv, NEW p \in Process, B!Store(p) PROVE BoardInv'
<1> DEFINE page == reading[p].page
           found == reading[p].rows
<1>1. /\ UNCHANGED <<table, sweep>> /\ DOMAIN entry = Pages
      /\ entry' = IF up THEN [entry EXCEPT ![page] = found] ELSE entry
      /\ crossed' = IF ~up THEN crossed
                    ELSE IF found = B!Query(page) THEN crossed \ {page} ELSE crossed \cup {page}
  BY DEF B!Store, BoardInv
<1>2. AreCurrent /\ \A g : B!Query(g)' = B!Query(g) /\ (Pending(g)' <=> Pending(g))
  BY <1>1, CurrentIs DEF BoardInv, B!Query, Pending
<1> HIDE DEF page, found
<1>3. AreCurrent'
  <2> SUFFICES ASSUME NEW g \in Pages, OnBoard(g), ~Pending(g)
               PROVE  entry'[g] \in {Missing, B!Query(g)} \/ g \in crossed'
    BY <1>2 DEF AreCurrent, OnBoard
  <2>1. entry[g] \in {Missing, B!Query(g)} \/ g \in crossed
    BY <1>2 DEF AreCurrent
  <2>2. CASE up /\ g = page
    BY <1>1, <2>2
  <2>3. CASE ~(up /\ g = page)
    BY <1>1, <2>1, <2>3
  <2> QED BY <2>2, <2>3
<1>4. B!BoardIsCurrent'
  BY <1>3, CurrentIs, PTL
<1> QED BY <1>1, <1>4 DEF BoardInv, B!IsRow

LEMMA DeleteKeeps == ASSUME BoardInv, NEW p \in Process, B!Delete(p) PROVE BoardInv'
<1>1. PICK n \in DOMAIN sweep[p] :
        /\ sweep' = [sweep EXCEPT ![p] = [k \in DOMAIN sweep[p] \ {n} |-> sweep[p][k]]]
        /\ entry' = IF up THEN [entry EXCEPT ![sweep[p][n]] = Missing] ELSE entry
        /\ crossed' = IF up THEN crossed \ {sweep[p][n]} ELSE crossed \cup {sweep[p][n]}
  BY DEF B!Delete
<1> DEFINE page == sweep[p][n]
<1>2. UNCHANGED table /\ DOMAIN entry = Pages /\ DOMAIN sweep = Process
  BY DEF B!Delete, BoardInv
<1>3. AreCurrent /\ \A g : B!Query(g)' = B!Query(g)
  BY <1>2, CurrentIs DEF BoardInv, B!Query
<1>4. ASSUME NEW g, Pending(g), g # page PROVE Pending(g)'
  <2>1. PICK q \in Process : \E k \in DOMAIN sweep[q] : sweep[q][k] = g
    BY <1>4 DEF Pending
  <2>2. PICK k \in DOMAIN sweep[q] : sweep[q][k] = g
    BY <2>1
  <2>3. k \in DOMAIN sweep'[q] /\ sweep'[q][k] = g
    BY <1>1, <1>2, <1>4, <2>2
  <2> QED BY <2>3 DEF Pending
<1>5. AreCurrent'
  <2> SUFFICES ASSUME NEW g \in Pages, OnBoard(g), ~Pending(g)'
               PROVE  entry'[g] \in {Missing, B!Query(g)} \/ g \in crossed'
    BY <1>3 DEF AreCurrent, OnBoard
  <2>1. CASE g = page
    BY <1>1, <1>2, <2>1
  <2>2. CASE g # page
    <3>1. entry[g] \in {Missing, B!Query(g)} \/ g \in crossed
      BY <1>3, <1>4, <2>2 DEF AreCurrent
    <3> QED BY <1>1, <1>2, <2>2, <3>1
  <2> QED BY <2>1, <2>2
<1>6. B!BoardIsCurrent'
  BY <1>5, CurrentIs, PTL
<1>7. DOMAIN entry' = Pages /\ DOMAIN sweep' = Process
  BY <1>1, <1>2
<1> QED BY <1>2, <1>6, <1>7 DEF BoardInv, B!IsRow

LEMMA ExpireKeeps == ASSUME BoardInv, NEW page \in Pages, B!Expire(page) PROVE BoardInv'
<1>1. /\ UNCHANGED <<table, sweep>> /\ DOMAIN entry = Pages
      /\ entry' = [entry EXCEPT ![page] = Missing] /\ crossed' = crossed \ {page}
  BY DEF B!Expire, BoardInv
<1>2. AreCurrent /\ \A g : B!Query(g)' = B!Query(g) /\ (Pending(g)' <=> Pending(g))
  BY <1>1, CurrentIs DEF BoardInv, B!Query, Pending
<1>3. AreCurrent'
  <2> SUFFICES ASSUME NEW g \in Pages, OnBoard(g), ~Pending(g)
               PROVE  entry'[g] \in {Missing, B!Query(g)} \/ g \in crossed'
    BY <1>2 DEF AreCurrent, OnBoard
  <2>1. entry[g] \in {Missing, B!Query(g)} \/ g \in crossed
    BY <1>2 DEF AreCurrent
  <2> QED BY <1>1, <2>1
<1>4. B!BoardIsCurrent'
  BY <1>3, CurrentIs, PTL
<1> QED BY <1>1, <1>4 DEF BoardInv, B!IsRow

LEMMA BesideKeeps ==
  ASSUME BoardInv, UNCHANGED <<table, entry, sweep, crossed>> PROVE BoardInv'
<1>1. AreCurrent /\ \A g : B!Query(g)' = B!Query(g) /\ (Pending(g)' <=> Pending(g))
  BY CurrentIs DEF BoardInv, B!Query, Pending
<1>2. AreCurrent'
  BY <1>1 DEF AreCurrent, OnBoard
<1>3. B!BoardIsCurrent'
  BY <1>2, CurrentIs, PTL
<1> QED BY <1>3 DEF BoardInv, B!IsRow

LEMMA BoardInit == B!RowsKeepTheirPlace /\ B!Init => BoardInv
<1> SUFFICES ASSUME B!RowsKeepTheirPlace, B!Init PROVE BoardInv
  OBVIOUS
<1>1. DOMAIN entry = Pages /\ DOMAIN sweep = Process /\ \A g \in Pages : entry[g] = Missing
  BY DEF B!Init
<1>2. \A i \in DOMAIN table : B!IsRow(table[i])
  BY DEF B!Init, B!RowsKeepTheirPlace, B!Range
<1>3. AreCurrent
  BY <1>1 DEF AreCurrent
<1> QED BY <1>1, <1>2, <1>3, CurrentIs DEF BoardInv

\* For any stations, trains, pages, rows and requests that cross, a page that Redis holds
\* shows the table, or a request is about to delete it, or it is one of those that a late
\* reader or an outage has left there.
THEOREM BoardIsAlwaysCurrent ==
  ASSUME B!PagesAreOffered, B!RowsKeepTheirPlace PROVE B!Init /\ [][B!Next]_B!vars => []B!BoardIsCurrent
<1>1. B!Init => BoardInv
  BY BoardInit
<1>2. BoardInv /\ [B!Next]_B!vars => BoardInv'
  <2> SUFFICES ASSUME BoardInv, [B!Next]_B!vars PROVE BoardInv'
    OBVIOUS
  <2>1. ASSUME NEW p \in Process, B!Store(p) \/ B!Delete(p) PROVE BoardInv'
    BY <2>1, StoreKeeps, DeleteKeeps
  <2>2. ASSUME NEW page \in Pages, B!Expire(page) PROVE BoardInv'
    BY <2>2, ExpireKeeps
  <2>3. ASSUME NEW p \in Process, NEW i \in Schedules, NEW row \in New, B!Create(p, i, row) PROVE BoardInv'
    BY <2>3, WrittenKeeps DEF B!Create, B!Request, B!cacheVars, B!RowsKeepTheirPlace
  <2>4. ASSUME NEW p \in Process, NEW i \in Schedules, NEW change \in Changes, B!Update(p, i, change)
        PROVE  BoardInv'
    <3> DEFINE row == [f \in DOMAIN table[i] |-> IF f \in DOMAIN change THEN change[f] ELSE table[i][f]]
    <3>1. B!IsRow(table[i]) /\ {"station", "train"} \cap DOMAIN change = {}
      BY <2>4 DEF B!Update, BoardInv, B!RowsKeepTheirPlace
    <3>2. DOMAIN row = DOMAIN table[i] /\ row = [f \in DOMAIN row |-> row[f]]
      OBVIOUS
    <3>3. B!IsRow(row) /\ row.station = table[i].station /\ row.train = table[i].train
      BY <3>1, <3>2 DEF B!IsRow
    <3> QED BY <2>4, <3>3, WrittenKeeps DEF B!Update, B!Request, B!cacheVars
  <2>5. ASSUME NEW p \in Process, NEW i \in Schedules, NEW minutes \in Minutes, B!ReportDelay(p, i, minutes)
        PROVE  BoardInv'
    <3>1. CASE B!PastMidnight(table[i], minutes)
      BY <2>5, <3>1, BesideKeeps DEF B!ReportDelay, B!cacheVars
    <3>2. CASE ~B!PastMidnight(table[i], minutes)
      <4> DEFINE row == [table[i] EXCEPT
                           !.delay = minutes, !.late = minutes > 0,
                           !.actual = IF minutes > 0 THEN table[i].arrival + minutes ELSE @]
      <4>1. B!IsRow(table[i]) /\ i \in DOMAIN table
        BY <2>5 DEF B!ReportDelay, BoardInv
      <4>2. DOMAIN row = DOMAIN table[i] /\ row = [f \in DOMAIN row |-> row[f]]
        OBVIOUS
      <4>3. B!IsRow(row) /\ row.station = table[i].station /\ row.train = table[i].train
        BY <4>1, <4>2 DEF B!IsRow
      <4>4. B!Put(p, i, row) /\ DOMAIN sweep[p] = {} /\ UNCHANGED <<entry, crossed>>
        BY <2>5, <3>2 DEF B!ReportDelay, B!Request, B!cacheVars
      <4> QED BY <4>3, <4>4, WrittenKeeps
    <3> QED BY <3>1, <3>2
  <2>6. CASE \/ \E p \in Process, page \in Pages : B!Compute(p, page)
             \/ B!RedisFails \/ B!RedisReturns \/ UNCHANGED B!vars
    BY <2>6, BesideKeeps DEF B!Compute, B!RedisFails, B!RedisReturns, B!vars, B!cacheVars
  <2> QED BY <2>1, <2>2, <2>3, <2>4, <2>5, <2>6 DEF B!Next
<1>3. BoardInv => B!BoardIsCurrent
  BY DEF BoardInv
<1> QED BY <1>1, <1>2, <1>3, PTL

-----------------------------------------------------------------------------
(*****************************************************************************)
(* The settings of the simulators                                            *)
(*****************************************************************************)
\* What Redis holds, for whoever reads it.
Shown == IF control = NoControl THEN Default ELSE control

\* Fields that an update under way is about to write.
AboutToWrite(f) == \E p \in Process : draft[p] # C!Idle /\ f \in draft[p].fields

ControlTypes ==
  /\ control \in C!Control \cup {NoControl} /\ asked \in C!Control /\ doubtful \subseteq C!Fields
  /\ copy \in [Process -> C!Control \cup {NoControl}] /\ own \in [Process -> C!Control \cup {NoControl}]
  /\ draft \in [Process -> [to : C!Control, fields : SUBSET C!Fields] \cup {C!Idle}]

\* A field that nobody is about to write is in Redis as it was asked for.
SharedIsAsked == \A f \in C!Fields \ doubtful : ~AboutToWrite(f) => Shown[f] = asked[f]

\* What is about to be written is as it was asked for.
DraftsAreAsked ==
  \A p \in Process : draft[p] # C!Idle => \A f \in C!Fields \ doubtful : draft[p].to[f] = asked[f]

\* Fields of updates that cross are in doubt.
CrossingIsDoubtful ==
  \A p, q \in Process : (p # q /\ draft[p] # C!Idle /\ draft[q] # C!Idle) => draft[p].fields \subseteq doubtful

\* As long as Redis holds nothing, what a process remembers is as it was asked for.
OwnIsAsked ==
  control = NoControl =>
    \A p \in Process : own[p] # NoControl =>
      \A f \in C!Fields \ doubtful : ~AboutToWrite(f) => own[p][f] = asked[f]

ControlInv ==
  ControlTypes /\ SharedIsAsked /\ DraftsAreAsked /\ CrossingIsDoubtful /\ OwnIsAsked

\* Merged settings are settings.
LEMMA MergeType ==
  ASSUME NEW c \in C!Control, NEW change, change.to \in C!Control, change.fields \subseteq C!Fields
  PROVE  /\ C!Merge(c, change) \in C!Control
         /\ \A f \in C!Fields : C!Merge(c, change)[f] = IF f \in change.fields THEN change.to[f] ELSE c[f]
BY DEF C!Merge, C!Control, C!Fields

\* What an administrator reads are settings.
LEMMA GetType ==
  ASSUME C!ControlConstants, ControlTypes, NEW p \in Process
  PROVE  C!Get(p) \in C!Control
BY DEF C!ControlConstants, ControlTypes, C!Get

LEMMA ControlInit == C!ControlConstants /\ C!Init => ControlInv
BY DEF C!ControlConstants, C!Init, ControlInv, ControlTypes, SharedIsAsked, DraftsAreAsked, CrossingIsDoubtful,
       OwnIsAsked, Shown

\* An update that reaches Redis reads every field that is not in doubt as it was asked for,
\* if no other update is about to write it.
LEMMA BaseIsAsked ==
  ASSUME ControlInv, NEW p \in Process, C!Reaches(p), NEW f \in C!Fields \ doubtful, ~AboutToWrite(f)
  PROVE  C!Get(p)[f] = asked[f]
BY DEF ControlInv, SharedIsAsked, OwnIsAsked, Shown, C!Get

LEMMA SettingsUpdateKeeps ==
  ASSUME C!ControlConstants, ControlInv, NEW p \in Process, NEW change \in Changes, C!Update(p, change)
  PROVE  ControlInv'
<1> DEFINE merged == C!Merge(C!Get(p), change)
           wanted == C!Merge(asked, change)
<1>1. change.to \in C!Control /\ change.fields \subseteq C!Fields /\ NoControl \notin C!Control
  BY DEF C!ControlConstants
<1>2. /\ draft[p] = C!Idle /\ control' = control /\ asked' = wanted
      /\ draft' = [draft EXCEPT ![p] = [to |-> merged, fields |-> change.fields]]
      /\ own' = [own EXCEPT ![p] = merged] /\ copy' = [copy EXCEPT ![p] = merged]
  BY DEF C!Update, C!Base, C!redisVars
<1>3. doubtful' = IF ~C!Reaches(p) THEN C!Fields
                  ELSE IF C!Updating = {} THEN doubtful \ change.fields
                  ELSE doubtful \cup change.fields \cup UNION {draft[q].fields : q \in C!Updating}
  BY DEF C!Update
<1>4. C!Get(p) \in C!Control /\ asked \in C!Control
  BY GetType DEF ControlInv, ControlTypes
<1>5. /\ merged \in C!Control
      /\ \A f \in C!Fields : merged[f] = IF f \in change.fields THEN change.to[f] ELSE C!Get(p)[f]
  BY <1>1, <1>4, MergeType
<1>6. /\ wanted \in C!Control
      /\ \A f \in C!Fields : wanted[f] = IF f \in change.fields THEN change.to[f] ELSE asked[f]
  BY <1>1, <1>4, MergeType
<1> HIDE DEF merged, wanted
<1>7. ControlTypes'
  <2>1. \A q \in C!Updating : draft[q].fields \subseteq C!Fields
    BY DEF ControlInv, ControlTypes, C!Updating
  <2>2. doubtful' \subseteq C!Fields
    BY <1>1, <1>3, <2>1 DEF ControlInv, ControlTypes
  <2>3. [to |-> merged, fields |-> change.fields] \in [to : C!Control, fields : SUBSET C!Fields]
    BY <1>1, <1>5
  <2> QED BY <1>2, <1>5, <1>6, <2>2, <2>3 DEF ControlInv, ControlTypes
<1>8. /\ draft'[p].to = merged /\ draft'[p].fields = change.fields /\ draft'[p] # C!Idle
      /\ \A q \in Process : q # p => draft'[q] = draft[q]
  BY <1>1, <1>2, <1>5 DEF ControlInv, ControlTypes, C!Idle
<1>9. CASE ~C!Reaches(p)
  BY <1>3, <1>7, <1>9 DEF ControlInv, ControlTypes, SharedIsAsked, DraftsAreAsked, CrossingIsDoubtful, OwnIsAsked
<1>10. CASE C!Reaches(p)
  <2>1. \A f \in C!Fields \ doubtful' :
          /\ f \notin doubtful \/ f \in change.fields
          /\ f \notin change.fields => ~AboutToWrite(f)
          /\ C!Updating # {} => f \notin change.fields /\ ~AboutToWrite(f)
    BY <1>3, <1>10 DEF AboutToWrite, C!Updating
  <2>2. \A f \in C!Fields \ doubtful' : merged[f] = wanted[f]
    BY <1>5, <1>6, <1>10, <2>1, BaseIsAsked
  <2>3. \A f \in C!Fields : f \in change.fields => AboutToWrite(f)'
    BY <1>8 DEF AboutToWrite
  <2>4. \A f : AboutToWrite(f) => AboutToWrite(f)'
    BY <1>2, <1>8 DEF AboutToWrite
  <2>5. SharedIsAsked'
    BY <1>2, <1>6, <2>1, <2>3 DEF ControlInv, SharedIsAsked, Shown
  <2>6. DraftsAreAsked'
    <3> SUFFICES ASSUME NEW q \in Process, draft'[q] # C!Idle, NEW f \in C!Fields \ doubtful'
                 PROVE  draft'[q].to[f] = wanted[f]
      BY <1>2 DEF DraftsAreAsked
    <3>1. CASE q = p
      BY <1>8, <2>2, <3>1
    <3>2. CASE q # p
      <4>1. draft[q] # C!Idle /\ q \in C!Updating
        BY <1>8, <3>2 DEF C!Updating
      <4>2. f \notin doubtful /\ f \notin change.fields
        BY <2>1, <4>1
      <4> QED BY <1>6, <1>8, <3>2, <4>1, <4>2 DEF ControlInv, DraftsAreAsked
    <3> QED BY <3>1, <3>2
  <2>7. CrossingIsDoubtful'
    <3> SUFFICES ASSUME NEW q \in Process, NEW r \in Process, q # r, draft'[q] # C!Idle, draft'[r] # C!Idle
                 PROVE  draft'[q].fields \subseteq doubtful'
      BY DEF CrossingIsDoubtful
    <3>1. PICK s \in {q, r} : s # p /\ s \in C!Updating
      BY <1>8 DEF C!Updating
    <3>2. doubtful' = doubtful \cup change.fields \cup UNION {draft[t].fields : t \in C!Updating}
      BY <1>3, <1>10, <3>1
    <3>3. CASE q = p
      BY <1>8, <3>2, <3>3
    <3>4. CASE q # p
      BY <1>8, <3>2, <3>4 DEF C!Updating
    <3> QED BY <3>3, <3>4
  <2>8. OwnIsAsked'
    <3> SUFFICES ASSUME control' = NoControl, NEW q \in Process, own'[q] # NoControl,
                        NEW f \in C!Fields \ doubtful', ~AboutToWrite(f)'
                 PROVE  own'[q][f] = wanted[f]
      BY <1>2 DEF OwnIsAsked
    <3>1. CASE q = p
      BY <1>2, <2>2, <3>1 DEF ControlInv, ControlTypes
    <3>2. CASE q # p
      <4>1. own'[q] = own[q] /\ f \notin change.fields /\ f \notin doubtful /\ ~AboutToWrite(f)
        BY <1>2, <2>1, <2>3, <2>4, <3>2 DEF ControlInv, ControlTypes
      <4> QED BY <1>2, <1>6, <4>1 DEF ControlInv, OwnIsAsked
    <3> QED BY <3>1, <3>2
  <2> QED BY <1>7, <2>5, <2>6, <2>7, <2>8 DEF ControlInv
<1> QED BY <1>9, <1>10

LEMMA SettingsStoreKeeps ==
  ASSUME C!ControlConstants, ControlInv, NEW p \in Process, C!Store(p)
  PROVE  ControlInv'
<1>1. /\ draft[p] # C!Idle /\ draft' = [draft EXCEPT ![p] = C!Idle]
      /\ control' = (IF C!Reaches(p) THEN draft[p].to ELSE control)
      /\ doubtful' = (IF C!Reaches(p) THEN doubtful ELSE doubtful \cup draft[p].fields)
      /\ UNCHANGED <<copy, own, asked>>
  BY DEF C!Store
<1>2. draft[p].to \in C!Control /\ draft[p].fields \subseteq C!Fields /\ draft[p].to # NoControl
  BY <1>1 DEF C!ControlConstants, ControlInv, ControlTypes
<1>3. draft'[p] = C!Idle /\ \A q \in Process : q # p => draft'[q] = draft[q]
  BY <1>1 DEF ControlInv, ControlTypes
<1>4. ControlTypes'
  BY <1>1, <1>2 DEF ControlInv, ControlTypes
<1>5. DraftsAreAsked'
  BY <1>1, <1>3 DEF ControlInv, DraftsAreAsked
<1>6. CrossingIsDoubtful'
  BY <1>1, <1>3 DEF ControlInv, CrossingIsDoubtful
<1>7. CASE C!Reaches(p)
  <2>1. control' = draft[p].to /\ Shown' = draft[p].to /\ control' # NoControl
    BY <1>1, <1>2, <1>7 DEF Shown
  <2>2. SharedIsAsked'
    BY <1>1, <1>7, <2>1 DEF ControlInv, DraftsAreAsked, SharedIsAsked
  <2> QED BY <1>4, <1>5, <1>6, <2>1, <2>2 DEF ControlInv, OwnIsAsked
<1>8. CASE ~C!Reaches(p)
  <2>1. \A f \in C!Fields \ doubtful' : f \notin doubtful /\ (~AboutToWrite(f)' => ~AboutToWrite(f))
    BY <1>1, <1>3, <1>8 DEF AboutToWrite
  <2> QED BY <1>1, <1>4, <1>5, <1>6, <1>8, <2>1 DEF ControlInv, SharedIsAsked, OwnIsAsked, Shown
<1> QED BY <1>7, <1>8

LEMMA ControlStepKeeps ==
  ASSUME C!ControlConstants, ControlInv, [C!Next]_C!vars
  PROVE  ControlInv'
<1>1. CASE UNCHANGED <<control, C!updateVars>>
  BY <1>1 DEF C!updateVars, ControlInv, ControlTypes, SharedIsAsked, DraftsAreAsked, CrossingIsDoubtful, OwnIsAsked,
              Shown, AboutToWrite
<1>2. ASSUME NEW p \in Process, NEW change \in Changes, C!Update(p, change) PROVE ControlInv'
  BY <1>2, SettingsUpdateKeeps
<1>3. ASSUME NEW p \in Process, C!Store(p) PROVE ControlInv'
  BY <1>3, SettingsStoreKeeps
<1>4. CASE C!RedisFails
  <2>1. CASE UNCHANGED <<control, doubtful>>
    BY <1>1, <1>4, <2>1 DEF C!RedisFails, C!updateVars
  <2>2. CASE control' = NoControl /\ doubtful' = C!Fields
    BY <1>4, <2>2 DEF C!RedisFails, ControlInv, ControlTypes, SharedIsAsked, DraftsAreAsked, CrossingIsDoubtful,
                      OwnIsAsked
  <2> QED BY <1>4, <2>1, <2>2 DEF C!RedisFails
<1> QED BY <1>1, <1>2, <1>3, <1>4
        DEF C!Next, C!Reconnect, C!Handover, C!Check, C!Tick, C!Slice, C!RedisReturns, C!LoopUnchanged, C!redisVars, C!updateVars, C!vars

\* Whatever outages there are, and however updates of several processes cross: when none is
\* under way, a field that is not in doubt is in Redis as it was asked for last, so merging one
\* setting loses no other (update_runtime_control).
THEOREM SettingsAreAsAsked ==
  ASSUME C!ControlConstants
  PROVE  C!Spec => []C!ControlIsAsAsked
<1>1. ControlInv => C!ControlIsAsAsked
  BY DEF ControlInv, SharedIsAsked, C!ControlIsAsAsked, Shown, AboutToWrite, C!Updating
<1>2. C!Init => ControlInv
  BY ControlInit
<1>3. ControlInv /\ [C!Next]_C!vars => ControlInv'
  BY ControlStepKeeps
<1> QED BY <1>1, <1>2, <1>3, PTL DEF C!Spec

=============================================================================
