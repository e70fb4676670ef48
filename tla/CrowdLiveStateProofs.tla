------------------------- MODULE CrowdLiveStateProofs -------------------------
(***************************************************************************)
(* Proofs about CrowdLiveState, for any set of stations, requests and      *)
(* threads, and any number of threads that stop half-way.                  *)
(***************************************************************************)
EXTENDS CrowdLiveState, FiniteSetTheorems, WellFoundedInduction, TLAPS

\* The passengers at a station can be counted.
LEMMA CountsOfTrips ==
  ASSUME NEW s
  PROVE  /\ IsFiniteSet(Departed(s)) /\ IsFiniteSet(Arrived(s))
         /\ Cardinality(Departed(s)) \in Nat /\ Cardinality(Arrived(s)) \in Nat
         /\ CheckedIn(s) \in Nat
<1>1. IsFiniteSet(Trips)
  BY LiveStateAssumption
<1>2. IsFiniteSet(Departed(s)) /\ IsFiniteSet(Arrived(s))
  BY <1>1, FS_Subset DEF Departed, Arrived
<1>3. CheckedIn(s) = Cardinality(Departed(s))
  BY DEF CheckedIn, Departed
<1> QED BY <1>2, <1>3, FS_CardinalityType

\* What is stored is never negative.
LEMMA AtLeastZeroType ==
  ASSUME NEW n \in Int PROVE AtLeastZero(n) \in Nat
BY DEF AtLeastZero

\* Only a transaction holds the locks of rows.
NothingHeld == \A w \in Writers : pc[w] # "writing" => Written(w) = {}

\* The feed writes only stations that its batch has a last reading of.
BatchCovers ==
  \A w \in Writers : pc[w] = "writing" /\ kind[w] = "feed" =>
     \A s \in plan[w] \cup Written(w) : Latest(batch[w], s) # {}

Locks == NothingHeld /\ BatchCovers

\* The last reading of a station in a batch has a time.
LEMMA SeenType ==
  ASSUME TypeOK, NEW w \in Writers, NEW s \in Stations, Latest(batch[w], s) # {}
  PROVE  Seen(w, s) \in Nat
<1>1. PICK r \in batch[w] : r \in Latest(batch[w], s)
  BY DEF Latest
<1>2. (CHOOSE q \in batch[w] : q \in Latest(batch[w], s)) \in batch[w]
  BY <1>1
<1>3. \A q \in batch[w] : q.seen \in Nat
  BY LiveStateAssumption DEF TypeOK
<1> QED BY <1>2, <1>3 DEF Seen

\* A request starts with a plan and values that fit their types.
LEMMA StartType ==
  ASSUME TypeOK, NEW w \in Writers, NEW k, NEW t \in Trips \cup {NoTrip},
         NEW readings \in SUBSET Readings, NEW values \in [Stations -> Nat],
         NEW stations \in SUBSET Stations, Start(w, k, t, readings, values, stations),
         guard' \in [Trips -> Writers \cup {Nobody}]
  PROVE  TypeOK'
<1>1. k \in Kinds
  BY LiveStateAssumption DEF Start, Kinds
<1> QED BY <1>1 DEF TypeOK, Start, database, Kinds, Idle

\* A request that starts holds no lock, and a feed that starts has a reading for
\* every station in its plan.
LEMMA StartKeeps ==
  ASSUME TypeOK, Locks, NEW w \in Writers, NEW k, NEW t, NEW readings, NEW values,
         NEW stations, Start(w, k, t, readings, values, stations),
         k = "feed" => \A s \in stations : Latest(readings, s) # {}
  PROVE  Locks'
<1>1. \A v \in Writers : Written(v)' = Written(v)
  BY DEF Start, Written
<1>2. Written(w) = {}
  BY DEF Start, Locks, NothingHeld, Idle
<1>3. NothingHeld'
  BY <1>1, <1>2 DEF Start, Locks, NothingHeld, TypeOK
<1>4. BatchCovers'
  <2> SUFFICES ASSUME NEW v \in Writers, pc'[v] = "writing", kind'[v] = "feed",
                      NEW s \in plan'[v] \cup Written(v)'
               PROVE  Latest(batch[v], s)' # {}
    BY DEF BatchCovers
  <2>1. CASE v = w
    <3>1. k = "feed" /\ s \in stations
      BY <1>1, <1>2, <2>1 DEF Start, TypeOK
    <3>2. batch'[v] = readings
      BY <2>1 DEF Start, TypeOK
    <3> QED BY <3>1, <3>2
  <2>2. CASE v # w
    <3>1. pc[v] = "writing" /\ kind[v] = "feed" /\ s \in plan[v] \cup Written(v) /\ batch'[v] = batch[v]
      BY <1>1, <2>2 DEF Start, TypeOK
    <3> QED BY <3>1 DEF Locks, BatchCovers
  <2> QED BY <2>1, <2>2
<1> QED BY <1>3, <1>4 DEF Locks

\* A step that leaves transactions and locks alone keeps Locks.
LEMMA SameLocks ==
  ASSUME Locks, UNCHANGED <<pc, kind, batch, plan, holder>>
  PROVE  Locks'
BY DEF Locks, NothingHeld, BatchCovers, Written, Latest

\* Ending a transaction leaves every variable of its thread in its type.
LEMMA ClearType ==
  ASSUME TypeOK, NEW w \in Writers, Clear(w)
  PROVE  /\ trip' \in [Writers -> Trips \cup {NoTrip}]
         /\ batch' \in [Writers -> SUBSET Readings]
         /\ value' \in [Writers -> [Stations -> Nat]]
         /\ began' \in [Writers -> 0..LastTime]
         /\ looked' \in [Writers -> SUBSET Stations]
         /\ staged' \in [Writers -> [Stations -> Nat]]
<1>1. Zero \in [Stations -> Nat] /\ 0 \in 0..LastTime
  BY LiveStateAssumption DEF Zero
<1> QED BY <1>1 DEF TypeOK, Clear

\* Nor does releasing its locks.
LEMMA ReleaseType ==
  ASSUME TypeOK, NEW w \in Writers, Release(w)
  PROVE  /\ holder' \in [Stations -> Writers \cup {Nobody}]
         /\ guard' \in [Trips -> Writers \cup {Nobody}]
BY DEF TypeOK, Release

\* Nor does a thread hold a lock after the end of its transaction.
LEMMA EndKeeps ==
  ASSUME TypeOK, Locks, NEW w \in Writers, Clear(w), Release(w), NEW next \in {"idle", "publishing"},
         pc' = [pc EXCEPT ![w] = next],
         \A v \in Writers \ {w} : kind'[v] = kind[v] /\ plan'[v] = plan[v]
  PROVE  Locks'
<1>1. \A v \in Writers : Written(v)' = IF v = w THEN {} ELSE Written(v)
  BY LiveStateAssumption DEF Release, Written, TypeOK
<1>2. \A v \in Writers \ {w} : pc'[v] = pc[v] /\ batch'[v] = batch[v]
  BY DEF Clear, TypeOK
<1>3. pc'[w] # "writing"
  BY DEF TypeOK
<1>4. NothingHeld'
  BY <1>1, <1>2, <1>3 DEF Locks, NothingHeld
<1>5. BatchCovers'
  BY <1>1, <1>2, <1>3 DEF Locks, BatchCovers, Latest
<1> QED BY <1>4, <1>5 DEF Locks

\* The invariant from which type correctness follows: next to the types, that only
\* a transaction holds locks and that a feed has a reading for each row it writes.
LEMMA TypesAndLocks == Spec => [](TypeOK /\ Locks)
<1> USE LiveStateAssumption
<1>1. Init => TypeOK /\ Locks
  <2> SUFFICES ASSUME Init PROVE TypeOK /\ Locks
    OBVIOUS
  <2>1. TypeOK
    BY DEF Init, TypeOK, Zero, Idle
  <2>2. \A w \in Writers : Written(w) = {} /\ pc[w] # "writing"
    BY DEF Init, Written, Idle
  <2> QED BY <2>1, <2>2 DEF Locks, NothingHeld, BatchCovers
<1>2. TypeOK /\ Locks /\ [Next]_vars => TypeOK' /\ Locks'
  <2> SUFFICES ASSUME TypeOK, Locks, [Next]_vars PROVE TypeOK' /\ Locks'
    OBVIOUS
  <2>0. Zero \in [Stations -> Nat]
    BY DEF Zero
  <2>1. CASE Tick
    <3>1. TypeOK'
      BY <2>1 DEF Tick, TypeOK, database, threads
    <3>2. UNCHANGED <<pc, kind, batch, plan, holder>>
      BY <2>1 DEF Tick, threads
    <3> QED BY <3>1, <3>2, SameLocks
  <2>2. ASSUME NEW w \in Writers, NEW t \in Trips, CheckIn(w, t)
        PROVE  TypeOK' /\ Locks'
    <3>1. TypeOK'
      <4>1. Start(w, "check_in", t, {}, Zero, {t.from})
        BY <2>2 DEF CheckIn
      <4>2. {t.from} \in SUBSET Stations
        OBVIOUS
      <4>3. guard' \in [Trips -> Writers \cup {Nobody}]
        BY <2>2 DEF CheckIn, TypeOK
      <4> QED BY <2>0, <4>1, <4>2, <4>3, StartType
    <3>2. Locks'
      <4>1. Start(w, "check_in", t, {}, Zero, {t.from})
        BY <2>2 DEF CheckIn
      <4>2. "check_in" # "feed"
        OBVIOUS
      <4> QED BY <4>1, <4>2, StartKeeps
    <3> QED BY <3>1, <3>2
  <2>3. ASSUME NEW w \in Writers, NEW t \in Trips, CheckOut(w, t)
        PROVE  TypeOK' /\ Locks'
    <3>1. TypeOK'
      <4>1. Start(w, "check_out", t, {}, Zero, {t.from, t.to})
        BY <2>3 DEF CheckOut
      <4>2. {t.from, t.to} \in SUBSET Stations
        OBVIOUS
      <4>3. guard' \in [Trips -> Writers \cup {Nobody}]
        BY <2>3 DEF CheckOut, TypeOK
      <4> QED BY <2>0, <4>1, <4>2, <4>3, StartType
    <3>2. Locks'
      <4>1. Start(w, "check_out", t, {}, Zero, {t.from, t.to})
        BY <2>3 DEF CheckOut
      <4>2. "check_out" # "feed"
        OBVIOUS
      <4> QED BY <4>1, <4>2, StartKeeps
    <3> QED BY <3>1, <3>2
  <2>4. ASSUME NEW w \in Writers, NEW s \in Stations, NEW count \in Counts, LogCount(w, s, count)
        PROVE  TypeOK' /\ Locks'
    <3>1. TypeOK'
      <4> DEFINE values == [Zero EXCEPT ![s] = count]
      <4>1. values \in [Stations -> Nat]
        BY <2>0
      <4>2. Start(w, "log", NoTrip, {}, values, {s})
        BY <2>4 DEF LogCount
      <4>3. guard' \in [Trips -> Writers \cup {Nobody}]
        BY <2>4 DEF LogCount, TypeOK
      <4>4. {} \in SUBSET Readings /\ {s} \in SUBSET Stations
        OBVIOUS
      <4> HIDE DEF values
      <4> QED BY <4>1, <4>2, <4>3, <4>4, StartType
    <3>2. Locks'
      <4>1. Start(w, "log", NoTrip, {}, [Zero EXCEPT ![s] = count], {s})
        BY <2>4 DEF LogCount
      <4>2. "log" # "feed"
        OBVIOUS
      <4> QED BY <4>1, <4>2, StartKeeps
    <3> QED BY <3>1, <3>2
  <2>5. ASSUME NEW w \in Writers, NEW readings \in SUBSET Readings, Feed(w, readings)
        PROVE  TypeOK' /\ Locks'
    <3> DEFINE new == readings \ taken
               stations == {r.station : r \in new}
    <3>1. PICK latest \in [stations -> new] :
             /\ \A s \in stations : latest[s] \in Latest(new, s)
             /\ Start(w, "feed", NoTrip, new,
                      [s \in Stations |-> IF s \in stations THEN latest[s].count ELSE 0], stations)
      BY <2>5 DEF Feed
    <3>2. TypeOK'
      <4>1. [s \in Stations |-> IF s \in stations THEN latest[s].count ELSE 0] \in [Stations -> Nat]
        BY <3>1
      <4>2. stations \in SUBSET Stations /\ new \in SUBSET Readings
        OBVIOUS
      <4>3. guard' \in [Trips -> Writers \cup {Nobody}]
        BY <2>5 DEF Feed, TypeOK
      <4> HIDE DEF stations, new
      <4> QED BY <3>1, <4>1, <4>2, <4>3, StartType
    <3>3. Locks'
      <4>1. \A s \in stations : Latest(new, s) # {}
        BY <3>1
      <4> HIDE DEF stations, new
      <4> QED BY <3>1, <4>1, StartKeeps
    <3> QED BY <3>2, <3>3
  <2>6. ASSUME NEW w \in Writers, NEW base \in [Stations -> Counts], SimulatorTick(w, base)
        PROVE  TypeOK' /\ Locks'
    <3>1. TypeOK'
      <4>1. [s \in Stations |-> base[s] + CheckedIn(s)] \in [Stations -> Nat]
        <5>1. \A s : CheckedIn(s) \in Nat
          BY CountsOfTrips
        <5>2. \A s \in Stations : base[s] \in Nat
          OBVIOUS
        <5> QED BY <5>1, <5>2
      <4>2. guard' \in [Trips -> Writers \cup {Nobody}]
        BY <2>6 DEF SimulatorTick, TypeOK
      <4> QED BY <2>6, <4>1, <4>2, StartType DEF SimulatorTick
    <3>2. Locks'
      <4>1. Start(w, "tick", NoTrip, {}, [s \in Stations |-> base[s] + CheckedIn(s)], Stations)
        BY <2>6 DEF SimulatorTick
      <4>2. "tick" # "feed"
        OBVIOUS
      <4> QED BY <4>1, <4>2, StartKeeps
    <3> QED BY <3>1, <3>2
  <2>7. ASSUME NEW w \in Writers, NEW s \in Stations, Look(w, s)
        PROVE  TypeOK' /\ Locks'
    <3>1. /\ plan' \in [Writers -> SUBSET Stations] /\ looked' \in [Writers -> SUBSET Stations]
          /\ \A v \in Writers : plan'[v] \subseteq plan[v]
      <4>1. CASE looked' = [looked EXCEPT ![w] = {s}] /\ UNCHANGED plan
        BY <4>1 DEF TypeOK
      <4>2. CASE plan' = [plan EXCEPT ![w] = @ \ {s}] /\ UNCHANGED looked
        BY <4>2 DEF TypeOK
      <4> QED BY <2>7, <4>1, <4>2 DEF Look
    <3>2. /\ UNCHANGED <<now, database, holder, guard, pc, kind, trip, batch, value, began,
                         staged, cache, reader, stops>>
      BY <2>7 DEF Look
    <3>0. TypeOK'
      BY <3>1, <3>2 DEF TypeOK, database
    <3>3. Locks'
      BY <3>1, <3>2 DEF Locks, NothingHeld, BatchCovers, Written, Latest
    <3> QED BY <3>0, <3>3
  <2>8. ASSUME NEW w \in Writers, NEW s \in Stations, Write(w, s)
        PROVE  TypeOK' /\ Locks'
    <3>1. NewCount(w, s) \in Nat
      <4>1. CountOf(s) \in Nat /\ Delta(w, s) \in Int
        BY DEF CountOf, Delta, TypeOK, NoRow
      <4>2. AtLeastZero(CountOf(s) + Delta(w, s)) \in Nat
        BY <4>1, AtLeastZeroType
      <4> QED BY <4>2 DEF NewCount, TypeOK
    <3>2. staged' \in [Writers -> [Stations -> Nat]]
      <4>1. [staged[w] EXCEPT ![s] = NewCount(w, s)] \in [Stations -> Nat]
        BY <3>1 DEF TypeOK
      <4> QED BY <2>8, <4>1 DEF Write, TypeOK
    <3>3. TypeOK'
      BY <2>8, <3>2 DEF Write, TypeOK, database
    <3>4. Locks'
      <4>1. UNCHANGED <<pc, kind, batch>>
        BY <2>8 DEF Write
      <4>2. pc[w] = "writing" /\ s \in plan[w]
        BY <2>8 DEF Write, Wants, IsNext
      <4>3. \A v \in Writers : Written(v)' = IF v = w THEN Written(v) \cup {s} ELSE Written(v)
        BY <2>8, LiveStateAssumption DEF Write, Written, TypeOK
      <4>4. \A v \in Writers : plan'[v] \subseteq plan[v]
        BY <2>8 DEF Write, TypeOK
      <4>5. NothingHeld'
        BY <4>1, <4>2, <4>3 DEF Locks, NothingHeld
      <4>6. BatchCovers'
        BY <4>1, <4>2, <4>3, <4>4 DEF Locks, BatchCovers, Latest
      <4> QED BY <4>5, <4>6 DEF Locks
    <3> QED BY <3>3, <3>4
  <2>9. ASSUME NEW w \in Writers, Commit(w)
        PROVE  TypeOK' /\ Locks'
    <3>1. row' \in [Stations -> Nat \cup {NoRow}]
      BY <2>9 DEF Commit, TypeOK
    <3>2. updated' \in [Stations -> Nat]
      <4> SUFFICES ASSUME NEW s \in Stations, s \in Written(w) PROVE Stamp(w, s) \in Nat
        BY <2>9 DEF Commit, TypeOK
      <4>1. kind[w] = "feed" => Seen(w, s) \in Nat
        BY <2>9, SeenType DEF Commit, Done, Locks, BatchCovers
      <4>2. updated[s] \in Nat /\ began[w] \in Nat
        BY DEF TypeOK
      <4> QED BY <4>1, <4>2 DEF Stamp
    <3>3. taken' \subseteq Readings
      BY <2>9 DEF Commit, TypeOK
    <3>4. status' \in [Trips -> {"none", "ACTIVE", "COMPLETED"}]
      BY <2>9 DEF Commit, TypeOK, NewStatus
    <3>5. plan' \in [Writers -> SUBSET Stations]
      BY <2>9 DEF Commit, TypeOK, Written
    <3>6. TypeOK'
      BY <2>9, <3>1, <3>2, <3>3, <3>4, <3>5, ClearType, ReleaseType DEF Commit, TypeOK
    <3>7. Locks'
      <4>1. Clear(w) /\ Release(w) /\ pc' = [pc EXCEPT ![w] = "publishing"]
        BY <2>9 DEF Commit
      <4>2. \A v \in Writers \ {w} : kind'[v] = kind[v] /\ plan'[v] = plan[v]
        BY <2>9 DEF Commit, TypeOK
      <4> QED BY <4>1, <4>2, EndKeeps
    <3> QED BY <3>6, <3>7
  <2>10. ASSUME NEW w \in Writers, Release(w), Forget(w), UNCHANGED <<now, database, cache, reader>>,
                stops' \in 0..MaxStops
         PROVE  TypeOK' /\ Locks'
    <3>1. plan' \in [Writers -> SUBSET Stations] /\ pc' \in [Writers -> {Idle, "writing", "publishing"}]
          /\ kind' \in [Writers -> Kinds \cup {Idle}]
      BY <2>10 DEF Forget, TypeOK
    <3>2. TypeOK'
      BY <2>10, <3>1, ClearType, ReleaseType DEF Forget, TypeOK, database
    <3>3. Locks'
      <4>1. Clear(w) /\ pc' = [pc EXCEPT ![w] = "idle"]
        BY <2>10 DEF Forget, Idle
      <4>2. \A v \in Writers \ {w} : kind'[v] = kind[v] /\ plan'[v] = plan[v]
        BY <2>10 DEF Forget, TypeOK
      <4> QED BY <2>10, <4>1, <4>2, EndKeeps
    <3> QED BY <3>2, <3>3
  <2>11. ASSUME NEW w \in Writers, Refuse(w) \/ Stop(w) \/ Victim(w)
         PROVE  TypeOK' /\ Locks'
    <3>1. Release(w) /\ Forget(w) /\ UNCHANGED <<now, database, cache, reader>>
      BY <2>11 DEF Refuse, Stop, Victim
    <3>2. stops' \in 0..MaxStops
      BY <2>11 DEF Refuse, Stop, Victim, TypeOK
    <3> QED BY <2>10, <3>1, <3>2
  <2>12. ASSUME NEW w \in Writers, NEW s \in Stations, Drop(w, s)
         PROVE  TypeOK' /\ Locks'
    <3>1. TypeOK'
      BY <2>12 DEF Drop, TypeOK, database
    <3>2. /\ UNCHANGED <<pc, kind, batch, holder>>
          /\ \A v \in Writers : plan'[v] \subseteq plan[v]
      BY <2>12 DEF Drop, TypeOK
    <3>3. Locks'
      BY <3>2 DEF Locks, NothingHeld, BatchCovers, Written, Latest
    <3> QED BY <3>1, <3>3
  <2>13. ASSUME NEW w \in Writers, Respond(w)
         PROVE  TypeOK' /\ Locks'
    <3>1. TypeOK'
      BY <2>13, ClearType DEF Respond, Forget, TypeOK, database
    <3>2. Locks'
      BY <2>13 DEF Respond, Forget, Clear, Locks, NothingHeld, BatchCovers, Written, Latest, TypeOK, Idle
    <3> QED BY <3>1, <3>2
  <2>14. CASE (\E r \in Readers : Fill(r) \/ \E s \in Stations : Read(r, s)) \/ \E s \in Stations : Expire(s)
    <3>1. UNCHANGED <<now, database, holder, guard, threads, stops>>
      BY <2>14 DEF Fill, Read, Expire
    <3>2. reader' \in [Readers -> [station : Stations, count : Nat] \cup {NothingRead}]
      <4>1. ASSUME NEW r \in Readers, NEW s \in Stations, Read(r, s)
            PROVE  reader' \in [Readers -> [station : Stations, count : Nat] \cup {NothingRead}]
        <5>1. [station |-> s, count |-> row[s]] \in [station : Stations, count : Nat]
          BY <4>1 DEF Read, TypeOK
        <5> QED BY <4>1, <5>1 DEF Read, TypeOK
      <4>2. ASSUME NEW r \in Readers, Fill(r)
            PROVE  reader' \in [Readers -> [station : Stations, count : Nat] \cup {NothingRead}]
        BY <4>2 DEF Fill, TypeOK
      <4> QED BY <2>14, <4>1, <4>2 DEF Expire, TypeOK
    <3>3. cache' \in [Stations -> Nat \cup {NoRow}]
      <4>1. ASSUME NEW r \in Readers, Fill(r) PROVE cache' \in [Stations -> Nat \cup {NoRow}]
        <5>1. reader[r].count \in Nat
          BY <4>1 DEF Fill, TypeOK
        <5> QED BY <4>1, <5>1 DEF Fill, TypeOK
      <4> QED BY <2>14, <4>1 DEF Read, Expire, TypeOK
    <3>4. TypeOK'
      BY <3>1, <3>2, <3>3 DEF TypeOK, database, threads
    <3>5. Locks'
      BY <3>1, SameLocks DEF threads
    <3> QED BY <3>4, <3>5
  <2>15. CASE UNCHANGED vars
    <3>1. TypeOK'
      BY <2>15 DEF vars, TypeOK, database, threads
    <3>2. Locks'
      BY <2>15, SameLocks DEF vars, threads
    <3> QED BY <3>1, <3>2
  <2> QED
    BY <2>1, <2>2, <2>3, <2>4, <2>5, <2>6, <2>7, <2>8, <2>9, <2>11, <2>12, <2>13, <2>14, <2>15
       DEF Next, Request, Proceed
<1> QED BY <1>1, <1>2, PTL DEF Spec

\* Every step keeps every variable in its type: in particular no count falls below
\* zero, whatever is written between a check-in and its check-out.
THEOREM TypeCorrect == Spec => []TypeOK
BY TypesAndLocks, PTL
-------------------------------------------------------------------------------
(***************************************************************************)
(* Where the only requests are check-ins and check-outs, each transaction  *)
(* has staged the counts of the rows whose locks it holds, from counts     *)
(* that are still those of the rows, and no two have the same trip.        *)
(***************************************************************************)
Needed(w) == IF kind[w] = "check_in" THEN {trip[w].from} ELSE {trip[w].from, trip[w].to}

InFlight(w) ==
  /\ kind[w] \in {"check_in", "check_out"}
  /\ trip[w] \in Trips
  /\ status[trip[w]] = IF kind[w] = "check_in" THEN "none" ELSE "ACTIVE"
  /\ kind[w] = "check_out" => guard[trip[w]] = w
  /\ plan[w] \subseteq Needed(w)
  /\ Written(w) = Needed(w) \ plan[w]
  /\ \A s \in Written(w) : staged[w][s] = AtLeastZero(CountOf(s) + Delta(w, s))

TransactionsFit == \A w \in Writers : pc[w] = "writing" => InFlight(w)

NoSharedTrip ==
  \A v, w \in Writers : v # w /\ pc[v] = "writing" /\ pc[w] = "writing" => trip[v] # trip[w]

Ledger == TransactionsFit /\ NoSharedTrip /\ Conserved

\* A step of one thread leaves the transaction of another as it is.
LEMMA OtherInFlight ==
  ASSUME NEW v \in Writers, InFlight(v),
         kind'[v] = kind[v], trip'[v] = trip[v], plan'[v] = plan[v], staged'[v] = staged[v],
         status'[trip[v]] = status[trip[v]],
         guard[trip[v]] = v => guard'[trip[v]] = v,
         Written(v)' = Written(v), \A s \in Written(v) : row'[s] = row[s]
  PROVE  InFlight(v)'
<1>1. Needed(v)' = Needed(v)
  BY DEF Needed
<1>2. \A s \in Written(v) : CountOf(s)' = CountOf(s) /\ Delta(v, s)' = Delta(v, s)
  BY DEF CountOf, Delta
<1> QED BY <1>1, <1>2 DEF InFlight, AtLeastZero

\* Counts change with rows and journeys only.
LEMMA SameCounts ==
  ASSUME Conserved, row' = row, status' = status PROVE Conserved'
BY DEF Conserved, CountOf, Departed, Arrived

\* A check-in or a check-out that starts holds no row and shares its trip with no
\* other: the id of a new journey is its own, and an old journey is locked.
LEMMA StartLedger ==
  ASSUME TypeOK, Locks, Ledger, NEW w \in Writers, NEW k \in {"check_in", "check_out"},
         NEW t \in Trips, NEW stations, Start(w, k, t, {}, Zero, stations),
         stations = IF k = "check_in" THEN {t.from} ELSE {t.from, t.to},
         status[t] = IF k = "check_in" THEN "none" ELSE "ACTIVE",
         k = "check_out" => guard'[t] = w,
         \A u \in Trips : guard[u] # Nobody => guard'[u] = guard[u],
         \A v \in Writers : pc[v] = "writing" => trip[v] # t
  PROVE  Ledger'
<1>1. /\ \A v \in Writers : Written(v)' = Written(v)
      /\ row' = row /\ status' = status /\ staged' = staged
  BY DEF Start, Written, database
<1>2. /\ \A v \in Writers \ {w} : /\ pc'[v] = pc[v] /\ kind'[v] = kind[v]
                                  /\ trip'[v] = trip[v] /\ plan'[v] = plan[v]
      /\ pc'[w] = "writing" /\ kind'[w] = k /\ trip'[w] = t /\ plan'[w] = stations
  BY DEF Start, TypeOK
<1>3. Written(w) = {}
  BY DEF Start, Locks, NothingHeld, Idle
<1>4. Needed(w)' = stations
  BY <1>2 DEF Needed
<1>5. InFlight(w)'
  BY <1>1, <1>2, <1>3, <1>4 DEF InFlight
<1>6. ASSUME NEW v \in Writers, v # w, pc[v] = "writing" PROVE InFlight(v)'
  <2>1. InFlight(v) /\ trip[v] \in Trips
    BY <1>6 DEF Ledger, TransactionsFit, InFlight
  <2>2. guard[trip[v]] = v => guard'[trip[v]] = v
    BY <2>1, LiveStateAssumption
  <2> QED BY <1>1, <1>2, <1>6, <2>1, <2>2, OtherInFlight
<1>7. TransactionsFit'
  BY <1>2, <1>5, <1>6 DEF TransactionsFit
<1>8. NoSharedTrip'
  BY <1>2 DEF Ledger, NoSharedTrip
<1>9. Conserved'
  BY <1>1, SameCounts DEF Ledger
<1> QED BY <1>7, <1>8, <1>9 DEF Ledger

\* The end of a transaction, which may change the rows that it has locked and the
\* status of its trip, leaves the others as they are.
LEMMA EndLedger ==
  ASSUME TypeOK, Ledger, NEW w \in Writers, Clear(w), Release(w),
         NEW next \in {"idle", "publishing"}, pc' = [pc EXCEPT ![w] = next],
         \A v \in Writers \ {w} : kind'[v] = kind[v] /\ plan'[v] = plan[v],
         \A s \in Stations \ Written(w) : row'[s] = row[s],
         status' = status \/ (pc[w] = "writing" /\ \A t \in Trips \ {trip[w]} : status'[t] = status[t])
  PROVE  TransactionsFit' /\ NoSharedTrip'
<1>1. \A v \in Writers \ {w} :
         /\ pc'[v] = pc[v] /\ trip'[v] = trip[v] /\ staged'[v] = staged[v]
         /\ Written(v)' = Written(v) /\ Written(v) \subseteq Stations \ Written(w)
  BY LiveStateAssumption DEF Clear, Release, Written, TypeOK
<1>2. pc'[w] # "writing"
  BY DEF TypeOK
<1>3. ASSUME NEW v \in Writers, v # w, pc[v] = "writing" PROVE InFlight(v)'
  <2>1. InFlight(v) /\ trip[v] \in Trips
    BY <1>3 DEF Ledger, TransactionsFit, InFlight
  <2>2. guard[trip[v]] = v => guard'[trip[v]] = v
    BY <1>3, <2>1 DEF Release
  <2>3. status'[trip[v]] = status[trip[v]]
    BY <1>3, <2>1 DEF Ledger, NoSharedTrip
  <2> QED BY <1>1, <1>3, <2>1, <2>2, <2>3, OtherInFlight
<1>4. TransactionsFit'
  BY <1>1, <1>2, <1>3 DEF TransactionsFit
<1>5. NoSharedTrip'
  BY <1>1, <1>2 DEF Ledger, NoSharedTrip
<1> QED BY <1>4, <1>5
\* A step that changes no transaction leaves the books as they are.
LEMMA QuietLedger ==
  ASSUME Ledger, UNCHANGED <<row, status, holder, guard>>,
         \A v \in Writers :
            \/ /\ pc'[v] = pc[v] /\ kind'[v] = kind[v] /\ trip'[v] = trip[v]
               /\ staged'[v] = staged[v] /\ (pc[v] = "writing" => plan'[v] = plan[v])
            \/ pc[v] # "writing" /\ pc'[v] # "writing"
  PROVE  Ledger'
<1>1. ASSUME NEW v \in Writers, pc'[v] = "writing" PROVE InFlight(v)'
  <2>1. pc[v] = "writing" /\ InFlight(v)
    BY <1>1 DEF Ledger, TransactionsFit
  <2>2. Written(v)' = Written(v)
    BY DEF Written
  <2> QED BY <1>1, <2>1, <2>2, OtherInFlight
<1>2. NoSharedTrip'
  BY DEF Ledger, NoSharedTrip
<1>3. Conserved'
  BY SameCounts DEF Ledger
<1> QED BY <1>1, <1>2, <1>3 DEF Ledger, TransactionsFit

\* A check-in adds its passenger to those who have left the station, and to the
\* count of its row.
LEMMA CheckInConserves ==
  ASSUME TypeOK, Ledger, NEW w \in Writers, Commit(w), kind[w] = "check_in"
  PROVE  Conserved'
<1> DEFINE t == trip[w]
<1>1. /\ InFlight(w) /\ plan[w] = {} /\ t \in Trips
      /\ Written(w) = {t.from} /\ status[t] = "none"
  BY DEF Commit, Done, Ledger, TransactionsFit, InFlight, Needed
<1>2. \A u \in Trips : status'[u] = IF u = t THEN "ACTIVE" ELSE status[u]
  BY DEF Commit, NewStatus
<1> SUFFICES ASSUME NEW s \in Stations
             PROVE  CountOf(s)' = Cardinality(Departed(s)') + Cardinality(Arrived(s)')
  BY DEF Conserved
<1>3. CountOf(s) = Cardinality(Departed(s)) + Cardinality(Arrived(s))
  BY DEF Ledger, Conserved
<1>4. Arrived(s)' = Arrived(s)
  BY <1>1, <1>2 DEF Arrived
<1>5. CASE s = t.from
  <2>1. Departed(s)' = Departed(s) \cup {t} /\ t \notin Departed(s)
    BY <1>1, <1>2, <1>5 DEF Departed
  <2>2. Cardinality(Departed(s)') = Cardinality(Departed(s)) + 1
    BY <2>1, CountsOfTrips, FS_AddElement
  <2>3. row'[s] = AtLeastZero(CountOf(s) + 1)
    BY <1>1, <1>5 DEF Commit, InFlight, Delta
  <2>4. row'[s] = CountOf(s) + 1 /\ row'[s] # NoRow
    BY <1>3, <2>3, CountsOfTrips DEF AtLeastZero, NoRow
  <2>5. CountOf(s)' = CountOf(s) + 1
    BY <2>4 DEF CountOf
  <2> QED BY <1>3, <1>4, <2>2, <2>5, CountsOfTrips
<1>6. CASE s # t.from
  <2>1. Departed(s)' = Departed(s)
    BY <1>1, <1>2, <1>6 DEF Departed
  <2>2. CountOf(s)' = CountOf(s)
    BY <1>1, <1>6 DEF Commit, CountOf
  <2> QED BY <1>3, <1>4, <2>1, <2>2
<1> QED BY <1>5, <1>6

\* A check-out moves its passenger from one count to the other: its passenger is
\* among those who left the source, so that count is not zero.
LEMMA CheckOutConserves ==
  ASSUME TypeOK, Ledger, NEW w \in Writers, Commit(w), kind[w] = "check_out"
  PROVE  Conserved'
<1> DEFINE t == trip[w]
<1>1. /\ InFlight(w) /\ plan[w] = {} /\ t \in Trips
      /\ Written(w) = {t.from, t.to} /\ status[t] = "ACTIVE"
  BY DEF Commit, Done, Ledger, TransactionsFit, InFlight, Needed
<1>2. \A u \in Trips : status'[u] = IF u = t THEN "COMPLETED" ELSE status[u]
  BY DEF Commit, NewStatus
<1>3. t.from # t.to
  BY <1>1, LiveStateAssumption
<1> SUFFICES ASSUME NEW s \in Stations
             PROVE  CountOf(s)' = Cardinality(Departed(s)') + Cardinality(Arrived(s)')
  BY DEF Conserved
<1>4. CountOf(s) = Cardinality(Departed(s)) + Cardinality(Arrived(s))
  BY DEF Ledger, Conserved
<1>5. CASE s = t.from
  <2>1. Departed(s)' = Departed(s) \ {t} /\ t \in Departed(s) /\ Arrived(s)' = Arrived(s)
    BY <1>1, <1>2, <1>3, <1>5 DEF Departed, Arrived
  <2>2. Cardinality(Departed(s)') = Cardinality(Departed(s)) - 1
    BY <2>1, CountsOfTrips, FS_RemoveElement
  <2>3. Cardinality(Departed(s)) >= 1
    BY <2>1, CountsOfTrips, FS_EmptySet
  <2>4. row'[s] = AtLeastZero(CountOf(s) + -1)
    BY <1>1, <1>5 DEF Commit, InFlight, Delta
  <2>5. row'[s] = CountOf(s) - 1 /\ row'[s] # NoRow
    BY <1>4, <2>3, <2>4, CountsOfTrips DEF AtLeastZero, NoRow
  <2>6. CountOf(s)' = CountOf(s) - 1
    BY <2>5 DEF CountOf
  <2> QED BY <1>4, <2>1, <2>2, <2>6, CountsOfTrips
<1>6. CASE s = t.to
  <2>1. Arrived(s)' = Arrived(s) \cup {t} /\ t \notin Arrived(s) /\ Departed(s)' = Departed(s)
    BY <1>1, <1>2, <1>3, <1>6 DEF Departed, Arrived
  <2>2. Cardinality(Arrived(s)') = Cardinality(Arrived(s)) + 1
    BY <2>1, CountsOfTrips, FS_AddElement
  <2>3. row'[s] = AtLeastZero(CountOf(s) + 1)
    BY <1>1, <1>3, <1>6 DEF Commit, InFlight, Delta
  <2>4. row'[s] = CountOf(s) + 1 /\ row'[s] # NoRow
    BY <1>4, <2>3, CountsOfTrips DEF AtLeastZero, NoRow
  <2>5. CountOf(s)' = CountOf(s) + 1
    BY <2>4 DEF CountOf
  <2> QED BY <1>4, <2>1, <2>2, <2>5, CountsOfTrips
<1>7. CASE s \notin {t.from, t.to}
  <2>1. Departed(s)' = Departed(s) /\ Arrived(s)' = Arrived(s)
    BY <1>1, <1>2, <1>7 DEF Departed, Arrived
  <2>2. CountOf(s)' = CountOf(s)
    BY <1>1, <1>7 DEF Commit, CountOf
  <2> QED BY <1>4, <2>1, <2>2
<1> QED BY <1>5, <1>6, <1>7

\* Taking the lock of one more row and staging its count.
LEMMA WriteLedger ==
  ASSUME TypeOK, Ledger, NEW w \in Writers, NEW s \in Stations, Write(w, s)
  PROVE  Ledger'
<1>1. pc[w] = "writing" /\ s \in plan[w] /\ InFlight(w)
  BY DEF Write, Wants, IsNext, Ledger, TransactionsFit
<1>2. \A v \in Writers : Written(v)' = IF v = w THEN Written(v) \cup {s} ELSE Written(v)
  BY LiveStateAssumption DEF Write, Written, TypeOK
<1>3. /\ UNCHANGED <<row, status, guard, pc, kind, trip>>
      /\ \A v \in Writers \ {w} : plan'[v] = plan[v] /\ staged'[v] = staged[v]
      /\ plan'[w] = plan[w] \ {s}
      /\ \A u \in Stations : staged'[w][u] = IF u = s THEN NewCount(w, s) ELSE staged[w][u]
  BY DEF Write, TypeOK, database
<1>4. NewCount(w, s) = AtLeastZero(CountOf(s) + Delta(w, s))
  BY <1>1 DEF NewCount, InFlight
<1>5. InFlight(w)'
  <2>1. Needed(w)' = Needed(w)
    BY <1>3 DEF Needed
  <2>2. \A u \in Stations : CountOf(u)' = CountOf(u) /\ Delta(w, u)' = Delta(w, u)
    BY <1>3 DEF CountOf, Delta
  <2>3. \A u \in Written(w)' : u \in Stations
    BY DEF Written
  <2>4. \A u \in Written(w)' : staged'[w][u] = AtLeastZero(CountOf(u) + Delta(w, u))
    BY <1>1, <1>2, <1>3, <1>4, <2>3 DEF InFlight
  <2>5. \A u \in Written(w)' : staged'[w][u] = AtLeastZero(CountOf(u)' + Delta(w, u)')
    BY <2>2, <2>3, <2>4
  <2>6. Written(w)' = Needed(w)' \ plan'[w] /\ plan'[w] \subseteq Needed(w)'
    BY <1>1, <1>2, <1>3, <2>1 DEF InFlight
  <2> QED BY <1>1, <1>3, <2>5, <2>6 DEF InFlight, AtLeastZero
<1>6. ASSUME NEW v \in Writers, v # w, pc[v] = "writing" PROVE InFlight(v)'
  <2>1. InFlight(v)
    BY <1>6 DEF Ledger, TransactionsFit
  <2> QED BY <1>2, <1>3, <1>6, <2>1, OtherInFlight
<1>7. TransactionsFit'
  BY <1>3, <1>5, <1>6 DEF TransactionsFit
<1>8. NoSharedTrip'
  BY <1>3 DEF Ledger, NoSharedTrip
<1>9. Conserved'
  BY <1>3, SameCounts DEF Ledger
<1> QED BY <1>7, <1>8, <1>9 DEF Ledger

\* For any stations, passengers and threads, if check-ins and check-outs are the
\* only requests, each count is that of the passengers of its station, whichever
\* way the requests interleave and stop.
THEOREM CountsAreConserved ==
  ASSUME Requests \subseteq {"check_in", "check_out"}
  PROVE  Spec => []Conserved
<1>1. Init => Ledger
  <2> SUFFICES ASSUME Init PROVE Ledger
    OBVIOUS
  <2>1. TransactionsFit /\ NoSharedTrip
    BY DEF Init, TransactionsFit, NoSharedTrip, Idle
  <2>2. Conserved
    <3> SUFFICES ASSUME NEW s \in Stations
                 PROVE  CountOf(s) = Cardinality(Departed(s)) + Cardinality(Arrived(s))
      BY DEF Conserved
    <3>1. CountOf(s) = 0
      BY DEF Init, CountOf
    <3>2. Departed(s) = {} /\ Arrived(s) = {}
      BY DEF Init, Departed, Arrived
    <3> QED BY <3>1, <3>2, FS_EmptySet
  <2> QED BY <2>1, <2>2 DEF Ledger
<1>2. TypeOK /\ Locks /\ Ledger /\ [Next]_vars => Ledger'
  <2> SUFFICES ASSUME TypeOK, Locks, Ledger, [Next]_vars PROVE Ledger'
    OBVIOUS
  <2>1. ASSUME NEW w \in Writers, NEW t \in Trips, CheckIn(w, t) PROVE Ledger'
    <3>1. Start(w, "check_in", t, {}, Zero, {t.from})
      BY <2>1 DEF CheckIn
    <3>2. status[t] = "none" /\ guard' = guard /\ \A v \in Writers : trip[v] # t
      BY <2>1 DEF CheckIn
    <3> QED BY <3>1, <3>2, StartLedger
  <2>2. ASSUME NEW w \in Writers, NEW t \in Trips, CheckOut(w, t) PROVE Ledger'
    <3>1. Start(w, "check_out", t, {}, Zero, {t.from, t.to})
      BY <2>2 DEF CheckOut
    <3>2. status[t] = "ACTIVE" /\ guard[t] = Nobody /\ guard' = [guard EXCEPT ![t] = w]
      BY <2>2 DEF CheckOut
    <3>3. guard'[t] = w /\ \A u \in Trips : guard[u] # Nobody => guard'[u] = guard[u]
      BY <3>2 DEF TypeOK
    <3>4. \A v \in Writers : pc[v] = "writing" => trip[v] # t
      BY <3>2, LiveStateAssumption DEF Ledger, TransactionsFit, InFlight
    <3> QED BY <3>1, <3>2, <3>3, <3>4, StartLedger
  <2>3. ASSUME NEW w \in Writers, NEW s \in Stations, Look(w, s) PROVE Ledger'
    BY <2>3 DEF Look, Ledger, TransactionsFit, InFlight
  <2>4. ASSUME NEW w \in Writers, Commit(w) PROVE Ledger'
    <3>1. pc[w] = "writing" /\ kind[w] \in {"check_in", "check_out"}
      BY <2>4 DEF Commit, Done, Ledger, TransactionsFit, InFlight
    <3>2. Conserved'
      BY <2>4, <3>1, CheckInConserves, CheckOutConserves
    <3>3. Clear(w) /\ Release(w) /\ pc' = [pc EXCEPT ![w] = "publishing"]
      BY <2>4 DEF Commit
    <3>4. /\ \A v \in Writers \ {w} : kind'[v] = kind[v] /\ plan'[v] = plan[v]
          /\ \A s \in Stations \ Written(w) : row'[s] = row[s]
          /\ \A t \in Trips \ {trip[w]} : status'[t] = status[t]
      BY <2>4 DEF Commit, TypeOK
    <3> QED BY <3>1, <3>2, <3>3, <3>4, EndLedger DEF Ledger
  <2>5. ASSUME NEW w \in Writers, Refuse(w) \/ Stop(w) \/ Victim(w) PROVE Ledger'
    <3>1. Clear(w) /\ Release(w) /\ pc' = [pc EXCEPT ![w] = "idle"]
      BY <2>5 DEF Refuse, Stop, Victim, Forget, Idle
    <3>2. /\ \A v \in Writers \ {w} : kind'[v] = kind[v] /\ plan'[v] = plan[v]
          /\ row' = row /\ status' = status
      BY <2>5 DEF Refuse, Stop, Victim, Forget, TypeOK, database
    <3> QED BY <3>1, <3>2, EndLedger, SameCounts DEF Ledger
  <2>6. ASSUME NEW w \in Writers, NEW s \in Stations, Drop(w, s) PROVE Ledger'
    <3>1. UNCHANGED <<row, status, holder, guard, pc, kind, trip, staged>>
      BY <2>6 DEF Drop, database
    <3>2. \A v \in Writers : pc[v] = "writing" => plan'[v] = plan[v]
      BY <2>6 DEF Drop, TypeOK
    <3> QED BY <3>1, <3>2, QuietLedger
  <2>7. ASSUME NEW w \in Writers, Respond(w) PROVE Ledger'
    <3>1. /\ UNCHANGED <<row, status, holder, guard>>
          /\ pc[w] # "writing" /\ pc'[w] # "writing"
      BY <2>7 DEF Respond, Forget, database, TypeOK, Idle
    <3>2. \A v \in Writers \ {w} : /\ pc'[v] = pc[v] /\ kind'[v] = kind[v] /\ trip'[v] = trip[v]
                                   /\ plan'[v] = plan[v] /\ staged'[v] = staged[v]
      BY <2>7 DEF Respond, Forget, Clear, TypeOK
    <3> QED BY <3>1, <3>2, QuietLedger
  <2>8. CASE \/ Tick \/ UNCHANGED vars
             \/ \E r \in Readers : Fill(r) \/ \E s \in Stations : Read(r, s)
             \/ \E s \in Stations : Expire(s)
    <3>1. UNCHANGED <<database, holder, guard, threads>>
      BY <2>8 DEF Tick, vars, Fill, Read, Expire
    <3> QED BY <3>1, QuietLedger DEF database, threads
  <2>9. ASSUME NEW w \in Writers, Request(w) PROVE Ledger'
    <3>1. CASE \E t \in Trips : CheckIn(w, t) \/ CheckOut(w, t)
      BY <2>1, <2>2, <3>1
    <3>2. CASE \E s \in Stations, count \in Counts : LogCount(w, s, count)
      BY <3>2 DEF LogCount, Start
    <3>3. CASE \E readings \in SUBSET Readings : Feed(w, readings)
      BY <3>3 DEF Feed, Start
    <3>4. CASE \E base \in [Stations -> Counts] : SimulatorTick(w, base)
      BY <3>4 DEF SimulatorTick, Start
    <3> QED BY <2>9, <3>1, <3>2, <3>3, <3>4 DEF Request
  <2>10. ASSUME NEW w \in Writers, Proceed(w) PROVE Ledger'
    BY <2>3, <2>4, <2>5, <2>6, <2>7, <2>10, WriteLedger DEF Proceed
  <2> QED BY <2>5, <2>8, <2>9, <2>10 DEF Next
<1>3. Ledger => Conserved
  BY DEF Ledger
<1> QED BY <1>1, <1>2, <1>3, TypesAndLocks, PTL DEF Spec
-------------------------------------------------------------------------------
(***************************************************************************)
(* What other threads do leaves a transaction as it is, whatever requests  *)
(* there are: its counts stay those of the rows that it has locked, and it *)
(* takes its rows in its own order.                                        *)
(***************************************************************************)

\* A transaction that is under way after a step has just begun, has taken one more
\* row, or is as it was: nobody else changes the rows that it has locked.
Began(v) == pc[v] = Idle /\ kind'[v] \in Requests /\ Written(v)' = {}
Goes(v) ==
  /\ pc[v] = "writing"
  /\ kind'[v] = kind[v] /\ trip'[v] = trip[v] /\ staged'[v] = staged[v]
  /\ plan'[v] \subseteq plan[v]
  /\ Written(v)' = Written(v)
  /\ \A s \in Written(v) : row'[s] = row[s]

LEMMA StartGoes ==
  ASSUME TypeOK, Locks, NEW w \in Writers, NEW k, NEW t, NEW readings, NEW values, NEW stations,
         Start(w, k, t, readings, values, stations), NEW v \in Writers, pc'[v] = "writing"
  PROVE  Began(v) \/ Goes(v)
<1>1. Written(v)' = Written(v) /\ row' = row /\ staged' = staged
  BY DEF Start, Written, database
<1>2. CASE v = w
  <2>1. pc[v] # "writing"
    BY <1>2 DEF Start, Idle
  <2> QED BY <1>1, <1>2, <2>1 DEF Start, Began, TypeOK, Locks, NothingHeld
<1>3. CASE v # w
  BY <1>1, <1>3 DEF Start, Goes, TypeOK
<1> QED BY <1>2, <1>3

LEMMA EndGoes ==
  ASSUME TypeOK, NEW w \in Writers, Clear(w), Release(w),
         NEW next \in {"idle", "publishing"}, pc' = [pc EXCEPT ![w] = next],
         \A v \in Writers \ {w} : kind'[v] = kind[v] /\ plan'[v] = plan[v],
         \A s \in Stations \ Written(w) : row'[s] = row[s],
         NEW v \in Writers, pc'[v] = "writing"
  PROVE  Goes(v)
<1>1. v # w
  BY DEF TypeOK
<1>2. pc'[v] = pc[v] /\ trip'[v] = trip[v] /\ staged'[v] = staged[v]
  BY <1>1 DEF Clear, TypeOK
<1>3. Written(v)' = Written(v) /\ Written(v) \subseteq Stations \ Written(w)
  BY <1>1, LiveStateAssumption DEF Release, Written, TypeOK
<1> QED BY <1>1, <1>2, <1>3 DEF Goes

LEMMA StepsOfOthers ==
  ASSUME TypeOK, Locks, [Next]_vars, NEW v \in Writers, pc'[v] = "writing"
  PROVE  Began(v) \/ Goes(v) \/ \E s \in Stations : Write(v, s)
<1>1. ASSUME NEW w \in Writers, Request(w) PROVE Began(v) \/ Goes(v)
  <2>1. CASE \E t \in Trips : CheckIn(w, t) \/ CheckOut(w, t)
    BY <2>1, StartGoes DEF CheckIn, CheckOut
  <2>2. CASE \E s \in Stations, count \in Counts : LogCount(w, s, count)
    BY <2>2, StartGoes DEF LogCount
  <2>3. CASE \E readings \in SUBSET Readings : Feed(w, readings)
    <3>1. PICK readings \in SUBSET Readings : Feed(w, readings)
      BY <2>3
    <3>2. \E new, values, stations : Start(w, "feed", NoTrip, new, values, stations)
      BY <3>1 DEF Feed
    <3> QED BY <3>2, StartGoes
  <2>4. CASE \E base \in [Stations -> Counts] : SimulatorTick(w, base)
    BY <2>4, StartGoes DEF SimulatorTick
  <2> QED BY <1>1, <2>1, <2>2, <2>3, <2>4 DEF Request
<1>2. ASSUME NEW w \in Writers, NEW s \in Stations, Look(w, s) \/ Drop(w, s) PROVE Goes(v)
  <2>1. UNCHANGED <<row, holder, pc, kind, trip, staged>>
    BY <1>2 DEF Look, Drop, database
  <2>2. plan'[v] \subseteq plan[v]
    BY <1>2 DEF Look, Drop, TypeOK
  <2> QED BY <2>1, <2>2 DEF Goes, Written
<1>3. ASSUME NEW w \in Writers, NEW s \in Stations, Write(w, s), w # v PROVE Goes(v)
  <2>1. UNCHANGED <<row, pc, kind, trip>> /\ staged'[v] = staged[v] /\ plan'[v] = plan[v]
    BY <1>3 DEF Write, database, TypeOK
  <2>2. Written(v)' = Written(v)
    BY <1>3, LiveStateAssumption DEF Write, Written, TypeOK
  <2> QED BY <2>1, <2>2 DEF Goes
<1>4. ASSUME NEW w \in Writers, Commit(w) PROVE Goes(v)
  <2>1. Clear(w) /\ Release(w) /\ pc' = [pc EXCEPT ![w] = "publishing"]
    BY <1>4 DEF Commit
  <2>2. /\ \A u \in Writers \ {w} : kind'[u] = kind[u] /\ plan'[u] = plan[u]
        /\ \A s \in Stations \ Written(w) : row'[s] = row[s]
    BY <1>4 DEF Commit, TypeOK
  <2> QED BY <2>1, <2>2, EndGoes
<1>5. ASSUME NEW w \in Writers, Refuse(w) \/ Stop(w) \/ Victim(w) PROVE Goes(v)
  <2>1. Clear(w) /\ Release(w) /\ pc' = [pc EXCEPT ![w] = "idle"]
    BY <1>5 DEF Refuse, Stop, Victim, Forget, Idle
  <2>2. /\ \A u \in Writers \ {w} : kind'[u] = kind[u] /\ plan'[u] = plan[u]
        /\ row' = row
    BY <1>5 DEF Refuse, Stop, Victim, Forget, TypeOK, database
  <2> QED BY <2>1, <2>2, EndGoes
<1>6. ASSUME NEW w \in Writers, Respond(w) PROVE Goes(v)
  <2>1. v # w /\ UNCHANGED <<row, holder>>
    BY <1>6 DEF Respond, Forget, database, TypeOK, Idle
  <2> QED BY <1>6, <2>1 DEF Respond, Forget, Clear, Goes, Written, TypeOK
<1>7. CASE \/ Tick \/ UNCHANGED vars
           \/ \E r \in Readers : Fill(r) \/ \E s \in Stations : Read(r, s)
           \/ \E s \in Stations : Expire(s)
  <2>1. UNCHANGED <<database, holder, threads>>
    BY <1>7 DEF Tick, vars, Fill, Read, Expire
  <2> QED BY <2>1 DEF database, threads, Goes, Written
<1>8. ASSUME NEW w \in Writers, Proceed(w)
      PROVE  Goes(v) \/ \E s \in Stations : Write(v, s)
  BY <1>2, <1>3, <1>4, <1>5, <1>6, <1>8 DEF Proceed
<1> QED BY <1>1, <1>5, <1>7, <1>8 DEF Next

\* What writing a row does to the transaction that writes it.
LEMMA WriteTakes ==
  ASSUME TypeOK, NEW w \in Writers, NEW s \in Stations, Write(w, s)
  PROVE  /\ pc[w] = "writing" /\ s \in plan[w] /\ plan'[w] = plan[w] \ {s}
         /\ \A u \in plan[w] : Rank(w, s) <= Rank(w, u)
         /\ Written(w)' = Written(w) \cup {s}
         /\ UNCHANGED <<row, pc, kind, trip, batch>>
         /\ \A u \in Stations : staged'[w][u] = IF u = s THEN NewCount(w, s) ELSE staged[w][u]
<1>1. Written(w)' = Written(w) \cup {s}
  BY LiveStateAssumption DEF Write, Written, TypeOK
<1> QED BY <1>1 DEF Write, Wants, IsNext, TypeOK, database

\* A check-in or a check-out has staged the counts that it computes from the rows
\* as they still are.
StagedIsExact ==
  \A w \in Writers : pc[w] = "writing" /\ kind[w] \in {"check_in", "check_out"} =>
     \A s \in Written(w) : staged[w][s] = AtLeastZero(CountOf(s) + Delta(w, s))

LEMMA StagedStaysExact ==
  ASSUME TypeOK, Locks, StagedIsExact, [Next]_vars
  PROVE  StagedIsExact'
<1> SUFFICES ASSUME NEW v \in Writers, pc'[v] = "writing", kind'[v] \in {"check_in", "check_out"},
                    NEW s \in Written(v)'
             PROVE  staged'[v][s] = AtLeastZero(CountOf(s)' + Delta(v, s)')
  BY DEF StagedIsExact, AtLeastZero
<1>1. s \in Stations
  BY DEF Written
<1>2. CASE Began(v)
  BY <1>2 DEF Began
<1>3. CASE Goes(v)
  <2>1. CountOf(s)' = CountOf(s) /\ Delta(v, s)' = Delta(v, s)
    BY <1>3 DEF Goes, CountOf, Delta
  <2> QED BY <1>3, <2>1 DEF Goes, StagedIsExact
<1>4. ASSUME NEW u \in Stations, Write(v, u)
      PROVE  staged'[v][s] = AtLeastZero(CountOf(s)' + Delta(v, s)')
  <2>1. CountOf(s)' = CountOf(s) /\ Delta(v, s)' = Delta(v, s)
    BY <1>4, WriteTakes DEF CountOf, Delta
  <2>2. CASE s = u
    <3>1. staged'[v][s] = NewCount(v, s) /\ kind' = kind
      BY <1>4, <2>2, WriteTakes
    <3> QED BY <2>1, <3>1 DEF NewCount
  <2>3. CASE s # u
    <3>1. s \in Written(v) /\ staged'[v][s] = staged[v][s] /\ pc[v] = "writing" /\ kind' = kind
      BY <1>1, <1>4, <2>3, WriteTakes
    <3> QED BY <2>1, <3>1 DEF StagedIsExact
  <2> QED BY <2>2, <2>3
<1> QED BY <1>2, <1>3, <1>4, StepsOfOthers

\* For any stations and threads, and whatever readings, ticks, stops and deadlocks
\* come between: the commit of a check-in or a check-out adds its passenger to the
\* count that it replaces.
THEOREM DeltasAreAlwaysExact == Spec => DeltasAreExact
<1>1. Init => StagedIsExact
  BY DEF Init, StagedIsExact, Idle
<1>2. TypeOK /\ Locks /\ StagedIsExact /\ [Next]_vars => StagedIsExact'
  BY StagedStaysExact
<1>3. ASSUME StagedIsExact, [Next]_vars
      PROVE  [\A w \in Writers : Commit(w) /\ kind[w] \in {"check_in", "check_out"} =>
                 \A s \in Written(w) : row'[s] = AtLeastZero(CountOf(s) + Delta(w, s))]_vars
  <2> SUFFICES ASSUME NEW w \in Writers, Commit(w), kind[w] \in {"check_in", "check_out"},
                      NEW s \in Written(w)
               PROVE  row'[s] = AtLeastZero(CountOf(s) + Delta(w, s))
    OBVIOUS
  <2>1. s \in Stations /\ row'[s] = staged[w][s]
    BY DEF Commit, Written
  <2> QED BY <1>3, <2>1 DEF Commit, Done, StagedIsExact
<1> QED BY <1>1, <1>2, <1>3, TypesAndLocks, PTL DEF Spec, DeltasAreExact
-------------------------------------------------------------------------------
(***************************************************************************)
(* Rows that are taken in the order of their ids are waited for in that    *)
(* order: among the rows that a circle of transactions waits for there     *)
(* would be a last one, and who holds it waits for a later one.            *)
(***************************************************************************)

\* Every request that occurs takes its rows by id.
RowsAreTakenById ==
  /\ "feed" \notin Requests
  /\ "tick" \in Requests => \A s, u \in Stations : TickOrder[s] <= TickOrder[u] => s <= u

TakesById ==
  \A w \in Writers : pc[w] = "writing" =>
     /\ kind[w] \in Requests
     /\ \A s \in Written(w), u \in plan[w] : s < u

LEMMA RankIsTheId ==
  ASSUME RowsAreTakenById, TypeOK, NEW w \in Writers, kind[w] \in Requests,
         NEW s \in Stations, NEW u \in Stations, Rank(w, s) <= Rank(w, u)
  PROVE  s <= u
<1>1. CASE kind[w] = "tick"
  BY <1>1 DEF Rank, RowsAreTakenById
<1>2. CASE kind[w] # "tick"
  BY <1>2 DEF Rank, RowsAreTakenById
<1> QED BY <1>1, <1>2

LEMMA StaysById ==
  ASSUME RowsAreTakenById, TypeOK, Locks, TakesById, [Next]_vars
  PROVE  TakesById'
<1> SUFFICES ASSUME NEW v \in Writers, pc'[v] = "writing"
             PROVE  kind'[v] \in Requests /\ \A s \in Written(v)', u \in plan'[v] : s < u
  BY DEF TakesById
<1>1. CASE Began(v)
  BY <1>1 DEF Began
<1>2. CASE Goes(v)
  BY <1>2 DEF Goes, TakesById
<1>3. ASSUME NEW r \in Stations, Write(v, r)
      PROVE  kind'[v] \in Requests /\ \A s \in Written(v)', u \in plan'[v] : s < u
  <2>1. kind'[v] = kind[v] /\ kind[v] \in Requests
    BY <1>3, WriteTakes DEF TakesById
  <2>2. ASSUME NEW s \in Written(v)', NEW u \in plan'[v] PROVE s < u
    <3>1. u \in plan[v] /\ u # r /\ u \in Stations /\ Rank(v, r) <= Rank(v, u)
      BY <1>3, WriteTakes DEF TypeOK
    <3>2. CASE s = r
      <4>1. r <= u
        BY <2>1, <3>1, RankIsTheId
      <4> QED BY <3>1, <3>2, <4>1, LiveStateAssumption
    <3>3. CASE s # r
      BY <1>3, <3>1, <3>3, WriteTakes DEF TakesById
    <3> QED BY <3>2, <3>3
  <2> QED BY <2>1, <2>2
<1> QED BY <1>1, <1>2, <1>3, StepsOfOthers

\* A set of naturals that is not empty, and part of a finite one, has a greatest
\* element: the parts of it from an element on are ordered by inclusion, which is
\* well-founded.
LEMMA Greatest ==
  ASSUME NEW S, S \subseteq Nat, IsFiniteSet(S), NEW T, T \subseteq S, T # {}
  PROVE  \E m \in T : \A n \in T : n <= m
<1> DEFINE From(n) == {x \in S : n <= x}
           F == {From(n) : n \in T}
           R == StrictSubsetOrdering(S)
<1>1. F \subseteq FiniteSubsetsOf(S) /\ F # {}
  <2>1. \A n \in T : From(n) \subseteq S /\ IsFiniteSet(From(n))
    BY FS_Subset
  <2> HIDE DEF From
  <2> QED BY <2>1 DEF FiniteSubsetsOf
<1>2. IsWellFoundedOn(R, FiniteSubsetsOf(S))
  BY FS_StrictSubsetOrderingWellFounded
<1>3. PICK X \in F : \A Y \in F : ~(<<Y, X>> \in R)
  <2> HIDE DEF F, R
  <2> QED BY <1>1, <1>2, WFMin
<1>4. PICK m \in T : X = From(m)
  BY <1>3
<1>5. ASSUME NEW n \in T, ~(n <= m) PROVE FALSE
  <2>1. m \in S /\ n \in S /\ m < n /\ \A x \in S : x \in Nat
    BY <1>5
  <2>2. From(n) \subseteq From(m)
    <3> SUFFICES ASSUME NEW x \in S, n <= x PROVE m <= x
      OBVIOUS
    <3> QED BY <2>1
  <2>5. m \in From(m) /\ m \notin From(n)
    BY <2>1
  <2>3. From(n) \in F /\ From(n) \subseteq S /\ From(m) \subseteq S
    OBVIOUS
  <2>4. <<From(n), From(m)>> \in R
    <3> HIDE DEF From
    <3> QED BY <2>2, <2>3, <2>5 DEF StrictSubsetOrdering
  <2> QED BY <1>3, <1>4, <2>3, <2>4
<1> QED BY <1>5

\* For any requests that take their rows by id, as check-ins, check-outs and
\* manual readings do, and any number of threads, no transactions wait in a circle.
THEOREM NobodyWaitsInACircle ==
  ASSUME RowsAreTakenById, IsFiniteSet(Stations)
  PROVE  Spec => []NoCircleOfWaits
<1>1. Init => TakesById
  BY DEF Init, TakesById, Idle
<1>2. TypeOK /\ Locks /\ TakesById /\ [Next]_vars => TakesById'
  BY StaysById
<1>3. TypeOK /\ Locks /\ TakesById => NoCircleOfWaits
  <2> SUFFICES ASSUME TypeOK, Locks, TakesById, NEW w \in Writers,
                      NEW W \in SUBSET Writers, w \in W,
                      \A v \in W : \E s \in Stations : Wants(v, s) /\ holder[s] \in W
               PROVE  FALSE
    BY DEF NoCircleOfWaits, Deadlocked
  <2> DEFINE Wanted == {s \in Stations : holder[s] \in W /\ \E v \in W : Wants(v, s)}
  <2>1. Wanted \subseteq Stations /\ Wanted # {}
    OBVIOUS
  <2>2. PICK s \in Wanted : \A u \in Wanted : u <= s
    <3> HIDE DEF Wanted
    <3> QED BY <2>1, Greatest, LiveStateAssumption
  <2>3. PICK u \in Stations : Wants(holder[s], u) /\ holder[u] \in W
    OBVIOUS
  <2>4. u \in Wanted
    BY <2>3
  <2>5. s < u
    <3>1. s \in Written(holder[s]) /\ pc[holder[s]] = "writing" /\ u \in plan[holder[s]]
      BY <2>3 DEF Written, Wants, IsNext
    <3> QED BY <3>1 DEF TakesById
  <2> QED BY <2>2, <2>4, <2>5, LiveStateAssumption
<1> QED BY <1>1, <1>2, <1>3, TypesAndLocks, PTL DEF Spec
=============================================================================
