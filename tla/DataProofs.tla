----------------------------- MODULE DataProofs -----------------------------
(***************************************************************************)
(* Proofs about what is written to the tables: about CrowdRetention, for   *)
(* any stations, lengths of hours, pages and batches, and any number of    *)
(* rows and of passes that fail; about the programs that fill the          *)
(* database (Seed), for any content of their files; about the feed that    *)
(* moves a train (Train), for any routes and events; and about the replay  *)
(* of recorded flow (Replay), for any file whose rows are together.  No    *)
(* theorem is about two of them.                                           *)
(***************************************************************************)
EXTENDS CrowdRetention, Sequences, FiniteSetTheorems, WellFoundedInduction, TLAPS

\* One pass at a time, and rows that are logged as of now: of late rows and of passes that
\* overlap, what is claimed below is not true.
OnePass == \A p, q \in Passes : p = q
NoLateRows == Delays = {0}

HourKeys == [station : Nat, hour : Int]

Earlier(G, g) == {h \in G : Before(h, g)}

-----------------------------------------------------------------------------
\* The pages of a roll-up.

\* Hours of stations are in one order.
LEMMA BeforeIsStrictOrder ==
  /\ \A g \in HourKeys : ~Before(g, g)
  /\ \A f, g, h \in HourKeys : Before(f, g) /\ Before(g, h) => Before(f, h)
  /\ \A g, h \in HourKeys : g # h => Before(g, h) \/ Before(h, g)
BY DEF HourKeys, Before

\* The positions of the hours of a set are the numbers below its size, each once.
LEMMA PositionsAreNumbers ==
  ASSUME NEW G \in SUBSET HourKeys, IsFiniteSet(G)
  PROVE  [g \in G |-> Cardinality(Earlier(G, g))] \in Bijection(G, 0..(Cardinality(G) - 1))
<1> DEFINE n == Cardinality(G)
           pos == [g \in G |-> Cardinality(Earlier(G, g))]
<1>1. n \in Nat
  BY FS_CardinalityType
<1>2. \A g \in G : IsFiniteSet(Earlier(G, g)) /\ pos[g] \in Nat
  BY FS_Subset, FS_CardinalityType DEF Earlier
<1>3. \A g \in G : pos[g] < n
  <2> SUFFICES ASSUME NEW g \in G PROVE pos[g] < n
    OBVIOUS
  <2>1. Earlier(G, g) \in SUBSET G /\ Earlier(G, g) # G
    BY BeforeIsStrictOrder DEF Earlier
  <2>2. pos[g] <= n /\ (n = pos[g] => G = Earlier(G, g))
    BY <2>1, FS_Subset
  <2> QED BY <1>1, <1>2, <2>1, <2>2
<1>4. \A g, h \in G : Before(g, h) => pos[g] < pos[h]
  <2> SUFFICES ASSUME NEW g \in G, NEW h \in G, Before(g, h) PROVE pos[g] < pos[h]
    OBVIOUS
  <2>1. Earlier(G, g) \in SUBSET Earlier(G, h) /\ Earlier(G, g) # Earlier(G, h)
    BY BeforeIsStrictOrder DEF Earlier
  <2>2. pos[g] <= pos[h] /\ (pos[h] = pos[g] => Earlier(G, h) = Earlier(G, g))
    BY <1>2, <2>1, FS_Subset
  <2> QED BY <1>2, <2>1, <2>2
<1>5. pos \in [G -> 0..(n - 1)]
  BY <1>1, <1>2, <1>3
<1>6. \A g, h \in G : g # h => pos[g] # pos[h]
  BY <1>2, <1>4, BeforeIsStrictOrder
<1>7. pos \in Injection(G, 0..(n - 1))
  BY <1>5, <1>6 DEF Injection, IsInjective
<1>8. IsFiniteSet(0..(n - 1)) /\ Cardinality(0..(n - 1)) = n
  BY <1>1, FS_Interval
<1>9. pos \in Surjection(G, 0..(n - 1))
  BY <1>7, <1>8, FS_Injection
<1> QED BY <1>7, <1>9 DEF Bijection

\* If a page is not full, no hour has a position after it.
LEMMA ShortPageIsLast ==
  ASSUME NEW G \in SUBSET HourKeys, IsFiniteSet(G), NEW skip \in Nat,
         Cardinality({g \in G : InPage(Cardinality(Earlier(G, g)), skip)}) < Page
  PROVE  \A g \in G : Cardinality(Earlier(G, g)) < skip + Page
<1> DEFINE n == Cardinality(G)
           pos == [g \in G |-> Cardinality(Earlier(G, g))]
           members == {g \in G : InPage(Cardinality(Earlier(G, g)), skip)}
           slots == skip..(skip + Page - 1)
           placed == [g \in members |-> pos[g]]
<1>1. n \in Nat /\ Page \in Nat \ {0}
  BY FS_CardinalityType, RetentionAssumption
<1>2. pos \in Bijection(G, 0..(n - 1))
  BY PositionsAreNumbers
<1>3. pos \in [G -> 0..(n - 1)] /\ \A k \in 0..(n - 1) : \E g \in G : pos[g] = k
  BY <1>2 DEF Bijection, Surjection, Injection
<1>4. IsFiniteSet(members) /\ Cardinality(members) \in Nat
  BY FS_Subset, FS_CardinalityType
<1> SUFFICES ASSUME NEW g \in G, ~(pos[g] < skip + Page) PROVE FALSE
  OBVIOUS
<1>5. skip + Page <= n - 1
  BY <1>1, <1>3
<1>6. \A k \in slots : \E h \in members : placed[h] = k
  BY <1>1, <1>3, <1>5 DEF InPage
<1>7. placed \in [members -> slots]
  BY DEF InPage
<1>8. placed \in Surjection(members, slots)
  BY <1>6, <1>7 DEF Surjection
<1>9. Cardinality(slots) <= Cardinality(members)
  BY <1>4, <1>8, FS_Surjection
<1>10. Cardinality(slots) = Page
  BY <1>1, FS_Interval
<1> QED BY <1>1, <1>4, <1>9, <1>10

-----------------------------------------------------------------------------
\* The inductive invariant.

Groups(rows) == {HourOf(row) : row \in rows}

\* The position of the hour of a row among those that a pass rolls up.
Position(p, row) == Cardinality(Earlier(Groups(OlderThan(cutoff[p])), HourOf(row)))

\* What a pass needs to have done before a row may go.
Covered(row) == HourOf(row) \in DOMAIN hourly /\ row \in summed

Rows ==
  /\ now \in Nat /\ failures \in Nat
  /\ IsFiniteSet(logged) /\ raw \subseteq logged
  /\ logged \subseteq [id : Nat, station : Stations, time : Nat]
  /\ \A row \in logged : row.time <= now

Steps == {"asleep", "rollup", "upsert", "delete", "safety_net", "hourly"}

PassTypes ==
  /\ pc \in [Passes -> Steps] /\ began \in [Passes -> Nat]
  /\ cutoff \in [Passes -> Int] /\ offset \in [Passes -> Nat]
  /\ DOMAIN page = Passes

\* A summary is of rows from before the time at which rows are rolled up.
SummariesAreOld ==
  \A g \in DOMAIN hourly : \A row \in hourly[g] : row \in logged /\ row.time < now - RollupAfter

\* While rows are rolled up and deleted the cutoff is that of the beginning of the pass, which
\* is not long ago, and the later ones are past by now.
CutoffsFit ==
  \A p \in Passes :
    /\ pc[p] # "asleep" => began[p] <= now /\ now <= began[p] + PassLimit
    /\ pc[p] \in {"rollup", "upsert", "delete"} => cutoff[p] = began[p] - RollupAfter
    /\ pc[p] = "safety_net" => cutoff[p] <= now - RawKeep
    /\ pc[p] = "hourly" => cutoff[p] <= now - HourlyKeep

\* The pages so far are covered, and the one that was read is the next.
PagesAreCovered ==
  \A p \in Passes :
    /\ pc[p] \in {"rollup", "upsert"} =>
         \A row \in OlderThan(cutoff[p]) : Position(p, row) < offset[p] => Covered(row)
    /\ pc[p] = "upsert" => page[p] = PageOf(OlderThan(cutoff[p]), offset[p])
    /\ pc[p] = "delete" => \A row \in OlderThan(cutoff[p]) : Covered(row)
    /\ pc[p] \in {"safety_net", "hourly"} => \A row \in raw : row.time >= began[p] - RollupAfter

\* A row that a summary contains is about to be deleted.
SummedUpIsLeaving ==
  failures = 0 =>
    \A row \in raw : SummedUp(row) =>
      \E p \in Passes : pc[p] \in {"rollup", "upsert", "delete"} /\ row.time < cutoff[p]

RetentionInv ==
  /\ Rows /\ PassTypes /\ SummariesAreOld /\ CutoffsFit
  /\ PagesAreCovered /\ SummedUpIsLeaving /\ HoursAreKept

\* The hours of rows that can be counted can be counted.
LEMMA GroupsType ==
  ASSUME NEW rows, IsFiniteSet(rows), rows \subseteq [id : Nat, station : Stations, time : Nat]
  PROVE  Groups(rows) \in SUBSET HourKeys /\ IsFiniteSet(Groups(rows))
<1> DEFINE f == [row \in rows |-> HourOf(row)]
<1>1. f \in Surjection(rows, Groups(rows))
  BY DEF Surjection, Groups
<1>2. IsFiniteSet(Groups(rows))
  BY <1>1, FS_Surjection
<1>3. \A row \in rows : HourOf(row) \in HourKeys
  <2>1. \A t \in Nat : t \div Hour \in Int
    BY RetentionAssumption
  <2>2. \A row \in rows : row.station \in Nat /\ row.time \in Nat
    BY RetentionAssumption
  <2> QED BY <2>1, <2>2 DEF HourOf, HourKeys
<1> QED BY <1>2, <1>3 DEF Groups

\* A page has the hours at its positions, and of each the rows that are rolled up.
LEMMA PageIsPositions ==
  ASSUME NEW rows, NEW skip
  PROVE  /\ \A g : g \in DOMAIN PageOf(rows, skip) <=>
                /\ g \in Groups(rows)
                /\ InPage(Cardinality(Earlier(Groups(rows), g)), skip)
         /\ \A g \in DOMAIN PageOf(rows, skip) :
              \A row : row \in PageOf(rows, skip)[g] <=> row \in rows /\ HourOf(row) = g
BY DEF PageOf, Groups, Earlier

-----------------------------------------------------------------------------
\* The steps.

\* What a step deletes (DeletedWasSummedUp).
DeletesWhatIsSummedUp == \A row \in raw \ raw' : row \in summed \/ row.time < now - RawKeep

LEMMA InitialStates == Init => RetentionInv
<1> SUFFICES ASSUME Init PROVE RetentionInv
  OBVIOUS
<1>1. Rows /\ PassTypes
  BY FS_EmptySet DEF Init, Rows, PassTypes, Steps
<1>2. SummariesAreOld /\ SummedUpIsLeaving /\ HoursAreKept
  BY DEF Init, SummariesAreOld, SummedUpIsLeaving, HoursAreKept, NoSummaries
<1>3. CutoffsFit /\ PagesAreCovered
  BY DEF Init, CutoffsFit, PagesAreCovered
<1> QED BY <1>1, <1>2, <1>3 DEF RetentionInv

\* What is known of a pass and of the clock.
LEMMA Numbers ==
  ASSUME RetentionInv
  PROVE  /\ RollupAfter \in Nat /\ RawKeep \in Nat /\ HourlyKeep \in Nat /\ PassLimit \in Nat
         /\ RollupAfter + PassLimit <= RawKeep /\ now \in Nat
         /\ \A p \in Passes : began[p] \in Nat /\ cutoff[p] \in Int /\ offset[p] \in Nat
         /\ \A row \in logged : row.time \in Nat /\ row.time <= now
         /\ \A row \in raw : row \in logged
BY RetentionAssumption DEF RetentionInv, Rows, PassTypes

\* The start of an hour is a number.
LEMMA HourStarts ==
  ASSUME NEW t \in Nat
  PROVE  (t \div Hour) * Hour \in Int
<1>1. t \div Hour \in Int
  BY RetentionAssumption
<1> QED BY <1>1, RetentionAssumption

LEMMA TickKeeps ==
  ASSUME RetentionInv, Tick
  PROVE  RetentionInv' /\ DeletesWhatIsSummedUp
<1> USE Numbers DEF Tick
<1>1. Rows' /\ PassTypes'
  BY DEF RetentionInv, Rows, PassTypes
<1>2. SummariesAreOld'
  <2> SUFFICES ASSUME NEW g \in DOMAIN hourly, NEW row \in hourly[g]
               PROVE  row \in logged /\ row.time < now' - RollupAfter
    BY DEF SummariesAreOld
  <2>1. row \in logged /\ row.time < now - RollupAfter
    BY DEF RetentionInv, SummariesAreOld
  <2> QED BY <2>1
<1>3. CutoffsFit'
  BY DEF RetentionInv, CutoffsFit
<1>4. PagesAreCovered'
  BY DEF RetentionInv, PagesAreCovered, Position, Covered, OlderThan
<1>5. SummedUpIsLeaving'
  BY DEF RetentionInv, SummedUpIsLeaving, SummedUp
<1>6. HoursAreKept'
  BY HourStarts DEF RetentionInv, HoursAreKept, HourOf
<1> QED BY <1>1, <1>2, <1>3, <1>4, <1>5, <1>6 DEF RetentionInv, DeletesWhatIsSummedUp

LEMMA LogKeeps ==
  ASSUME RetentionInv, NoLateRows, NEW station \in Stations, NEW delay \in Delays, Log(station, delay)
  PROVE  RetentionInv' /\ DeletesWhatIsSummedUp
<1> DEFINE row == [id |-> Cardinality(logged) + 1, station |-> station, time |-> now - delay]
<1> USE Numbers
<1>1. delay = 0 /\ row.time = now /\ row.station = station
  BY DEF NoLateRows
<1>2. /\ raw' = raw \cup {row} /\ logged' = logged \cup {row}
      /\ UNCHANGED <<now, hourly, pc, page, began, cutoff, offset, summed, failures>>
  BY DEF Log
<1> HIDE DEF row
<1>3. Rows' /\ PassTypes'
  <2>1. Cardinality(logged) \in Nat
    BY FS_CardinalityType DEF RetentionInv, Rows
  <2>2. row \in [id : Nat, station : Stations, time : Nat]
    BY <1>1, <2>1 DEF row
  <2>3. IsFiniteSet(logged')
    BY <1>2, FS_AddElement DEF RetentionInv, Rows
  <2> QED BY <1>1, <1>2, <2>2, <2>3 DEF RetentionInv, Rows, PassTypes
<1>4. SummariesAreOld' /\ CutoffsFit'
  BY <1>2 DEF RetentionInv, SummariesAreOld, CutoffsFit
<1>5. \A p \in Passes : pc[p] \in {"rollup", "upsert", "delete"} => OlderThan(cutoff[p])' = OlderThan(cutoff[p])
  <2> SUFFICES ASSUME NEW p \in Passes, pc[p] \in {"rollup", "upsert", "delete"}
               PROVE  ~(row.time < cutoff[p])
    BY <1>2 DEF OlderThan
  <2> QED BY <1>1 DEF RetentionInv, CutoffsFit
<1>6. PagesAreCovered'
  <2>1. \A p \in Passes : pc[p] \in {"safety_net", "hourly"} => row.time >= began[p] - RollupAfter
    BY <1>1 DEF RetentionInv, CutoffsFit
  <2>2. \A p \in Passes : pc[p] \in {"rollup", "upsert"} => \A r : Position(p, r)' = Position(p, r)
    BY <1>5 DEF Position
  <2>3. \A r : Covered(r)' = Covered(r)
    BY <1>2 DEF Covered
  <2> QED BY <1>2, <1>5, <2>1, <2>2, <2>3 DEF RetentionInv, PagesAreCovered
<1>7. SummedUpIsLeaving'
  <2>1. ~SummedUp(row)
    BY <1>1 DEF RetentionInv, SummariesAreOld, SummedUp
  <2> QED BY <1>2, <2>1 DEF RetentionInv, SummedUpIsLeaving, SummedUp
<1>8. HoursAreKept'
  BY <1>2 DEF RetentionInv, HoursAreKept
<1> QED BY <1>2, <1>3, <1>4, <1>6, <1>7, <1>8 DEF RetentionInv, DeletesWhatIsSummedUp

LEMMA BeginKeeps ==
  ASSUME RetentionInv, OnePass, NEW p \in Passes, Begin(p)
  PROVE  RetentionInv' /\ DeletesWhatIsSummedUp
<1> USE Numbers DEF Begin
<1>1. Rows' /\ PassTypes'
  BY DEF RetentionInv, Rows, PassTypes, Steps
<1>2. SummariesAreOld' /\ HoursAreKept'
  BY DEF RetentionInv, SummariesAreOld, HoursAreKept
<1>3. CutoffsFit'
  BY DEF RetentionInv, CutoffsFit, PassTypes, OnePass
<1>4. PagesAreCovered'
  <2>1. \A row \in OlderThan(cutoff[p])' : Position(p, row)' \in Nat
    <3>1. OlderThan(cutoff[p])' \subseteq logged /\ IsFiniteSet(OlderThan(cutoff[p])')
      BY FS_Subset DEF RetentionInv, Rows, OlderThan
    <3>2. IsFiniteSet(Groups(OlderThan(cutoff[p])'))
      BY <3>1, GroupsType DEF RetentionInv, Rows
    <3> QED BY <3>2, FS_Subset, FS_CardinalityType DEF Position, Earlier
  <2>2. \A q \in Passes : q = p
    BY DEF OnePass
  <2>3. pc'[p] = "rollup" /\ offset'[p] = 0
    BY DEF RetentionInv, PassTypes
  <2> QED BY <2>1, <2>2, <2>3 DEF PagesAreCovered
<1>5. SummedUpIsLeaving'
  BY DEF RetentionInv, SummedUpIsLeaving, SummedUp, OnePass
<1> QED BY <1>1, <1>2, <1>3, <1>4, <1>5 DEF RetentionInv, DeletesWhatIsSummedUp

\* The rows that a pass rolls up, and their hours, can be counted.
LEMMA RolledUpRows ==
  ASSUME RetentionInv, NEW p \in Passes
  PROVE  /\ IsFiniteSet(OlderThan(cutoff[p])) /\ OlderThan(cutoff[p]) \subseteq raw
         /\ IsFiniteSet(Groups(OlderThan(cutoff[p])))
         /\ Groups(OlderThan(cutoff[p])) \in SUBSET HourKeys
         /\ \A row \in OlderThan(cutoff[p]) : Position(p, row) \in Nat
<1>1. OlderThan(cutoff[p]) \subseteq logged /\ IsFiniteSet(OlderThan(cutoff[p]))
  BY FS_Subset DEF RetentionInv, Rows, OlderThan
<1>2. /\ IsFiniteSet(Groups(OlderThan(cutoff[p])))
      /\ Groups(OlderThan(cutoff[p])) \in SUBSET HourKeys
  BY <1>1, GroupsType DEF RetentionInv, Rows
<1> QED BY <1>1, <1>2, FS_Subset, FS_CardinalityType DEF Position, Earlier, OlderThan

\* If the page read is not full, the hours of all rows have been reached.
LEMMA ShortPageReachesAll ==
  ASSUME RetentionInv, NEW p \in Passes,
         Cardinality(DOMAIN PageOf(OlderThan(cutoff[p]), offset[p])) < Page
  PROVE  \A row \in OlderThan(cutoff[p]) : Position(p, row) < offset[p] + Page
<1> DEFINE G == Groups(OlderThan(cutoff[p]))
<1>1. G \in SUBSET HourKeys /\ IsFiniteSet(G) /\ offset[p] \in Nat
  BY RolledUpRows, Numbers
<1>2. Cardinality({g \in G : InPage(Cardinality(Earlier(G, g)), offset[p])}) < Page
  <2>1. DOMAIN PageOf(OlderThan(cutoff[p]), offset[p]) =
          {g \in G : InPage(Cardinality(Earlier(G, g)), offset[p])}
    BY PageIsPositions
  <2> QED BY <2>1
<1> HIDE DEF G
<1>3. \A g \in G : Cardinality(Earlier(G, g)) < offset[p] + Page
  BY <1>1, <1>2, ShortPageIsLast
<1> QED BY <1>3 DEF G, Position, Groups

\* The row of a position is on the page that has the position.
LEMMA PageHasItsRows ==
  ASSUME RetentionInv, NEW p \in Passes, NEW row \in OlderThan(cutoff[p]),
         Position(p, row) < offset[p] + Page, ~(Position(p, row) < offset[p])
  PROVE  /\ HourOf(row) \in DOMAIN PageOf(OlderThan(cutoff[p]), offset[p])
         /\ row \in PageOf(OlderThan(cutoff[p]), offset[p])[HourOf(row)]
<1>1. InPage(Position(p, row), offset[p])
  BY RolledUpRows, Numbers, RetentionAssumption DEF InPage
<1>2. HourOf(row) \in Groups(OlderThan(cutoff[p]))
  BY DEF Groups
<1> DEFINE rows == OlderThan(cutoff[p])
           g == HourOf(row)
<1>3. g \in Groups(rows) /\ InPage(Cardinality(Earlier(Groups(rows), g)), offset[p])
  BY <1>1, <1>2 DEF Position
<1>4. row \in rows /\ HourOf(row) = g
  OBVIOUS
<1> HIDE DEF rows, g
<1>5. g \in DOMAIN PageOf(rows, offset[p])
  BY <1>3, PageIsPositions
<1>6. row \in PageOf(rows, offset[p])[g]
  BY <1>4, <1>5, PageIsPositions
<1> QED BY <1>5, <1>6 DEF rows, g

\* A page is of rows that are rolled up.
LEMMA PageIsOfRows ==
  ASSUME NEW rows, NEW skip, NEW g \in DOMAIN PageOf(rows, skip)
  PROVE  PageOf(rows, skip)[g] \subseteq rows
BY DEF PageOf

LEMMA ReadPageKeeps ==
  ASSUME RetentionInv, OnePass, NEW p \in Passes, ReadPage(p)
  PROVE  RetentionInv' /\ DeletesWhatIsSummedUp
<1> DEFINE found == PageOf(OlderThan(cutoff[p]), offset[p])
<1> USE Numbers
<1>1. /\ pc[p] = "rollup" /\ page' = [page EXCEPT ![p] = found]
      /\ pc' = [pc EXCEPT ![p] = IF DOMAIN found = {} THEN "delete" ELSE "upsert"]
      /\ UNCHANGED <<now, raw, hourly, began, cutoff, offset, logged, summed, failures>>
  BY DEF ReadPage
<1> HIDE DEF found
<1>2. Rows' /\ PassTypes'
  BY <1>1 DEF RetentionInv, Rows, PassTypes, Steps
<1>3. SummariesAreOld' /\ HoursAreKept'
  BY <1>1 DEF RetentionInv, SummariesAreOld, HoursAreKept
<1>4. \A q \in Passes : q = p
  BY DEF OnePass
<1>5. pc'[p] = (IF DOMAIN found = {} THEN "delete" ELSE "upsert") /\ page'[p] = found
  BY <1>1 DEF RetentionInv, PassTypes
<1>6. CutoffsFit'
  BY <1>1, <1>4, <1>5 DEF RetentionInv, CutoffsFit
<1>7. PagesAreCovered'
  <2>1. OlderThan(cutoff[p])' = OlderThan(cutoff[p])
    BY <1>1 DEF OlderThan
  <2>2. \A row : Position(p, row)' = Position(p, row) /\ Covered(row)' = Covered(row)
    BY <1>1, <2>1 DEF Position, Covered
  <2>3. \A row \in OlderThan(cutoff[p]) : Position(p, row) < offset[p] => Covered(row)
    BY <1>1 DEF RetentionInv, PagesAreCovered
  <2>4. ASSUME DOMAIN found = {} PROVE \A row \in OlderThan(cutoff[p]) : Covered(row)
    <3>1. Cardinality(DOMAIN found) < Page
      BY <2>4, FS_EmptySet, RetentionAssumption
    <3>2. \A row \in OlderThan(cutoff[p]) : Position(p, row) < offset[p] + Page
      BY <3>1, ShortPageReachesAll DEF found
    <3> QED BY <2>3, <2>4, <3>2, PageHasItsRows DEF found
  <2>5. CASE DOMAIN found = {}
    BY <1>1, <1>4, <1>5, <2>1, <2>2, <2>4, <2>5 DEF PagesAreCovered
  <2>6. CASE DOMAIN found # {}
    BY <1>1, <1>4, <1>5, <2>1, <2>2, <2>3, <2>6 DEF PagesAreCovered, found
  <2> QED BY <2>5, <2>6
<1>8. SummedUpIsLeaving'
  BY <1>1, <1>4, <1>5 DEF RetentionInv, SummedUpIsLeaving, SummedUp
<1> QED BY <1>1, <1>2, <1>3, <1>6, <1>7, <1>8 DEF RetentionInv, DeletesWhatIsSummedUp

LEMMA UpsertPageKeeps ==
  ASSUME RetentionInv, OnePass, NEW p \in Passes, UpsertPage(p)
  PROVE  RetentionInv' /\ DeletesWhatIsSummedUp
<1> DEFINE groups == DOMAIN page[p]
           rolled == UNION {page[p][g] : g \in groups}
           short == Cardinality(groups) < Page
<1> USE Numbers
<1>1. /\ pc[p] = "upsert" /\ hourly' = Upserted(hourly, page[p]) /\ summed' = summed \cup rolled
      /\ pc' = [pc EXCEPT ![p] = IF short THEN "delete" ELSE "rollup"]
      /\ offset' = [offset EXCEPT ![p] = @ + Page] /\ page' = [page EXCEPT ![p] = NoSummaries]
      /\ UNCHANGED <<now, raw, began, cutoff, logged, failures>>
  BY DEF UpsertPage
<1>2. page[p] = PageOf(OlderThan(cutoff[p]), offset[p])
  BY <1>1 DEF RetentionInv, PagesAreCovered
<1>3. DOMAIN hourly' = DOMAIN hourly \cup groups
  BY <1>1 DEF Upserted
<1>4. \A g \in DOMAIN hourly' : hourly'[g] = IF g \in groups THEN page[p][g] ELSE hourly[g]
  BY <1>1 DEF Upserted
<1>5. \A g \in groups : page[p][g] \subseteq OlderThan(cutoff[p])
  BY <1>2, PageIsOfRows
<1>6. \A row \in OlderThan(cutoff[p]) :
         Position(p, row) < offset[p] + Page /\ ~(Position(p, row) < offset[p])
         => HourOf(row) \in groups /\ row \in rolled
  BY <1>2, PageHasItsRows
<1>7. short => \A row \in OlderThan(cutoff[p]) : Position(p, row) < offset[p] + Page
  BY <1>2, ShortPageReachesAll
<1> HIDE DEF groups, rolled, short
<1>8. \A q \in Passes : q = p
  BY DEF OnePass
<1>9. pc'[p] = (IF short THEN "delete" ELSE "rollup") /\ offset'[p] = offset[p] + Page
  BY <1>1 DEF RetentionInv, PassTypes
<1>10. cutoff[p] = began[p] - RollupAfter /\ began[p] <= now
  BY <1>1 DEF RetentionInv, CutoffsFit
<1>11. Rows' /\ PassTypes'
  <2>1. offset' \in [Passes -> Nat]
    BY <1>1, RetentionAssumption DEF RetentionInv, PassTypes
  <2> QED BY <1>1, <2>1 DEF RetentionInv, Rows, PassTypes, Steps
<1>12. SummariesAreOld'
  <2> SUFFICES ASSUME NEW g \in DOMAIN hourly', NEW row \in hourly'[g]
               PROVE  row \in logged /\ row.time < now - RollupAfter
    BY <1>1 DEF SummariesAreOld
  <2>1. CASE g \in groups
    <3>1. row \in OlderThan(cutoff[p])
      BY <1>4, <1>5, <2>1
    <3>2. row \in raw /\ row.time < cutoff[p]
      BY <3>1 DEF OlderThan
    <3> QED BY <1>10, <3>2
  <2>2. CASE g \notin groups
    BY <1>3, <1>4, <2>2 DEF RetentionInv, SummariesAreOld
  <2> QED BY <2>1, <2>2
<1>13. CutoffsFit'
  BY <1>1, <1>8, <1>9 DEF RetentionInv, CutoffsFit
<1>14. PagesAreCovered'
  <2>1. OlderThan(cutoff[p])' = OlderThan(cutoff[p])
    BY <1>1 DEF OlderThan
  <2>2. \A row : Position(p, row)' = Position(p, row)
    BY <2>1 DEF Position
  <2>3. \A row : (Covered(row) \/ (HourOf(row) \in groups /\ row \in rolled)) => Covered(row)'
    BY <1>1, <1>3 DEF Covered
  <2>4. \A row \in OlderThan(cutoff[p]) : Position(p, row) < offset[p] => Covered(row)
    BY <1>1 DEF RetentionInv, PagesAreCovered
  <2>5. \A row \in OlderThan(cutoff[p]) : Position(p, row) < offset[p] + Page => Covered(row)'
    BY <1>6, <2>3, <2>4
  <2> QED BY <1>7, <1>8, <1>9, <2>1, <2>2, <2>5 DEF PagesAreCovered
<1>15. SummedUpIsLeaving'
  <2> SUFFICES ASSUME failures' = 0, NEW row \in raw', SummedUp(row)'
               PROVE  \E q \in Passes : pc'[q] \in {"rollup", "upsert", "delete"} /\ row.time < cutoff'[q]
    BY DEF SummedUpIsLeaving
  <2>1. pc'[p] \in {"rollup", "upsert", "delete"} /\ cutoff' = cutoff
    BY <1>1, <1>9
  <2>2. PICK g \in DOMAIN hourly' : row \in hourly'[g]
    BY DEF SummedUp
  <2>3. CASE g \in groups
    BY <1>4, <1>5, <2>1, <2>2, <2>3 DEF OlderThan
  <2>4. CASE g \notin groups
    <3>1. SummedUp(row)
      BY <1>3, <1>4, <2>2, <2>4 DEF SummedUp
    <3> QED BY <1>1, <1>8, <2>1, <3>1 DEF RetentionInv, SummedUpIsLeaving
  <2> QED BY <2>3, <2>4
<1>16. HoursAreKept'
  BY <1>1, <1>3 DEF RetentionInv, HoursAreKept
<1> QED BY <1>1, <1>11, <1>12, <1>13, <1>14, <1>15, <1>16 DEF RetentionInv, DeletesWhatIsSummedUp

LEMMA DeleteRolledUpKeeps ==
  ASSUME RetentionInv, OnePass, NEW p \in Passes, DeleteRolledUp(p)
  PROVE  RetentionInv' /\ DeletesWhatIsSummedUp
<1> USE Numbers
<1>1. PICK batch \in SUBSET OlderThan(cutoff[p]) :
        /\ pc[p] = "delete" /\ (Cardinality(batch) < Batch => batch = OlderThan(cutoff[p]))
        /\ raw' = raw \ batch
        /\ pc' = [pc EXCEPT ![p] = IF IsLast(batch) THEN "safety_net" ELSE "delete"]
        /\ UNCHANGED <<now, hourly, page, began, offset, logged, summed, failures>>
  BY DEF DeleteRolledUp, DeleteBatch, DeleteLimit
<1>2. cutoff' = [cutoff EXCEPT ![p] = IF pc'[p] = "delete" THEN @ ELSE now - RawKeep]
  BY DEF DeleteRolledUp
<1>3. \A q \in Passes : q = p
  BY DEF OnePass
<1>4. pc'[p] = (IF IsLast(batch) THEN "safety_net" ELSE "delete")
  BY <1>1 DEF RetentionInv, PassTypes
<1>5. cutoff'[p] = IF pc'[p] = "delete" THEN cutoff[p] ELSE now - RawKeep
  BY <1>2 DEF RetentionInv, PassTypes
<1>6. cutoff[p] = began[p] - RollupAfter /\ began[p] <= now /\ now <= began[p] + PassLimit
  BY <1>1 DEF RetentionInv, CutoffsFit
<1>7. \A row \in OlderThan(cutoff[p]) : Covered(row)
  BY <1>1 DEF RetentionInv, PagesAreCovered
<1>8. pc'[p] = "safety_net" => \A row \in raw' : ~(row.time < cutoff[p])
  BY <1>1, <1>4 DEF IsLast, OlderThan
<1>9. Rows' /\ PassTypes'
  BY <1>1, <1>2 DEF RetentionInv, Rows, PassTypes, Steps
<1>10. SummariesAreOld'
  BY <1>1 DEF RetentionInv, SummariesAreOld
<1>11. CutoffsFit'
  BY <1>1, <1>3, <1>4, <1>5, <1>6 DEF CutoffsFit
<1>12. PagesAreCovered'
  <2>1. pc'[p] = "delete" => \A row \in OlderThan(cutoff[p])' : Covered(row)'
    BY <1>1, <1>5, <1>7 DEF OlderThan, Covered
  <2>2. pc'[p] = "safety_net" => \A row \in raw' : row.time >= began[p] - RollupAfter
    BY <1>1, <1>6, <1>8
  <2> QED BY <1>1, <1>3, <1>4, <2>1, <2>2 DEF PagesAreCovered
<1>13. SummedUpIsLeaving'
  <2> SUFFICES ASSUME failures' = 0, NEW row \in raw', SummedUp(row)'
               PROVE  \E q \in Passes : pc'[q] \in {"rollup", "upsert", "delete"} /\ row.time < cutoff'[q]
    BY DEF SummedUpIsLeaving
  <2>1. SummedUp(row) /\ row \in raw /\ failures = 0
    BY <1>1 DEF SummedUp
  <2>2. row.time < cutoff[p]
    BY <1>3, <2>1 DEF RetentionInv, SummedUpIsLeaving
  <2> QED BY <1>4, <1>5, <1>8, <2>2
<1>14. HoursAreKept'
  BY <1>1, <1>7 DEF RetentionInv, HoursAreKept, Covered
<1>15. DeletesWhatIsSummedUp
  BY <1>1, <1>7 DEF DeletesWhatIsSummedUp, Covered
<1> QED BY <1>9, <1>10, <1>11, <1>12, <1>13, <1>14, <1>15 DEF RetentionInv

LEMMA SafetyNetKeeps ==
  ASSUME RetentionInv, OnePass, NEW p \in Passes, SafetyNet(p)
  PROVE  RetentionInv' /\ DeletesWhatIsSummedUp
<1> USE Numbers
<1>1. PICK batch \in SUBSET OlderThan(cutoff[p]) :
        /\ pc[p] = "safety_net" /\ raw' = raw \ batch
        /\ pc' = [pc EXCEPT ![p] = IF IsLast(batch) THEN "hourly" ELSE "safety_net"]
        /\ UNCHANGED <<now, hourly, page, began, offset, logged, summed, failures>>
  BY DEF SafetyNet, DeleteBatch
<1>2. cutoff' = [cutoff EXCEPT ![p] = IF pc'[p] = "safety_net" THEN @ ELSE now - HourlyKeep]
  BY DEF SafetyNet
<1>3. \A q \in Passes : q = p
  BY DEF OnePass
<1>4. pc'[p] \in {"hourly", "safety_net"}
  BY <1>1 DEF RetentionInv, PassTypes
<1>5. cutoff'[p] = IF pc'[p] = "safety_net" THEN cutoff[p] ELSE now - HourlyKeep
  BY <1>2 DEF RetentionInv, PassTypes
<1>6. cutoff[p] <= now - RawKeep /\ began[p] <= now /\ now <= began[p] + PassLimit
  BY <1>1 DEF RetentionInv, CutoffsFit
<1>7. \A row \in raw : row.time >= began[p] - RollupAfter
  BY <1>1 DEF RetentionInv, PagesAreCovered
<1>8. raw' = raw
  <2>1. \A row \in raw : ~(row.time < cutoff[p])
    BY <1>6, <1>7
  <2> QED BY <1>1, <2>1 DEF OlderThan
<1>9. Rows' /\ PassTypes'
  BY <1>1, <1>2, <1>8 DEF RetentionInv, Rows, PassTypes, Steps
<1>10. SummariesAreOld' /\ HoursAreKept'
  BY <1>1, <1>8 DEF RetentionInv, SummariesAreOld, HoursAreKept
<1>11. CutoffsFit'
  BY <1>1, <1>3, <1>4, <1>5, <1>6 DEF CutoffsFit
<1>12. PagesAreCovered'
  BY <1>1, <1>3, <1>4, <1>7, <1>8 DEF PagesAreCovered
<1>13. SummedUpIsLeaving'
  BY <1>1, <1>3, <1>8 DEF RetentionInv, SummedUpIsLeaving, SummedUp
<1> QED BY <1>8, <1>9, <1>10, <1>11, <1>12, <1>13 DEF RetentionInv, DeletesWhatIsSummedUp

LEMMA DeleteHourlyKeeps ==
  ASSUME RetentionInv, OnePass, NEW p \in Passes, DeleteHourly(p)
  PROVE  RetentionInv' /\ DeletesWhatIsSummedUp
<1> USE Numbers
<1>1. /\ pc[p] = "hourly" /\ pc' = [pc EXCEPT ![p] = "asleep"]
      /\ hourly' = [key \in DOMAIN hourly \ Expired(cutoff[p]) |-> hourly[key]]
      /\ UNCHANGED <<now, raw, page, began, cutoff, offset, logged, summed, failures>>
  BY DEF DeleteHourly
<1>2. \A q \in Passes : q = p
  BY DEF OnePass
<1>3. pc'[p] = "asleep"
  BY <1>1 DEF RetentionInv, PassTypes
<1>4. cutoff[p] <= now - HourlyKeep
  BY <1>1 DEF RetentionInv, CutoffsFit
<1>5. Rows' /\ PassTypes'
  BY <1>1 DEF RetentionInv, Rows, PassTypes, Steps
<1>6. SummariesAreOld'
  BY <1>1 DEF RetentionInv, SummariesAreOld
<1>7. CutoffsFit' /\ PagesAreCovered'
  BY <1>2, <1>3 DEF CutoffsFit, PagesAreCovered
<1>8. SummedUpIsLeaving'
  BY <1>1, <1>2 DEF RetentionInv, SummedUpIsLeaving, SummedUp
<1>9. HoursAreKept'
  <2> SUFFICES ASSUME NEW row \in logged
               PROVE  \/ row \in raw
                      \/ HourOf(row) \in DOMAIN hourly'
                      \/ HourOf(row).hour * Hour < now - HourlyKeep
    BY <1>1 DEF HoursAreKept
  <2>1. HourOf(row).hour * Hour \in Int
    BY HourStarts DEF HourOf
  <2>2. HourOf(row) \in DOMAIN hourly =>
          HourOf(row) \in DOMAIN hourly' \/ HourOf(row).hour * Hour < cutoff[p]
    BY <1>1 DEF Expired
  <2> QED BY <1>4, <2>1, <2>2 DEF RetentionInv, HoursAreKept
<1> QED BY <1>1, <1>5, <1>6, <1>7, <1>8, <1>9 DEF RetentionInv, DeletesWhatIsSummedUp

LEMMA FailKeeps ==
  ASSUME RetentionInv, OnePass, NEW p \in Passes, Fail(p)
  PROVE  RetentionInv' /\ DeletesWhatIsSummedUp
<1>1. /\ failures' = failures + 1 /\ pc' = [pc EXCEPT ![p] = "asleep"]
      /\ page' = [page EXCEPT ![p] = NoSummaries]
      /\ UNCHANGED <<now, raw, hourly, began, cutoff, offset, logged, summed>>
  BY DEF Fail, AfterFailure
<1>2. \A q \in Passes : q = p
  BY DEF OnePass
<1>3. pc'[p] = "asleep" /\ failures' # 0
  BY <1>1 DEF RetentionInv, PassTypes, Rows
<1>4. Rows' /\ PassTypes'
  BY <1>1 DEF RetentionInv, Rows, PassTypes, Steps
<1>5. SummariesAreOld' /\ HoursAreKept'
  BY <1>1 DEF RetentionInv, SummariesAreOld, HoursAreKept
<1>6. CutoffsFit' /\ PagesAreCovered' /\ SummedUpIsLeaving'
  BY <1>2, <1>3 DEF CutoffsFit, PagesAreCovered, SummedUpIsLeaving
<1> QED BY <1>1, <1>4, <1>5, <1>6 DEF RetentionInv, DeletesWhatIsSummedUp

LEMMA StepKeeps ==
  ASSUME RetentionInv, OnePass, NoLateRows, [Next]_vars
  PROVE  RetentionInv' /\ [DeletesWhatIsSummedUp]_vars
<1>1. CASE UNCHANGED vars
  <2> USE <1>1 DEF vars
  <2>1. Rows' /\ PassTypes' /\ SummariesAreOld' /\ CutoffsFit'
    BY DEF RetentionInv, Rows, PassTypes, SummariesAreOld, CutoffsFit
  <2>2. PagesAreCovered'
    <3>1. \A p : OlderThan(cutoff[p])' = OlderThan(cutoff[p])
      BY DEF OlderThan
    <3>2. \A p, row : Position(p, row)' = Position(p, row) /\ Covered(row)' = Covered(row)
      BY <3>1 DEF Position, Covered
    <3> QED BY <3>1, <3>2 DEF RetentionInv, PagesAreCovered
  <2>3. SummedUpIsLeaving' /\ HoursAreKept'
    BY DEF RetentionInv, SummedUpIsLeaving, SummedUp, HoursAreKept
  <2> QED BY <2>1, <2>2, <2>3 DEF RetentionInv
<1>2. CASE Tick
  BY <1>2, TickKeeps
<1>3. ASSUME NEW station \in Stations, NEW delay \in Delays, Log(station, delay)
      PROVE  RetentionInv' /\ DeletesWhatIsSummedUp
  BY <1>3, LogKeeps
<1>4. ASSUME NEW p \in Passes, Work(p) PROVE RetentionInv' /\ DeletesWhatIsSummedUp
  BY <1>4, BeginKeeps, ReadPageKeeps, UpsertPageKeeps, DeleteRolledUpKeeps, SafetyNetKeeps,
     DeleteHourlyKeeps DEF Work
<1>5. ASSUME NEW p \in Passes, Fail(p) PROVE RetentionInv' /\ DeletesWhatIsSummedUp
  BY <1>5, FailKeeps
<1> QED BY <1>1, <1>2, <1>3, <1>4, <1>5 DEF Next

\* Between passes of which none failed, nothing is about to be deleted.
LEMMA AtRest == RetentionInv => CountedOnceAtRest
BY DEF RetentionInv, SummedUpIsLeaving, CountedOnceAtRest

\* With one pass at a time and no late rows, however many passes fail and wherever, and in
\* whatever pages and batches they go: a row is deleted only after it has been summed up, its
\* hour has a summary until its time is over, and if no pass has failed no row is counted twice
\* between passes (run_retention_once).
THEOREM AllRowsAccountedFor ==
  ASSUME OnePass, NoLateRows
  PROVE  Spec => RowsAreAccountedFor
<1>1. Init => RetentionInv
  BY InitialStates
<1>2. RetentionInv /\ [Next]_vars => RetentionInv' /\ [DeletesWhatIsSummedUp]_vars
  BY StepKeeps
<1>3. RetentionInv => HoursAreKept /\ CountedOnceAtRest
  BY AtRest DEF RetentionInv
<1>4. Spec => []RetentionInv
  BY <1>1, <1>2, PTL DEF Spec
<1>5. Spec => [](HoursAreKept /\ CountedOnceAtRest)
  BY <1>3, <1>4, PTL
<1>6. Spec => [][DeletesWhatIsSummedUp]_vars
  BY <1>2, <1>4, PTL DEF Spec
<1>7. [][DeletesWhatIsSummedUp]_vars => DeletedWasSummedUp
  BY DEF DeletesWhatIsSummedUp, DeletedWasSummedUp
<1> QED BY <1>5, <1>6, <1>7, PTL DEF RowsAreAccountedFor

-----------------------------------------------------------------------------
(*****************************************************************************)
(* The programs that fill the database                                       *)
(*****************************************************************************)
CONSTANTS Ops, Unknown, Flow, ChunkSize, Attempts, Tables, Target, Cleared, MaxRuns, MaxFaults
VARIABLES stations, history, timetable, logs, live, made, at, next, chunk, slots, attempt,
          ended, lost, runs, faults
Seed == INSTANCE DatabaseSeed

\* Induction over the naturals, stated of a set of them.
LEMMA AllNaturals ==
  ASSUME NEW S, 0 \in S, \A n \in Nat : n \in S => n + 1 \in S
  PROVE  \A n \in Nat : n \in S
<1> DEFINE R == OpToRel(<, Nat)
           T == {n \in Nat : n \notin S}
<1>1. IsWellFoundedOn(R, Nat)
  BY NatLessThanWellFounded
<1>2. \A x, y \in Nat : x < y => <<x, y>> \in R
  BY DEF OpToRel
<1>3. SUFFICES ASSUME T # {} PROVE FALSE
  OBVIOUS
<1> HIDE DEF R
<1>4. PICK m \in T : \A y \in T : ~(<<y, m>> \in R)
  <2>1. T \subseteq Nat
    OBVIOUS
  <2> HIDE DEF T
  <2> QED BY <1>1, <1>3, <2>1, WFMin
<1>5. m \in Nat /\ m # 0 /\ m - 1 \in Nat /\ m - 1 < m /\ (m - 1) + 1 = m
  OBVIOUS
<1>6. m - 1 \in S
  BY <1>2, <1>4, <1>5
<1> QED BY <1>4, <1>5, <1>6

\* What Max chooses of a set.
Greatest(x) == CHOOSE m \in x : \A y \in x : m >= y

\* h folds s with F over every set of positions.
FoldsOver(h, F, b, s, n) ==
  \A x \in SUBSET (1..n) : h[x] = IF x = {} THEN b ELSE F[s[Greatest(x)]][h[x \ {Greatest(x)}]]

CanFold(V, F, b, s, n) == \E h \in [SUBSET (1..n) -> V] : FoldsOver(h, F, b, s, n)

\* A fold over the positions of a sequence is a function on the sets of them.
LEMMA FoldExists ==
  ASSUME NEW V, NEW E, NEW F, \A v \in V, e \in E : F[e][v] \in V, NEW b \in V,
         NEW s \in Seq(E)
  PROVE  CanFold(V, F, b, s, Len(s))
<1> DEFINE S == {k \in Nat : k <= Len(s) => CanFold(V, F, b, s, k)}
<1>1. 0 \in S
  <2> DEFINE h == [x \in SUBSET (1..0) |-> b]
  <2>1. SUBSET (1..0) = {{}}
    OBVIOUS
  <2>2. h \in [SUBSET (1..0) -> V]
    OBVIOUS
  <2>3. FoldsOver(h, F, b, s, 0)
    BY <2>1 DEF FoldsOver
  <2> HIDE DEF h
  <2>4. CanFold(V, F, b, s, 0)
    BY <2>2, <2>3 DEF CanFold
  <2> QED BY <2>4
<1>2. ASSUME NEW k \in Nat, k \in S PROVE k + 1 \in S
  <2> SUFFICES ASSUME k + 1 <= Len(s) PROVE CanFold(V, F, b, s, k + 1)
    OBVIOUS
  <2>1. k <= Len(s) /\ Len(s) \in Nat /\ s[k + 1] \in E
    OBVIOUS
  <2>2. PICK h \in [SUBSET (1..k) -> V] : FoldsOver(h, F, b, s, k)
    BY <1>2, <2>1 DEF CanFold
  <2> DEFINE g == [x \in SUBSET (1..(k + 1)) |-> IF k + 1 \in x THEN F[s[k + 1]][h[x \ {k + 1}]] ELSE h[x]]
  <2>3. ASSUME NEW x \in SUBSET (1..(k + 1))
        PROVE  /\ x \ {k + 1} \in SUBSET (1..k)
               /\ k + 1 \notin x => x \in SUBSET (1..k)
               /\ k + 1 \in x => Greatest(x) = k + 1
    <3>1. \A i \in 1..(k + 1) : i = k + 1 \/ i \in 1..k
      OBVIOUS
    <3>2. ASSUME k + 1 \in x PROVE Greatest(x) = k + 1
      <4>1. \A y \in x : k + 1 >= y
        OBVIOUS
      <4>2. \A m \in x : (\A y \in x : m >= y) => m = k + 1
        BY <3>2
      <4> QED BY <3>2, <4>1, <4>2 DEF Greatest
    <3> QED BY <3>1, <3>2
  <2>4. g \in [SUBSET (1..(k + 1)) -> V]
    <3> SUFFICES ASSUME NEW x \in SUBSET (1..(k + 1))
                 PROVE  (IF k + 1 \in x THEN F[s[k + 1]][h[x \ {k + 1}]] ELSE h[x]) \in V
      OBVIOUS
    <3> QED BY <2>1, <2>3
  <2>5. ASSUME NEW x \in SUBSET (1..(k + 1))
        PROVE  g[x] = IF x = {} THEN b ELSE F[s[Greatest(x)]][g[x \ {Greatest(x)}]]
    <3>1. CASE k + 1 \in x
      <4>1. x # {} /\ x \ {k + 1} \in SUBSET (1..(k + 1)) /\ k + 1 \notin x \ {k + 1}
        BY <3>1
      <4>2. g[x \ {k + 1}] = h[x \ {k + 1}] /\ g[x] = F[s[k + 1]][h[x \ {k + 1}]]
        BY <3>1, <4>1
      <4> QED BY <2>3, <3>1, <4>1, <4>2
    <3>2. CASE k + 1 \notin x
      <4>1. x \in SUBSET (1..k) /\ g[x] = h[x]
        BY <2>3, <3>2
      <4>2. x \ {Greatest(x)} \in SUBSET (1..k) /\ x \ {Greatest(x)} \in SUBSET (1..(k + 1))
            /\ k + 1 \notin x \ {Greatest(x)}
        BY <3>2, <4>1
      <4>3. g[x \ {Greatest(x)}] = h[x \ {Greatest(x)}]
        BY <4>2
      <4>4. h[x] = IF x = {} THEN b ELSE F[s[Greatest(x)]][h[x \ {Greatest(x)}]]
        BY <2>2, <4>1 DEF FoldsOver
      <4> HIDE DEF g
      <4> QED BY <4>1, <4>3, <4>4
    <3> QED BY <3>1, <3>2
  <2> HIDE DEF g
  <2> QED BY <2>4, <2>5 DEF FoldsOver, CanFold
<1>3. \A k \in Nat : k \in S
  <2> HIDE DEF S
  <2> QED BY <1>1, <1>2, AllNaturals
<1>4. Len(s) \in Nat
  OBVIOUS
<1> QED BY <1>3, <1>4

\* A set of positions that is not empty has a greatest one.
LEMMA GreatestIn ==
  ASSUME NEW n \in Nat, NEW x \in SUBSET (1..n), x # {}
  PROVE  Greatest(x) \in x /\ \A y \in x : Greatest(x) >= y
<1> DEFINE Has(y) == \E m \in y : \A l \in y : m >= l
           S == {k \in Nat : \A y \in SUBSET (1..k) : y # {} => Has(y)}
<1>1. 0 \in S
  <2>1. 1..0 = {}
    OBVIOUS
  <2> QED BY <2>1
<1>2. ASSUME NEW k \in Nat, k \in S PROVE k + 1 \in S
  <2> SUFFICES ASSUME NEW y \in SUBSET (1..(k + 1)), y # {} PROVE Has(y)
    OBVIOUS
  <2>1. CASE k + 1 \in y
    BY <2>1
  <2>2. CASE k + 1 \notin y
    <3>1. y \in SUBSET (1..k)
      BY <2>2
    <3> QED BY <1>2, <3>1
  <2> QED BY <2>1, <2>2
<1>3. \A k \in Nat : k \in S
  <2> HIDE DEF S
  <2> QED BY <1>1, <1>2, AllNaturals
<1>4. Has(x)
  BY <1>3
<1> QED BY <1>4 DEF Greatest

\* The count after one more change.
WalkStep(walk, change) ==
  LET sum == change + (IF walk = <<>> THEN 0 ELSE Seed!Last(walk))
  IN  Append(walk, IF sum < 0 THEN 0 ELSE sum)

LEMMA StepAppends ==
  ASSUME NEW walk \in Seq(Nat), NEW change \in Int
  PROVE  WalkStep(walk, change) \in Seq(Nat) /\ Len(WalkStep(walk, change)) = Len(walk) + 1
<1> DEFINE sum == change + (IF walk = <<>> THEN 0 ELSE Seed!Last(walk))
           c == IF sum < 0 THEN 0 ELSE sum
<1>1. walk # <<>> => Seed!Last(walk) \in Nat
  BY DEF Seed!Last
<1>2. sum \in Int
  BY <1>1
<1>3. c \in Nat
  <2> HIDE DEF sum
  <2> QED BY <1>2
<1>4. WalkStep(walk, change) = Append(walk, c)
  BY DEF WalkStep
<1> HIDE DEF c
<1> QED BY <1>3, <1>4

\* What FoldLeft chooses for Walk.
Iteration(counts) ==
    CHOOSE iter : iter = [x \in SUBSET (DOMAIN counts) |->
         IF x = {} THEN <<>> ELSE WalkStep(iter[x \ {Greatest(x)}], counts[Greatest(x)])]

LEMMA WalkIterates ==
  ASSUME NEW counts
  PROVE  Seed!Walk(counts) = Iteration(counts)[DOMAIN counts]
BY DEF Seed!Walk, WalkStep, Seed!FoldLeft, Seed!MapThenFoldSet, Iteration, Seed!Max, Greatest

LEMMA IterationExists ==
  ASSUME NEW counts \in Seq(Int)
  PROVE  Iteration(counts) = [x \in SUBSET (DOMAIN counts) |->
           IF x = {} THEN <<>> ELSE WalkStep(Iteration(counts)[x \ {Greatest(x)}], counts[Greatest(x)])]
<1> DEFINE F == [e \in Int |-> [v \in Seq(Nat) |-> WalkStep(v, e)]]
           n == Len(counts)
<1>1. \A v \in Seq(Nat), e \in Int : F[e][v] = WalkStep(v, e) /\ F[e][v] \in Seq(Nat)
  BY StepAppends
<1>2. CanFold(Seq(Nat), F, <<>>, counts, n)
  <2>1. <<>> \in Seq(Nat)
    OBVIOUS
  <2> HIDE DEF F
  <2> QED BY <1>1, <2>1, FoldExists
<1>3. PICK h \in [SUBSET (1..n) -> Seq(Nat)] : FoldsOver(h, F, <<>>, counts, n)
  <2> HIDE DEF F
  <2> QED BY <1>2 DEF CanFold
<1>4. n \in Nat /\ DOMAIN counts = 1..n
  OBVIOUS
<1>5. ASSUME NEW x \in SUBSET (1..n)
      PROVE  h[x] = IF x = {} THEN <<>> ELSE WalkStep(h[x \ {Greatest(x)}], counts[Greatest(x)])
  <2> HIDE DEF F
  <2>1. h[x] = IF x = {} THEN <<>> ELSE F[counts[Greatest(x)]][h[x \ {Greatest(x)}]]
    BY <1>3 DEF FoldsOver
  <2>2. ASSUME x # {} PROVE h[x] = WalkStep(h[x \ {Greatest(x)}], counts[Greatest(x)])
    <3>1. Greatest(x) \in 1..n
      BY <1>4, <2>2, GreatestIn
    <3>2. counts[Greatest(x)] \in Int
      BY <1>4, <3>1
    <3>3. x \ {Greatest(x)} \in SUBSET (1..n)
      OBVIOUS
    <3>4. h[x \ {Greatest(x)}] \in Seq(Nat)
      BY <3>3
    <3> QED BY <1>1, <2>1, <2>2, <3>2, <3>4
  <2> QED BY <2>1, <2>2
<1>6. h = [x \in SUBSET (DOMAIN counts) |->
             IF x = {} THEN <<>> ELSE WalkStep(h[x \ {Greatest(x)}], counts[Greatest(x)])]
  <2> HIDE DEF n
  <2> QED BY <1>4, <1>5
<1> QED BY <1>6 DEF Iteration

\* A day has one count for each change, none of them below zero.
LEMMA WalkCounts ==
  ASSUME NEW counts \in Seq(Int)
  PROVE  Seed!Walk(counts) \in Seq(Nat) /\ Len(Seed!Walk(counts)) = Len(counts)
<1> DEFINE n == Len(counts)
           Counts(k) == Iteration(counts)[1..k] \in Seq(Nat) /\ Len(Iteration(counts)[1..k]) = k
           S == {k \in Nat : k <= n => Counts(k)}
<1>1. n \in Nat /\ DOMAIN counts = 1..n
  OBVIOUS
<1>2. ASSUME NEW x \in SUBSET (1..n)
      PROVE  Iteration(counts)[x] = IF x = {} THEN <<>>
                                     ELSE WalkStep(Iteration(counts)[x \ {Greatest(x)}], counts[Greatest(x)])
  BY <1>1, IterationExists
<1>3. 0 \in S
  <2>1. 1..0 = {} /\ {} \in SUBSET (1..n)
    OBVIOUS
  <2>2. Iteration(counts)[1..0] = <<>>
    BY <1>2, <2>1
  <2>3. <<>> \in Seq(Nat) /\ Len(<<>>) = 0
    OBVIOUS
  <2>4. Counts(0)
    BY <2>2, <2>3
  <2> HIDE DEF Counts
  <2> QED BY <2>4
<1>4. ASSUME NEW k \in Nat, k \in S PROVE k + 1 \in S
  <2> SUFFICES ASSUME k + 1 <= n PROVE Counts(k + 1)
    BY DEF Counts
  <2>1. Counts(k)
    BY <1>4
  <2> DEFINE x == 1..(k + 1)
  <2>2. x \in SUBSET (1..n) /\ k + 1 \in x /\ x \ {k + 1} = 1..k
    BY <1>1
  <2>3. Greatest(x) = k + 1
    <3>1. Greatest(x) \in x /\ Greatest(x) >= k + 1
      <4>1. x # {} /\ n \in Nat
        BY <1>1, <2>2
      <4> HIDE DEF x, n
      <4> QED BY <2>2, <4>1, GreatestIn
    <3> QED BY <3>1
  <2>4. Iteration(counts)[1..(k + 1)] = WalkStep(Iteration(counts)[1..k], counts[k + 1])
    <3> HIDE DEF x
    <3>1. x # {}
      BY <2>2
    <3>2. Iteration(counts)[x] = WalkStep(Iteration(counts)[1..k], counts[k + 1])
      BY <1>2, <2>2, <2>3, <3>1
    <3> QED BY <3>2 DEF x
  <2>5. counts[k + 1] \in Int
    OBVIOUS
  <2> QED BY <2>1, <2>4, <2>5, StepAppends
<1>5. \A k \in Nat : k \in S
  <2> HIDE DEF S
  <2> QED BY <1>3, <1>4, AllNaturals
<1>6. Counts(n)
  BY <1>1, <1>5
<1> QED BY <1>1, <1>6, WalkIterates

-----------------------------------------------------------------------------
SlotOf(i) == Ops[i].slot
SlotsDiffer(lines) == \A k, l \in DOMAIN lines : SlotOf(lines[k]) = SlotOf(lines[l]) => k = l
InChunk(i) == \E k \in DOMAIN chunk : chunk[k] = i
RowsAreRead == at \in {"read", "history"}
Filling == at \in {"timetable", "crowd"} \/ ended = "seeded"

SeedTypes ==
  /\ stations \in BOOLEAN /\ history \in [Seed!Rows -> Nat] /\ timetable \in Seq(Seed!Rows)
  /\ at \in {"idle", "base", "read", "history", "timetable", "crowd", "load"}
  /\ next \in Nat /\ slots \in Seq(Seed!Rows) /\ lost \in Nat
  /\ at # "load" => chunk \in Seq(Seed!Rows)

\* Where a run is tells what it has begun with, and what it has not come to.
RunBegun ==
  /\ at \in {"idle", "base"} => next = 1 /\ chunk = <<>> /\ slots = <<>>
  /\ at # "idle" => ended = "failed"
  /\ at \in {"read", "history", "timetable", "crowd", "load"} => stations
  /\ at = "base" => ~stations
  /\ ~stations => history = Seed!NoHistory /\ timetable = <<>> /\ logs = Seed!NoLogs /\ lost = 0
  /\ at \in {"base", "read", "history", "timetable", "crowd"} => logs = Seed!NoLogs

\* The rows read so far are in the history or in the chunk, ...
RowsAreKept ==
  RowsAreRead =>
    /\ timetable = <<>> /\ next \in 1..(Len(Ops) + 1)
    /\ \A k \in DOMAIN chunk : chunk[k] \in Seed!Known /\ chunk[k] < next
    /\ \A k, l \in DOMAIN chunk : chunk[k] = chunk[l] => k = l
    /\ \A i \in Seed!Rows :
         IF i \in Seed!Known /\ i < next
         THEN /\ history[i] >= 1 \/ InChunk(i)
              /\ lost = 0 => history[i] = IF InChunk(i) THEN 0 ELSE 1
         ELSE history[i] = 0

\* ... and the latest one of each slot is remembered.
SlotsAreLatest ==
  RowsAreRead =>
    /\ SlotsDiffer(slots)
    /\ \A k \in DOMAIN slots : slots[k] \in Seed!Known /\ slots[k] < next
    /\ \A i \in Seed!Known : i < next =>
         \E k \in DOMAIN slots : SlotOf(slots[k]) = SlotOf(i) /\ Ops[i].arrival <= Ops[slots[k]].arrival

\* At the end of the file the history is whole, ...
HistoryIsDone ==
  Filling => \A i \in Seed!Rows : IF i \in Seed!Known THEN history[i] >= 1 /\ (lost = 0 => history[i] = 1)
                             ELSE history[i] = 0

\* ... and each slot is in the timetable or remembered.
SlotsGoOn ==
  Filling =>
    /\ \A k \in DOMAIN timetable : timetable[k] \in Seed!Known /\ Seed!Latest(timetable[k])
    /\ \A k \in DOMAIN slots : slots[k] \in Seed!Known /\ Seed!Latest(slots[k])
    /\ SlotsDiffer(slots)
    /\ \A i \in Seed!Known : \/ \E k \in DOMAIN timetable : SlotOf(timetable[k]) = SlotOf(i)
                             \/ \E k \in DOMAIN slots : SlotOf(slots[k]) = SlotOf(i)
    /\ lost = 0 => /\ SlotsDiffer(timetable)
                   /\ \A k \in DOMAIN timetable, l \in DOMAIN slots :
                          SlotOf(timetable[k]) # SlotOf(slots[l])

ChunkIsFirst ==
  /\ at = "timetable" => chunk = Seed!FirstChunk(slots)
  /\ at = "crowd" \/ ended = "seeded" => slots = <<>>

DaysAreDone ==
  ended = "seeded" => \A s \in DOMAIN Flow : logs[s] = Seed!Walk(Flow[s]) /\ live[s] = Seed!Last(logs[s])

\* A table is full, or it is given as many rows again: what is left of them is in the chunk.
TablesAreFilled ==
  /\ made \in [Seed!ToSet(Tables) -> 0..(2 * Target - 1)]
  /\ at = "load" =>
       /\ slots = <<>> /\ next \in 1..(Len(Tables) + 1)
       /\ \A j \in DOMAIN Tables : j < next => made[Tables[j]] >= Target
       /\ \/ chunk = <<>>
          \/ /\ next <= Len(Tables)
             /\ \E todo \in Nat \ {0} : chunk = <<todo>> /\ made[Tables[next]] + todo \in Target..(2 * Target - 1)
  /\ ended = "loaded" => \A t \in Seed!ToSet(Tables) : made[t] >= Target

SeedInv ==
  /\ SeedTypes /\ RunBegun /\ RowsAreKept /\ SlotsAreLatest /\ HistoryIsDone /\ SlotsGoOn
  /\ ChunkIsFirst /\ DaysAreDone /\ TablesAreFilled

-----------------------------------------------------------------------------
LEMMA RowsAreNumbers ==
  ASSUME Seed!SeedConstants
  PROVE  Len(Ops) \in Nat /\ Seed!Rows = 1..Len(Ops) /\ Seed!Rows \subseteq Nat
BY DEF Seed!SeedConstants, Seed!Rows

LEMMA ArrivalsCompare ==
  ASSUME Seed!SeedConstants
  PROVE  \A i \in Seed!Rows : Ops[i].arrival \in Int
<1> DEFINE R == [slot : {Ops[i].slot : i \in Seed!Rows}, arrival : Int]
<1>1. \A r \in R : r.arrival \in Int
  OBVIOUS
<1> HIDE DEF R
<1>2. Ops \in Seq(R)
  BY DEF Seed!SeedConstants, R
<1>3. \A i \in Seed!Rows : Ops[i] \in R
  BY <1>2 DEF Seed!Rows
<1> QED BY <1>1, <1>3

LEMMA NothingIsTyped ==
  Seed!NoHistory \in [Seed!Rows -> Nat] /\ <<>> \in Seq(Seed!Rows)
<1>1. Seed!NoHistory \in [Seed!Rows -> Nat]
  BY DEF Seed!NoHistory
<1>2. <<>> \in Seq(Seed!Rows)
  OBVIOUS
<1> QED BY <1>1, <1>2

\* The first chunk of some rows is where they begin.
LEMMA FirstChunkBegins ==
  ASSUME NEW S, NEW lines \in Seq(S), Seed!SeedConstants
  PROVE  /\ Seed!FirstChunk(lines) \in Seq(S) /\ Len(Seed!FirstChunk(lines)) <= Len(lines)
         /\ lines # <<>> => Seed!FirstChunk(lines) # <<>>
         /\ \A k \in DOMAIN Seed!FirstChunk(lines) : k \in DOMAIN lines /\ Seed!FirstChunk(lines)[k] = lines[k]
<1>1. ChunkSize \in Nat /\ ChunkSize > 0
  BY DEF Seed!SeedConstants
<1>2. CASE Len(lines) <= ChunkSize
  BY <1>2 DEF Seed!FirstChunk
<1>3. CASE ~(Len(lines) <= ChunkSize)
  <2>1. Seed!FirstChunk(lines) = SubSeq(lines, 1, ChunkSize)
    BY <1>3 DEF Seed!FirstChunk
  <2>2. Len(SubSeq(lines, 1, ChunkSize)) = ChunkSize /\ SubSeq(lines, 1, ChunkSize) \in Seq(S)
    BY <1>1, <1>3
  <2>3. \A k \in 1..ChunkSize : k \in DOMAIN lines /\ SubSeq(lines, 1, ChunkSize)[k] = lines[k]
    BY <1>1, <1>3
  <2> QED BY <1>1, <1>3, <2>1, <2>2, <2>3
<1> QED BY <1>2, <1>3

\* What follows it is the others, in their order.
LEMMA RestFollows ==
  ASSUME NEW S, NEW lines \in Seq(S), NEW n \in Nat, n <= Len(lines)
  PROVE  LET rest == SubSeq(lines, n + 1, Len(lines))
         IN  /\ rest \in Seq(S) /\ Len(rest) = Len(lines) - n
             /\ \A k \in DOMAIN rest : k + n \in DOMAIN lines /\ rest[k] = lines[k + n]
             /\ \A k \in DOMAIN lines : k > n => k - n \in DOMAIN rest /\ rest[k - n] = lines[k]
<1> DEFINE rest == SubSeq(lines, n + 1, Len(lines))
<1>1. rest \in Seq(S) /\ Len(rest) = Len(lines) - n
  OBVIOUS
<1>2. \A k \in 1..(Len(lines) - n) : k + n \in DOMAIN lines /\ rest[k] = lines[k + n]
  OBVIOUS
<1>3. DOMAIN rest = 1..(Len(lines) - n)
  BY <1>1
<1>4. \A k \in DOMAIN lines : k > n => k - n \in 1..(Len(lines) - n) /\ (k - n) + n = k
  OBVIOUS
<1> HIDE DEF rest
<1> QED BY <1>1, <1>2, <1>3, <1>4

\* A row that is in a chunk once is counted once.
LEMMA CountOnce ==
  ASSUME NEW lines \in Seq(Seed!Rows), \A k, l \in DOMAIN lines : lines[k] = lines[l] => k = l, NEW i
  PROVE  Cardinality({k \in DOMAIN lines : lines[k] = i}) =
           IF \E k \in DOMAIN lines : lines[k] = i THEN 1 ELSE 0
<1>1. CASE \E k \in DOMAIN lines : lines[k] = i
  <2>1. PICK k \in DOMAIN lines : lines[k] = i
    BY <1>1
  <2>2. {l \in DOMAIN lines : lines[l] = i} = {k}
    BY <2>1
  <2> QED BY <1>1, <2>2, FS_Singleton
<1>2. CASE ~\E k \in DOMAIN lines : lines[k] = i
  <2>1. {l \in DOMAIN lines : lines[l] = i} = {}
    BY <1>2
  <2> QED BY <1>2, <2>1, FS_EmptySet
<1> QED BY <1>1, <1>2

-----------------------------------------------------------------------------
LEMMA InitSeeds ==
  ASSUME Seed!SeedConstants, Seed!Init
  PROVE  SeedInv
<1>1. SeedTypes
  BY NothingIsTyped DEF Seed!Init, SeedTypes
<1>2. RunBegun
  BY DEF Seed!Init, RunBegun
<1>3. RowsAreKept /\ SlotsAreLatest /\ HistoryIsDone /\ SlotsGoOn /\ ChunkIsFirst /\ DaysAreDone
  BY DEF Seed!Init, RowsAreKept, SlotsAreLatest, HistoryIsDone, SlotsGoOn, ChunkIsFirst, DaysAreDone, RowsAreRead, Filling
<1>4. TablesAreFilled
  <2>1. 0 \in 0..(2 * Target - 1)
    BY DEF Seed!SeedConstants
  <2> QED BY <2>1 DEF Seed!Init, TablesAreFilled
<1> QED BY <1>1, <1>2, <1>3, <1>4 DEF SeedInv

LEMMA RefuseSeeds ==
  ASSUME Seed!SeedConstants, SeedInv, Seed!Refuse
  PROVE  SeedInv'
<1>1. at' = "idle" /\ ended' = "refused" /\ at = "idle"
  BY DEF Seed!Refuse, Seed!Started, Seed!program
<1>2. SeedTypes' /\ RunBegun'
  BY <1>1 DEF SeedInv, SeedTypes, RunBegun, Seed!Refuse, Seed!data, Seed!program
<1>3. TablesAreFilled'
  BY <1>1 DEF SeedInv, TablesAreFilled, Seed!Refuse, Seed!data, Seed!program
<1>4. (RowsAreKept /\ SlotsAreLatest /\ HistoryIsDone /\ SlotsGoOn /\ ChunkIsFirst /\ DaysAreDone)'
  BY <1>1 DEF RowsAreKept, SlotsAreLatest, HistoryIsDone, SlotsGoOn, ChunkIsFirst, DaysAreDone,
                RowsAreRead, Filling
<1> QED BY <1>2, <1>3, <1>4 DEF SeedInv

LEMMA BeginSeeds ==
  ASSUME Seed!SeedConstants, SeedInv, NEW reset \in BOOLEAN, Seed!Begin(reset)
  PROVE  SeedInv'
<1>1. at' = "base" /\ ended' = "failed" /\ at = "idle" /\ ~stations'
  BY DEF Seed!Begin, Seed!Started, Seed!data
<1>2. next' = 1 /\ chunk' = <<>> /\ slots' = <<>>
  BY <1>1 DEF SeedInv, RunBegun, Seed!Begin
<1>3. history' = Seed!NoHistory /\ timetable' = <<>> /\ logs' = Seed!NoLogs /\ lost' = 0
  BY <1>1 DEF SeedInv, RunBegun, Seed!Begin, Seed!data
<1>4. SeedTypes'
  <2>1. stations' \in BOOLEAN
    BY DEF Seed!Begin, Seed!data, SeedInv, SeedTypes
  <2> QED BY <1>1, <1>2, <1>3, <2>1, NothingIsTyped DEF SeedTypes
<1>5. RunBegun'
  BY <1>1, <1>2, <1>3 DEF RunBegun
<1>6. TablesAreFilled'
  <2>1. made \in [Seed!ToSet(Tables) -> 0..(2 * Target - 1)] /\ 0 \in 0..(2 * Target - 1)
    BY DEF SeedInv, TablesAreFilled, Seed!SeedConstants
  <2>2. CASE reset
    <3>1. made' = [t \in Seed!ToSet(Tables) |-> IF t \in Cleared THEN 0 ELSE made[t]]
      BY <2>1, <2>2 DEF Seed!Begin
    <3> QED BY <1>1, <2>1, <3>1 DEF TablesAreFilled
  <2>3. CASE ~reset
    <3>1. made' = made
      BY <2>3 DEF Seed!Begin, Seed!data
    <3> QED BY <1>1, <2>1, <3>1 DEF TablesAreFilled
  <2> QED BY <2>2, <2>3
<1>7. (RowsAreKept /\ SlotsAreLatest /\ HistoryIsDone /\ SlotsGoOn /\ ChunkIsFirst /\ DaysAreDone)'
  BY <1>1 DEF RowsAreKept, SlotsAreLatest, HistoryIsDone, SlotsGoOn, ChunkIsFirst, DaysAreDone,
                RowsAreRead, Filling
<1> QED BY <1>4, <1>5, <1>6, <1>7 DEF SeedInv

LEMMA CommitBaseSeeds ==
  ASSUME Seed!SeedConstants, SeedInv, Seed!CommitBase
  PROVE  SeedInv'
<1>1. /\ at = "base" /\ at' = "read" /\ stations' /\ ~stations /\ ended' = "failed"
      /\ next' = 1 /\ chunk' = <<>> /\ slots' = <<>>
      /\ history' = Seed!NoHistory /\ timetable' = <<>> /\ logs' = Seed!NoLogs /\ lost' = 0 /\ made' = made
  BY DEF Seed!CommitBase, SeedInv, RunBegun
<1>2. SeedTypes'
  BY <1>1 DEF SeedTypes, Seed!NoHistory, Seed!CommitBase
<1>3. RunBegun'
  BY <1>1 DEF RunBegun
<1>4. TablesAreFilled'
  BY <1>1 DEF SeedInv, TablesAreFilled
<1>5. RowsAreKept'
  BY <1>1, RowsAreNumbers DEF RowsAreKept, Seed!NoHistory
<1>6. SlotsAreLatest'
  BY <1>1, RowsAreNumbers DEF SlotsAreLatest, SlotsDiffer, Seed!Known
<1>7. HistoryIsDone' /\ SlotsGoOn' /\ ChunkIsFirst' /\ DaysAreDone'
  BY <1>1 DEF HistoryIsDone, SlotsGoOn, ChunkIsFirst, DaysAreDone, Filling
<1> QED BY <1>2, <1>3, <1>4, <1>5, <1>6, <1>7 DEF SeedInv

-----------------------------------------------------------------------------
(* ReadRow *)
LEMMA UnknownRowSeeds ==
  ASSUME Seed!SeedConstants, SeedInv, Seed!ReadRow, Ops[next].slot = Unknown
  PROVE  SeedInv'
<1>1. /\ at = "read" /\ at' = "read" /\ next' = next + 1 /\ next <= Len(Ops)
      /\ chunk' = chunk /\ slots' = slots /\ ended' = ended /\ lost' = lost
      /\ stations' = stations /\ history' = history /\ timetable' = timetable
      /\ logs' = logs /\ made' = made
  BY DEF Seed!ReadRow, Seed!data
<1>2. next \in 1..Len(Ops) /\ next \notin Seed!Known /\ next \in Nat /\ ended = "failed" /\ stations
  BY <1>1, RowsAreNumbers DEF SeedInv, RowsAreKept, RowsAreRead, Seed!Known, RunBegun
<1>3. \A i \in Seed!Known : i < next + 1 <=> i < next
  BY <1>2, RowsAreNumbers DEF Seed!Known
<1>4. SeedTypes'
  BY <1>1, <1>2 DEF SeedInv, SeedTypes
<1>5. RunBegun'
  BY <1>1 DEF SeedInv, RunBegun
<1>6. RowsAreKept'
  <2>1. RowsAreKept /\ RowsAreRead /\ RowsAreRead'
    BY <1>1 DEF SeedInv, RowsAreRead
  <2>2. timetable' = <<>> /\ next' \in 1..(Len(Ops) + 1)
    BY <1>1, <1>2, <2>1, RowsAreNumbers DEF RowsAreKept
  <2>3. \A k \in DOMAIN chunk' : chunk'[k] \in Seed!Known /\ chunk'[k] < next'
    BY <1>1, <1>2, <1>3, <2>1 DEF RowsAreKept
  <2>4. \A k, l \in DOMAIN chunk' : chunk'[k] = chunk'[l] => k = l
    BY <1>1, <2>1 DEF RowsAreKept
  <2>5. \A i \in Seed!Rows :
         IF i \in Seed!Known /\ i < next'
         THEN /\ history'[i] >= 1 \/ InChunk(i)'
              /\ lost' = 0 => history'[i] = IF InChunk(i)' THEN 0 ELSE 1
         ELSE history'[i] = 0
    BY <1>1, <1>3, <2>1 DEF RowsAreKept, InChunk
  <2> QED BY <2>2, <2>3, <2>4, <2>5 DEF RowsAreKept
<1>7. SlotsAreLatest'
  <2>1. SlotsAreLatest /\ RowsAreRead
    BY <1>1 DEF SeedInv, RowsAreRead
  <2> QED BY <1>1, <1>3, <2>1 DEF SlotsAreLatest, SlotsDiffer
<1>8. HistoryIsDone' /\ SlotsGoOn' /\ ChunkIsFirst' /\ DaysAreDone'
  BY <1>1, <1>2 DEF HistoryIsDone, SlotsGoOn, ChunkIsFirst, DaysAreDone, Filling
<1>9. TablesAreFilled'
  BY <1>1, <1>2 DEF SeedInv, TablesAreFilled
<1> QED BY <1>4, <1>5, <1>6, <1>7, <1>8, <1>9 DEF SeedInv

\* A row whose slot is remembered takes its place, or leaves it.
LEMMA RowReplaces ==
  ASSUME Seed!SeedConstants, slots \in Seq(Seed!Rows), NEW i \in Seed!Rows, SlotsDiffer(slots),
         \E k \in DOMAIN slots : SlotOf(slots[k]) = SlotOf(i)
  PROVE  /\ Seed!Slotted(i) \in Seq(Seed!Rows) /\ DOMAIN Seed!Slotted(i) = DOMAIN slots /\ SlotsDiffer(Seed!Slotted(i))
         /\ \A k \in DOMAIN slots :
              /\ Seed!Slotted(i)[k] \in {i, slots[k]} /\ SlotOf(Seed!Slotted(i)[k]) = SlotOf(slots[k])
              /\ Ops[slots[k]].arrival <= Ops[Seed!Slotted(i)[k]].arrival
              /\ SlotOf(slots[k]) = SlotOf(i) => Ops[i].arrival <= Ops[Seed!Slotted(i)[k]].arrival
<1>1. Seed!Slotted(i) = [k \in DOMAIN slots |->
        IF SlotOf(slots[k]) = SlotOf(i) /\ Seed!Replaces(i, slots[k]) THEN i ELSE slots[k]]
  BY DEF Seed!Slotted, SlotOf
<1>2. \A k \in DOMAIN slots : slots[k] \in Seed!Rows
  OBVIOUS
<1>3. DOMAIN slots = 1..Len(slots) /\ Len(slots) \in Nat
  OBVIOUS
<1>4. \A k \in DOMAIN slots : Seed!Slotted(i)[k] \in {i, slots[k]}
  BY <1>1
<1>5. Seed!Slotted(i) \in Seq(Seed!Rows) /\ DOMAIN Seed!Slotted(i) = DOMAIN slots
  <2>1. Seed!Slotted(i) \in [1..Len(slots) -> Seed!Rows]
    BY <1>1, <1>2, <1>3
  <2>2. Seed!Slotted(i) \in Seq(Seed!Rows)
    BY <1>3, <2>1
  <2> QED BY <1>1, <2>2
<1>6. \A k \in DOMAIN slots : SlotOf(Seed!Slotted(i)[k]) = SlotOf(slots[k])
  BY <1>1
<1>7. ASSUME NEW k \in DOMAIN slots
      PROVE  /\ Ops[slots[k]].arrival <= Ops[Seed!Slotted(i)[k]].arrival
             /\ SlotOf(slots[k]) = SlotOf(i) => Ops[i].arrival <= Ops[Seed!Slotted(i)[k]].arrival
  <2>1. Ops[i].arrival \in Int /\ Ops[slots[k]].arrival \in Int
    BY <1>2, <1>7, ArrivalsCompare
  <2>2. CASE SlotOf(slots[k]) = SlotOf(i) /\ Seed!Replaces(i, slots[k])
    <3>1. Seed!Slotted(i)[k] = i
      BY <1>1, <1>7, <2>2
    <3> QED BY <2>1, <2>2, <3>1 DEF Seed!Replaces
  <2>3. CASE ~(SlotOf(slots[k]) = SlotOf(i) /\ Seed!Replaces(i, slots[k]))
    <3>1. Seed!Slotted(i)[k] = slots[k]
      BY <1>1, <1>7, <2>3
    <3> QED BY <2>1, <2>3, <3>1 DEF Seed!Replaces
  <2> QED BY <2>2, <2>3
<1>8. SlotsDiffer(Seed!Slotted(i))
  BY <1>5, <1>6 DEF SlotsDiffer
<1> QED BY <1>4, <1>5, <1>6, <1>7, <1>8

LEMMA RowReadSlots ==
  ASSUME Seed!SeedConstants, SeedInv, at = "read", next <= Len(Ops), next \in Seed!Known, next \in Nat,
         slots' = Seed!Slotted(next), next' = next + 1
  PROVE  SlotsAreLatest' /\ slots' \in Seq(Seed!Rows)
<1>1. /\ slots \in Seq(Seed!Rows) /\ SlotsDiffer(slots)
      /\ \A k \in DOMAIN slots : slots[k] \in Seed!Known /\ slots[k] < next
      /\ \A i \in Seed!Known : i < next =>
           \E k \in DOMAIN slots : SlotOf(slots[k]) = SlotOf(i) /\ Ops[i].arrival <= Ops[slots[k]].arrival
  BY DEF SeedInv, SeedTypes, SlotsAreLatest, RowsAreRead
<1>2. Seed!Known \subseteq Seed!Rows /\ Seed!Rows \subseteq Nat /\ \A i \in Seed!Known : i < next => i < next + 1
  BY RowsAreNumbers DEF Seed!Known
<1>3. \A i \in Seed!Known : i < next + 1 => i < next \/ i = next
  BY <1>2
<1>4. \A i \in Seed!Rows : Ops[i].arrival \in Int
  BY ArrivalsCompare
<1>5. CASE \E k \in DOMAIN slots : SlotOf(slots[k]) = SlotOf(next)
  <2>1. /\ Seed!Slotted(next) \in Seq(Seed!Rows) /\ DOMAIN Seed!Slotted(next) = DOMAIN slots /\ SlotsDiffer(Seed!Slotted(next))
        /\ \A k \in DOMAIN slots :
             /\ Seed!Slotted(next)[k] \in {next, slots[k]} /\ SlotOf(Seed!Slotted(next)[k]) = SlotOf(slots[k])
             /\ Ops[slots[k]].arrival <= Ops[Seed!Slotted(next)[k]].arrival
             /\ SlotOf(slots[k]) = SlotOf(next) => Ops[next].arrival <= Ops[Seed!Slotted(next)[k]].arrival
    BY <1>1, <1>2, <1>5, RowReplaces
  <2>2. ASSUME NEW k \in DOMAIN slots
        PROVE  Seed!Slotted(next)[k] \in Seed!Known /\ Seed!Slotted(next)[k] < next + 1
    <3>1. CASE Seed!Slotted(next)[k] = next
      BY <3>1
    <3>2. CASE Seed!Slotted(next)[k] = slots[k]
      <4>1. slots[k] \in Seed!Known /\ slots[k] < next
        BY <1>1
      <4> QED BY <1>2, <3>2, <4>1
    <3> QED BY <2>1, <3>1, <3>2
  <2>3. ASSUME NEW i \in Seed!Known, i < next + 1
        PROVE  \E k \in DOMAIN slots :
                 SlotOf(Seed!Slotted(next)[k]) = SlotOf(i) /\ Ops[i].arrival <= Ops[Seed!Slotted(next)[k]].arrival
    <3>1. CASE i = next
      BY <1>5, <2>1, <3>1
    <3>2. CASE i < next
      <4>1. PICK k \in DOMAIN slots : SlotOf(slots[k]) = SlotOf(i) /\ Ops[i].arrival <= Ops[slots[k]].arrival
        BY <1>1, <3>2
      <4>2. slots[k] \in Seed!Rows /\ Seed!Slotted(next)[k] \in Seed!Rows
        BY <1>1, <1>2, <2>2, <4>1
      <4>3. /\ Ops[i].arrival \in Int /\ Ops[slots[k]].arrival \in Int /\ Ops[Seed!Slotted(next)[k]].arrival \in Int
            /\ Ops[slots[k]].arrival <= Ops[Seed!Slotted(next)[k]].arrival
        BY <1>2, <1>4, <2>1, <4>1, <4>2
      <4>4. Ops[i].arrival <= Ops[Seed!Slotted(next)[k]].arrival
        <5> DEFINE a == Ops[i].arrival  b == Ops[slots[k]].arrival  c == Ops[Seed!Slotted(next)[k]].arrival
        <5>1. a \in Int /\ b \in Int /\ c \in Int /\ a <= b /\ b <= c
          BY <4>1, <4>3
        <5> HIDE DEF a, b, c
        <5>2. a <= c
          BY <5>1
        <5> QED BY <5>2 DEF a, c
      <4> QED BY <2>1, <4>1, <4>4
    <3> QED BY <1>3, <2>3, <3>1, <3>2
  <2> QED BY <2>1, <2>2, <2>3 DEF SlotsAreLatest, SlotsDiffer
<1>6. CASE ~\E k \in DOMAIN slots : SlotOf(slots[k]) = SlotOf(next)
  <2>1. Seed!Slotted(next) = Append(slots, next)
    BY <1>6 DEF Seed!Slotted, SlotOf
  <2> DEFINE n == Len(slots)
             s == Append(slots, next)
  <2>2. n \in Nat /\ DOMAIN slots = 1..n /\ DOMAIN s = 1..(n + 1) /\ s \in Seq(Seed!Rows)
    BY <1>1, <1>2
  <2>3. s[n + 1] = next /\ \A k \in 1..n : s[k] = slots[k]
    BY <1>1
  <2> HIDE DEF n, s
  <2>4. \A k \in 1..(n + 1) : k \in 1..n \/ k = n + 1
    BY <2>2
  <2>5. SlotsDiffer(s)
    <3>1. SUFFICES ASSUME NEW k \in DOMAIN s, NEW l \in DOMAIN s, SlotOf(s[k]) = SlotOf(s[l]) PROVE k = l
      BY DEF SlotsDiffer
    <3>2. CASE k \in 1..n /\ l \in 1..n
      BY <1>1, <2>2, <2>3, <3>1, <3>2 DEF SlotsDiffer
    <3>3. CASE k \in 1..n /\ l = n + 1
      BY <1>6, <2>2, <2>3, <3>1, <3>3
    <3>4. CASE k = n + 1 /\ l \in 1..n
      BY <1>6, <2>2, <2>3, <3>1, <3>4
    <3> QED BY <2>2, <2>4, <3>1, <3>2, <3>3, <3>4
  <2>6. \A k \in DOMAIN s : s[k] \in Seed!Known /\ s[k] < next + 1
    <3>1. SUFFICES ASSUME NEW k \in DOMAIN s PROVE s[k] \in Seed!Known /\ s[k] < next + 1
      OBVIOUS
    <3>2. CASE k \in 1..n
      <4>1. s[k] = slots[k] /\ slots[k] \in Seed!Known /\ slots[k] < next
        BY <1>1, <2>2, <2>3, <3>2
      <4>2. slots[k] < next + 1
        BY <1>2, <4>1
      <4> QED BY <4>1, <4>2
    <3>3. CASE k = n + 1
      BY <2>3, <3>3
    <3> QED BY <2>2, <2>4, <3>1, <3>2, <3>3
  <2>7. ASSUME NEW i \in Seed!Known, i < next + 1
        PROVE  \E k \in DOMAIN s : SlotOf(s[k]) = SlotOf(i) /\ Ops[i].arrival <= Ops[s[k]].arrival
    <3>1. CASE i = next
      <4>1. n + 1 \in DOMAIN s /\ Ops[i].arrival <= Ops[i].arrival
        BY <1>2, <1>4, <2>2
      <4>2. SlotOf(s[n + 1]) = SlotOf(i) /\ Ops[s[n + 1]].arrival = Ops[i].arrival
        BY <2>3, <3>1
      <4>3. Ops[i].arrival <= Ops[s[n + 1]].arrival
        BY <4>1, <4>2
      <4> QED BY <4>1, <4>2, <4>3
    <3>2. CASE i < next
      <4>1. PICK k \in DOMAIN slots : SlotOf(slots[k]) = SlotOf(i) /\ Ops[i].arrival <= Ops[slots[k]].arrival
        BY <1>1, <3>2
      <4>2. k \in DOMAIN s /\ s[k] = slots[k]
        BY <2>2, <2>3
      <4> QED BY <4>1, <4>2
    <3> QED BY <1>3, <2>7, <3>1, <3>2
  <2>8. slots' = s
    BY <2>1 DEF s
  <2> QED BY <2>2, <2>5, <2>6, <2>7, <2>8 DEF SlotsAreLatest, SlotsDiffer
<1> QED BY <1>5, <1>6

LEMMA KnownRowSeeds ==
  ASSUME Seed!SeedConstants, SeedInv, Seed!ReadRow, Ops[next].slot # Unknown
  PROVE  SeedInv'
<1>1. /\ at = "read" /\ at' \in {"read", "history"} /\ next' = next + 1 /\ next <= Len(Ops)
      /\ chunk' = Append(chunk, next) /\ slots' = Seed!Slotted(next) /\ ended' = ended /\ lost' = lost
      /\ stations' = stations /\ history' = history /\ timetable' = timetable
      /\ logs' = logs /\ made' = made
  BY DEF Seed!ReadRow, Seed!data
<1>2. next \in 1..Len(Ops) /\ next \in Seed!Rows /\ next \in Seed!Known /\ next \in Nat /\ ended = "failed" /\ stations
  BY <1>1, RowsAreNumbers DEF SeedInv, RowsAreKept, RowsAreRead, Seed!Known, RunBegun
<1>3. SlotsAreLatest' /\ slots' \in Seq(Seed!Rows)
  BY <1>1, <1>2, RowReadSlots
<1>4. chunk \in Seq(Seed!Rows) /\ chunk' \in Seq(Seed!Rows)
  BY <1>1, <1>2 DEF SeedInv, SeedTypes
<1>5. SeedTypes'
  BY <1>1, <1>2, <1>3, <1>4 DEF SeedInv, SeedTypes
<1>6. RunBegun'
  BY <1>1 DEF SeedInv, RunBegun
<1>7. RowsAreKept'
  <2>1. RowsAreKept /\ RowsAreRead /\ RowsAreRead'
    BY <1>1 DEF SeedInv, RowsAreRead
  <2> DEFINE n == Len(chunk)
  <2>2. n \in Nat /\ DOMAIN chunk = 1..n /\ DOMAIN chunk' = 1..(n + 1) /\ Seed!Known \subseteq Nat
    BY <1>1, <1>2, <1>4, RowsAreNumbers DEF Seed!Known
  <2>3. chunk'[n + 1] = next /\ \A k \in 1..n : chunk'[k] = chunk[k]
    BY <1>1, <1>4
  <2> HIDE DEF n
  <2>4. \A k \in 1..(n + 1) : k \in 1..n \/ k = n + 1
    BY <2>2
  <2>5. \A k \in 1..n : chunk[k] \in Seed!Known /\ chunk[k] < next
    BY <2>1, <2>2 DEF RowsAreKept
  <2>6. timetable' = <<>> /\ next' \in 1..(Len(Ops) + 1)
    BY <1>1, <1>2, <2>1, RowsAreNumbers DEF RowsAreKept
  <2>7. \A k \in DOMAIN chunk' : chunk'[k] \in Seed!Known /\ chunk'[k] < next'
    <3>1. SUFFICES ASSUME NEW k \in 1..(n + 1) PROVE chunk'[k] \in Seed!Known /\ chunk'[k] < next + 1
      BY <1>1, <2>2
    <3>2. CASE k \in 1..n
      <4>1. chunk'[k] = chunk[k] /\ chunk[k] \in Seed!Known /\ chunk[k] < next
        BY <2>3, <2>5, <3>2
      <4>2. \A i \in Seed!Known : i < next => i < next + 1
        BY <1>2, <2>2
      <4> QED BY <4>1, <4>2
    <3>3. CASE k = n + 1
      BY <1>2, <2>3, <3>3
    <3> QED BY <2>4, <3>1, <3>2, <3>3
  <2>8. \A k, l \in DOMAIN chunk' : chunk'[k] = chunk'[l] => k = l
    <3>1. SUFFICES ASSUME NEW k \in 1..(n + 1), NEW l \in 1..(n + 1), chunk'[k] = chunk'[l] PROVE k = l
      BY <2>2
    <3>2. \A m \in 1..n : chunk[m] # next
      BY <1>2, <2>5, <2>2
    <3>3. CASE k \in 1..n /\ l \in 1..n
      BY <2>1, <2>2, <2>3, <3>1, <3>3 DEF RowsAreKept
    <3> QED BY <2>3, <2>4, <3>1, <3>2, <3>3
  <2>9. \A i : InChunk(i)' <=> InChunk(i) \/ i = next
    <3>1. n + 1 \in 1..(n + 1) /\ \A k \in 1..n : k \in 1..(n + 1)
      BY <2>2
    <3> QED BY <2>2, <2>3, <2>4, <3>1 DEF InChunk
  <2>10. ASSUME NEW i \in Seed!Rows
         PROVE  IF i \in Seed!Known /\ i < next'
                THEN /\ history'[i] >= 1 \/ InChunk(i)'
                     /\ lost' = 0 => history'[i] = IF InChunk(i)' THEN 0 ELSE 1
                ELSE history'[i] = 0
    <3>1. i \in Nat
      BY <2>10, RowsAreNumbers
    <3>2. IF i \in Seed!Known /\ i < next
          THEN /\ history[i] >= 1 \/ InChunk(i)
               /\ lost = 0 => history[i] = IF InChunk(i) THEN 0 ELSE 1
          ELSE history[i] = 0
      BY <2>1, <2>10 DEF RowsAreKept
    <3>3. CASE i = next
      BY <1>1, <1>2, <2>9, <3>2, <3>3
    <3>4. CASE i # next
      <4>1. i < next + 1 <=> i < next
        BY <1>2, <3>1, <3>4
      <4> QED BY <1>1, <2>9, <3>2, <3>4, <4>1
    <3> QED BY <3>3, <3>4
  <2> QED BY <2>6, <2>7, <2>8, <2>10 DEF RowsAreKept
<1>8. HistoryIsDone' /\ SlotsGoOn' /\ ChunkIsFirst' /\ DaysAreDone'
  BY <1>1, <1>2 DEF HistoryIsDone, SlotsGoOn, ChunkIsFirst, DaysAreDone, Filling
<1>9. TablesAreFilled'
  BY <1>1, <1>2 DEF SeedInv, TablesAreFilled
<1> QED BY <1>3, <1>5, <1>6, <1>7, <1>8, <1>9 DEF SeedInv

-----------------------------------------------------------------------------
(* EndOfFile *)
LEMMA LastChunkSeeds ==
  ASSUME Seed!SeedConstants, SeedInv, Seed!EndOfFile, ~Seed!NoRowLeft
  PROVE  SeedInv'
<1>1. /\ at = "read" /\ at' = "history" /\ next' = next /\ chunk' = chunk /\ slots' = slots
      /\ ended' = ended /\ lost' = lost /\ stations' = stations /\ history' = history
      /\ timetable' = timetable /\ logs' = logs /\ made' = made
  BY DEF Seed!EndOfFile, Seed!data
<1>2. ended = "failed" /\ stations
  BY <1>1 DEF SeedInv, RunBegun
<1>3. SeedTypes' /\ RunBegun'
  BY <1>1 DEF SeedInv, SeedTypes, RunBegun
<1>4. RowsAreKept'
  BY <1>1 DEF SeedInv, RowsAreKept, RowsAreRead, InChunk
<1>5. SlotsAreLatest'
  BY <1>1 DEF SeedInv, SlotsAreLatest, RowsAreRead, SlotsDiffer
<1>6. HistoryIsDone' /\ SlotsGoOn' /\ ChunkIsFirst' /\ DaysAreDone'
  BY <1>1, <1>2 DEF HistoryIsDone, SlotsGoOn, ChunkIsFirst, DaysAreDone, Filling
<1>7. TablesAreFilled'
  BY <1>1, <1>2 DEF SeedInv, TablesAreFilled
<1> QED BY <1>3, <1>4, <1>5, <1>6, <1>7 DEF SeedInv

LEMMA FileReadSeeds ==
  ASSUME Seed!SeedConstants, SeedInv, Seed!EndOfFile, Seed!NoRowLeft
  PROVE  SeedInv'
<1>1. /\ at = "read" /\ at' = "timetable" /\ next' = next /\ chunk = <<>>
      /\ chunk' = Seed!FirstChunk(slots) /\ slots' = slots /\ ~(next <= Len(Ops))
      /\ ended' = ended /\ lost' = lost /\ stations' = stations /\ history' = history
      /\ timetable' = timetable /\ logs' = logs /\ made' = made
  BY DEF Seed!EndOfFile, Seed!data, Seed!NoRowLeft, SeedInv, SeedTypes, Seed!SeedConstants
<1>2. ended = "failed" /\ stations
  BY <1>1 DEF SeedInv, RunBegun
<1>3. slots \in Seq(Seed!Rows) /\ chunk' \in Seq(Seed!Rows)
  <2>1. slots \in Seq(Seed!Rows)
    BY DEF SeedInv, SeedTypes
  <2> QED BY <1>1, <2>1, FirstChunkBegins
<1>4. SeedTypes' /\ RunBegun'
  BY <1>1, <1>3 DEF SeedInv, SeedTypes, RunBegun
<1>5. RowsAreKept /\ SlotsAreLatest /\ RowsAreRead
  BY <1>1 DEF SeedInv, RowsAreRead
<1>6. \A i \in Seed!Known : i < next /\ i \in Seed!Rows
  BY <1>1, <1>5, RowsAreNumbers DEF RowsAreKept, Seed!Known
<1>7. HistoryIsDone'
  BY <1>1, <1>5, <1>6 DEF HistoryIsDone, RowsAreKept, InChunk
<1>8. SlotsGoOn'
  <2>1. timetable' = <<>> /\ DOMAIN timetable' = {}
    BY <1>1, <1>5 DEF RowsAreKept
  <2>2. ASSUME NEW k \in DOMAIN slots PROVE slots[k] \in Seed!Known /\ Seed!Latest(slots[k])
    <3>1. slots[k] \in Seed!Known
      BY <1>5, <2>2 DEF SlotsAreLatest
    <3>2. ASSUME NEW j \in Seed!Known, SlotOf(j) = SlotOf(slots[k])
          PROVE  Ops[j].arrival <= Ops[slots[k]].arrival
      <4>1. PICK l \in DOMAIN slots : SlotOf(slots[l]) = SlotOf(j) /\ Ops[j].arrival <= Ops[slots[l]].arrival
        BY <1>5, <1>6 DEF SlotsAreLatest
      <4>2. l = k
        BY <1>5, <2>2, <3>2, <4>1 DEF SlotsAreLatest, SlotsDiffer
      <4> QED BY <4>1, <4>2
    <3> QED BY <3>1, <3>2 DEF Seed!Latest, SlotOf
  <2>3. SlotsDiffer(slots)
    BY <1>5 DEF SlotsAreLatest
  <2>4. \A i \in Seed!Known : \E k \in DOMAIN slots : SlotOf(slots[k]) = SlotOf(i)
    BY <1>5, <1>6 DEF SlotsAreLatest
  <2> QED BY <1>1, <2>1, <2>2, <2>3, <2>4 DEF SlotsGoOn, SlotsDiffer
<1>9. ChunkIsFirst' /\ RowsAreKept' /\ SlotsAreLatest' /\ DaysAreDone'
  BY <1>1, <1>2 DEF ChunkIsFirst, RowsAreKept, SlotsAreLatest, DaysAreDone, RowsAreRead, Seed!FirstChunk
<1>10. TablesAreFilled'
  BY <1>1, <1>2 DEF SeedInv, TablesAreFilled
<1> QED BY <1>4, <1>7, <1>8, <1>9, <1>10 DEF SeedInv

-----------------------------------------------------------------------------
(* The lines of the chunk come into the history *)
LEMMA HistoryInserted ==
  ASSUME Seed!SeedConstants, SeedInv, at = "history", Seed!Insert
  PROVE  /\ timetable' = timetable /\ history' \in [Seed!Rows -> Nat]
         /\ \A i \in Seed!Rows : history'[i] = history[i] + IF InChunk(i) THEN 1 ELSE 0
<1>1. history \in [Seed!Rows -> Nat] /\ chunk \in Seq(Seed!Rows) /\ \A k, l \in DOMAIN chunk : chunk[k] = chunk[l] => k = l
  BY DEF SeedInv, SeedTypes, RowsAreKept, RowsAreRead
<1>2. timetable' = timetable /\ history' = [i \in Seed!Rows |-> history[i] + Cardinality({k \in DOMAIN chunk : chunk[k] = i})]
  BY DEF Seed!Insert, Seed!Cardinality, Cardinality, Seed!IsFiniteSet, IsFiniteSet
<1>3. \A i : Cardinality({k \in DOMAIN chunk : chunk[k] = i}) = IF InChunk(i) THEN 1 ELSE 0
  BY <1>1, CountOnce DEF InChunk
<1>4. history' = [i \in Seed!Rows |-> history[i] + IF InChunk(i) THEN 1 ELSE 0]
  BY <1>2, <1>3
<1> HIDE DEF InChunk
<1>5. history' \in [Seed!Rows -> Nat]
  BY <1>1, <1>4
<1> QED BY <1>2, <1>4, <1>5

LEMMA HistoryChunkSeeds ==
  ASSUME Seed!SeedConstants, SeedInv, Seed!InsertChunk, at = "history"
  PROVE  SeedInv'
<1>1. /\ at' = "read" /\ next' = next /\ chunk' = <<>> /\ slots' = slots
      /\ ended' = ended /\ lost' = lost /\ stations' = stations /\ logs' = logs /\ made' = made
  BY DEF Seed!InsertChunk, Seed!Done
<1>2. /\ timetable' = timetable /\ history' \in [Seed!Rows -> Nat]
      /\ \A i \in Seed!Rows : history'[i] = history[i] + IF InChunk(i) THEN 1 ELSE 0
  BY HistoryInserted DEF Seed!InsertChunk
<1>3. ended = "failed" /\ stations
  BY DEF SeedInv, RunBegun
<1>4. SeedTypes' /\ RunBegun'
  BY <1>1, <1>2, <1>3 DEF SeedInv, SeedTypes, RunBegun
<1>5. SlotsAreLatest'
  BY <1>1 DEF SeedInv, SlotsAreLatest, RowsAreRead, SlotsDiffer
<1>6. RowsAreKept'
  <2>1. RowsAreKept /\ RowsAreRead /\ history \in [Seed!Rows -> Nat]
    BY DEF SeedInv, RowsAreRead, SeedTypes
  <2>2. DOMAIN chunk' = {} /\ \A i : ~InChunk(i)'
    BY <1>1 DEF InChunk
  <2>3. ASSUME NEW i \in Seed!Rows
        PROVE  IF i \in Seed!Known /\ i < next
               THEN history'[i] >= 1 /\ (lost = 0 => history'[i] = 1)
               ELSE history'[i] = 0
    <3>1. history[i] \in Nat /\ history'[i] = history[i] + IF InChunk(i) THEN 1 ELSE 0
      BY <1>2, <2>1
    <3>2. IF i \in Seed!Known /\ i < next
          THEN /\ history[i] >= 1 \/ InChunk(i)
               /\ lost = 0 => history[i] = IF InChunk(i) THEN 0 ELSE 1
          ELSE history[i] = 0
      BY <2>1, <2>3 DEF RowsAreKept
    <3>3. InChunk(i) => i \in Seed!Known /\ i < next
      BY <2>1 DEF RowsAreKept, InChunk
    <3>4. CASE InChunk(i)
      BY <3>1, <3>2, <3>3, <3>4
    <3>5. CASE ~InChunk(i)
      BY <3>1, <3>2, <3>5
    <3> QED BY <3>4, <3>5
  <2>4. timetable' = <<>> /\ next' \in 1..(Len(Ops) + 1)
    BY <1>1, <1>2, <2>1 DEF RowsAreKept
  <2> QED BY <1>1, <2>2, <2>3, <2>4 DEF RowsAreKept
<1>7. HistoryIsDone' /\ SlotsGoOn' /\ ChunkIsFirst' /\ DaysAreDone'
  BY <1>1, <1>3 DEF HistoryIsDone, SlotsGoOn, ChunkIsFirst, DaysAreDone, Filling
<1>8. TablesAreFilled'
  BY <1>1, <1>3 DEF SeedInv, TablesAreFilled
<1> QED BY <1>4, <1>5, <1>6, <1>7, <1>8 DEF SeedInv

-----------------------------------------------------------------------------
(* The slots of the chunk come into the timetable *)
LEMMA TimetableGrows ==
  ASSUME Seed!SeedConstants, SeedInv, at = "timetable"
  PROVE  /\ timetable \o chunk \in Seq(Seed!Rows) /\ chunk \in Seq(Seed!Rows) /\ Len(chunk) <= Len(slots)
         /\ \A k \in DOMAIN (timetable \o chunk) :
              \/ k \in DOMAIN timetable /\ (timetable \o chunk)[k] = timetable[k]
              \/ /\ k - Len(timetable) \in DOMAIN chunk /\ k - Len(timetable) \in DOMAIN slots
                 /\ (timetable \o chunk)[k] = slots[k - Len(timetable)]
         /\ \A k \in DOMAIN timetable : k \in DOMAIN (timetable \o chunk) /\ (timetable \o chunk)[k] = timetable[k]
         /\ \A k \in DOMAIN chunk : /\ k + Len(timetable) \in DOMAIN (timetable \o chunk)
                                    /\ (timetable \o chunk)[k + Len(timetable)] = slots[k]
<1>1. timetable \in Seq(Seed!Rows) /\ slots \in Seq(Seed!Rows) /\ chunk = Seed!FirstChunk(slots)
  BY DEF SeedInv, SeedTypes, ChunkIsFirst
<1>2. /\ chunk \in Seq(Seed!Rows) /\ Len(chunk) <= Len(slots)
      /\ \A k \in DOMAIN chunk : k \in DOMAIN slots /\ chunk[k] = slots[k]
  BY <1>1, FirstChunkBegins
<1> DEFINE m == Len(timetable)
           n == Len(chunk)
           all == timetable \o chunk
<1>3. m \in Nat /\ n \in Nat /\ DOMAIN timetable = 1..m /\ DOMAIN chunk = 1..n /\ DOMAIN all = 1..(m + n)
  BY <1>1, <1>2
<1>4. all \in Seq(Seed!Rows)
  BY <1>1, <1>2
<1>5. \A k \in 1..m : all[k] = timetable[k]
  BY <1>1, <1>2
<1>6. \A k \in 1..n : all[k + m] = chunk[k]
  BY <1>1, <1>2
<1> HIDE DEF all, m, n
<1>7. \A k \in 1..(m + n) : k \in 1..m \/ (k - m \in 1..n /\ k = (k - m) + m)
  BY <1>3
<1>8. \A k \in 1..(m + n) : \/ k \in 1..m /\ all[k] = timetable[k]
                            \/ k - m \in 1..n /\ k - m \in DOMAIN slots /\ all[k] = slots[k - m]
  <2>1. ASSUME NEW k \in 1..(m + n), k - m \in 1..n, k = (k - m) + m
        PROVE  k - m \in DOMAIN slots /\ all[k] = slots[k - m]
    <3> DEFINE l == k - m
    <3>1. l \in 1..n /\ k = l + m
      BY <2>1
    <3> HIDE DEF l
    <3>2. all[k] = slots[l] /\ l \in DOMAIN slots
      BY <1>2, <1>3, <1>6, <3>1
    <3> QED BY <3>2 DEF l
  <2> QED BY <1>5, <1>7, <2>1
<1>9. \A k \in 1..m : k \in 1..(m + n)
  BY <1>3
<1>10. \A k \in 1..n : k + m \in 1..(m + n) /\ all[k + m] = slots[k]
  <2>1. \A k \in 1..n : k + m \in 1..(m + n)
    BY <1>3
  <2>2. \A k \in 1..n : all[k + m] = slots[k]
    BY <1>2, <1>3, <1>6
  <2> QED BY <2>1, <2>2
<1>11. /\ \A k \in DOMAIN all : \/ k \in DOMAIN timetable /\ all[k] = timetable[k]
                                \/ k - m \in DOMAIN chunk /\ k - m \in DOMAIN slots /\ all[k] = slots[k - m]
       /\ \A k \in DOMAIN timetable : k \in DOMAIN all /\ all[k] = timetable[k]
       /\ \A k \in DOMAIN chunk : k + m \in DOMAIN all /\ all[k + m] = slots[k]
  BY <1>3, <1>5, <1>8, <1>9, <1>10
<1> QED BY <1>2, <1>4, <1>11 DEF all, m

LEMMA TimetableChunkSeeds ==
  ASSUME Seed!SeedConstants, SeedInv, Seed!InsertChunk, at = "timetable"
  PROVE  SeedInv'
<1> DEFINE rest == SubSeq(slots, Len(chunk) + 1, Len(slots))
           all == timetable \o chunk
           m == Len(timetable)
           n == Len(chunk)
<1>1. /\ at' = (IF rest = <<>> THEN "crowd" ELSE "timetable") /\ next' = next
      /\ chunk' = Seed!FirstChunk(rest) /\ slots' = rest /\ timetable' = all /\ history' = history
      /\ ended' = ended /\ lost' = lost /\ stations' = stations /\ logs' = logs /\ made' = made
  BY DEF Seed!InsertChunk, Seed!Done, Seed!Insert
<1>2. ended = "failed" /\ stations /\ HistoryIsDone /\ SlotsGoOn /\ Filling
  BY DEF SeedInv, RunBegun, Filling
<1>3. slots \in Seq(Seed!Rows) /\ timetable \in Seq(Seed!Rows)
  BY DEF SeedInv, SeedTypes
<1>4. /\ all \in Seq(Seed!Rows) /\ chunk \in Seq(Seed!Rows) /\ Len(chunk) <= Len(slots)
      /\ \A k \in DOMAIN all :
           \/ k \in DOMAIN timetable /\ all[k] = timetable[k]
           \/ k - m \in DOMAIN chunk /\ k - m \in DOMAIN slots /\ all[k] = slots[k - m]
      /\ \A k \in DOMAIN timetable : k \in DOMAIN all /\ all[k] = timetable[k]
      /\ \A k \in DOMAIN chunk : k + m \in DOMAIN all /\ all[k + m] = slots[k]
  BY TimetableGrows
<1>5. m \in Nat /\ n \in Nat /\ DOMAIN chunk = 1..n /\ DOMAIN slots = 1..Len(slots) /\ n <= Len(slots)
      /\ DOMAIN all \subseteq Nat
  BY <1>3, <1>4
<1>6. /\ rest \in Seq(Seed!Rows)
      /\ \A k \in DOMAIN rest : k + n \in DOMAIN slots /\ rest[k] = slots[k + n]
      /\ \A k \in DOMAIN slots : k > n => k - n \in DOMAIN rest /\ rest[k - n] = slots[k]
  BY <1>3, <1>5, RestFollows
<1>7. DOMAIN rest \subseteq Nat \ {0}
  BY <1>6
<1> HIDE DEF rest, all, m, n
<1>8. chunk' \in Seq(Seed!Rows)
  BY <1>1, <1>6, FirstChunkBegins
<1>9. SeedTypes' /\ RunBegun'
  BY <1>1, <1>2, <1>4, <1>6, <1>8 DEF SeedInv, SeedTypes, RunBegun
<1>10. HistoryIsDone'
  BY <1>1, <1>2 DEF HistoryIsDone
<1>11. SlotsGoOn'
  <2>1. /\ \A k \in DOMAIN timetable : timetable[k] \in Seed!Known /\ Seed!Latest(timetable[k])
        /\ \A k \in DOMAIN slots : slots[k] \in Seed!Known /\ Seed!Latest(slots[k])
        /\ SlotsDiffer(slots)
        /\ \A i \in Seed!Known : \/ \E k \in DOMAIN timetable : SlotOf(timetable[k]) = SlotOf(i)
                                 \/ \E k \in DOMAIN slots : SlotOf(slots[k]) = SlotOf(i)
        /\ lost = 0 => /\ SlotsDiffer(timetable)
                       /\ \A k \in DOMAIN timetable, l \in DOMAIN slots :
                              SlotOf(timetable[k]) # SlotOf(slots[l])
    BY <1>2 DEF SlotsGoOn
  <2>2. \A k \in DOMAIN all : all[k] \in Seed!Known /\ Seed!Latest(all[k])
    BY <1>4, <2>1
  <2>3. \A k \in DOMAIN rest : rest[k] \in Seed!Known /\ Seed!Latest(rest[k])
    BY <1>6, <2>1
  <2>4. SlotsDiffer(rest)
    <3>1. SUFFICES ASSUME NEW k \in DOMAIN rest, NEW l \in DOMAIN rest, SlotOf(rest[k]) = SlotOf(rest[l])
                   PROVE  k = l
      BY DEF SlotsDiffer
    <3>2. k + n = l + n
      BY <1>6, <2>1, <3>1 DEF SlotsDiffer
    <3> QED BY <1>5, <1>7, <3>2
  <2>5. ASSUME NEW i \in Seed!Known
        PROVE  \/ \E k \in DOMAIN all : SlotOf(all[k]) = SlotOf(i)
               \/ \E k \in DOMAIN rest : SlotOf(rest[k]) = SlotOf(i)
    <3>1. CASE \E k \in DOMAIN timetable : SlotOf(timetable[k]) = SlotOf(i)
      BY <1>4, <3>1
    <3>2. CASE \E k \in DOMAIN slots : SlotOf(slots[k]) = SlotOf(i)
      <4>1. PICK k \in DOMAIN slots : SlotOf(slots[k]) = SlotOf(i)
        BY <3>2
      <4>2. k \in DOMAIN chunk \/ k > n
        BY <1>5
      <4> QED BY <1>4, <1>6, <4>1, <4>2
    <3> QED BY <2>1, <3>1, <3>2
  <2>6. ASSUME lost = 0
        PROVE  /\ SlotsDiffer(all)
               /\ \A k \in DOMAIN all, l \in DOMAIN rest : SlotOf(all[k]) # SlotOf(rest[l])
    <3>1. SlotsDiffer(timetable) /\ \A k \in DOMAIN timetable, l \in DOMAIN slots :
                                    SlotOf(timetable[k]) # SlotOf(slots[l])
      BY <2>1, <2>6
    <3>2. ASSUME NEW k \in DOMAIN all, NEW l \in DOMAIN all, SlotOf(all[k]) = SlotOf(all[l])
          PROVE  k = l
      <4>1. CASE k \in DOMAIN timetable /\ all[k] = timetable[k]
        <5>1. l \in DOMAIN timetable /\ all[l] = timetable[l]
          BY <1>4, <3>1, <3>2, <4>1
        <5> QED BY <3>1, <3>2, <4>1, <5>1 DEF SlotsDiffer
      <4>2. CASE k - m \in DOMAIN slots /\ all[k] = slots[k - m]
        <5>1. l - m \in DOMAIN slots /\ all[l] = slots[l - m]
          BY <1>4, <3>1, <3>2, <4>2
        <5>2. k - m = l - m
          BY <2>1, <3>2, <4>2, <5>1 DEF SlotsDiffer
        <5>3. k \in Nat /\ l \in Nat
          BY <1>5
        <5> QED BY <1>5, <5>2, <5>3
      <4> QED BY <1>4, <4>1, <4>2
    <3>3. ASSUME NEW k \in DOMAIN all, NEW l \in DOMAIN rest, SlotOf(all[k]) = SlotOf(rest[l])
          PROVE  FALSE
      <4>1. l + n \in DOMAIN slots /\ rest[l] = slots[l + n] /\ l \in Nat \ {0}
        BY <1>6, <1>7
      <4>2. CASE k \in DOMAIN timetable /\ all[k] = timetable[k]
        BY <3>1, <3>3, <4>1, <4>2
      <4>3. CASE k - m \in DOMAIN chunk /\ k - m \in DOMAIN slots /\ all[k] = slots[k - m]
        <5>1. k - m = l + n
          BY <2>1, <3>3, <4>1, <4>3 DEF SlotsDiffer
        <5> QED BY <1>5, <4>1, <4>3, <5>1
      <4> QED BY <1>4, <4>2, <4>3
    <3> QED BY <3>2, <3>3 DEF SlotsDiffer
  <2>7. timetable' = all /\ slots' = rest /\ lost' = lost
    BY <1>1
  <2> QED BY <2>2, <2>3, <2>4, <2>5, <2>6, <2>7 DEF SlotsGoOn, SlotsDiffer
<1>12. ChunkIsFirst' /\ RowsAreKept' /\ SlotsAreLatest' /\ DaysAreDone'
  BY <1>1, <1>2 DEF ChunkIsFirst, RowsAreKept, SlotsAreLatest, DaysAreDone, RowsAreRead, Seed!FirstChunk
<1>13. TablesAreFilled'
  BY <1>1, <1>2 DEF SeedInv, TablesAreFilled
<1> QED BY <1>9, <1>10, <1>11, <1>12, <1>13 DEF SeedInv

-----------------------------------------------------------------------------
(* A run that ends, early or at its end *)
LEMMA EndsEarlySeeds ==
  ASSUME Seed!SeedConstants, SeedInv, Seed!Ends("failed"), at # "idle", stations' = stations, logs' = logs,
         made' = made, history' \in [Seed!Rows -> Nat], timetable' \in Seq(Seed!Rows), lost' \in Nat,
         ~stations => history' = history /\ timetable' = timetable /\ lost' = lost
  PROVE  SeedInv'
<1>1. at' = "idle" /\ next' = 1 /\ chunk' = <<>> /\ slots' = <<>> /\ ended' = "failed"
  BY DEF Seed!Ends
<1>2. SeedTypes' /\ RunBegun'
  BY <1>1 DEF SeedInv, SeedTypes, RunBegun
<1>3. TablesAreFilled'
  BY <1>1 DEF SeedInv, TablesAreFilled
<1>4. (RowsAreKept /\ SlotsAreLatest /\ HistoryIsDone /\ SlotsGoOn /\ ChunkIsFirst /\ DaysAreDone)'
  BY <1>1 DEF RowsAreKept, SlotsAreLatest, HistoryIsDone, SlotsGoOn, ChunkIsFirst, DaysAreDone,
                RowsAreRead, Filling
<1> QED BY <1>2, <1>3, <1>4 DEF SeedInv

LEMMA CrashSeeds ==
  ASSUME Seed!SeedConstants, SeedInv, Seed!Crash
  PROVE  SeedInv'
<1>1. /\ Seed!Ends("failed") /\ at # "idle" /\ stations' = stations /\ logs' = logs /\ made' = made
      /\ history' = history /\ timetable' = timetable /\ lost' = lost
  BY DEF Seed!Crash, Seed!data
<1>2. history \in [Seed!Rows -> Nat] /\ timetable \in Seq(Seed!Rows) /\ lost \in Nat
  BY DEF SeedInv, SeedTypes
<1> QED BY <1>1, <1>2, EndsEarlySeeds

LEMMA HistoryFailSeeds ==
  ASSUME Seed!SeedConstants, SeedInv, Seed!InsertFails, at = "history"
  PROVE  SeedInv'
<1>1. /\ stations' = stations /\ stations /\ logs' = logs /\ made' = made /\ ended = "failed"
      /\ timetable' = timetable
  BY HistoryInserted DEF Seed!InsertFails, SeedInv, RunBegun
<1>2. history \in [Seed!Rows -> Nat] /\ timetable \in Seq(Seed!Rows) /\ lost \in Nat
  BY DEF SeedInv, SeedTypes
<1>3. /\ history' \in [Seed!Rows -> Nat] /\ lost' \in Nat
      /\ lost' = 0 => history' = history /\ lost = 0
      /\ \A i \in Seed!Rows : \/ history'[i] = history[i]
                              \/ InChunk(i) /\ history'[i] = history[i] + 1
  <2>1. CASE UNCHANGED <<history, timetable, lost>>
    BY <1>2, <2>1
  <2>2. CASE Seed!Insert /\ lost' = lost + 1
    <3>1. /\ history' \in [Seed!Rows -> Nat]
          /\ \A i \in Seed!Rows : history'[i] = history[i] + IF InChunk(i) THEN 1 ELSE 0
      BY <2>2, HistoryInserted
    <3>2. lost' \in Nat /\ lost' # 0
      BY <1>2, <2>2
    <3>3. \A i \in Seed!Rows : history[i] \in Nat
      BY <1>2
    <3> QED BY <3>1, <3>2, <3>3
  <2> QED BY <2>1, <2>2 DEF Seed!InsertFails
<1>4. CASE attempt = Attempts
  <2>1. Seed!Ends("failed")
    BY <1>4 DEF Seed!InsertFails
  <2> QED BY <1>1, <1>2, <1>3, <2>1, EndsEarlySeeds
<1>5. CASE attempt # Attempts
  <2>1. at' = at /\ next' = next /\ chunk' = chunk /\ slots' = slots /\ ended' = ended
    BY <1>5 DEF Seed!InsertFails
  <2>2. SeedTypes' /\ RunBegun'
    BY <1>1, <1>2, <1>3, <2>1 DEF SeedInv, SeedTypes, RunBegun
  <2>3. SlotsAreLatest'
    BY <2>1 DEF SeedInv, SlotsAreLatest, RowsAreRead, SlotsDiffer
  <2>4. RowsAreKept'
    <3>1. RowsAreKept /\ RowsAreRead
      BY DEF SeedInv, RowsAreRead
    <3>2. \A i : InChunk(i)' <=> InChunk(i)
      BY <2>1 DEF InChunk
    <3>3. ASSUME NEW i \in Seed!Rows
          PROVE  IF i \in Seed!Known /\ i < next
                 THEN /\ history'[i] >= 1 \/ InChunk(i)
                      /\ lost' = 0 => history'[i] = IF InChunk(i) THEN 0 ELSE 1
                 ELSE history'[i] = 0
      <4>1. IF i \in Seed!Known /\ i < next
            THEN /\ history[i] >= 1 \/ InChunk(i)
                 /\ lost = 0 => history[i] = IF InChunk(i) THEN 0 ELSE 1
            ELSE history[i] = 0
        BY <3>1, <3>3 DEF RowsAreKept
      <4>2. InChunk(i) => i \in Seed!Known /\ i < next
        BY <3>1 DEF RowsAreKept, InChunk
      <4>3. CASE history'[i] = history[i]
        BY <1>3, <4>1, <4>3
      <4>4. CASE InChunk(i) /\ history'[i] = history[i] + 1
        BY <1>3, <4>1, <4>2, <4>4
      <4> QED BY <1>3, <4>3, <4>4
    <3>4. /\ timetable' = <<>> /\ next' \in 1..(Len(Ops) + 1)
          /\ \A k \in DOMAIN chunk' : chunk'[k] \in Seed!Known /\ chunk'[k] < next'
          /\ \A k, l \in DOMAIN chunk' : chunk'[k] = chunk'[l] => k = l
      BY <1>1, <2>1, <3>1 DEF RowsAreKept
    <3> QED BY <2>1, <3>2, <3>3, <3>4 DEF RowsAreKept
  <2>5. HistoryIsDone' /\ SlotsGoOn' /\ ChunkIsFirst' /\ DaysAreDone'
    BY <1>1, <2>1 DEF HistoryIsDone, SlotsGoOn, ChunkIsFirst, DaysAreDone, Filling
  <2>6. TablesAreFilled'
    BY <1>1, <2>1 DEF SeedInv, TablesAreFilled
  <2> QED BY <2>2, <2>3, <2>4, <2>5, <2>6 DEF SeedInv
<1> QED BY <1>4, <1>5

LEMMA TimetableFailSeeds ==
  ASSUME Seed!SeedConstants, SeedInv, Seed!InsertFails, at = "timetable"
  PROVE  SeedInv'
<1> DEFINE all == timetable \o chunk
           m == Len(timetable)
<1>1. /\ stations' = stations /\ stations /\ logs' = logs /\ made' = made /\ ended = "failed"
      /\ history' = history
  BY DEF Seed!InsertFails, SeedInv, RunBegun, Seed!Insert
<1>2. history \in [Seed!Rows -> Nat] /\ timetable \in Seq(Seed!Rows) /\ lost \in Nat
  BY DEF SeedInv, SeedTypes
<1>3. /\ all \in Seq(Seed!Rows)
      /\ \A k \in DOMAIN all :
           \/ k \in DOMAIN timetable /\ all[k] = timetable[k]
           \/ k - m \in DOMAIN slots /\ all[k] = slots[k - m]
      /\ \A k \in DOMAIN timetable : k \in DOMAIN all /\ all[k] = timetable[k]
  BY TimetableGrows
<1> HIDE DEF all, m
<1>4. \/ timetable' = timetable /\ lost' = lost
      \/ timetable' = all /\ lost' = lost + 1
  BY DEF Seed!InsertFails, Seed!Insert, all
<1>5. timetable' \in Seq(Seed!Rows) /\ lost' \in Nat /\ (lost' = 0 => timetable' = timetable /\ lost = 0)
  <2>1. CASE timetable' = timetable /\ lost' = lost
    BY <1>2, <2>1
  <2>2. CASE timetable' = all /\ lost' = lost + 1
    <3>1. lost' \in Nat /\ lost' # 0
      BY <1>2, <2>2
    <3> QED BY <1>3, <2>2, <3>1
  <2> QED BY <1>4, <2>1, <2>2
<1>6. CASE attempt = Attempts
  <2>1. Seed!Ends("failed")
    BY <1>6 DEF Seed!InsertFails
  <2> QED BY <1>1, <1>2, <1>5, <2>1, EndsEarlySeeds
<1>7. CASE attempt # Attempts
  <2>1. at' = at /\ next' = next /\ chunk' = chunk /\ slots' = slots /\ ended' = ended
    BY <1>7 DEF Seed!InsertFails
  <2>2. SeedTypes' /\ RunBegun'
    BY <1>1, <1>2, <1>5, <2>1 DEF SeedInv, SeedTypes, RunBegun
  <2>3. HistoryIsDone /\ SlotsGoOn /\ Filling
    BY DEF SeedInv, Filling
  <2>4. HistoryIsDone'
    BY <1>1, <1>5, <2>3 DEF HistoryIsDone
  <2>5. SlotsGoOn'
    <3>1. /\ \A k \in DOMAIN timetable : timetable[k] \in Seed!Known /\ Seed!Latest(timetable[k])
          /\ \A k \in DOMAIN slots : slots[k] \in Seed!Known /\ Seed!Latest(slots[k])
          /\ \A i \in Seed!Known : \/ \E k \in DOMAIN timetable : SlotOf(timetable[k]) = SlotOf(i)
                                   \/ \E k \in DOMAIN slots : SlotOf(slots[k]) = SlotOf(i)
      BY <2>3 DEF SlotsGoOn
    <3>2. /\ \A k \in DOMAIN all : all[k] \in Seed!Known /\ Seed!Latest(all[k])
          /\ \A i \in Seed!Known : \/ \E k \in DOMAIN all : SlotOf(all[k]) = SlotOf(i)
                                   \/ \E k \in DOMAIN slots : SlotOf(slots[k]) = SlotOf(i)
      BY <1>3, <3>1
    <3>3. CASE timetable' = timetable
      BY <1>5, <2>1, <2>3, <3>3 DEF SlotsGoOn, SlotsDiffer
    <3>4. CASE timetable' = all /\ lost' # 0
      BY <2>1, <2>3, <3>1, <3>2, <3>4 DEF SlotsGoOn, SlotsDiffer
    <3> QED BY <1>4, <1>5, <3>3, <3>4
  <2>6. ChunkIsFirst'
    BY <2>1, <1>1 DEF SeedInv, ChunkIsFirst, Seed!FirstChunk
  <2>7. RowsAreKept' /\ SlotsAreLatest' /\ DaysAreDone'
    BY <1>1, <2>1 DEF RowsAreKept, SlotsAreLatest, DaysAreDone, RowsAreRead
  <2>8. TablesAreFilled'
    BY <1>1, <2>1 DEF SeedInv, TablesAreFilled
  <2> QED BY <2>2, <2>4, <2>5, <2>6, <2>7, <2>8 DEF SeedInv
<1> QED BY <1>6, <1>7

LEMMA SeedCrowdSeeds ==
  ASSUME Seed!SeedConstants, SeedInv, Seed!SeedCrowd
  PROVE  SeedInv'
<1>1. /\ at = "crowd" /\ at' = "idle" /\ next' = 1 /\ chunk' = <<>> /\ slots' = <<>> /\ ended' = "seeded"
      /\ stations' = stations /\ history' = history /\ timetable' = timetable /\ made' = made /\ lost' = lost
  BY DEF Seed!SeedCrowd, Seed!Ends
<1>2. stations /\ logs = Seed!NoLogs /\ slots = <<>> /\ Filling
  BY <1>1 DEF SeedInv, RunBegun, ChunkIsFirst, Filling
<1>3. SeedTypes' /\ RunBegun'
  BY <1>1, <1>2 DEF SeedInv, SeedTypes, RunBegun
<1>4. HistoryIsDone' /\ SlotsGoOn'
  BY <1>1, <1>2 DEF SeedInv, HistoryIsDone, SlotsGoOn, Filling, SlotsDiffer
<1>5. RowsAreKept' /\ SlotsAreLatest' /\ ChunkIsFirst'
  BY <1>1 DEF RowsAreKept, SlotsAreLatest, ChunkIsFirst, RowsAreRead
<1>6. DaysAreDone'
  <2>1. /\ logs' = [s \in DOMAIN Flow |-> logs[s] \o Seed!Walk(Flow[s])]
        /\ live' = [s \in DOMAIN Flow |-> Seed!Last(Seed!Walk(Flow[s]))]
    BY DEF Seed!SeedCrowd
  <2>2. ASSUME NEW s \in DOMAIN Flow
        PROVE  logs'[s] = Seed!Walk(Flow[s]) /\ live'[s] = Seed!Last(logs'[s])
    <3>1. Seed!Walk(Flow[s]) \in Seq(Nat)
      BY WalkCounts DEF Seed!SeedConstants
    <3>2. logs'[s] = <<>> \o Seed!Walk(Flow[s])
      BY <1>2, <2>1 DEF Seed!NoLogs
    <3>3. logs'[s] = Seed!Walk(Flow[s])
      BY <3>1, <3>2
    <3> QED BY <2>1, <3>3
  <2> QED BY <2>2 DEF DaysAreDone
<1>7. TablesAreFilled'
  BY <1>1 DEF SeedInv, TablesAreFilled
<1> QED BY <1>3, <1>4, <1>5, <1>6, <1>7 DEF SeedInv

-----------------------------------------------------------------------------
(* The load test *)
LEMMA BeginLoadSeeds ==
  ASSUME Seed!SeedConstants, SeedInv, Seed!BeginLoad
  PROVE  SeedInv'
<1>1. /\ at = "idle" /\ at' = "load" /\ ended' = "failed" /\ stations' = stations /\ history' = history
      /\ timetable' = timetable /\ logs' = logs /\ made' = made /\ lost' = lost /\ stations
      /\ next' = 1 /\ chunk' = <<>> /\ slots' = <<>>
  BY DEF Seed!BeginLoad, Seed!Started, Seed!data, SeedInv, RunBegun
<1>2. SeedTypes' /\ RunBegun'
  BY <1>1 DEF SeedInv, SeedTypes, RunBegun
<1>3. TablesAreFilled'
  <2>1. Len(Tables) \in Nat /\ DOMAIN Tables = 1..Len(Tables)
    BY DEF Seed!SeedConstants
  <2>2. 1 \in 1..(Len(Tables) + 1) /\ \A j \in DOMAIN Tables : ~(j < 1)
    BY <2>1
  <2> QED BY <1>1, <2>2 DEF SeedInv, TablesAreFilled
<1>4. (RowsAreKept /\ SlotsAreLatest /\ HistoryIsDone /\ SlotsGoOn /\ ChunkIsFirst /\ DaysAreDone)'
  BY <1>1 DEF RowsAreKept, SlotsAreLatest, HistoryIsDone, SlotsGoOn, ChunkIsFirst, DaysAreDone,
                RowsAreRead, Filling
<1> QED BY <1>2, <1>3, <1>4 DEF SeedInv

LEMMA LoadedSeeds ==
  ASSUME Seed!SeedConstants, SeedInv, Seed!Loaded
  PROVE  SeedInv'
<1>1. /\ at = "load" /\ at' = "idle" /\ ended' = "loaded" /\ stations' = stations /\ history' = history
      /\ timetable' = timetable /\ logs' = logs /\ made' = made /\ lost' = lost /\ stations
      /\ next' = 1 /\ chunk' = <<>> /\ slots' = <<>> /\ ~(next <= Len(Tables))
  BY DEF Seed!Loaded, Seed!Ends, Seed!data, SeedInv, RunBegun, SeedTypes, Seed!SeedConstants
<1>2. SeedTypes' /\ RunBegun'
  BY <1>1 DEF SeedInv, SeedTypes, RunBegun
<1>3. TablesAreFilled'
  <2>1. /\ made \in [Seed!ToSet(Tables) -> 0..(2 * Target - 1)] /\ next \in 1..(Len(Tables) + 1)
        /\ \A j \in DOMAIN Tables : j < next => made[Tables[j]] >= Target
    BY <1>1 DEF SeedInv, TablesAreFilled
  <2>2. Len(Tables) \in Nat /\ DOMAIN Tables = 1..Len(Tables)
    BY DEF Seed!SeedConstants
  <2>3. \A j \in DOMAIN Tables : made[Tables[j]] >= Target
    BY <1>1, <2>1, <2>2
  <2>4. \A t \in Seed!ToSet(Tables) : made[t] >= Target
    BY <2>3 DEF Seed!ToSet
  <2> QED BY <1>1, <2>1, <2>4 DEF TablesAreFilled
<1>4. (RowsAreKept /\ SlotsAreLatest /\ HistoryIsDone /\ SlotsGoOn /\ ChunkIsFirst /\ DaysAreDone)'
  BY <1>1 DEF RowsAreKept, SlotsAreLatest, HistoryIsDone, SlotsGoOn, ChunkIsFirst, DaysAreDone,
                RowsAreRead, Filling
<1> QED BY <1>2, <1>3, <1>4 DEF SeedInv

LEMMA FillSeeds ==
  ASSUME Seed!SeedConstants, SeedInv, Seed!Fill
  PROVE  SeedInv'
<1> DEFINE filled == Tables[next]
           started == chunk # <<>>
           todo == IF started THEN Head(chunk) ELSE Target
<1>1. /\ at = "load" /\ at' = "load" /\ ended' = ended /\ ended = "failed" /\ stations' = stations
      /\ history' = history /\ timetable' = timetable /\ logs' = logs /\ lost' = lost /\ stations
      /\ next <= Len(Tables) /\ slots' = slots /\ slots = <<>>
  BY DEF Seed!Fill, SeedInv, RunBegun, TablesAreFilled
<1>2. /\ made \in [Seed!ToSet(Tables) -> 0..(2 * Target - 1)]
      /\ next \in 1..(Len(Tables) + 1)
      /\ \A j \in DOMAIN Tables : j < next => made[Tables[j]] >= Target
      /\ \/ chunk = <<>>
         \/ \E l \in Nat \ {0} : chunk = <<l>> /\ made[Tables[next]] + l \in Target..(2 * Target - 1)
  BY <1>1 DEF SeedInv, TablesAreFilled
<1>3. /\ Len(Tables) \in Nat /\ DOMAIN Tables = 1..Len(Tables) /\ Target \in Nat \ {0}
      /\ ChunkSize \in Nat \ {0} /\ \A j \in DOMAIN Tables : Tables[j] \in Seed!ToSet(Tables)
  BY DEF Seed!SeedConstants, Seed!ToSet
<1>4. /\ next \in DOMAIN Tables /\ filled \in Seed!ToSet(Tables) /\ next \in Nat
      /\ next + 1 \in 1..(Len(Tables) + 1)
      /\ \A j \in DOMAIN Tables : j < next + 1 <=> j < next \/ j = next
  BY <1>1, <1>2, <1>3
<1>5. made[filled] \in Nat /\ made[filled] <= 2 * Target - 1
  BY <1>2, <1>3, <1>4
<1>6. IF ~started /\ made[filled] >= Target
      THEN next' = next + 1 /\ made' = made /\ chunk' = chunk
      ELSE /\ made' = [made EXCEPT ![filled] = @ + Seed!Size(todo)]
           /\ IF todo <= ChunkSize
              THEN next' = next + 1 /\ chunk' = <<>>
              ELSE next' = next /\ chunk' = <<todo - ChunkSize>>
  BY DEF Seed!Fill
<1>7. ASSUME ~(~started /\ made[filled] >= Target)
      PROVE  todo \in Nat \ {0} /\ made[filled] + todo \in Target..(2 * Target - 1)
  <2>1. CASE chunk = <<>>
    BY <1>3, <1>5, <1>7, <2>1
  <2>2. CASE chunk # <<>>
    <3>1. PICK l \in Nat \ {0} : chunk = <<l>> /\ made[Tables[next]] + l \in Target..(2 * Target - 1)
      BY <1>2, <2>2
    <3>2. todo = l
      BY <2>2, <3>1
    <3> QED BY <3>1, <3>2
  <2> QED BY <2>1, <2>2
<1> HIDE DEF todo, started
<1>8. SeedTypes'
  BY <1>1, <1>4, <1>6 DEF SeedInv, SeedTypes
<1>9. RunBegun'
  BY <1>1 DEF SeedInv, RunBegun
<1>10. TablesAreFilled'
  <2>1. CASE ~started /\ made[filled] >= Target
    <3>1. chunk = <<>>
      BY <2>1 DEF started
    <3>2. next' = next + 1 /\ made' = made /\ chunk' = <<>>
      BY <1>6, <2>1, <3>1
    <3>3. \A j \in DOMAIN Tables : j < next + 1 => made[Tables[j]] >= Target
      BY <1>2, <1>4, <2>1
    <3> QED BY <1>1, <1>2, <1>4, <3>2, <3>3 DEF TablesAreFilled
  <2>2. CASE ~(~started /\ made[filled] >= Target)
    <3>1. todo \in Nat \ {0} /\ made[filled] + todo \in Target..(2 * Target - 1)
      BY <1>7, <2>2
    <3>2. made' = [made EXCEPT ![filled] = made[filled] + Seed!Size(todo)]
      BY <1>6, <2>2
    <3>3. Seed!Size(todo) \in Nat /\ Seed!Size(todo) <= todo
      BY <1>3, <3>1 DEF Seed!Size
    <3>4. made[filled] + Seed!Size(todo) \in 0..(2 * Target - 1)
      BY <1>3, <1>5, <3>1, <3>3
    <3>5. made' \in [Seed!ToSet(Tables) -> 0..(2 * Target - 1)]
      BY <1>2, <1>4, <3>2, <3>4
    <3>6. made'[filled] = made[filled] + Seed!Size(todo) /\ \A t \in Seed!ToSet(Tables) : t # filled => made'[t] = made[t]
      BY <1>2, <1>4, <3>2
    <3>7. \A t \in Seed!ToSet(Tables) : made[t] >= Target => made'[t] >= Target
      BY <1>3, <1>5, <3>3, <3>6
    <3>8. CASE todo <= ChunkSize
      <4>1. next' = next + 1 /\ chunk' = <<>>
        BY <1>6, <2>2, <3>8
      <4>2. made'[filled] >= Target
        BY <1>3, <1>5, <3>1, <3>6, <3>8 DEF Seed!Size
      <4>3. \A j \in DOMAIN Tables : j < next + 1 => made'[Tables[j]] >= Target
        BY <1>2, <1>3, <1>4, <3>7, <4>2
      <4> QED BY <1>1, <1>4, <3>5, <4>1, <4>3 DEF TablesAreFilled
    <3>9. CASE ~(todo <= ChunkSize)
      <4>1. next' = next /\ chunk' = <<todo - ChunkSize>>
        BY <1>6, <2>2, <3>9
      <4>2. Seed!Size(todo) = ChunkSize
        BY <1>3, <3>1, <3>9 DEF Seed!Size
      <4>3. todo - ChunkSize \in Nat \ {0} /\ made'[filled] + (todo - ChunkSize) \in Target..(2 * Target - 1)
        BY <1>3, <1>5, <3>1, <3>6, <3>9, <4>2
      <4>4. \A j \in DOMAIN Tables : j < next => made'[Tables[j]] >= Target
        BY <1>2, <1>3, <3>7
      <4>5. \E l \in Nat \ {0} : chunk' = <<l>> /\ made'[Tables[next']] + l \in Target..(2 * Target - 1)
        BY <4>1, <4>3
      <4>6. next' \in 1..(Len(Tables) + 1) /\ next' <= Len(Tables)
        BY <1>1, <1>2, <4>1
      <4> QED BY <1>1, <3>5, <4>1, <4>4, <4>5, <4>6 DEF TablesAreFilled
    <3> QED BY <3>8, <3>9
  <2> QED BY <2>1, <2>2
<1>11. (RowsAreKept /\ SlotsAreLatest /\ HistoryIsDone /\ SlotsGoOn /\ ChunkIsFirst /\ DaysAreDone)'
  BY <1>1 DEF RowsAreKept, SlotsAreLatest, HistoryIsDone, SlotsGoOn, ChunkIsFirst, DaysAreDone,
                RowsAreRead, Filling
<1> QED BY <1>8, <1>9, <1>10, <1>11 DEF SeedInv

-----------------------------------------------------------------------------
LEMMA StepSeeds ==
  ASSUME Seed!SeedConstants, SeedInv, [Seed!Next]_Seed!vars
  PROVE  SeedInv'
<1>1. CASE Seed!Refuse
  BY <1>1, RefuseSeeds
<1>2. CASE Seed!Begin(TRUE)
  BY <1>2, BeginSeeds
<1>3. CASE Seed!Begin(FALSE)
  BY <1>3, BeginSeeds
<1>4. CASE Seed!CommitBase
  BY <1>4, CommitBaseSeeds
<1>5. CASE Seed!ReadRow
  BY <1>5, UnknownRowSeeds, KnownRowSeeds
<1>6. CASE Seed!EndOfFile
  BY <1>6, LastChunkSeeds, FileReadSeeds
<1>7. CASE Seed!InsertChunk
  BY <1>7, HistoryChunkSeeds, TimetableChunkSeeds DEF Seed!InsertChunk, Seed!Inserting
<1>8. CASE Seed!InsertFails
  BY <1>8, HistoryFailSeeds, TimetableFailSeeds DEF Seed!InsertFails, Seed!Inserting
<1>9. CASE Seed!SeedCrowd
  BY <1>9, SeedCrowdSeeds
<1>10. CASE Seed!BeginLoad
  BY <1>10, BeginLoadSeeds
<1>11. CASE Seed!Fill
  BY <1>11, FillSeeds
<1>12. CASE Seed!Loaded
  BY <1>12, LoadedSeeds
<1>13. CASE Seed!Crash
  BY <1>13, CrashSeeds
<1>14. CASE UNCHANGED Seed!vars
  <2>1. /\ stations' = stations /\ history' = history /\ timetable' = timetable /\ logs' = logs
        /\ live' = live /\ made' = made /\ at' = at /\ next' = next /\ chunk' = chunk
        /\ slots' = slots /\ ended' = ended /\ lost' = lost
    BY <1>14 DEF Seed!vars, Seed!data, Seed!program
  <2>2. SeedTypes' /\ RunBegun' /\ TablesAreFilled'
    BY <2>1 DEF SeedInv, SeedTypes, RunBegun, TablesAreFilled
  <2>3. RowsAreKept' /\ SlotsAreLatest'
    BY <2>1 DEF SeedInv, RowsAreKept, SlotsAreLatest, RowsAreRead, InChunk, SlotsDiffer
  <2>4. HistoryIsDone' /\ SlotsGoOn'
    BY <2>1 DEF SeedInv, HistoryIsDone, SlotsGoOn, Filling, SlotsDiffer
  <2>5. ChunkIsFirst' /\ DaysAreDone'
    BY <2>1 DEF SeedInv, ChunkIsFirst, DaysAreDone, Seed!FirstChunk
  <2> QED BY <2>2, <2>3, <2>4, <2>5 DEF SeedInv
<1> QED
  BY <1>1, <1>2, <1>3, <1>4, <1>5, <1>6, <1>7, <1>8, <1>9, <1>10, <1>11, <1>12, <1>13, <1>14 DEF Seed!Next

\* Rows of different slots are as many as their slots.
LEMMA SlotsAreCounted ==
  ASSUME NEW lines \in Seq(Seed!Rows), SlotsDiffer(lines)
  PROVE  Cardinality({Ops[i].slot : i \in Seed!ToSet(lines)}) = Len(lines)
<1> DEFINE n == Len(lines)
           S == {Ops[i].slot : i \in Seed!ToSet(lines)}
           f == [k \in 1..n |-> SlotOf(lines[k])]
<1>1. n \in Nat /\ DOMAIN lines = 1..n
  OBVIOUS
<1>2. S = {SlotOf(lines[k]) : k \in 1..n}
  BY <1>1 DEF Seed!ToSet, SlotOf
<1>3. f \in Bijection(1..n, S)
  <2>1. f \in [1..n -> S]
    BY <1>2
  <2>2. f \in Injection(1..n, S)
    BY <1>1, <2>1 DEF Injection, IsInjective, SlotsDiffer
  <2>3. f \in Surjection(1..n, S)
    BY <1>2, <2>1 DEF Surjection
  <2> QED BY <2>2, <2>3 DEF Bijection
<1>4. ExistsBijection(1..n, S)
  BY <1>3 DEF ExistsBijection
<1> HIDE DEF S, n
<1> QED BY <1>1, <1>4, FS_CountingElements DEF S, n

LEMMA SeededWhole ==
  ASSUME Seed!SeedConstants, SeedInv
  PROVE  Seed!SeededIsWhole
<1> SUFFICES ASSUME ended = "seeded"
             PROVE  /\ \A i \in Seed!Rows : IF i \in Seed!Known THEN history[i] >= 1 ELSE history[i] = 0
                    /\ \A i \in Seed!ToSet(timetable) : Seed!Latest(i)
                    /\ {Ops[i].slot : i \in Seed!ToSet(timetable)} = {Ops[i].slot : i \in Seed!Known}
                    /\ lost = 0 => /\ \A i \in Seed!Known : history[i] = 1
                                   /\ Len(timetable) = Cardinality({Ops[i].slot : i \in Seed!Known})
                    /\ \A s \in DOMAIN Flow : live[s] = Seed!Last(logs[s]) /\ Len(logs[s]) = Len(Flow[s])
  BY DEF Seed!SeededIsWhole, Seed!Cardinality, Cardinality, Seed!IsFiniteSet, IsFiniteSet
<1>1. timetable \in Seq(Seed!Rows) /\ slots = <<>> /\ HistoryIsDone /\ SlotsGoOn /\ Filling /\ DaysAreDone
  BY DEF SeedInv, SeedTypes, ChunkIsFirst, Filling
<1>2. \A i \in Seed!Rows : IF i \in Seed!Known THEN history[i] >= 1 /\ (lost = 0 => history[i] = 1) ELSE history[i] = 0
  BY <1>1 DEF HistoryIsDone
<1>3. /\ \A k \in DOMAIN timetable : timetable[k] \in Seed!Known /\ Seed!Latest(timetable[k])
      /\ \A i \in Seed!Known : \E k \in DOMAIN timetable : SlotOf(timetable[k]) = SlotOf(i)
      /\ lost = 0 => SlotsDiffer(timetable)
  BY <1>1 DEF SlotsGoOn
<1>4. Seed!ToSet(timetable) = {timetable[k] : k \in DOMAIN timetable}
  BY DEF Seed!ToSet
<1>5. {Ops[i].slot : i \in Seed!ToSet(timetable)} = {Ops[i].slot : i \in Seed!Known}
  BY <1>3, <1>4 DEF SlotOf
<1>6. lost = 0 => Len(timetable) = Cardinality({Ops[i].slot : i \in Seed!Known})
  BY <1>1, <1>3, <1>5, SlotsAreCounted
<1>7. \A s \in DOMAIN Flow : live[s] = Seed!Last(logs[s]) /\ Len(logs[s]) = Len(Flow[s])
  BY <1>1, WalkCounts DEF DaysAreDone, Seed!SeedConstants
<1>8. Seed!Known \subseteq Seed!Rows
  BY DEF Seed!Known
<1>9. \A i \in Seed!Rows : IF i \in Seed!Known THEN history[i] >= 1 ELSE history[i] = 0
  BY <1>2
<1>10. \A i \in Seed!ToSet(timetable) : Seed!Latest(i)
  BY <1>3, <1>4
<1>11. lost = 0 => \A i \in Seed!Known : history[i] = 1
  BY <1>2, <1>8
<1> QED BY <1>5, <1>6, <1>7, <1>9, <1>10, <1>11

LEMMA LoadedEnough ==
  ASSUME Seed!SeedConstants, SeedInv
  PROVE  Seed!LoadedIsEnough
<1>1. /\ made \in [Seed!ToSet(Tables) -> 0..(2 * Target - 1)]
      /\ ended = "loaded" => \A t \in Seed!ToSet(Tables) : made[t] >= Target
  BY DEF SeedInv, TablesAreFilled
<1>2. \A t \in Seed!ToSet(Tables) : made[t] \in 0..(2 * Target - 1)
  BY <1>1
<1> QED BY <1>1, <1>2 DEF Seed!LoadedIsEnough, Seed!SeedConstants

LEMMA SeedHolds ==
  ASSUME Seed!SeedConstants
  PROVE  Seed!Spec => []SeedInv
<1>1. Seed!Init => SeedInv
  BY InitSeeds
<1>2. SeedInv /\ [Seed!Next]_Seed!vars => SeedInv'
  BY StepSeeds
<1> QED BY <1>1, <1>2, PTL DEF Seed!Spec

\* A run of seed_real_data.py that ends has filled the database whole, for every content of
\* the files, every size of the chunks and any number of runs before it that were stopped,
\* retried or answered twice.
THEOREM SeededDatabasesAreWhole ==
  ASSUME Seed!SeedConstants
  PROVE  Seed!Spec => []Seed!SeededIsWhole
<1>1. SeedInv => Seed!SeededIsWhole
  BY SeededWhole
<1> QED BY <1>1, SeedHolds, PTL

\* A load test that ends has given each table its rows, and less than twice as many, for
\* every target and every size of the chunks.
THEOREM LoadedTablesAreFull ==
  ASSUME Seed!SeedConstants
  PROVE  Seed!Spec => []Seed!LoadedIsEnough
<1>1. SeedInv => Seed!LoadedIsEnough
  BY LoadedEnough
<1> QED BY <1>1, SeedHolds, PTL

-----------------------------------------------------------------------------
(*****************************************************************************)
(* The feed that moves a train                                               *)
(*****************************************************************************)
CONSTANTS Process, Routes, Parts, Minutes, Events, NoRow, Budgets
VARIABLES leader, table, delay, shared, local, stale, memory, tick, row, seen, applied,
          rewound, clock, left
Train == INSTANCE TrainTracking WITH now <- clock, Delays <- Minutes

\* What a delivery may find and leave, if it finds a row of rows.
Feeds(rows) ==
  {v \in [row : rows, seen : SUBSET Events, applied : Seq(Events)] :
     /\ v.row = NoRow => v.applied = <<>>
     /\ \A i \in DOMAIN v.applied : v.applied[i] \in v.seen
     /\ ~rewound =>
          /\ \A i \in DOMAIN v.applied : v.applied[i].observed <= v.row.updated
          /\ \A i, j \in DOMAIN v.applied : i < j =>
               v.applied[i] # v.applied[j] /\ v.applied[i].observed <= v.applied[j].observed}

FedSoFar == [row |-> row, seen |-> seen, applied |-> applied]

\* A tick that inserts the row is alone with it, and the others have found one.
OneInserts ==
  \A p \in Process : tick[p].at = "commit" =>
    /\ tick[p].to \in Train!Place
    /\ IF tick[p].from = NoRow
       THEN row = NoRow /\ \A q \in Process : Train!Inserting(q) => q = p
       ELSE row # NoRow

FeedInv == Train!TypeOK /\ FedSoFar \in Feeds(Train!Row \cup {NoRow}) /\ OneInserts

LEMMA EventsAreTyped ==
  ASSUME Train!TrackingConstants, NEW e \in Events
  PROVE  /\ e.station \in Train!Known /\ e.next \in Train!Known /\ e.progress \in Nat /\ e.observed \in Nat
         /\ Train!At(e) \in Train!Row /\ Train!At(e) # NoRow /\ Train!At(e).updated = e.observed
<1>1. e \in [station : Train!Known, next : Train!Known, progress : Nat, observed : Nat]
  BY DEF Train!TrackingConstants
<1>2. /\ e.station \in Train!Known /\ e.next \in Train!Known /\ e.progress \in Nat /\ e.observed \in Nat
  BY <1>1
<1>3. Train!At(e) \in Train!Row /\ Train!At(e).updated = e.observed
  BY <1>2 DEF Train!At, Train!Row
<1>4. NoRow \notin Train!Row
  BY DEF Train!TrackingConstants
<1> QED BY <1>2, <1>3, <1>4

\* One event keeps the order: it is seen after it has moved the train, and it does so only if it
\* was observed no earlier than the row.
LEMMA EventFeeds ==
  ASSUME Train!TrackingConstants, NEW rows, Train!Row \subseteq rows, rows \subseteq Train!Row \cup {NoRow},
         NEW v \in Feeds(rows), NEW e \in Events
  PROVE  Train!ApplyEvent(v, e) \in Feeds(rows)
<1> DEFINE w == Train!ApplyEvent(v, e)
<1>1. v \in [row : rows, seen : SUBSET Events, applied : Seq(Events)]
  BY DEF Feeds
<1>2. /\ v.row = NoRow => v.applied = <<>>
      /\ \A i \in DOMAIN v.applied : v.applied[i] \in v.seen
  BY DEF Feeds
<1>3. ~rewound =>
        /\ \A i \in DOMAIN v.applied : v.applied[i].observed <= v.row.updated
        /\ \A i, j \in DOMAIN v.applied : i < j =>
               v.applied[i] # v.applied[j] /\ v.applied[i].observed <= v.applied[j].observed
  BY DEF Feeds
<1>4. CASE ~Train!Fresh(v, e)
  <2>1. w = [row |-> v.row, seen |-> v.seen \cup {e}, applied |-> v.applied]
    BY <1>4 DEF Train!ApplyEvent
  <2>2. w.row = v.row /\ w.seen = v.seen \cup {e} /\ w.applied = v.applied
    BY <2>1
  <2>3. w \in [row : rows, seen : SUBSET Events, applied : Seq(Events)]
    BY <1>1, <2>1
  <2>4. w \in Feeds(rows)
    <3> HIDE DEF w
    <3> QED BY <1>2, <1>3, <2>2, <2>3 DEF Feeds
  <2> QED BY <2>4
<1>5. CASE Train!Fresh(v, e)
  <2>1. w = [row |-> Train!At(e), seen |-> v.seen \cup {e}, applied |-> Append(v.applied, e)]
    BY <1>5 DEF Train!ApplyEvent
  <2>2. w.row = Train!At(e) /\ w.seen = v.seen \cup {e} /\ w.applied = Append(v.applied, e)
    BY <2>1
  <2>3. Train!At(e) \in rows /\ Train!At(e) # NoRow /\ Train!At(e).updated = e.observed /\ e.observed \in Nat
    BY EventsAreTyped
  <2>4. w \in [row : rows, seen : SUBSET Events, applied : Seq(Events)]
    <3>1. Append(v.applied, e) \in Seq(Events) /\ v.seen \cup {e} \in SUBSET Events
      BY <1>1
    <3> QED BY <2>1, <2>3, <3>1
  <2>5. /\ DOMAIN w.applied = 1..(Len(v.applied) + 1) /\ DOMAIN v.applied = 1..Len(v.applied)
        /\ Len(v.applied) \in Nat
        /\ w.applied[Len(v.applied) + 1] = e
        /\ \A i \in DOMAIN v.applied : w.applied[i] = v.applied[i] /\ v.applied[i] \in Events
    <3> DEFINE s == v.applied
    <3>1. s \in Seq(Events)
      BY <1>1
    <3> HIDE DEF s
    <3>2. /\ DOMAIN Append(s, e) = 1..(Len(s) + 1) /\ DOMAIN s = 1..Len(s) /\ Len(s) \in Nat
          /\ Append(s, e)[Len(s) + 1] = e
          /\ \A i \in DOMAIN s : Append(s, e)[i] = s[i] /\ s[i] \in Events
      BY <3>1
    <3> QED BY <2>2, <3>2 DEF s
  <2>6. e \notin v.seen /\ (v.row # NoRow => v.row.updated <= e.observed)
    BY <1>5 DEF Train!Fresh
  <2>7. \A i \in DOMAIN w.applied : i \in DOMAIN v.applied \/ i = Len(v.applied) + 1
    BY <2>5
  <2>8. \A i \in DOMAIN w.applied : w.applied[i] \in w.seen
    BY <1>2, <2>2, <2>5, <2>7
  <2>9. ASSUME NEW i \in DOMAIN v.applied
        PROVE  v.applied[i] # e /\ (~rewound => v.applied[i].observed <= e.observed)
    <3>1. v.row # NoRow
      <4>1. v.applied # <<>>
        OBVIOUS
      <4> QED BY <1>2, <4>1
    <3>2. v.row.updated \in Nat
      BY <1>1, <3>1 DEF Train!Row
    <3>3. v.applied[i].observed \in Nat
      BY <2>5, EventsAreTyped
    <3> HIDE DEF w
    <3> QED BY <1>2, <1>3, <2>3, <2>6, <3>1, <3>2, <3>3
  <2>10. ~rewound => \A i \in DOMAIN w.applied : w.applied[i].observed <= w.row.updated
    <3> HIDE DEF w
    <3> QED BY <2>2, <2>3, <2>5, <2>7, <2>9
  <2>11. ~rewound => \A i, j \in DOMAIN w.applied : i < j =>
               w.applied[i] # w.applied[j] /\ w.applied[i].observed <= w.applied[j].observed
    <3> SUFFICES ASSUME ~rewound, NEW i \in DOMAIN w.applied, NEW j \in DOMAIN w.applied, i < j
                 PROVE  w.applied[i] # w.applied[j] /\ w.applied[i].observed <= w.applied[j].observed
      OBVIOUS
    <3> HIDE DEF w
    <3>1. i \in DOMAIN v.applied
      BY <2>5
    <3>2. CASE j \in DOMAIN v.applied
      BY <1>3, <2>5, <3>1, <3>2
    <3>3. CASE j = Len(v.applied) + 1
      BY <2>5, <2>9, <3>1, <3>3
    <3> QED BY <2>7, <3>2, <3>3
  <2>12. w.row # NoRow
    BY <2>2, <2>3
  <2>13. w \in Feeds(rows)
    <3> HIDE DEF w
    <3> QED BY <2>4, <2>8, <2>10, <2>11, <2>12 DEF Feeds
  <2> QED BY <2>13
<1> QED BY <1>4, <1>5

\* What FoldLeft chooses for a delivery.
Delivery(order) ==
    CHOOSE iter : iter = [x \in SUBSET (DOMAIN order) |->
         IF x = {} THEN FedSoFar ELSE Train!ApplyEvent(iter[x \ {Greatest(x)}], order[Greatest(x)])]

LEMMA DeliveryIterates ==
  ASSUME NEW order
  PROVE  Train!Fed(order) = Delivery(order)[DOMAIN order]
BY DEF Train!Fed, FedSoFar, Train!FoldLeft, Train!MapThenFoldSet, Delivery, Train!Max, Greatest

LEMMA DeliveryExists ==
  ASSUME NEW V, FedSoFar \in V, \A v \in V, e \in Events : Train!ApplyEvent(v, e) \in V,
         NEW order \in Seq(Events)
  PROVE  Delivery(order) = [x \in SUBSET (DOMAIN order) |->
           IF x = {} THEN FedSoFar ELSE Train!ApplyEvent(Delivery(order)[x \ {Greatest(x)}], order[Greatest(x)])]
<1> DEFINE F == [e \in Events |-> [v \in V |-> Train!ApplyEvent(v, e)]]
           n == Len(order)
<1>1. \A v \in V, e \in Events : F[e][v] = Train!ApplyEvent(v, e) /\ F[e][v] \in V
  OBVIOUS
<1>2. CanFold(V, F, FedSoFar, order, n)
  <2> HIDE DEF F
  <2> QED BY <1>1, FoldExists
<1>3. PICK h \in [SUBSET (1..n) -> V] : FoldsOver(h, F, FedSoFar, order, n)
  <2> HIDE DEF F
  <2> QED BY <1>2 DEF CanFold
<1>4. n \in Nat /\ DOMAIN order = 1..n
  OBVIOUS
<1>5. ASSUME NEW x \in SUBSET (1..n)
      PROVE  h[x] = IF x = {} THEN FedSoFar ELSE Train!ApplyEvent(h[x \ {Greatest(x)}], order[Greatest(x)])
  <2> HIDE DEF F
  <2>1. h[x] = IF x = {} THEN FedSoFar ELSE F[order[Greatest(x)]][h[x \ {Greatest(x)}]]
    BY <1>3 DEF FoldsOver
  <2>2. ASSUME x # {} PROVE h[x] = Train!ApplyEvent(h[x \ {Greatest(x)}], order[Greatest(x)])
    <3>1. Greatest(x) \in 1..n
      BY <1>4, <2>2, GreatestIn
    <3>2. order[Greatest(x)] \in Events
      BY <1>4, <3>1
    <3>3. x \ {Greatest(x)} \in SUBSET (1..n)
      OBVIOUS
    <3>4. h[x \ {Greatest(x)}] \in V
      BY <3>3
    <3> QED BY <1>1, <2>1, <2>2, <3>2, <3>4
  <2> QED BY <2>1, <2>2
<1>6. h = [x \in SUBSET (DOMAIN order) |->
             IF x = {} THEN FedSoFar ELSE Train!ApplyEvent(h[x \ {Greatest(x)}], order[Greatest(x)])]
  <2> HIDE DEF n
  <2> QED BY <1>4, <1>5
<1> QED BY <1>6 DEF Delivery

\* What every event keeps, a delivery keeps.
LEMMA DeliveryKeeps ==
  ASSUME NEW V, FedSoFar \in V, \A v \in V, e \in Events : Train!ApplyEvent(v, e) \in V,
         NEW order \in Seq(Events)
  PROVE  Train!Fed(order) \in V
<1> DEFINE n == Len(order)
           S == {k \in Nat : k <= n => Delivery(order)[1..k] \in V}
<1>1. n \in Nat /\ DOMAIN order = 1..n
  OBVIOUS
<1>2. ASSUME NEW x \in SUBSET (1..n)
      PROVE  Delivery(order)[x] = IF x = {} THEN FedSoFar
                                  ELSE Train!ApplyEvent(Delivery(order)[x \ {Greatest(x)}], order[Greatest(x)])
  BY <1>1, DeliveryExists
<1>3. 0 \in S
  <2>1. 1..0 = {} /\ {} \in SUBSET (1..n)
    OBVIOUS
  <2> QED BY <1>2, <2>1
<1>4. ASSUME NEW k \in Nat, k \in S PROVE k + 1 \in S
  <2> SUFFICES ASSUME k + 1 <= n PROVE Delivery(order)[1..(k + 1)] \in V
    OBVIOUS
  <2>1. Delivery(order)[1..k] \in V
    BY <1>1, <1>4
  <2> DEFINE x == 1..(k + 1)
  <2>2. x \in SUBSET (1..n) /\ k + 1 \in x /\ x \ {k + 1} = 1..k
    BY <1>1
  <2>3. Greatest(x) = k + 1
    <3>1. Greatest(x) \in x /\ Greatest(x) >= k + 1
      <4>1. x # {} /\ n \in Nat
        BY <1>1, <2>2
      <4> HIDE DEF x, n
      <4> QED BY <2>2, <4>1, GreatestIn
    <3> QED BY <3>1
  <2>4. Delivery(order)[x] = Train!ApplyEvent(Delivery(order)[1..k], order[k + 1])
    <3> HIDE DEF x
    <3>1. x # {}
      BY <2>2
    <3> QED BY <1>2, <2>2, <2>3, <3>1
  <2>5. order[k + 1] \in Events
    OBVIOUS
  <2> QED BY <2>1, <2>4, <2>5
<1>5. \A k \in Nat : k \in S
  <2> HIDE DEF S
  <2> QED BY <1>3, <1>4, AllNaturals
<1>6. Delivery(order)[1..n] \in V
  BY <1>1, <1>5
<1> QED BY <1>1, <1>6, DeliveryIterates

-----------------------------------------------------------------------------
Ticks == [at : {"idle", "fill", "read", "commit"}, began : Nat,
          from : Train!Place \cup {NoRow}, to : Train!Place \cup {NoRow}]

LEMMA StationsAreKnown ==
  ASSUME Train!TrackingConstants
  PROVE  /\ Train!Station \subseteq Train!Known
         /\ \A route \in Train!Route : route \in Seq(Train!Station)
         /\ Routes \in Seq(Train!Route) /\ Len(Routes) >= 1
<1>1. Train!Station \subseteq Train!Known
  BY DEF Train!Known
<1>2. Routes \in Seq(Seq(Train!Station)) /\ Routes # <<>>
  BY DEF Train!TrackingConstants
<1>3. Train!ToSet(Routes) \subseteq Seq(Train!Station)
  BY <1>2 DEF Train!ToSet
<1>4. Train!NoRoute \in Seq(Train!Station)
  BY DEF Train!NoRoute
<1>5. \A route \in Train!Route : route \in Seq(Train!Station)
  BY <1>3, <1>4 DEF Train!Route
<1>6. \A i \in DOMAIN Routes : Routes[i] \in Train!Route
  BY DEF Train!Route, Train!ToSet
<1>7. Routes \in Seq(Train!Route)
  <2> HIDE DEF Train!Route
  <2>1. DOMAIN Routes = 1..Len(Routes) /\ Len(Routes) \in Nat /\ Routes \in [1..Len(Routes) -> Train!Route]
    BY <1>2, <1>6
  <2> QED BY <2>1
<1>8. Len(Routes) >= 1
  BY <1>2
<1> QED BY <1>1, <1>5, <1>7, <1>8

LEMMA StoppedIsTick ==
  /\ Train!Stopped \in Ticks /\ Train!Stopped.at = "idle"
  /\ \A step \in {"idle", "fill", "read", "commit"} :
       [Train!Stopped EXCEPT !.at = step].at = step /\ [Train!Stopped EXCEPT !.at = step] \in Ticks
  /\ \A step \in {"idle", "fill", "read", "commit"}, n \in Nat :
       LET t == [Train!Stopped EXCEPT !.at = step, !.began = n] IN t.at = step /\ t \in Ticks
BY DEF Train!Stopped, Ticks

\* A step that leaves the row and the feed alone, and brings no tick to its commit.
LEMMA NothingFed ==
  ASSUME FeedInv, Train!TypeOK', UNCHANGED <<row, seen, applied, rewound>>,
         \A q \in Process : tick'[q] = tick[q] \/ tick'[q].at # "commit"
  PROVE  FeedInv'
<1>1. FedSoFar' = FedSoFar
  BY DEF FedSoFar
<1>2. (FedSoFar \in Feeds(Train!Row \cup {NoRow}))'
  BY <1>1 DEF FeedInv, Feeds, Train!Row, Train!Known, Train!Station
<1>3. ASSUME NEW p \in Process, tick'[p].at = "commit"
      PROVE  /\ tick'[p].to \in Train!Place
             /\ IF tick'[p].from = NoRow
                THEN row' = NoRow /\ \A q \in Process : tick'[q].at = "commit" /\ tick'[q].from = NoRow => q = p
                ELSE row' # NoRow
  <2>1. tick'[p] = tick[p]
    BY <1>3
  <2>2. /\ tick[p].to \in Train!Place
        /\ IF tick[p].from = NoRow
           THEN row = NoRow /\ \A q \in Process : Train!Inserting(q) => q = p
           ELSE row # NoRow
    BY <1>3, <2>1 DEF FeedInv, OneInserts
  <2>3. \A q \in Process : tick'[q].at = "commit" /\ tick'[q].from = NoRow => Train!Inserting(q)
    BY DEF Train!Inserting
  <2> QED BY <2>1, <2>2, <2>3
<1>4. OneInserts'
  BY <1>3 DEF OneInserts, Train!Inserting, Train!Place, Train!Known, Train!Station
<1> QED BY <1>2, <1>4 DEF FeedInv

\* What a step that is no tick and no delivery leaves typed.
LEMMA TypesStay ==
  ASSUME Train!TypeOK, leader' \in Process, UNCHANGED <<row, seen, applied, rewound>>,
         table' \in Train!ToSet(Routes), delay' \in [Train!Station -> Int], stale' \subseteq Process,
         shared' \in Train!Route, local' \in [Process -> Train!Route],
         memory' \in [Process -> [index : Nat \ {0}, direction : {-1, 1}]],
         tick' \in [Process -> Ticks], clock' \in Nat,
         left' \in [{"time", "faults", "edits", "deliveries"} -> Nat]
  PROVE  Train!TypeOK'
BY DEF Train!TypeOK, Ticks, Train!Place, Train!Row, Train!Known, Train!Station, Train!Route, Train!ToSet, Train!NoRoute

LEMMA TypesAre ==
  ASSUME Train!TypeOK
  PROVE  /\ leader \in Process /\ table \in Train!ToSet(Routes) /\ delay \in [Train!Station -> Int]
         /\ stale \subseteq Process /\ shared \in Train!Route /\ local \in [Process -> Train!Route]
         /\ memory \in [Process -> [index : Nat \ {0}, direction : {-1, 1}]]
         /\ tick \in [Process -> Ticks] /\ row \in Train!Row \cup {NoRow}
         /\ seen \subseteq Events /\ applied \in Seq(Events) /\ rewound \in BOOLEAN /\ clock \in Nat
         /\ left \in [{"time", "faults", "edits", "deliveries"} -> Nat]
BY DEF Train!TypeOK, Ticks

LEMMA SpendTypes ==
  ASSUME Train!TypeOK, NEW b \in {"time", "faults", "edits", "deliveries"}, Train!Spend(b)
  PROVE  left' \in [{"time", "faults", "edits", "deliveries"} -> Nat]
<1>1. left \in [{"time", "faults", "edits", "deliveries"} -> Nat]
  BY TypesAre
<1>2. left[b] \in Nat /\ left[b] > 0 /\ left' = [left EXCEPT ![b] = left[b] - 1]
  BY <1>1 DEF Train!Spend
<1>3. left[b] - 1 \in Nat
  BY <1>2
<1> QED BY <1>1, <1>2, <1>3

LEMMA InitFeeds ==
  ASSUME Train!TrackingConstants, Train!Init
  PROVE  FeedInv
<1>1. leader \in Process
  BY DEF Train!TrackingConstants, Train!Init
<1>2. Train!NoRoute \in Train!Route /\ table \in Train!ToSet(Routes)
  <2>1. 1 \in DOMAIN Routes
    BY StationsAreKnown
  <2> QED BY <2>1 DEF Train!Route, Train!NoRoute, Train!ToSet, Train!Init
<1>3. /\ delay \in [Train!Station -> Int] /\ stale \subseteq Process /\ shared \in Train!Route
      /\ local \in [Process -> Train!Route]
      /\ memory \in [Process -> [index : Nat \ {0}, direction : {-1, 1}]]
      /\ row = NoRow /\ seen = {} /\ applied = <<>> /\ rewound = FALSE /\ clock = 0
  BY <1>2 DEF Train!Init
<1>4. tick \in [Process -> Ticks] /\ \A p \in Process : tick[p].at = "idle"
  BY StoppedIsTick DEF Train!Init
<1>5. left \in [{"time", "faults", "edits", "deliveries"} -> Nat]
  BY DEF Train!TrackingConstants, Train!Init
<1>6. seen \subseteq Events /\ applied \in Seq(Events) /\ rewound \in BOOLEAN /\ clock \in Nat
  <2>1. <<>> \in Seq(Events)
    OBVIOUS
  <2> QED BY <1>3, <2>1
<1>7. Train!TypeOK
  BY <1>1, <1>2, <1>3, <1>4, <1>5, <1>6 DEF Train!TypeOK, Ticks
<1>8. FedSoFar \in Feeds(Train!Row \cup {NoRow})
  <2>1. FedSoFar \in [row : Train!Row \cup {NoRow}, seen : SUBSET Events, applied : Seq(Events)]
    BY <1>3, <1>6 DEF FedSoFar
  <2>2. FedSoFar.applied = <<>> /\ DOMAIN FedSoFar.applied = {}
    BY <1>3 DEF FedSoFar
  <2> QED BY <2>1, <2>2 DEF Feeds
<1>9. OneInserts
  BY <1>4 DEF OneInserts
<1> QED BY <1>7, <1>8, <1>9 DEF FeedInv

-----------------------------------------------------------------------------
LEMMA FindRouteFeeds ==
  ASSUME Train!TrackingConstants, FeedInv, NEW p \in Process, Train!FindRoute(p)
  PROVE  FeedInv'
<1>1. Train!TypeOK
  BY DEF FeedInv
<1>2. UNCHANGED <<leader, table, delay, stale, shared, memory, row, seen, applied, rewound, clock, left>>
  BY DEF Train!FindRoute, Train!timetableVars, Train!feedVars
<1>3. table \in Train!Route
  BY <1>1 DEF Train!TypeOK, Train!Route
<1>4. local' \in [Process -> Train!Route]
  BY <1>1, <1>3, TypesAre DEF Train!FindRoute
<1>5. PICK step \in {"fill", "read"} : tick' = [tick EXCEPT ![p] = [Train!Stopped EXCEPT !.at = step, !.began = clock]]
  BY DEF Train!FindRoute
<1>6. clock \in Nat
  BY <1>1, TypesAre
<1> DEFINE t == [Train!Stopped EXCEPT !.at = step, !.began = clock]
<1>7. t.at = step /\ t \in Ticks
  BY <1>6, StoppedIsTick
<1>8. tick' = [tick EXCEPT ![p] = t]
  BY <1>5
<1> HIDE DEF t
<1>9. tick \in [Process -> Ticks]
  BY <1>1, TypesAre
<1>10. tick' \in [Process -> Ticks] /\ \A q \in Process : tick'[q] = tick[q] \/ tick'[q].at # "commit"
  BY <1>7, <1>8, <1>9
<1>11. Train!TypeOK'
  BY <1>1, <1>2, <1>4, <1>10, TypesAre, TypesStay
<1> QED BY <1>2, <1>10, <1>11, NothingFed

LEMMA FillSharedFeeds ==
  ASSUME Train!TrackingConstants, FeedInv, NEW p \in Process, Train!FillShared(p)
  PROVE  FeedInv'
<1>1. Train!TypeOK
  BY DEF FeedInv
<1>2. UNCHANGED <<leader, table, delay, stale, local, memory, row, seen, applied, rewound, clock, left>>
  BY DEF Train!FillShared, Train!timetableVars, Train!feedVars
<1>3. tick \in [Process -> Ticks] /\ local \in [Process -> Train!Route]
  BY <1>1, TypesAre
<1>4. shared' \in Train!Route
  BY <1>3 DEF Train!FillShared
<1>5. tick' = [tick EXCEPT ![p].at = "read"]
  BY DEF Train!FillShared
<1>6. tick' \in [Process -> Ticks] /\ \A q \in Process : tick'[q] = tick[q] \/ tick'[q].at # "commit"
  BY <1>3, <1>5 DEF Ticks
<1>7. Train!TypeOK'
  BY <1>1, <1>2, <1>4, <1>6, TypesAre, TypesStay
<1> QED BY <1>2, <1>6, <1>7, NothingFed

LEMMA ExpireSharedFeeds ==
  ASSUME Train!TrackingConstants, FeedInv, Train!ExpireShared
  PROVE  FeedInv'
<1>1. Train!TypeOK
  BY DEF FeedInv
<1>2. UNCHANGED <<leader, table, delay, stale, local, memory, tick, row, seen, applied, rewound, clock, left>>
  BY DEF Train!ExpireShared, Train!timetableVars, Train!feedVars
<1>3. shared' \in Train!Route
  BY DEF Train!ExpireShared, Train!Route
<1>4. Train!TypeOK'
  BY <1>1, <1>2, <1>3, TypesAre, TypesStay
<1> QED BY <1>2, <1>4, NothingFed

LEMMA ExpireLocalFeeds ==
  ASSUME Train!TrackingConstants, FeedInv, NEW p \in Process, Train!ExpireLocal(p)
  PROVE  FeedInv'
<1>1. Train!TypeOK
  BY DEF FeedInv
<1>2. UNCHANGED <<leader, table, delay, stale, shared, memory, tick, row, seen, applied, rewound, clock, left>>
  BY DEF Train!ExpireLocal, Train!timetableVars, Train!feedVars
<1>3. Train!NoRoute \in Train!Route
  BY DEF Train!Route
<1>4. local' \in [Process -> Train!Route]
  BY <1>1, <1>3, TypesAre DEF Train!ExpireLocal
<1>5. Train!TypeOK'
  BY <1>1, <1>2, <1>4, TypesAre, TypesStay
<1> QED BY <1>2, <1>5, NothingFed

LEMMA RerouteFeeds ==
  ASSUME Train!TrackingConstants, FeedInv, NEW p \in Process, Train!Reroute(p)
  PROVE  FeedInv'
<1>1. Train!TypeOK
  BY DEF FeedInv
<1>2. UNCHANGED <<leader, delay, shared, local, memory, tick, row, seen, applied, rewound, clock>>
  BY DEF Train!Reroute, Train!feedVars
<1>3. table' \in Train!ToSet(Routes)
  <2>1. PICK i \in 1..(Len(Routes) - 1) : table' = Routes[i + 1]
    BY DEF Train!Reroute
  <2>2. i + 1 \in DOMAIN Routes
    BY StationsAreKnown
  <2> QED BY <2>1, <2>2 DEF Train!ToSet
<1>4. stale' \subseteq Process
  BY <1>1, TypesAre DEF Train!Reroute
<1>5. left' \in [{"time", "faults", "edits", "deliveries"} -> Nat]
  BY <1>1, SpendTypes DEF Train!Reroute
<1>6. Train!TypeOK'
  BY <1>1, <1>2, <1>3, <1>4, <1>5, TypesAre, TypesStay
<1> QED BY <1>2, <1>6, NothingFed

LEMMA InvalidateFeeds ==
  ASSUME Train!TrackingConstants, FeedInv, NEW p \in Process, Train!Invalidate(p)
  PROVE  FeedInv'
<1>1. Train!TypeOK
  BY DEF FeedInv
<1>2. UNCHANGED <<leader, table, delay, memory, tick, row, seen, applied, rewound, clock, left>>
  BY DEF Train!Invalidate, Train!feedVars
<1>3. Train!NoRoute \in Train!Route
  BY DEF Train!Route
<1>4. local' \in [Process -> Train!Route] /\ shared' \in Train!Route /\ stale' \subseteq Process
  BY <1>1, <1>3, TypesAre DEF Train!Invalidate
<1>5. Train!TypeOK'
  BY <1>1, <1>2, <1>4, TypesAre, TypesStay
<1> QED BY <1>2, <1>5, NothingFed

LEMMA ReportDelayFeeds ==
  ASSUME Train!TrackingConstants, FeedInv, NEW s \in Train!Station, NEW minutes \in Minutes,
         Train!ReportDelay(s, minutes)
  PROVE  FeedInv'
<1>1. Train!TypeOK
  BY DEF FeedInv
<1>2. UNCHANGED <<leader, table, stale, shared, local, memory, tick, row, seen, applied, rewound, clock>>
  BY DEF Train!ReportDelay, Train!feedVars
<1>3. minutes \in Int
  BY DEF Train!TrackingConstants
<1>4. delay' \in [Train!Station -> Int]
  BY <1>1, <1>3, TypesAre DEF Train!ReportDelay
<1>5. left' \in [{"time", "faults", "edits", "deliveries"} -> Nat]
  BY <1>1, SpendTypes DEF Train!ReportDelay
<1>6. Train!TypeOK'
  BY <1>1, <1>2, <1>4, <1>5, TypesAre, TypesStay
<1> QED BY <1>2, <1>6, NothingFed

LEMMA TickFailsFeeds ==
  ASSUME Train!TrackingConstants, FeedInv, NEW p \in Process, Train!TickFails(p)
  PROVE  FeedInv'
<1>1. Train!TypeOK
  BY DEF FeedInv
<1>2. UNCHANGED <<leader, table, delay, stale, shared, local, memory, row, seen, applied, rewound, clock>>
  BY DEF Train!TickFails, Train!timetableVars, Train!feedVars
<1>3. tick \in [Process -> Ticks] /\ tick' = [tick EXCEPT ![p] = Train!Stopped]
  BY <1>1, TypesAre DEF Train!TickFails
<1>4. tick' \in [Process -> Ticks] /\ \A q \in Process : tick'[q] = tick[q] \/ tick'[q].at # "commit"
  BY <1>3, StoppedIsTick
<1>5. left' \in [{"time", "faults", "edits", "deliveries"} -> Nat]
  BY <1>1, SpendTypes DEF Train!TickFails
<1>6. Train!TypeOK'
  BY <1>1, <1>2, <1>4, <1>5, TypesAre, TypesStay
<1> QED BY <1>2, <1>4, <1>6, NothingFed

LEMMA HandoverFeeds ==
  ASSUME Train!TrackingConstants, FeedInv, NEW p \in Process, Train!Handover(p)
  PROVE  FeedInv'
<1>1. Train!TypeOK
  BY DEF FeedInv
<1>2. UNCHANGED <<table, delay, stale, shared, local, memory, tick, row, seen, applied, rewound, clock>>
  BY DEF Train!Handover, Train!timetableVars, Train!feedVars
<1>3. leader' \in Process
  BY DEF Train!Handover
<1>4. left' \in [{"time", "faults", "edits", "deliveries"} -> Nat]
  BY <1>1, SpendTypes DEF Train!Handover
<1>5. Train!TypeOK'
  BY <1>1, <1>2, <1>3, <1>4, TypesAre, TypesStay
<1> QED BY <1>2, <1>5, NothingFed

LEMMA RestartFeeds ==
  ASSUME Train!TrackingConstants, FeedInv, NEW p \in Process, Train!Restart(p)
  PROVE  FeedInv'
<1>1. Train!TypeOK
  BY DEF FeedInv
<1>2. UNCHANGED <<leader, table, delay, stale, shared, row, seen, applied, rewound, clock>>
  BY DEF Train!Restart, Train!timetableVars, Train!feedVars
<1>3. tick \in [Process -> Ticks] /\ tick' = [tick EXCEPT ![p] = Train!Stopped]
  BY <1>1, TypesAre DEF Train!Restart
<1>4. tick' \in [Process -> Ticks] /\ \A q \in Process : tick'[q] = tick[q] \/ tick'[q].at # "commit"
  BY <1>3, StoppedIsTick
<1>5. Train!NoRoute \in Train!Route
  BY DEF Train!Route
<1>6. local' \in [Process -> Train!Route]
  BY <1>1, <1>5, TypesAre DEF Train!Restart
<1>7. memory' \in [Process -> [index : Nat \ {0}, direction : {-1, 1}]]
  BY <1>1, TypesAre DEF Train!Restart
<1>8. left' \in [{"time", "faults", "edits", "deliveries"} -> Nat]
  BY <1>1, SpendTypes DEF Train!Restart
<1>9. Train!TypeOK'
  BY <1>1, <1>2, <1>4, <1>6, <1>7, <1>8, TypesAre, TypesStay
<1> QED BY <1>2, <1>4, <1>9, NothingFed

LEMMA TimePassesFeeds ==
  ASSUME Train!TrackingConstants, FeedInv, Train!TimePasses
  PROVE  FeedInv'
<1>1. Train!TypeOK
  BY DEF FeedInv
<1>2. UNCHANGED <<leader, table, delay, stale, shared, local, memory, tick, row, seen, applied, rewound>>
  BY DEF Train!TimePasses, Train!timetableVars, Train!feedVars
<1>3. clock' \in Nat
  BY <1>1, TypesAre DEF Train!TimePasses
<1>4. left' \in [{"time", "faults", "edits", "deliveries"} -> Nat]
  BY <1>1, SpendTypes DEF Train!TimePasses
<1>5. Train!TypeOK'
  BY <1>1, <1>2, <1>3, <1>4, TypesAre, TypesStay
<1> QED BY <1>2, <1>5, NothingFed

-----------------------------------------------------------------------------
\* A tick computes parts unless its station is ten minutes early.
LEMMA PartsAreNumbers ==
  ASSUME Train!TrackingConstants, Train!TypeOK, NEW s \in Train!Station, Train!Computable(s)
  PROVE  Train!PartsPerTick(s) \in Int
<1> DEFINE slowness == 10 + delay[s]
           whole == Parts * 10
<1>1. delay[s] \in Int /\ Parts \in Nat
  BY TypesAre DEF Train!TrackingConstants
<1>2. slowness \in Int /\ slowness # 0 /\ whole \in Nat
  BY <1>1 DEF Train!Computable
<1>3. Train!PartsPerTick(s) = IF slowness > 0 THEN whole \div slowness ELSE -(whole \div (-slowness))
  BY DEF Train!PartsPerTick
<1> HIDE DEF slowness, whole
<1>4. CASE slowness > 0
  <2>1. whole \div slowness \in Int
    BY <1>2, <1>4
  <2> QED BY <1>3, <1>4, <2>1
<1>5. CASE ~(slowness > 0)
  <2>1. -slowness \in Nat /\ -slowness > 0
    BY <1>2, <1>5
  <2>2. whole \div (-slowness) \in Int
    BY <1>2, <2>1
  <2> QED BY <1>3, <1>5, <2>2
<1> QED BY <1>4, <1>5

LEMMA PlaceIsTyped ==
  ASSUME Train!TrackingConstants, Train!TypeOK, NEW route \in Train!Route, Len(route) >= 2
  PROVE  Train!PlaceRead(route) \in Train!Place
<1>1. CASE row # NoRow
  <2>1. row \in Train!Row
    BY <1>1, TypesAre
  <2> QED BY <1>1, <2>1 DEF Train!PlaceRead, Train!Row, Train!Place
<1>2. CASE row = NoRow
  <2>1. route[1] \in Train!Known
    BY StationsAreKnown
  <2> QED BY <1>2, <2>1 DEF Train!PlaceRead, Train!Place
<1> QED BY <1>1, <1>2

LEMMA MoveFeeds ==
  ASSUME Train!TrackingConstants, FeedInv, NEW p \in Process, Train!Move(p)
  PROVE  FeedInv'
<1>1. Train!TypeOK
  BY DEF FeedInv
<1>2. UNCHANGED <<leader, table, delay, stale, shared, local, row, seen, applied, rewound, clock, left>>
  BY DEF Train!Move, Train!timetableVars, Train!feedVars
<1>3. tick[p].at = "read" /\ (row = NoRow => \A q \in Process : ~Train!Inserting(q))
  BY DEF Train!Move
<1>4. tick \in [Process -> Ticks] /\ memory \in [Process -> [index : Nat \ {0}, direction : {-1, 1}]]
  BY <1>1, TypesAre
<1> DEFINE route == local[p]
           place == Train!PlaceRead(route)
           index == IF place.station \in Train!ToSet(route)
                    THEN CHOOSE i \in DOMAIN route : route[i] = place.station
                    ELSE memory[p].index
           before == [memory[p] EXCEPT !.index = index]
           inRange == index <= Len(route) /\ Train!Computable(route[index])
           reached == place.progress + Train!PartsPerTick(route[index]) >= Parts
           after == IF inRange /\ reached THEN Train!Arrived(route, before) ELSE before
           fails == ~inRange \/ ~Train!Computable(route[after.index])
           from == IF row = NoRow THEN NoRow ELSE place
           to == [station |-> route[after.index], next |-> Train!NextStation(route, after),
                  progress |-> IF reached THEN 0 ELSE place.progress + Train!PartsPerTick(route[index])]
<1>5. route \in Train!Route /\ route \in Seq(Train!Station) /\ Train!Station \subseteq Train!Known
  BY <1>1, TypesAre, StationsAreKnown
<1>6. Len(route) \in Nat
  <2> HIDE DEF route
  <2> QED BY <1>5
<1>7. CASE Len(route) < 2
  <2>1. tick' = [tick EXCEPT ![p] = Train!Stopped] /\ UNCHANGED memory
    BY <1>7 DEF Train!Move
  <2>2. tick' \in [Process -> Ticks] /\ \A q \in Process : tick'[q] = tick[q] \/ tick'[q].at # "commit"
    BY <1>4, <2>1, StoppedIsTick
  <2>3. Train!TypeOK'
    BY <1>1, <1>2, <2>1, <2>2, TypesAre, TypesStay
  <2> QED BY <1>2, <2>2, <2>3, NothingFed
<1>8. CASE ~(Len(route) < 2)
  <2>0. Len(route) >= 2
    BY <1>8, <1>6
  <2>1. /\ memory' = [memory EXCEPT ![p] = after]
        /\ tick' = [tick EXCEPT ![p] = IF fails THEN Train!Stopped
                                       ELSE [@ EXCEPT !.at = "commit", !.from = from, !.to = to]]
    BY <1>8, Zenon DEF Train!Move
  <2>2. place \in Train!Place
    BY <1>1, <1>5, <2>0, PlaceIsTyped
  <2>3. index \in Nat \ {0}
    <3>1. CASE place.station \in Train!ToSet(route)
      <4>1. \E i \in DOMAIN route : route[i] = place.station
        BY <3>1 DEF Train!ToSet
      <4>2. index \in DOMAIN route
        BY <3>1, <4>1
      <4>3. DOMAIN route \subseteq Nat \ {0}
        <5> HIDE DEF route
        <5> QED BY <1>5
      <4> QED BY <4>2, <4>3
    <3>2. CASE place.station \notin Train!ToSet(route)
      BY <1>4, <3>2
    <3> QED BY <3>1, <3>2
  <2> HIDE DEF route, place, index
  <2>4. before \in [index : Nat \ {0}, direction : {-1, 1}] /\ before.index = index
    BY <1>4, <2>3
  <2>5. Len(route) \in Nat /\ DOMAIN route = 1..Len(route) /\ \A i \in 1..Len(route) : route[i] \in Train!Station
    BY <1>5
  <2> HIDE DEF before
  <2>6. /\ Train!Arrived(route, before) \in [index : Nat \ {0}, direction : {-1, 1}]
        /\ Train!Arrived(route, before).index <= Len(route)
    <3> DEFINE i == before.index + before.direction
    <3>1. i \in Int /\ before.direction \in {-1, 1}
      BY <2>4
    <3>2. Train!Arrived(route, before) = IF i >= Len(route) THEN [index |-> Len(route), direction |-> -1]
                                         ELSE IF i <= 1 THEN [index |-> 1, direction |-> 1]
                                         ELSE [before EXCEPT !.index = i]
      BY DEF Train!Arrived
    <3> HIDE DEF i
    <3>3. i > 1 => i \in Nat \ {0}
      BY <3>1
    <3> QED BY <2>0, <2>4, <2>5, <3>1, <3>2, <3>3
  <2>7. after \in [index : Nat \ {0}, direction : {-1, 1}] /\ (inRange => after.index \in 1..Len(route))
    BY <2>3, <2>4, <2>5, <2>6
  <2>8. memory' \in [Process -> [index : Nat \ {0}, direction : {-1, 1}]]
    BY <1>4, <2>1, <2>7
  <2>9. CASE fails
    <3>1. tick' = [tick EXCEPT ![p] = Train!Stopped]
      BY <2>1, <2>9
    <3>2. tick' \in [Process -> Ticks] /\ \A q \in Process : tick'[q] = tick[q] \/ tick'[q].at # "commit"
      BY <1>4, <3>1, StoppedIsTick
    <3>3. Train!TypeOK'
      BY <1>1, <1>2, <2>8, <3>2, TypesAre, TypesStay
    <3> QED BY <1>2, <3>2, <3>3, NothingFed
  <2>10. CASE ~fails
    <3>1. inRange /\ index \in 1..Len(route)
      BY <2>3, <2>5, <2>10
    <3>2. Train!PartsPerTick(route[index]) \in Int /\ place.progress \in Int
      BY <1>1, <2>2, <2>5, <3>1, PartsAreNumbers DEF Train!Place
    <3>3. Train!NextStation(route, after) \in Train!Known
      <4> DEFINE i == after.index + after.direction
                 j == IF i < 1 THEN 1 ELSE IF i > Len(route) THEN Len(route) ELSE i
      <4>1. i \in Int
        BY <2>7
      <4>2. j \in 1..Len(route)
        <5> HIDE DEF i
        <5> QED BY <2>0, <2>5, <4>1
      <4>3. Train!NextStation(route, after) = route[j]
        BY DEF Train!NextStation
      <4> HIDE DEF j
      <4> QED BY <1>5, <2>5, <4>2, <4>3
    <3>4. route[after.index] \in Train!Known
      BY <1>5, <2>5, <2>7, <3>1
    <3> DEFINE progress == IF reached THEN 0 ELSE place.progress + Train!PartsPerTick(route[index])
    <3>5. progress \in Int
      <4> HIDE DEF reached
      <4> QED BY <3>2
    <3>6. to = [station |-> route[after.index], next |-> Train!NextStation(route, after), progress |-> progress]
      OBVIOUS
    <3> HIDE DEF progress, to, after, fails, inRange, reached
    <3>7. to \in Train!Place
      BY <3>3, <3>4, <3>5, <3>6 DEF Train!Place
    <3>8. from \in Train!Place \cup {NoRow} /\ (from = NoRow <=> row = NoRow)
      <4>1. NoRow \notin Train!Place
        BY DEF Train!TrackingConstants
      <4> QED BY <2>2, <4>1
    <3> HIDE DEF from
    <3> DEFINE t == [tick[p] EXCEPT !.at = "commit", !.from = from, !.to = to]
    <3>9. tick[p] \in Ticks
      BY <1>4
    <3>10. t \in Ticks /\ t.at = "commit" /\ t.from = from /\ t.to = to
      BY <3>7, <3>8, <3>9 DEF Ticks
    <3>11. tick' = [tick EXCEPT ![p] = t]
      BY <2>1, <2>10
    <3> HIDE DEF t
    <3>12. tick' \in [Process -> Ticks] /\ tick'[p] = t /\ \A q \in Process : q # p => tick'[q] = tick[q]
      BY <1>4, <3>10, <3>11
    <3>13. Train!TypeOK'
      BY <1>1, <1>2, <2>8, <3>12, TypesAre, TypesStay
    <3>14. (FedSoFar \in Feeds(Train!Row \cup {NoRow}))'
      <4>1. FedSoFar' = FedSoFar
        BY <1>2 DEF FedSoFar
      <4> QED BY <1>2, <4>1 DEF FeedInv, Feeds, Train!Row, Train!Known, Train!Station
    <3>15. ASSUME NEW q \in Process, tick'[q].at = "commit"
           PROVE  /\ tick'[q].to \in Train!Place
                  /\ IF tick'[q].from = NoRow
                     THEN row' = NoRow /\ \A r \in Process : tick'[r].at = "commit" /\ tick'[r].from = NoRow => r = q
                     ELSE row' # NoRow
      <4>1. ASSUME NEW r \in Process, r # p, tick'[r].at = "commit", tick'[r].from = NoRow PROVE FALSE
        <5>1. Train!Inserting(r)
          BY <3>12, <4>1 DEF Train!Inserting
        <5>2. row = NoRow
          BY <5>1 DEF FeedInv, OneInserts, Train!Inserting
        <5> QED BY <1>3, <5>1, <5>2
      <4>2. CASE q = p
        BY <1>2, <3>7, <3>8, <3>10, <3>12, <4>1, <4>2
      <4>3. CASE q # p
        <5>1. tick[q].at = "commit" /\ tick'[q] = tick[q] /\ tick[q].from # NoRow
          BY <3>12, <3>15, <4>1, <4>3
        <5>2. tick[q].to \in Train!Place /\ row # NoRow
          BY <5>1 DEF FeedInv, OneInserts
        <5> QED BY <1>2, <5>1, <5>2
      <4> QED BY <4>2, <4>3
    <3>16. OneInserts'
      BY <3>15 DEF OneInserts, Train!Inserting, Train!Place, Train!Known, Train!Station
    <3> QED BY <3>13, <3>14, <3>16 DEF FeedInv
  <2> QED BY <2>9, <2>10
<1> QED BY <1>7, <1>8

LEMMA CommitFeeds ==
  ASSUME Train!TrackingConstants, FeedInv, NEW p \in Process, Train!Commit(p)
  PROVE  FeedInv'
<1>1. Train!TypeOK
  BY DEF FeedInv
<1>2. UNCHANGED <<leader, table, delay, stale, shared, local, memory, seen, applied, clock, left>>
  BY DEF Train!Commit, Train!timetableVars, Train!feedVars
<1> DEFINE from == tick[p].from
           to == tick[p].to
           start == tick[p].began
<1>3. /\ tick[p].at = "commit" /\ tick' = [tick EXCEPT ![p] = Train!Stopped]
      /\ tick \in [Process -> Ticks]
  BY <1>1, TypesAre DEF Train!Commit
<1>4. /\ to \in Train!Place /\ from \in Train!Place \cup {NoRow} /\ start \in Nat
      /\ IF from = NoRow THEN row = NoRow /\ \A q \in Process : Train!Inserting(q) => q = p ELSE row # NoRow
  BY <1>3 DEF FeedInv, OneInserts, Ticks
<1>5. tick' \in [Process -> Ticks] /\ tick'[p].at = "idle" /\ \A q \in Process : q # p => tick'[q] = tick[q]
  BY <1>3, StoppedIsTick
<1>6. NoRow \notin Train!Row /\ row \in Train!Row \cup {NoRow}
  BY <1>1, TypesAre DEF Train!TrackingConstants
<1> DEFINE column(f) == IF from[f] # to[f] THEN to[f] ELSE row[f]
           updated == [station |-> column("station"), next |-> column("next"),
                       progress |-> column("progress"), updated |-> start]
           inserted == [station |-> to.station, next |-> to.next, progress |-> to.progress, updated |-> start]
<1>7. /\ row' = IF from = NoRow THEN inserted ELSE IF from # to THEN updated ELSE row
      /\ rewound' = (rewound \/ (from # NoRow /\ from # to /\ start < row.updated))
  BY DEF Train!Commit
<1>8. inserted \in Train!Row /\ inserted.updated = start
  BY <1>4 DEF Train!Place, Train!Row
<1>9. row # NoRow => updated \in Train!Row /\ updated.updated = start
  BY <1>4, <1>6 DEF Train!Place, Train!Row
<1> HIDE DEF inserted, updated, from, to, start
<1>10. row' \in Train!Row
  BY <1>4, <1>6, <1>7, <1>8, <1>9
<1>11. rewound' \in BOOLEAN
  BY <1>7
<1>12. Train!TypeOK'
  <2>1. row' \in Train!Row \cup {NoRow}
    BY <1>10
  <2> QED BY <1>1, <1>2, <1>5, <1>11, <2>1, TypesAre
          DEF Train!TypeOK, Ticks, Train!Place, Train!Row, Train!Known, Train!Station, Train!Route, Train!ToSet, Train!NoRoute
<1>13. row'.updated \in Nat
  BY <1>10 DEF Train!Row
<1>14. /\ applied \in Seq(Events) /\ seen \subseteq Events
       /\ row = NoRow => applied = <<>>
       /\ \A i \in DOMAIN applied : applied[i] \in seen
       /\ ~rewound =>
            /\ \A i \in DOMAIN applied : applied[i].observed <= row.updated
            /\ \A i, j \in DOMAIN applied : i < j =>
                 applied[i] # applied[j] /\ applied[i].observed <= applied[j].observed
  BY <1>1, TypesAre DEF FeedInv, FedSoFar, Feeds
<1>15. ~rewound' => \A i \in DOMAIN applied : applied[i].observed <= row'.updated
  <2> SUFFICES ASSUME ~rewound', NEW i \in DOMAIN applied PROVE applied[i].observed <= row'.updated
    OBVIOUS
  <2>1. row # NoRow /\ from # NoRow
    <3>1. applied # <<>>
      OBVIOUS
    <3> QED BY <1>4, <1>14, <3>1
  <2>2. applied[i] \in Events /\ applied[i].observed \in Nat
    <3>1. applied[i] \in Events
      BY <1>14
    <3> QED BY <3>1, EventsAreTyped
  <2>3. applied[i].observed <= row.updated /\ row.updated \in Nat
    BY <1>6, <1>7, <1>14, <2>1 DEF Train!Row
  <2>4. CASE from = to
    BY <1>7, <2>1, <2>3, <2>4
  <2>5. CASE from # to
    <3>1. row' = updated /\ row'.updated = start /\ ~(start < row.updated)
      BY <1>7, <1>9, <2>1, <2>5
    <3> QED BY <1>4, <2>2, <2>3, <3>1
  <2> QED BY <2>4, <2>5
<1>16. (FedSoFar \in Feeds(Train!Row \cup {NoRow}))'
  <2>1. FedSoFar' = [row |-> row', seen |-> seen, applied |-> applied]
    BY <1>2 DEF FedSoFar
  <2>2. row' # NoRow
    BY <1>6, <1>10
  <2>3. FedSoFar' \in [row : Train!Row \cup {NoRow}, seen : SUBSET Events, applied : Seq(Events)]
    BY <1>10, <1>14, <2>1
  <2>4. ~rewound' => ~rewound
    BY <1>7
  <2>5. /\ FedSoFar'.row = NoRow => FedSoFar'.applied = <<>>
        /\ \A i \in DOMAIN FedSoFar'.applied : FedSoFar'.applied[i] \in FedSoFar'.seen
        /\ ~rewound' =>
            /\ \A i \in DOMAIN FedSoFar'.applied : FedSoFar'.applied[i].observed <= FedSoFar'.row.updated
            /\ \A i, j \in DOMAIN FedSoFar'.applied : i < j =>
                 FedSoFar'.applied[i] # FedSoFar'.applied[j]
                 /\ FedSoFar'.applied[i].observed <= FedSoFar'.applied[j].observed
    BY <1>14, <1>15, <2>1, <2>2, <2>4
  <2> QED BY <2>3, <2>5 DEF Feeds, Train!Row, Train!Known, Train!Station
<1>17. ASSUME NEW q \in Process, tick'[q].at = "commit"
       PROVE  tick'[q].to \in Train!Place /\ tick'[q].from # NoRow
  <2>1. q # p /\ tick'[q] = tick[q] /\ tick[q].at = "commit"
    BY <1>5, <1>17
  <2>2. /\ tick[q].to \in Train!Place
        /\ IF tick[q].from = NoRow THEN row = NoRow ELSE row # NoRow
    BY <2>1 DEF FeedInv, OneInserts
  <2>3. tick[q].from # NoRow
    <3> SUFFICES ASSUME tick[q].from = NoRow PROVE FALSE
      OBVIOUS
    <3>1. Train!Inserting(q) /\ row = NoRow
      BY <2>1, <2>2 DEF Train!Inserting
    <3> QED BY <1>4, <2>1, <3>1
  <2> QED BY <2>1, <2>2, <2>3
<1>18. OneInserts'
  <2>1. row' # NoRow
    BY <1>6, <1>10
  <2> QED BY <1>17, <2>1 DEF OneInserts, Train!Inserting, Train!Place, Train!Known, Train!Station
<1> QED BY <1>12, <1>16, <1>18 DEF FeedInv

LEMMA FeedFeeds ==
  ASSUME Train!TrackingConstants, FeedInv, NEW batch \in SUBSET Events, Train!Feed(batch)
  PROVE  FeedInv'
<1>1. Train!TypeOK
  BY DEF FeedInv
<1>2. UNCHANGED <<leader, table, delay, stale, shared, local, memory, tick, rewound, clock>>
  BY DEF Train!Feed, Train!timetableVars
<1>3. \A p \in Process : ~Train!Inserting(p)
  BY DEF Train!Feed
<1>4. PICK order \in Train!InOrder(batch) :
        row' = Train!Fed(order).row /\ seen' = Train!Fed(order).seen /\ applied' = Train!Fed(order).applied
  BY DEF Train!Feed
<1>5. order \in Seq(Events)
  <2>1. order \in [1..Cardinality(batch) -> batch]
    BY DEF Train!InOrder, Train!SetToSeqs, Train!Cardinality, Cardinality, Train!IsFiniteSet, IsFiniteSet
  <2>2. IsFiniteSet(batch)
    <3>1. IsFiniteSet(Events)
      BY DEF Train!TrackingConstants, Train!IsFiniteSet, IsFiniteSet
    <3> QED BY <3>1, FS_Subset
  <2>3. Cardinality(batch) \in Nat
    BY <2>2, FS_CardinalityType
  <2> HIDE DEF Train!InOrder
  <2> QED BY <2>1, <2>3
<1> DEFINE rows == IF row = NoRow THEN Train!Row \cup {NoRow} ELSE Train!Row
           V == Feeds(rows)
<1>6. Train!Row \subseteq rows /\ rows \subseteq Train!Row \cup {NoRow} /\ row \in rows
  BY <1>1, TypesAre
<1> HIDE DEF rows
<1>7. FedSoFar \in V
  BY <1>6 DEF FeedInv, Feeds, FedSoFar
<1>8. \A v \in V, e \in Events : Train!ApplyEvent(v, e) \in V
  BY <1>6, EventFeeds
<1>9. Train!Fed(order) \in V
  <2> HIDE DEF V
  <2> QED BY <1>5, <1>7, <1>8, DeliveryKeeps
<1> DEFINE w == Train!Fed(order)
<1>10. w \in [row : rows, seen : SUBSET Events, applied : Seq(Events)]
  BY <1>9 DEF Feeds
<1>11. FedSoFar' = w
  <2> HIDE DEF w
  <2>1. w = [row |-> w.row, seen |-> w.seen, applied |-> w.applied]
    BY <1>10
  <2> QED BY <1>4, <2>1 DEF FedSoFar, w
<1>12. row' \in rows /\ seen' \subseteq Events /\ applied' \in Seq(Events)
  BY <1>4, <1>10
<1>13. left' \in [{"time", "faults", "edits", "deliveries"} -> Nat]
  BY <1>1, SpendTypes DEF Train!Feed
<1>14. Train!TypeOK'
  <2>1. row' \in Train!Row \cup {NoRow}
    BY <1>6, <1>12
  <2> QED BY <1>1, <1>2, <1>12, <1>13, <2>1, TypesAre
          DEF Train!TypeOK, Ticks, Train!Place, Train!Row, Train!Known, Train!Station, Train!Route, Train!ToSet, Train!NoRoute
<1>15. (FedSoFar \in Feeds(Train!Row \cup {NoRow}))'
  <2>1. w \in Feeds(Train!Row \cup {NoRow})
    <3> HIDE DEF w
    <3> QED BY <1>6, <1>9 DEF Feeds, w
  <2> HIDE DEF w
  <2> QED BY <1>2, <1>11, <2>1 DEF Feeds, Train!Row, Train!Known, Train!Station
<1>16. ASSUME NEW p \in Process, tick'[p].at = "commit"
       PROVE  tick'[p].to \in Train!Place /\ tick'[p].from # NoRow /\ row' # NoRow
  <2>1. tick[p].at = "commit" /\ tick'[p] = tick[p]
    BY <1>2, <1>16
  <2>2. tick[p].from # NoRow
    BY <1>3, <2>1 DEF Train!Inserting
  <2>3. tick[p].to \in Train!Place /\ row # NoRow
    BY <2>1, <2>2 DEF FeedInv, OneInserts
  <2>4. row' \in Train!Row /\ NoRow \notin Train!Row
    BY <1>12, <2>3 DEF rows, Train!TrackingConstants
  <2> QED BY <2>1, <2>2, <2>3, <2>4
<1>17. OneInserts'
  BY <1>16 DEF OneInserts, Train!Inserting, Train!Place, Train!Known, Train!Station
<1> QED BY <1>14, <1>15, <1>17 DEF FeedInv

LEMMA StepFeeds ==
  ASSUME Train!TrackingConstants, FeedInv, [Train!Next]_Train!vars
  PROVE  FeedInv'
<1>1. ASSUME UNCHANGED Train!vars PROVE FeedInv'
  <2>1. UNCHANGED <<leader, table, delay, stale, shared, local, memory, tick, row, seen, applied, rewound, clock, left>>
    BY <1>1 DEF Train!vars, Train!timetableVars, Train!feedVars
  <2>2. Train!TypeOK'
    BY <2>1, TypesAre, TypesStay DEF FeedInv
  <2> QED BY <2>1, <2>2, NothingFed
<1>2. ASSUME NEW p \in Process, Train!FindRoute(p) \/ Train!FillShared(p) \/ Train!Move(p) \/ Train!Commit(p)
                                 \/ Train!ExpireLocal(p)
      PROVE  FeedInv'
  BY <1>2, FindRouteFeeds, FillSharedFeeds, MoveFeeds, CommitFeeds, ExpireLocalFeeds
<1>3. ASSUME NEW p \in Process, Train!Reroute(p) \/ Train!Invalidate(p) \/ Train!TickFails(p) \/ Train!Handover(p)
                                 \/ Train!Restart(p)
      PROVE  FeedInv'
  BY <1>3, RerouteFeeds, InvalidateFeeds, TickFailsFeeds, HandoverFeeds, RestartFeeds
<1>4. ASSUME NEW s \in Train!Station, NEW minutes \in Minutes, Train!ReportDelay(s, minutes) PROVE FeedInv'
  BY <1>4, ReportDelayFeeds
<1>5. ASSUME NEW batch \in SUBSET Events, Train!Feed(batch) PROVE FeedInv'
  BY <1>5, FeedFeeds
<1>6. ASSUME Train!ExpireShared \/ Train!TimePasses PROVE FeedInv'
  BY <1>6, ExpireSharedFeeds, TimePassesFeeds
<1>7. ASSUME Train!Next PROVE FeedInv'
  BY <1>2, <1>3, <1>4, <1>5, <1>6, <1>7 DEF Train!Next
<1> QED BY <1>1, <1>7

\* The feed moves a train in the order of its observations, and once with each event: for any
\* routes, delays (a train that runs backwards among them), deliveries with ties, batches that
\* come twice, ticks of an old leader, and every fault.
THEOREM FeedAlwaysInOrder ==
  ASSUME Train!TrackingConstants
  PROVE  Train!Spec => [](Train!TypeOK /\ Train!FeedAppliesInOrder)
<1>1. Train!Init => FeedInv
  BY InitFeeds
<1>2. FeedInv /\ [Train!Next]_Train!vars => FeedInv'
  BY StepFeeds
<1>3. FeedInv => Train!TypeOK /\ Train!FeedAppliesInOrder
  <2> SUFFICES ASSUME FeedInv, ~rewound, NEW i \in 1..Len(applied), NEW j \in 1..Len(applied), i < j
               PROVE  applied[i] # applied[j] /\ applied[i].observed <= applied[j].observed
    BY DEF FeedInv, Train!FeedAppliesInOrder
  <2>1. applied \in Seq(Events)
    BY TypesAre DEF FeedInv
  <2>2. i \in DOMAIN applied /\ j \in DOMAIN applied
    BY <2>1
  <2> QED BY <2>2 DEF FeedInv, FedSoFar, Feeds
<1> QED BY <1>1, <1>2, <1>3, PTL DEF Train!Spec

-----------------------------------------------------------------------------
(***************************************************************************)
(* The replay of recorded passenger flow.                                  *)
(***************************************************************************)
CONSTANTS Active, File, Chunk, Window
VARIABLES loaded, index, buffer, cursor, occupancy, day, saved, served, carried
Replay == INSTANCE CrowdReplay WITH Stations <- Active

\* The rows that a station has in the file.
FileRows(s) == {i \in 1..Len(File) : File[i].station = s}
Bottom(s) == CHOOSE m \in FileRows(s) : \A i \in FileRows(s) : m <= i
Top(s) == Greatest(FileRows(s))

LEMMA FileIsTyped ==
  ASSUME Replay!ReplayConstants
  PROVE  /\ Len(File) \in Nat
         /\ \A i \in 1..Len(File) : File[i].day \in Nat \ {0} /\ File[i].net \in Int
         /\ Chunk \in Nat \ {0} /\ Window \in Nat \ {0} /\ MaxFaults \in Nat
<1> DEFINE R == [station : {File[i].station : i \in 1..Len(File)}, day : Nat \ {0}, net : Int]
<1>1. File \in Seq(R) /\ Chunk \in Nat \ {0} /\ Window \in Nat \ {0} /\ MaxFaults \in Nat
  BY DEF Replay!ReplayConstants
<1>2. Len(File) \in Nat /\ \A i \in 1..Len(File) : File[i] \in R
  <2> HIDE DEF R
  <2> QED BY <1>1
<1> QED BY <1>1, <1>2

\* A set of positions that is not empty has a least one.
LEMMA LeastIn ==
  ASSUME NEW n \in Nat, NEW x \in SUBSET (1..n), x # {}
  PROVE  \E m \in x : \A y \in x : m <= y
<1> DEFINE z == {i \in 1..n : n + 1 - i \in x}
<1>1. PICK y0 \in x : TRUE
  OBVIOUS
<1>2. n + 1 - y0 \in z
  BY <1>1
<1>3. z \in SUBSET (1..n) /\ z # {}
  BY <1>2
<1>4. Greatest(z) \in z /\ \A y \in z : Greatest(z) >= y
  <2> HIDE DEF z
  <2> QED BY <1>3, GreatestIn
<1>5. n + 1 - Greatest(z) \in x
  BY <1>4
<1>6. ASSUME NEW y \in x PROVE n + 1 - Greatest(z) <= y
  <2>1. n + 1 - y \in z
    OBVIOUS
  <2>2. Greatest(z) >= n + 1 - y /\ Greatest(z) \in 1..n
    BY <1>4, <2>1
  <2> HIDE DEF z
  <2> QED BY <2>2
<1> QED BY <1>5, <1>6

\* They are together, between the first and the last.
LEMMA RowsAreTogether ==
  ASSUME Replay!ReplayConstants, NEW s, FileRows(s) # {}
  PROVE  /\ Bottom(s) \in 1..Len(File) /\ Top(s) \in 1..Len(File) /\ Bottom(s) <= Top(s)
         /\ FileRows(s) = Bottom(s)..Top(s)
         /\ Replay!RowCount(s) = Top(s) - Bottom(s) + 1
<1>1. Len(File) \in Nat /\ FileRows(s) \in SUBSET (1..Len(File))
  BY FileIsTyped DEF FileRows
<1>2. Top(s) \in FileRows(s) /\ \A i \in FileRows(s) : Top(s) >= i
  BY <1>1, GreatestIn DEF Top
<1>3. Bottom(s) \in FileRows(s) /\ \A i \in FileRows(s) : Bottom(s) <= i
  <2>1. \E m \in FileRows(s) : \A i \in FileRows(s) : m <= i
    BY <1>1, LeastIn
  <2> QED BY <2>1 DEF Bottom
<1>4. Bottom(s) \in 1..Len(File) /\ Top(s) \in 1..Len(File) /\ Bottom(s) <= Top(s)
  BY <1>1, <1>2, <1>3
<1>5. ASSUME NEW i \in Bottom(s)..Top(s) PROVE i \in FileRows(s)
  <2>1. i \in 1..Len(File) /\ (i = Bottom(s) \/ i = Top(s) \/ (Bottom(s) < i /\ i < Top(s)))
    BY <1>1, <1>4
  <2>2. CASE Bottom(s) < i /\ i < Top(s)
    <3>1. File[Bottom(s)].station = s /\ File[Top(s)].station = s
      BY <1>2, <1>3 DEF FileRows
    <3>2. File[i].station = File[Bottom(s)].station
      BY <1>4, <2>1, <2>2, <3>1 DEF Replay!ReplayConstants
    <3> QED BY <2>1, <3>1, <3>2 DEF FileRows
  <2> QED BY <1>2, <1>3, <2>1, <2>2
<1>6. FileRows(s) = Bottom(s)..Top(s)
  <2>1. ASSUME NEW i \in FileRows(s) PROVE i \in Bottom(s)..Top(s)
    <3>1. i \in 1..Len(File) /\ Bottom(s) <= i /\ i <= Top(s)
      BY <1>1, <1>2, <1>3
    <3> QED BY <1>4, <3>1
  <2> QED BY <1>5, <2>1
<1>7. Cardinality(Bottom(s)..Top(s)) = Top(s) - Bottom(s) + 1
  BY <1>4, FS_Interval
<1>8. Replay!RowCount(s) = Cardinality(FileRows(s))
  BY DEF Replay!RowCount, FileRows, Replay!Cardinality, Cardinality, Replay!IsFiniteSet, IsFiniteSet
<1> QED BY <1>4, <1>6, <1>7, <1>8

LEMMA NoRowsAreNone ==
  ASSUME NEW s, FileRows(s) = {}
  PROVE  Replay!RowCount(s) = 0
<1>1. Replay!RowCount(s) = Cardinality(FileRows(s))
  BY DEF Replay!RowCount, FileRows, Replay!Cardinality, Cardinality, Replay!IsFiniteSet, IsFiniteSet
<1> QED BY <1>1, FS_EmptySet

\* The n-th row of a station is found where its rows begin.
LEMMA RowsFollow ==
  ASSUME Replay!ReplayConstants, NEW s, FileRows(s) # {}, NEW k \in 1..Replay!RowCount(s)
  PROVE  Replay!RowOf(s, k) = Bottom(s) + k - 1
<1> DEFINE b == Bottom(s)
           UpTo(i) == {j \in 1..i : File[j].station = s}
<1>1. /\ b \in 1..Len(File) /\ Top(s) \in 1..Len(File) /\ b <= Top(s) /\ Len(File) \in Nat
      /\ FileRows(s) = b..Top(s) /\ Replay!RowCount(s) = Top(s) - b + 1
  BY RowsAreTogether, FileIsTyped
<1>2. ASSUME NEW i \in FileRows(s) PROVE Cardinality(UpTo(i)) = i - b + 1
  <2>1. i \in b..Top(s) /\ i \in 1..Len(File)
    BY <1>1, <1>2 DEF FileRows
  <2>2. ASSUME NEW j \in 1..i PROVE File[j].station = s <=> j \in b..i
    <3>1. j \in 1..Len(File)
      BY <1>1, <2>1
    <3>2. File[j].station = s <=> j \in FileRows(s)
      BY <3>1 DEF FileRows
    <3> QED BY <1>1, <2>1, <3>2
  <2>3. UpTo(i) = b..i
    BY <1>1, <2>1, <2>2
  <2>4. Cardinality(b..i) = i - b + 1
    <3>1. i \in Int /\ b \in Int /\ ~(b > i)
      BY <1>1, <2>1
    <3> QED BY <3>1, FS_Interval
  <2> QED BY <2>3, <2>4
<1>3. \A i \in 1..Len(File) : File[i].station = s /\ Cardinality(UpTo(i)) = k <=> i = b + k - 1
  <2> SUFFICES ASSUME NEW i \in 1..Len(File)
               PROVE  File[i].station = s /\ Cardinality(UpTo(i)) = k <=> i = b + k - 1
    OBVIOUS
  <2>1. File[i].station = s <=> i \in FileRows(s)
    BY DEF FileRows
  <2>2. k \in Int /\ k >= 1 /\ k <= Top(s) - b + 1
    BY <1>1
  <2>3. b + k - 1 \in FileRows(s)
    BY <1>1, <2>2
  <2> HIDE DEF b, UpTo
  <2> QED BY <1>1, <1>2, <2>1, <2>2, <2>3
<1>4. b + k - 1 \in 1..Len(File)
  BY <1>1
<1>5. Replay!RowOf(s, k) = CHOOSE i \in 1..Len(File) : File[i].station = s /\ Cardinality(UpTo(i)) = k
  BY DEF Replay!RowOf, Replay!Cardinality, Cardinality, Replay!IsFiniteSet, IsFiniteSet
<1> HIDE DEF b, UpTo
<1>6. Replay!RowOf(s, k) = b + k - 1
  BY <1>3, <1>4, <1>5
<1> QED BY <1>6 DEF b

LEMMA DaysGoOn ==
  ASSUME Replay!ReplayConstants, NEW s, FileRows(s) # {}, Bottom(s) # Top(s)
  PROVE  File[Bottom(s)].day # File[Top(s)].day
<1>1. /\ Bottom(s) \in 1..Len(File) /\ Top(s) \in 1..Len(File)
      /\ FileRows(s) = Bottom(s)..Top(s)
  BY RowsAreTogether
<1>2. Bottom(s) \in FileRows(s) /\ Top(s) \in FileRows(s)
  BY RowsAreTogether
<1>3. File[Bottom(s)].station = s /\ File[Top(s)].station = s
  BY <1>2 DEF FileRows
<1>4. \A j \in 1..Len(File) : File[j].station = s => j \in Bottom(s)..Top(s)
  BY <1>1 DEF FileRows
<1> QED BY <1>1, <1>3, <1>4 DEF Replay!ReplayConstants

-----------------------------------------------------------------------------
\* The last row of the last run that ends at the k-th row or before.
ReadTo(k) == Replay!Max({0} \cup {j \in 1..k : Replay!RunEnds(j)})

LEMMA ReadToIsLast ==
  ASSUME NEW k \in Nat
  PROVE  /\ ReadTo(k) \in 0..k
         /\ ReadTo(k) = 0 \/ Replay!RunEnds(ReadTo(k))
         /\ \A j \in 1..k : Replay!RunEnds(j) => j <= ReadTo(k)
<1> DEFINE Q == {j \in 1..k : Replay!RunEnds(j)}
           S == {0} \cup Q
<1>1. \E m \in S : \A y \in S : m >= y
  <2>1. CASE Q = {}
    BY <2>1
  <2>2. CASE Q # {}
    <3>1. Q \in SUBSET (1..k)
      OBVIOUS
    <3>2. Greatest(Q) \in Q /\ \A y \in Q : Greatest(Q) >= y
      <4> HIDE DEF Q
      <4> QED BY <2>2, <3>1, GreatestIn
    <3>3. Greatest(Q) >= 0
      BY <3>1, <3>2
    <3> QED BY <3>2, <3>3
  <2> QED BY <2>1, <2>2
<1>2. ReadTo(k) = CHOOSE m \in S : \A y \in S : m >= y
  BY DEF ReadTo, Replay!Max
<1>3. ReadTo(k) \in S /\ \A y \in S : ReadTo(k) >= y
  <2> HIDE DEF S
  <2> QED BY <1>1, <1>2
<1>4. S \in SUBSET (0..k) /\ \A y \in S : y = 0 \/ Replay!RunEnds(y)
  OBVIOUS
<1>5. \A j \in 1..k : Replay!RunEnds(j) => j \in S
  OBVIOUS
<1> HIDE DEF S
<1> QED BY <1>3, <1>4, <1>5

LEMMA NextRun ==
  ASSUME NEW k \in Nat
  PROVE  /\ ReadTo(0) = 0
         /\ Replay!RunStart(k + 1) = ReadTo(k) + 1
         /\ ReadTo(k + 1) = IF Replay!RunEnds(k + 1) THEN k + 1 ELSE ReadTo(k)
<1>1. ReadTo(0) = 0
  BY ReadToIsLast
<1>2. Replay!RunStart(k + 1) = ReadTo(k) + 1
  <2>1. 1..((k + 1) - 1) = 1..k
    OBVIOUS
  <2> QED BY <2>1 DEF Replay!RunStart, ReadTo
<1>3. ReadTo(k + 1) = IF Replay!RunEnds(k + 1) THEN k + 1 ELSE ReadTo(k)
  <2>1. /\ ReadTo(k) \in 0..k
        /\ ReadTo(k) = 0 \/ Replay!RunEnds(ReadTo(k))
        /\ \A j \in 1..k : Replay!RunEnds(j) => j <= ReadTo(k)
    BY ReadToIsLast
  <2>2. /\ ReadTo(k + 1) \in 0..(k + 1)
        /\ ReadTo(k + 1) = 0 \/ Replay!RunEnds(ReadTo(k + 1))
        /\ \A j \in 1..(k + 1) : Replay!RunEnds(j) => j <= ReadTo(k + 1)
    BY ReadToIsLast
  <2>3. CASE Replay!RunEnds(k + 1)
    <3>1. k + 1 <= ReadTo(k + 1)
      BY <2>2, <2>3
    <3> QED BY <2>2, <2>3, <3>1
  <2>4. CASE ~Replay!RunEnds(k + 1)
    <3>1. ReadTo(k + 1) # k + 1 
      BY <2>2, <2>4
    <3>2. ReadTo(k + 1) \in 0..k
      BY <2>2, <3>1
    <3>3. ReadTo(k + 1) <= ReadTo(k)
      BY <2>1, <2>2, <3>2
    <3>4. ReadTo(k) <= ReadTo(k + 1)
      BY <2>1, <2>2
    <3> QED BY <2>1, <2>2, <2>4, <3>3, <3>4
  <2> QED BY <2>3, <2>4
<1> QED BY <1>1, <1>2, <1>3

\* Where a chunk ends.
LEMMA ChunksEnd ==
  ASSUME Replay!ReplayConstants, NEW i \in 1..Len(File)
  PROVE  /\ Replay!ChunkEnd(i) \in i..Len(File)
         /\ Replay!RunEnds(Replay!ChunkEnd(i))
         /\ \A j \in i..Len(File) : j % Chunk = 0 => Replay!ChunkEnd(i) <= j
<1> DEFINE D == {j \in i..Len(File) : j = Len(File) \/ j % Chunk = 0}
<1>1. Len(File) \in Nat /\ D \in SUBSET (1..Len(File)) /\ Len(File) \in D
  BY FileIsTyped
<1>2. \E m \in D : \A y \in D : m <= y
  <2> HIDE DEF D
  <2> QED BY <1>1, LeastIn
<1>3. Replay!ChunkEnd(i) = CHOOSE m \in D : \A y \in D : m <= y
  BY DEF Replay!ChunkEnd, Replay!Min
<1>4. Replay!ChunkEnd(i) \in D /\ \A y \in D : Replay!ChunkEnd(i) <= y
  <2> HIDE DEF D
  <2> QED BY <1>2, <1>3
<1> QED BY <1>4 DEF Replay!RunEnds

\* A run is of one station, and within a chunk.
LEMMA RunIsOfStation ==
  ASSUME Replay!ReplayConstants, NEW k \in Nat, k + 1 <= Len(File), Replay!RunEnds(k + 1),
         NEW from, from = ReadTo(k) + 1, NEW s, s = File[from].station
  PROVE  /\ from \in 1..(k + 1) /\ from \in 1..Len(File)
         /\ FileRows(s) # {} /\ Bottom(s) <= from /\ k + 1 <= Top(s)
         /\ Replay!ChunkEnd(from) \in (k + 1)..Len(File)
         /\ k + 1 < Top(s) => Replay!ChunkEnd(from) = k + 1
         /\ from = Bottom(s) \/ Bottom(s) <= ReadTo(k)
<1>1. /\ ReadTo(k) \in 0..k
      /\ \A j \in 1..k : Replay!RunEnds(j) => j <= ReadTo(k)
  BY ReadToIsLast
<1>2. Len(File) \in Nat /\ from \in 1..(k + 1) /\ from \in 1..Len(File)
  BY <1>1, FileIsTyped
<1>3. from \in FileRows(s) /\ FileRows(s) # {}
  BY <1>2 DEF FileRows
<1>4. /\ Bottom(s) \in 1..Len(File) /\ Top(s) \in 1..Len(File) /\ Bottom(s) <= Top(s)
      /\ FileRows(s) = Bottom(s)..Top(s)
  BY <1>3, RowsAreTogether
<1>5. Bottom(s) <= from /\ from <= Top(s)
  BY <1>3, <1>4
<1>6. k + 1 <= Top(s)
  <2> SUFFICES ASSUME Top(s) <= k PROVE FALSE
    BY <1>4
  <2>1. Top(s) + 1 \in 1..Len(File) /\ Top(s) + 1 \notin FileRows(s) /\ Top(s) \in FileRows(s)
    BY <1>2, <1>4
  <2>2. File[Top(s)].station # File[Top(s) + 1].station
    BY <2>1 DEF FileRows
  <2>3. Replay!RunEnds(Top(s))
    BY <2>2 DEF Replay!RunEnds
  <2> QED BY <1>1, <1>4, <1>5, <2>3
<1>7. /\ Replay!ChunkEnd(from) \in from..Len(File)
      /\ Replay!RunEnds(Replay!ChunkEnd(from))
      /\ \A j \in from..Len(File) : j % Chunk = 0 => Replay!ChunkEnd(from) <= j
  BY <1>2, ChunksEnd
<1>8. Replay!ChunkEnd(from) >= k + 1
  BY <1>1, <1>2, <1>7
<1>9. ASSUME k + 1 < Top(s) PROVE Replay!ChunkEnd(from) = k + 1
  <2>1. k + 1 \in FileRows(s) /\ k + 2 \in FileRows(s)
    BY <1>2, <1>4, <1>5, <1>9
  <2>2. File[k + 1].station = File[(k + 1) + 1].station
    <3>1. (k + 1) + 1 = k + 2
      OBVIOUS
    <3> QED BY <2>1, <3>1 DEF FileRows
  <2>3. k + 1 # Len(File)
    BY <1>4, <1>9
  <2>4. (k + 1) % Chunk = 0
    BY <2>2, <2>3 DEF Replay!RunEnds
  <2> QED BY <1>2, <1>7, <1>8, <2>4
<1>10. from = Bottom(s) \/ Bottom(s) <= ReadTo(k)
  BY <1>1, <1>4, <1>5
<1> QED BY <1>2, <1>3, <1>4, <1>5, <1>6, <1>7, <1>8, <1>9, <1>10

-----------------------------------------------------------------------------
\* The index of the file, row by row.
Known == [start : Int, count : Int, buffer : Seq(Int), cursor : Int]
Knowns == [Replay!Named -> Known]

Numbered == [i \in 1..Len(File) |-> i]

LEMMA FileIsNumbered ==
  ASSUME Replay!ReplayConstants
  PROVE  /\ Numbered \in Seq(1..Len(File)) /\ Len(Numbered) = Len(File)
         /\ DOMAIN Numbered = 1..Len(File) /\ \A i \in 1..Len(File) : Numbered[i] = i
<1>1. Len(File) \in Nat
  BY FileIsTyped
<1> QED BY <1>1 DEF Numbered

LEMMA PartsAreSequences ==
  ASSUME NEW m \in Int, NEW a \in Int
  PROVE  LET part == [i \in 1..m |-> a + i - 1]
         IN  /\ part \in Seq(Int)
             /\ Len(part) = IF m < 0 THEN 0 ELSE m
             /\ \A i \in 1..m : part[i] = a + i - 1
<1> DEFINE part == [i \in 1..m |-> a + i - 1]
           l == IF m < 0 THEN 0 ELSE m
<1>1. l \in Nat /\ 1..m = 1..l
  OBVIOUS
<1>2. part = [i \in 1..l |-> a + i - 1]
  BY <1>1
<1> HIDE DEF l
<1>3. [i \in 1..l |-> a + i - 1] \in Seq(Int) /\ Len([i \in 1..l |-> a + i - 1]) = l
  BY <1>1
<1>4. part \in Seq(Int) /\ Len(part) = l
  <2> HIDE DEF part
  <2> QED BY <1>2, <1>3
<1> QED BY <1>4 DEF l

LEMMA ReadsTyped ==
  ASSUME Replay!ReplayConstants, NEW known \in Knowns, NEW i \in 1..Len(File)
  PROVE  Replay!ReadRow(known, i) \in Knowns
<1> DEFINE from == Replay!RunStart(i)
           s == File[from].station
           length == i - from + 1
           old == known[s]
           room == Window - Len(old.buffer)
           taken == Replay!Least(room, Replay!ChunkEnd(from) - from + 1)
           part == [j \in 1..taken |-> from + j - 1]
           new == [start  |-> IF old.count = 0 THEN from - 1 ELSE old.start,
                   count  |-> old.count + length,
                   buffer |-> old.buffer \o part,
                   cursor |-> old.cursor + Replay!Least(room, length)]
<1>1. Len(File) \in Nat /\ Window \in Nat
  BY FileIsTyped
<1>2. from \in 1..i
  <2>1. i - 1 \in Nat /\ (i - 1) + 1 = i
    BY <1>1
  <2>2. Replay!RunStart((i - 1) + 1) = ReadTo(i - 1) + 1 /\ ReadTo(i - 1) \in 0..(i - 1)
    <3> HIDE DEF from
    <3> QED BY <2>1, NextRun, ReadToIsLast
  <2> HIDE DEF from
  <2>3. Replay!RunStart(i) = ReadTo(i - 1) + 1
    BY <2>1, <2>2
  <2> QED BY <2>1, <2>2, <2>3 DEF from
<1> HIDE DEF from
<1>3. from \in 1..Len(File) /\ s \in Replay!Named
  BY <1>1, <1>2 DEF Replay!Named
<1>4. old \in Known
  <2> HIDE DEF s
  <2> QED BY <1>3 DEF Knowns
<1> HIDE DEF s
<1>5. old.start \in Int /\ old.count \in Int /\ old.buffer \in Seq(Int) /\ old.cursor \in Int
  BY <1>4 DEF Known
<1>6. Replay!ChunkEnd(from) \in Int
  BY <1>3, ChunksEnd
<1>7. length \in Int /\ room \in Int /\ taken \in Int /\ Replay!Least(room, length) \in Int
  BY <1>1, <1>2, <1>5, <1>6 DEF Replay!Least
<1>8. part \in Seq(Int)
  <2>1. from \in Int
    BY <1>2
  <2> HIDE DEF taken
  <2> QED BY <1>7, <2>1, PartsAreSequences
<1>9. old.buffer \o part \in Seq(Int)
  <2> HIDE DEF part, old
  <2> QED BY <1>5, <1>8
<1>10. new \in Known
  <2> HIDE DEF old, part, length, room
  <2> QED BY <1>2, <1>5, <1>7, <1>9 DEF Known
<1>11. Replay!ReadRow(known, i) = IF Replay!RunEnds(i) THEN [known EXCEPT ![s] = new] ELSE known
  BY DEF Replay!ReadRow, Replay!AddRun, from, s
<1> HIDE DEF new
<1>12. [known EXCEPT ![s] = new] \in Knowns
  BY <1>3, <1>10 DEF Knowns
<1> QED BY <1>11, <1>12

\* What FoldLeft chooses for Index.
Reading ==
    CHOOSE iter : iter = [x \in SUBSET (DOMAIN Numbered) |->
         IF x = {} THEN Replay!Unread ELSE Replay!ReadRow(iter[x \ {Greatest(x)}], Numbered[Greatest(x)])]

ReadUpTo(k) == Reading[1..k]

LEMMA UnreadIsTyped == Replay!Unread \in Knowns
<1>1. <<>> \in Seq(Int)
  OBVIOUS
<1> QED BY <1>1 DEF Replay!Unread, Knowns, Known

LEMMA ReadingExists ==
  ASSUME Replay!ReplayConstants
  PROVE  Reading = [x \in SUBSET (DOMAIN Numbered) |->
           IF x = {} THEN Replay!Unread
           ELSE Replay!ReadRow(Reading[x \ {Greatest(x)}], Numbered[Greatest(x)])]
<1> DEFINE E == 1..Len(File)
           F == [e \in E |-> [v \in Knowns |-> Replay!ReadRow(v, e)]]
           n == Len(File)
<1>1. \A v \in Knowns, e \in E : F[e][v] = Replay!ReadRow(v, e) /\ F[e][v] \in Knowns
  BY ReadsTyped
<1>2. /\ Numbered \in Seq(E) /\ Len(Numbered) = n /\ n \in Nat /\ DOMAIN Numbered = 1..n
      /\ \A i \in 1..n : Numbered[i] = i
  BY FileIsNumbered, FileIsTyped
<1>3. CanFold(Knowns, F, Replay!Unread, Numbered, n)
  <2> HIDE DEF F, E
  <2> QED BY <1>1, <1>2, FoldExists, UnreadIsTyped
<1>4. PICK h \in [SUBSET (1..n) -> Knowns] : FoldsOver(h, F, Replay!Unread, Numbered, n)
  <2> HIDE DEF F
  <2> QED BY <1>3 DEF CanFold
<1>5. ASSUME NEW x \in SUBSET (1..n)
      PROVE  h[x] = IF x = {} THEN Replay!Unread
                    ELSE Replay!ReadRow(h[x \ {Greatest(x)}], Numbered[Greatest(x)])
  <2> HIDE DEF F
  <2>1. h[x] = IF x = {} THEN Replay!Unread ELSE F[Numbered[Greatest(x)]][h[x \ {Greatest(x)}]]
    BY <1>4 DEF FoldsOver
  <2>2. ASSUME x # {} PROVE h[x] = Replay!ReadRow(h[x \ {Greatest(x)}], Numbered[Greatest(x)])
    <3>1. Greatest(x) \in 1..n
      BY <1>2, <2>2, GreatestIn
    <3>2. Numbered[Greatest(x)] \in E
      BY <1>2, <3>1
    <3>3. x \ {Greatest(x)} \in SUBSET (1..n)
      OBVIOUS
    <3>4. h[x \ {Greatest(x)}] \in Knowns
      BY <3>3
    <3> HIDE DEF E, n
    <3> QED BY <1>1, <2>1, <2>2, <3>2, <3>4
  <2> QED BY <2>1, <2>2
<1>6. h = [x \in SUBSET (DOMAIN Numbered) |->
             IF x = {} THEN Replay!Unread ELSE Replay!ReadRow(h[x \ {Greatest(x)}], Numbered[Greatest(x)])]
  <2> HIDE DEF n
  <2> QED BY <1>2, <1>5
<1> QED BY <1>6 DEF Reading

\* One more position is the greatest of them.
LEMMA OneMore ==
  ASSUME NEW k \in Nat
  PROVE  1..(k + 1) # {} /\ Greatest(1..(k + 1)) = k + 1 /\ 1..(k + 1) \ {k + 1} = 1..k
<1> DEFINE x == 1..(k + 1)
<1>1. x \in SUBSET (1..(k + 1)) /\ k + 1 \in Nat /\ k + 1 \in x /\ x # {} /\ x \ {k + 1} = 1..k
  OBVIOUS
<1>2. Greatest(x) \in x /\ Greatest(x) >= k + 1
  <2> HIDE DEF x
  <2> QED BY <1>1, GreatestIn
<1>3. Greatest(x) = k + 1
  BY <1>2
<1> QED BY <1>1, <1>3

LEMMA FileIsRead ==
  ASSUME Replay!ReplayConstants
  PROVE  /\ ReadUpTo(0) = Replay!Unread
         /\ \A k \in Nat : k + 1 <= Len(File) => ReadUpTo(k + 1) = Replay!ReadRow(ReadUpTo(k), k + 1)
         /\ Replay!Index = ReadUpTo(Len(File))
<1> DEFINE n == Len(File)
<1>1. n \in Nat /\ DOMAIN Numbered = 1..n /\ \A i \in 1..n : Numbered[i] = i
  BY FileIsNumbered, FileIsTyped
<1>2. ASSUME NEW x \in SUBSET (1..n)
      PROVE  Reading[x] = IF x = {} THEN Replay!Unread
                          ELSE Replay!ReadRow(Reading[x \ {Greatest(x)}], Numbered[Greatest(x)])
  <2> HIDE DEF n
  <2> QED BY <1>1, ReadingExists
<1>3. ReadUpTo(0) = Replay!Unread
  <2>1. 1..0 = {} /\ {} \in SUBSET (1..n)
    OBVIOUS
  <2> QED BY <1>2, <2>1 DEF ReadUpTo
<1>4. ASSUME NEW k \in Nat, k + 1 <= n
      PROVE  ReadUpTo(k + 1) = Replay!ReadRow(ReadUpTo(k), k + 1)
  <2> DEFINE x == 1..(k + 1)
  <2>1. x \in SUBSET (1..n) /\ k + 1 \in 1..n
    BY <1>1, <1>4
  <2>2. x # {} /\ Greatest(x) = k + 1 /\ x \ {k + 1} = 1..k
    BY OneMore
  <2> HIDE DEF x, n
  <2>3. Reading[x] = Replay!ReadRow(Reading[1..k], k + 1)
    BY <1>1, <1>2, <2>1, <2>2
  <2> QED BY <2>3 DEF x, ReadUpTo
<1>5. Replay!Index = Reading[DOMAIN Numbered]
  BY DEF Replay!Index, Replay!FoldLeft, Replay!MapThenFoldSet, Reading, Replay!Max, Greatest, Numbered
<1> QED BY <1>1, <1>3, <1>4, <1>5 DEF ReadUpTo

-----------------------------------------------------------------------------
\* What is known of a station when the file has been read to row e: its rows so far are counted,
\* and the first of them are in the buffer. Foreign rows follow only after its last.
GatheredTo(s, e, r) ==
  IF FileRows(s) = {} \/ e < Bottom(s)
  THEN r = [start |-> 0, count |-> 0, buffer |-> <<>>, cursor |-> 0]
  ELSE /\ r.start = Bottom(s) - 1
       /\ r.count = Replay!Least(e, Top(s)) - Bottom(s) + 1
       /\ r.cursor = Replay!Least(Window, r.count)
       /\ r.cursor <= Len(r.buffer) /\ Len(r.buffer) <= Window
       /\ Bottom(s) + Len(r.buffer) - 1 <= Len(File)
       /\ e < Top(s) => Len(r.buffer) = r.cursor
       /\ \A i \in 1..Len(r.buffer) : r.buffer[i] = Bottom(s) + i - 1

\* The run of another station changes nothing for a station.
LEMMA OthersStay ==
  ASSUME Replay!ReplayConstants, NEW k \in Nat, k + 1 <= Len(File), Replay!RunEnds(k + 1),
         NEW s, s = File[ReadTo(k) + 1].station, NEW t, t # s, NEW r, GatheredTo(t, ReadTo(k), r)
  PROVE  GatheredTo(t, k + 1, r)
<1> DEFINE e == ReadTo(k)
           from == e + 1
<1>1. /\ from \in 1..(k + 1) /\ FileRows(s) # {} /\ Bottom(s) <= from /\ k + 1 <= Top(s)
  BY RunIsOfStation
<1>2. e \in 0..k
  BY ReadToIsLast
<1>3. CASE FileRows(t) = {}
  BY <1>3 DEF GatheredTo
<1>4. CASE FileRows(t) # {}
  <2>1. /\ Bottom(s) \in 1..Len(File) /\ Top(s) \in 1..Len(File)
        /\ FileRows(s) = Bottom(s)..Top(s)
    BY <1>1, RowsAreTogether
  <2>2. /\ Bottom(t) \in 1..Len(File) /\ Top(t) \in 1..Len(File) /\ Bottom(t) <= Top(t)
        /\ FileRows(t) = Bottom(t)..Top(t)
    BY <1>4, RowsAreTogether
  <2>3. FileRows(s) \cap FileRows(t) = {}
    BY DEF FileRows
  <2>4. \A i \in from..(k + 1) : i \in FileRows(s)
    BY <1>1, <1>2, <2>1
  <2>5. \A i \in from..(k + 1) : i < Bottom(t) \/ Top(t) < i
    BY <1>1, <1>2, <2>2, <2>3, <2>4
  <2>6. ~(Bottom(t) \in from..(k + 1)) /\ ~(Top(t) \in from..(k + 1))
    BY <2>2, <2>5
  <2>7. CASE e < Bottom(t)
    <3>1. k + 1 < Bottom(t)
      BY <1>1, <1>2, <2>2, <2>6, <2>7
    <3> QED BY <2>7, <3>1 DEF GatheredTo
  <2>8. CASE Bottom(t) <= e
    <3>1. Top(t) < from
      BY <1>1, <1>2, <2>2, <2>5, <2>8
    <3>2. /\ ~(e < Bottom(t)) /\ ~(k + 1 < Bottom(t)) /\ Top(t) <= e /\ Top(t) <= k + 1
          /\ ~(e < Top(t)) /\ ~(k + 1 < Top(t))
      BY <1>1, <1>2, <2>2, <2>8, <3>1
    <3>3. Replay!Least(e, Top(t)) = Replay!Least(k + 1, Top(t))
      BY <1>2, <2>2, <3>2 DEF Replay!Least
    <3> HIDE DEF from
    <3> QED BY <1>4, <3>2, <3>3 DEF GatheredTo
  <2> QED BY <1>2, <2>2, <2>7, <2>8
<1> QED BY <1>3, <1>4

\* How many rows a run of from..to adds to a buffer with m of the rows b, b + 1, ..., when the
\* chunk ends at end.
Rooms(b, from, to, end, m, taken) ==
  /\ m \in Nat /\ taken \in Nat
  /\ m + Replay!Least(Window - m, to - from + 1) = Replay!Least(Window, to - b + 1)
  /\ Replay!Least(Window, to - b + 1) <= m + taken /\ m + taken <= Window
  /\ b + (m + taken) - 1 <= end
  /\ end = to => m + taken = Replay!Least(Window, to - b + 1)
  /\ taken > 0 => m = from - b

LEMMA RoomsAdd ==
  ASSUME NEW b \in Nat, NEW from \in Nat, b <= from, NEW to \in Nat, from <= to, NEW end \in Nat, to <= end,
         Window \in Nat \ {0}, NEW m, m = Replay!Least(Window, from - b),
         NEW taken, taken = Replay!Least(Window - m, end - from + 1)
  PROVE  Rooms(b, from, to, end, m, taken)
<1>1. CASE Window < from - b
  BY <1>1 DEF Replay!Least, Rooms
<1>2. CASE ~(Window < from - b)
  BY <1>2 DEF Replay!Least, Rooms
<1> QED BY <1>1, <1>2

LEMMA Joined ==
  ASSUME NEW q \in Seq(Int), NEW r \in Seq(Int)
  PROVE  /\ Len(q \o r) = Len(q) + Len(r)
         /\ \A i \in 1..Len(q) : (q \o r)[i] = q[i]
         /\ \A i \in 1..(Len(q) + Len(r)) : i > Len(q) => (q \o r)[i] = r[i - Len(q)]
OBVIOUS

\* A run of a station goes on where the one before it ended.
LEMMA RunGathers ==
  ASSUME Replay!ReplayConstants, NEW k \in Nat, k + 1 <= Len(File), Replay!RunEnds(k + 1),
         NEW known \in Knowns, NEW from, from = ReadTo(k) + 1, NEW s, s = File[from].station,
         GatheredTo(s, ReadTo(k), known[s])
  PROVE  GatheredTo(s, k + 1, Replay!AddRun(known, from, k + 1)[s])
<1> DEFINE e == ReadTo(k)
           length == (k + 1) - from + 1
           old == known[s]
           room == Window - Len(old.buffer)
           taken == Replay!Least(room, Replay!ChunkEnd(from) - from + 1)
           part == [j \in 1..taken |-> from + j - 1]
           new == [start  |-> IF old.count = 0 THEN from - 1 ELSE old.start,
                   count  |-> old.count + length,
                   buffer |-> old.buffer \o part,
                   cursor |-> old.cursor + Replay!Least(room, length)]
           b == Bottom(s)
           l == Top(s)
           m == Len(old.buffer)
<1>1. /\ from \in 1..(k + 1) /\ from \in 1..Len(File)
      /\ FileRows(s) # {} /\ b <= from /\ k + 1 <= l
      /\ Replay!ChunkEnd(from) \in (k + 1)..Len(File)
      /\ k + 1 < l => Replay!ChunkEnd(from) = k + 1
      /\ from = b \/ b <= e
  BY RunIsOfStation
<1>2. Len(File) \in Nat /\ Window \in Nat \ {0} /\ e \in 0..k /\ from = e + 1
  BY FileIsTyped, ReadToIsLast
<1>3. b \in 1..Len(File) /\ l \in 1..Len(File) /\ b <= l
  BY <1>1, RowsAreTogether
<1>4. s \in Replay!Named
  BY <1>1 DEF Replay!Named
<1>5. old \in Known
  BY <1>4 DEF Knowns
<1>6. /\ old.start \in Int /\ old.count \in Int /\ old.buffer \in Seq(Int) /\ old.cursor \in Int
      /\ m \in Nat
  BY <1>5 DEF Known
<1>7. Replay!AddRun(known, from, k + 1)[s] = new
  <2>1. Replay!AddRun(known, from, k + 1) = [known EXCEPT ![s] = new]
    BY DEF Replay!AddRun
  <2> HIDE DEF new
  <2> QED BY <1>4, <2>1 DEF Knowns
\* What was known: nothing, or all of the rows before this run.
<1>8. /\ from = b => old.count = 0 /\ old.cursor = 0 /\ m = 0
      /\ from # b => /\ old.start = b - 1 /\ old.count = e - b + 1
                     /\ old.cursor = Replay!Least(Window, old.count) /\ m = old.cursor
                     /\ b + m - 1 <= Len(File)
      /\ \A i \in 1..m : old.buffer[i] = b + i - 1
  <2>1. CASE from = b
    <3>1. old = [start |-> 0, count |-> 0, buffer |-> <<>>, cursor |-> 0]
      <4>1. e < b
        BY <1>2, <2>1
      <4> QED BY <4>1 DEF GatheredTo
    <3>2. m = 0
      BY <3>1
    <3> QED BY <2>1, <3>1, <3>2
  <2>2. CASE from # b
    <3>1. /\ ~(e < b) /\ e < l /\ Replay!Least(e, l) = e
      BY <1>1, <1>2, <1>3, <2>2 DEF Replay!Least
    <3>2. /\ old.start = b - 1
          /\ old.count = Replay!Least(e, l) - b + 1
          /\ old.cursor = Replay!Least(Window, old.count)
          /\ m = old.cursor /\ b + m - 1 <= Len(File)
          /\ \A i \in 1..m : old.buffer[i] = b + i - 1
      BY <1>1, <3>1 DEF GatheredTo
    <3> HIDE DEF old, b, l, m, e
    <3> QED BY <2>2, <3>1, <3>2
  <2> QED BY <2>1, <2>2
<1>9. old.count = from - b /\ m = Replay!Least(Window, from - b) /\ old.cursor = m
  <2>1. CASE from = b
    <3>1. Replay!Least(Window, 0) = 0 /\ from - b = 0
      BY <1>2, <1>3, <2>1 DEF Replay!Least
    <3> HIDE DEF old, m
    <3> QED BY <1>8, <2>1, <3>1
  <2>2. CASE from # b
    <3>1. old.count = e - b + 1 /\ old.cursor = Replay!Least(Window, old.count) /\ m = old.cursor
      BY <1>8, <2>2
    <3>2. e - b + 1 = from - b
      BY <1>2, <1>3
    <3> HIDE DEF old, m, e, b
    <3> QED BY <3>1, <3>2
  <2> QED BY <2>1, <2>2
<1>10. /\ taken \in Nat
       /\ m + Replay!Least(room, length) = Replay!Least(Window, (k + 1) - b + 1)
       /\ Replay!Least(Window, (k + 1) - b + 1) <= m + taken /\ m + taken <= Window
       /\ b + (m + taken) - 1 <= Len(File)
       /\ k + 1 < l => m + taken = Replay!Least(Window, (k + 1) - b + 1)
       /\ taken > 0 => m = from - b
  <2> DEFINE end == Replay!ChunkEnd(from)
  <2>1. b \in Nat /\ from \in Nat /\ k + 1 \in Nat /\ end \in Nat /\ from <= k + 1 /\ k + 1 <= end
        /\ end <= Len(File)
    BY <1>1, <1>2, <1>3
  <2> HIDE DEF b, l, end, m
  <2>2. m = Replay!Least(Window, from - b) /\ taken = Replay!Least(Window - m, end - from + 1)
    BY <1>9 DEF m, end
  <2> HIDE DEF taken
  <2> DEFINE to == k + 1
  <2>7. /\ b \in Nat /\ from \in Nat /\ to \in Nat /\ end \in Nat /\ b <= from /\ from <= to /\ to <= end
        /\ Window \in Nat \ {0}
    BY <1>1, <1>2, <2>1 DEF b
  <2> HIDE DEF to
  <2>8. /\ m \in Nat /\ taken \in Nat
        /\ m + Replay!Least(Window - m, to - from + 1) = Replay!Least(Window, to - b + 1)
        /\ Replay!Least(Window, to - b + 1) <= m + taken /\ m + taken <= Window
        /\ b + (m + taken) - 1 <= end
        /\ end = to => m + taken = Replay!Least(Window, to - b + 1)
        /\ taken > 0 => m = from - b
    <3>1. b \in Nat /\ from \in Nat /\ to \in Nat /\ end \in Nat
      BY <2>7
    <3>2. b <= from /\ from <= to /\ to <= end
      BY <2>7
    <3>3. Window \in Nat \ {0}
      BY <2>7
    <3>4. Rooms(b, from, to, end, m, taken)
      BY <2>2, <3>1, <3>2, <3>3, RoomsAdd
    <3> QED BY <3>4 DEF Rooms
  <2>3. /\ m \in Nat /\ taken \in Nat
        /\ m + Replay!Least(Window - m, (k + 1) - from + 1) = Replay!Least(Window, (k + 1) - b + 1)
        /\ Replay!Least(Window, (k + 1) - b + 1) <= m + taken /\ m + taken <= Window
        /\ b + (m + taken) - 1 <= end
        /\ end = k + 1 => m + taken = Replay!Least(Window, (k + 1) - b + 1)
        /\ taken > 0 => m = from - b
    BY <2>8 DEF to
  <2>4. room = Window - m
    BY DEF m
  <2>5. b + (m + taken) - 1 <= Len(File)
    <3> DEFINE n == Len(File)
               reach == b + (m + taken) - 1
    <3>1. /\ n \in Int /\ end \in Int /\ reach \in Int
          /\ reach <= end /\ end <= n
      BY <1>2, <2>1, <2>3
    <3> HIDE DEF n, reach, end
    <3>2. reach <= n
      BY <3>1
    <3> QED BY <3>2 DEF reach, n
  <2>6. k + 1 < l => end = k + 1
    BY <1>1 DEF end, l
  <2> HIDE DEF room
  <2> QED BY <2>3, <2>4, <2>5, <2>6
<1>11. /\ part \in Seq(Int) /\ Len(part) = taken /\ \A j \in 1..taken : part[j] = from + j - 1
  <2>1. taken \in Int /\ from \in Int /\ ~(taken < 0)
    BY <1>1, <1>10
  <2> HIDE DEF taken
  <2> QED BY <2>1, PartsAreSequences
<1> DEFINE more == old.buffer \o part
<1>12. /\ Len(more) = m + taken
       /\ \A i \in 1..m : more[i] = old.buffer[i]
       /\ \A i \in 1..(m + taken) : i > m => more[i] = part[i - m]
  <2> HIDE DEF taken, part, old
  <2> QED BY <1>6, <1>11, Joined
<1> HIDE DEF part, taken
<1>13. ASSUME NEW i \in 1..Len(more) PROVE more[i] = b + i - 1
  <2>1. CASE i \in 1..m
    <3> HIDE DEF more, m, old, b
    <3> QED BY <1>8, <1>12, <2>1
  <2>2. CASE i > m
    <3>1. i \in 1..(m + taken) /\ i - m \in 1..taken
      <4> HIDE DEF more, m
      <4> QED BY <1>6, <1>10, <1>12, <2>2
    <3>2. more[i] = from + (i - m) - 1
      <4> HIDE DEF more, m
      <4> QED BY <1>11, <1>12, <2>2, <3>1
    <3>3. m = from - b
      <4> HIDE DEF m, b
      <4> QED BY <1>10, <3>1
    <3> HIDE DEF m, b, more
    <3> QED BY <1>1, <1>3, <3>1, <3>2, <3>3
  <2>3. i \in 1..m \/ i > m
    <3> HIDE DEF more, m
    <3> QED BY <1>6, <1>10, <1>12
  <2> QED BY <2>1, <2>2, <2>3
<1>14. ~(FileRows(s) = {} \/ k + 1 < b) /\ Replay!Least(k + 1, l) = k + 1
  BY <1>1, <1>2, <1>3 DEF Replay!Least
<1>15. (IF old.count = 0 THEN from - 1 ELSE old.start) = b - 1
  <2>1. CASE from = b
    <3>1. old.count = 0
      BY <1>8, <2>1
    <3> QED BY <2>1, <3>1
  <2>2. CASE from # b
    <3>1. old.start = b - 1
      BY <1>8, <2>2
    <3>2. from - b # 0
      BY <1>1, <1>3, <2>2
    <3>3. old.count # 0
      BY <1>9, <3>2
    <3> QED BY <3>1, <3>3
  <2> QED BY <2>1, <2>2
<1>16. old.count + length = (k + 1) - b + 1
  <2>1. (from - b) + length = (k + 1) - b + 1
    BY <1>1, <1>3
  <2> QED BY <1>9, <2>1
<1>17. old.cursor + Replay!Least(room, length) = Replay!Least(Window, (k + 1) - b + 1)
  <2> HIDE DEF old, room, length, b
  <2> QED BY <1>9, <1>10
<1>18. GatheredTo(s, k + 1, [start |-> b - 1, count |-> (k + 1) - b + 1, buffer |-> more,
                             cursor |-> Replay!Least(Window, (k + 1) - b + 1)])
  <2> DEFINE c == (k + 1) - b + 1
             r == [start |-> b - 1, count |-> c, buffer |-> more, cursor |-> Replay!Least(Window, c)]
  <2> HIDE DEF more, m
  <2>1. r.start = b - 1 /\ r.count = c /\ r.buffer = more /\ r.cursor = Replay!Least(Window, c)
    OBVIOUS
  <2>2. /\ r.cursor <= Len(more) /\ Len(more) <= Window /\ b + Len(more) - 1 <= Len(File)
        /\ k + 1 < l => Len(more) = r.cursor
    <3> HIDE DEF r
    <3> QED BY <1>10, <1>12, <2>1
  <2> HIDE DEF r, c
  <2>3. /\ ~(FileRows(s) = {} \/ k + 1 < Bottom(s))
        /\ r.start = Bottom(s) - 1
        /\ r.count = Replay!Least(k + 1, Top(s)) - Bottom(s) + 1
    BY <1>14, <2>1 DEF c
  <2>4. /\ r.cursor = Replay!Least(Window, r.count)
        /\ r.cursor <= Len(r.buffer) /\ Len(r.buffer) <= Window
        /\ Bottom(s) + Len(r.buffer) - 1 <= Len(File)
        /\ k + 1 < Top(s) => Len(r.buffer) = r.cursor
        /\ \A i \in 1..Len(r.buffer) : r.buffer[i] = Bottom(s) + i - 1
    BY <1>13, <2>1, <2>2
  <2>5. GatheredTo(s, k + 1, r)
    BY <2>3, <2>4 DEF GatheredTo
  <2> QED BY <2>5 DEF r, c
<1>19. new = [start |-> b - 1, count |-> (k + 1) - b + 1, buffer |-> more,
              cursor |-> Replay!Least(Window, (k + 1) - b + 1)]
  <2> HIDE DEF more, b, length, room, old
  <2> QED BY <1>15, <1>16, <1>17 DEF more
<1> QED BY <1>7, <1>18, <1>19

\* The index of the file: where the rows of a station begin, how many they are, and the first of them.
LEMMA IndexIsRight ==
  ASSUME Replay!ReplayConstants, NEW s \in Replay!Named
  PROVE  /\ Replay!Index \in Knowns
         /\ GatheredTo(s, Len(File), Replay!Index[s])
<1> DEFINE Right(k) == ReadUpTo(k) \in Knowns /\ \A t \in Replay!Named : GatheredTo(t, ReadTo(k), ReadUpTo(k)[t])
           S == {k \in Nat : k <= Len(File) => Right(k)}
<1>1. Len(File) \in Nat
  BY FileIsTyped
<1>2. 0 \in S
  <2>1. ReadUpTo(0) = Replay!Unread /\ ReadTo(0) = 0
    BY FileIsRead, NextRun
  <2>2. ASSUME NEW t \in Replay!Named PROVE GatheredTo(t, 0, Replay!Unread[t])
    <3>1. FileRows(t) # {} => 0 < Bottom(t)
      BY RowsAreTogether
    <3> QED BY <3>1 DEF GatheredTo, Replay!Unread
  <2>3. Right(0)
    BY <2>1, <2>2, UnreadIsTyped
  <2> HIDE DEF Right
  <2> QED BY <2>3
<1>3. ASSUME NEW k \in Nat, k \in S PROVE k + 1 \in S
  <2> SUFFICES ASSUME k + 1 <= Len(File) PROVE Right(k + 1)
    BY DEF Right
  <2>1. k + 1 \in 1..Len(File) /\ k <= Len(File)
    BY <1>1
  <2>2. Right(k)
    BY <1>1, <1>3, <2>1
  <2>3. ReadUpTo(k + 1) = Replay!ReadRow(ReadUpTo(k), k + 1)
    BY FileIsRead
  <2>4. ReadUpTo(k + 1) \in Knowns
    BY <2>1, <2>2, <2>3, ReadsTyped
  <2>5. CASE ~Replay!RunEnds(k + 1)
    <3>1. ReadUpTo(k + 1) = ReadUpTo(k) /\ ReadTo(k + 1) = ReadTo(k)
      BY <2>3, <2>5, NextRun DEF Replay!ReadRow
    <3> QED BY <2>2, <3>1
  <2>6. CASE Replay!RunEnds(k + 1)
    <3> DEFINE from == ReadTo(k) + 1
               t0 == File[from].station
               known == ReadUpTo(k)
    <3>1. ReadTo(k + 1) = k + 1 /\ Replay!RunStart(k + 1) = from
      BY <2>6, NextRun
    <3>2. ReadUpTo(k + 1) = Replay!AddRun(known, from, k + 1)
      BY <2>3, <2>6, <3>1 DEF Replay!ReadRow
    <3>3. from \in 1..Len(File) /\ t0 \in Replay!Named
      <4>1. from \in 1..Len(File)
        BY <2>6, RunIsOfStation
      <4> HIDE DEF from
      <4> QED BY <4>1 DEF Replay!Named
    <3>4. ASSUME NEW t \in Replay!Named PROVE GatheredTo(t, k + 1, ReadUpTo(k + 1)[t])
      <4>1. GatheredTo(t, ReadTo(k), known[t]) /\ known \in Knowns
        BY <2>2
      <4>2. CASE t = t0
        <5> HIDE DEF known
        <5>1. GatheredTo(t0, k + 1, Replay!AddRun(known, from, k + 1)[t0])
          BY <2>6, <4>1, <4>2, RunGathers
        <5> QED BY <3>2, <4>2, <5>1
      <4>3. CASE t # t0
        <5>1. Replay!AddRun(known, from, k + 1)[t] = known[t]
          <6> DEFINE X == Replay!AddRun(known, from, k + 1)[t0]
          <6>1. \E x : Replay!AddRun(known, from, k + 1) = [known EXCEPT ![t0] = x]
            BY Zenon DEF Replay!AddRun
          <6> HIDE DEF known, t0
          <6> QED BY <4>1, <4>3, <6>1 DEF Knowns
        <5>2. GatheredTo(t, k + 1, known[t])
          BY <2>6, <4>1, <4>3, OthersStay
        <5> QED BY <3>2, <5>1, <5>2
      <4> QED BY <4>2, <4>3
    <3> QED BY <2>4, <3>1, <3>4
  <2> QED BY <2>5, <2>6
<1>4. \A k \in Nat : k \in S
  <2> HIDE DEF S
  <2> QED BY <1>2, <1>3, AllNaturals
<1>5. Right(Len(File))
  BY <1>1, <1>4
<1>6. ReadTo(Len(File)) = Len(File)
  <2>1. CASE Len(File) = 0
    BY <2>1, NextRun
  <2>2. CASE Len(File) # 0
    <3>1. Len(File) - 1 \in Nat /\ (Len(File) - 1) + 1 = Len(File) /\ Replay!RunEnds(Len(File))
      BY <1>1, <2>2 DEF Replay!RunEnds
    <3>2. Replay!RunEnds((Len(File) - 1) + 1) => ReadTo((Len(File) - 1) + 1) = (Len(File) - 1) + 1
      BY <3>1, NextRun
    <3> QED BY <3>1, <3>2
  <2> QED BY <2>1, <2>2
<1> QED BY <1>5, <1>6, FileIsRead

-----------------------------------------------------------------------------
\* What the first rows of a station add up to.
RowsTo(s, n) == [k \in 1..n |-> Replay!RowOf(s, k)]

\* What FoldLeft chooses for Sum.
Adding(s, n) ==
    CHOOSE iter : iter = [x \in SUBSET (DOMAIN RowsTo(s, n)) |->
         IF x = {} THEN Replay!Nothing[s]
         ELSE Replay!AddRow(iter[x \ {Greatest(x)}], RowsTo(s, n)[Greatest(x)])]

Total(s, n) == Adding(s, n)[1..n]

LEMMA SumIsTotal ==
  ASSUME NEW s, NEW n
  PROVE  Replay!Sum(s, n) = Total(s, n).occupancy
<1>1. DOMAIN RowsTo(s, n) = 1..n
  BY DEF RowsTo
<1>2. Replay!Sum(s, n) = Adding(s, n)[DOMAIN RowsTo(s, n)].occupancy
  BY DEF Replay!Sum, Replay!FoldLeft, Replay!MapThenFoldSet, Adding, Replay!Max, Greatest, RowsTo
<1> QED BY <1>1, <1>2 DEF Total

Sums == [occupancy : Int, day : Nat]

LEMMA RowAdds ==
  ASSUME Replay!ReplayConstants, NEW sum \in Sums, NEW i \in 1..Len(File)
  PROVE  Replay!AddRow(sum, i) \in Sums
<1>1. File[i].day \in Nat /\ File[i].net \in Int /\ sum.occupancy \in Int
  BY FileIsTyped DEF Sums
<1>2. Replay!Counted(sum.occupancy, sum.day, File[i]) \in Int
  BY <1>1 DEF Replay!Counted
<1> QED BY <1>1, <1>2 DEF Replay!AddRow, Sums

LEMMA RowsToAreRows ==
  ASSUME Replay!ReplayConstants, NEW s, FileRows(s) # {}, NEW n \in Nat, n <= Replay!RowCount(s)
  PROVE  /\ RowsTo(s, n) \in Seq(1..Len(File)) /\ Len(RowsTo(s, n)) = n /\ DOMAIN RowsTo(s, n) = 1..n
         /\ \A k \in 1..n : RowsTo(s, n)[k] = Bottom(s) + k - 1
<1>1. /\ Bottom(s) \in 1..Len(File) /\ Top(s) \in 1..Len(File) /\ Len(File) \in Nat
      /\ Replay!RowCount(s) = Top(s) - Bottom(s) + 1
  BY RowsAreTogether, FileIsTyped
<1>2. ASSUME NEW k \in 1..n
      PROVE  Replay!RowOf(s, k) = Bottom(s) + k - 1 /\ Bottom(s) + k - 1 \in 1..Len(File)
  <2>1. k \in 1..Replay!RowCount(s)
    BY <1>1
  <2>2. Replay!RowOf(s, k) = Bottom(s) + k - 1
    BY <2>1, RowsFollow
  <2> QED BY <1>1, <2>2
<1>3. \A k \in 1..n : Replay!RowOf(s, k) \in 1..Len(File)
  BY <1>2
<1> QED BY <1>2, <1>3 DEF RowsTo

LEMMA AddingExists ==
  ASSUME Replay!ReplayConstants, NEW s \in Replay!Station, FileRows(s) # {}, NEW n \in Nat,
         n <= Replay!RowCount(s), NEW x \in SUBSET (1..n)
  PROVE  Adding(s, n)[x] =
           IF x = {} THEN Replay!Nothing[s]
           ELSE Replay!AddRow(Adding(s, n)[x \ {Greatest(x)}], RowsTo(s, n)[Greatest(x)])
<1> DEFINE E == 1..Len(File)
           F == [e \in E |-> [v \in Sums |-> Replay!AddRow(v, e)]]
           q == RowsTo(s, n)
           b == Replay!Nothing[s]
<1>1. \A v \in Sums, e \in E : F[e][v] = Replay!AddRow(v, e) /\ F[e][v] \in Sums
  BY RowAdds
<1>2. q \in Seq(E) /\ Len(q) = n /\ DOMAIN q = 1..n
  BY RowsToAreRows
<1>3. b \in Sums
  BY DEF Replay!Nothing, Sums, Replay!NoDay
<1> HIDE DEF q, b
<1>4. CanFold(Sums, F, b, q, n)
  <2> HIDE DEF F, E
  <2> QED BY <1>1, <1>2, <1>3, FoldExists
<1>5. PICK h \in [SUBSET (1..n) -> Sums] : FoldsOver(h, F, b, q, n)
  <2> HIDE DEF F
  <2> QED BY <1>4 DEF CanFold
<1>6. ASSUME NEW y \in SUBSET (1..n)
      PROVE  h[y] = IF y = {} THEN b ELSE Replay!AddRow(h[y \ {Greatest(y)}], q[Greatest(y)])
  <2> HIDE DEF F
  <2>1. h[y] = IF y = {} THEN b ELSE F[q[Greatest(y)]][h[y \ {Greatest(y)}]]
    BY <1>5 DEF FoldsOver
  <2>2. ASSUME y # {} PROVE h[y] = Replay!AddRow(h[y \ {Greatest(y)}], q[Greatest(y)])
    <3>1. Greatest(y) \in 1..n
      BY <2>2, GreatestIn
    <3>2. q[Greatest(y)] \in E
      BY <1>2, <3>1
    <3>3. y \ {Greatest(y)} \in SUBSET (1..n)
      OBVIOUS
    <3>4. h[y \ {Greatest(y)}] \in Sums
      BY <3>3
    <3> HIDE DEF E
    <3> QED BY <1>1, <2>1, <2>2, <3>2, <3>4
  <2> QED BY <2>1, <2>2
<1>7. h = [y \in SUBSET (DOMAIN q) |-> IF y = {} THEN b ELSE Replay!AddRow(h[y \ {Greatest(y)}], q[Greatest(y)])]
  BY <1>2, <1>6
<1>8. Adding(s, n) = [y \in SUBSET (DOMAIN q) |->
         IF y = {} THEN b ELSE Replay!AddRow(Adding(s, n)[y \ {Greatest(y)}], q[Greatest(y)])]
  BY <1>7 DEF Adding, q, b
<1> QED BY <1>2, <1>8 DEF q, b

\* One more row is added to the total.
LEMMA TotalsGrow ==
  ASSUME Replay!ReplayConstants, NEW s \in Replay!Station, FileRows(s) # {}, NEW m \in Nat,
         m + 1 <= Replay!RowCount(s)
  PROVE  /\ Total(s, 0) = Replay!Nothing[s]
         /\ Total(s, m + 1) = Replay!AddRow(Total(s, m), Bottom(s) + m)
<1>1. Replay!RowCount(s) \in Nat
  <2>1. /\ Bottom(s) \in 1..Len(File) /\ Top(s) \in 1..Len(File) /\ Bottom(s) <= Top(s)
        /\ Replay!RowCount(s) = Top(s) - Bottom(s) + 1
    BY RowsAreTogether
  <2> QED BY <2>1
<1>2. Total(s, 0) = Replay!Nothing[s]
  <2>1. 1..0 = {} /\ {} \in SUBSET (1..0) /\ 0 <= Replay!RowCount(s)
    BY <1>1
  <2> QED BY <2>1, AddingExists DEF Total
<1>3. ASSUME NEW n \in Nat, n <= Replay!RowCount(s), NEW k \in Nat, k + 1 <= n
      PROVE  Adding(s, n)[1..(k + 1)] = Replay!AddRow(Adding(s, n)[1..k], Bottom(s) + k)
  <2> DEFINE x == 1..(k + 1)
  <2>1. x \in SUBSET (1..n) /\ k + 1 \in 1..n
    BY <1>3
  <2>2. x # {} /\ Greatest(x) = k + 1 /\ x \ {k + 1} = 1..k
    BY OneMore
  <2>3. RowsTo(s, n)[k + 1] = Bottom(s) + k
    <3>1. RowsTo(s, n)[k + 1] = Bottom(s) + (k + 1) - 1
      BY <1>3, <2>1, RowsToAreRows
    <3>2. Bottom(s) \in Int
      BY RowsAreTogether
    <3> QED BY <3>1, <3>2
  <2> HIDE DEF x
  <2>4. Adding(s, n)[x] = Replay!AddRow(Adding(s, n)[x \ {Greatest(x)}], RowsTo(s, n)[Greatest(x)])
    BY <1>3, <2>1, <2>2, AddingExists
  <2> QED BY <2>2, <2>3, <2>4 DEF x
<1> DEFINE S == {k \in Nat : k <= m => Adding(s, m + 1)[1..k] = Adding(s, m)[1..k]}
<1>4. 0 \in S
  <2>1. 1..0 = {} /\ {} \in SUBSET (1..m) /\ {} \in SUBSET (1..(m + 1)) /\ m <= Replay!RowCount(s)
        /\ m + 1 \in Nat
    BY <1>1
  <2>2. Adding(s, m)[{}] = Replay!Nothing[s]
    BY <2>1, AddingExists
  <2>3. Adding(s, m + 1)[{}] = Replay!Nothing[s]
    BY <2>1, AddingExists
  <2> QED BY <2>1, <2>2, <2>3
<1>5. ASSUME NEW k \in Nat, k \in S PROVE k + 1 \in S
  <2> SUFFICES ASSUME k + 1 <= m PROVE Adding(s, m + 1)[1..(k + 1)] = Adding(s, m)[1..(k + 1)]
    OBVIOUS
  <2>1. m <= Replay!RowCount(s) /\ m + 1 \in Nat /\ k + 1 <= m + 1
    BY <1>1
  <2>2. Adding(s, m + 1)[1..k] = Adding(s, m)[1..k]
    BY <1>5
  <2> HIDE DEF S
  <2>3. Adding(s, m)[1..(k + 1)] = Replay!AddRow(Adding(s, m)[1..k], Bottom(s) + k)
    BY <1>3, <2>1
  <2>4. Adding(s, m + 1)[1..(k + 1)] = Replay!AddRow(Adding(s, m + 1)[1..k], Bottom(s) + k)
    BY <1>3, <2>1
  <2> QED BY <2>2, <2>3, <2>4
<1>6. \A k \in Nat : k \in S
  <2> HIDE DEF S
  <2> QED BY <1>4, <1>5, AllNaturals
<1>7. Adding(s, m + 1)[1..m] = Adding(s, m)[1..m]
  BY <1>6
<1>8. Adding(s, m + 1)[1..(m + 1)] = Replay!AddRow(Adding(s, m + 1)[1..m], Bottom(s) + m)
  <2>1. m + 1 \in Nat /\ m + 1 <= m + 1
    OBVIOUS
  <2> QED BY <1>3, <2>1
<1> QED BY <1>2, <1>7, <1>8 DEF Total

-----------------------------------------------------------------------------
\* The rows in the buffer are the next ones of the station: v of them are served.
InPlace(s, rows, pos, v) ==
  /\ v \in 0..(Replay!RowCount(s) - 1) /\ pos <= Replay!RowCount(s) /\ Len(rows) <= pos
  /\ pos - Len(rows) = v \/ (v = 0 /\ pos - Len(rows) = Replay!RowCount(s))
  /\ \A i \in 1..Len(rows) : rows[i] = Bottom(s) + (pos - Len(rows)) + i - 1

\* The day is that of the row served last, and the occupancy what its day adds up to, unless x is
\* one of those that took over the day of the first row.
AddsUp(s, occ, d, v, x, handed) ==
  /\ v > 0 => d = File[Bottom(s) + v - 1].day
  /\ v = 0 /\ x \notin handed /\ Replay!RowCount(s) > 1 => d # File[Bottom(s)].day
  /\ v > 0 /\ x \notin handed => occ = Total(s, v).occupancy

Indexed(p, s) ==
  IF FileRows(s) = {} THEN index[p][s].count = 0
  ELSE index[p][s] = [start |-> Bottom(s) - 1, count |-> Replay!RowCount(s)]

Follows(p, s) ==
  /\ Indexed(p, s)
  /\ Replay!RowCount(s) >= Window =>
       /\ InPlace(s, buffer[p][s], cursor[p][s], served[p][s])
       /\ AddsUp(s, occupancy[p][s], day[p][s], served[p][s], <<p, s>>, carried)

ReplayInv ==
  /\ Replay!TypeOK
  /\ \A s \in DOMAIN saved : saved[s].occupancy \in Nat /\ saved[s].day \in Nat
  /\ \A p \in Process \ loaded, s \in Replay!Station : served[p][s] = 0 /\ day[p][s] = 0
  /\ \A p \in loaded, s \in Replay!Station : Follows(p, s)

LEMMA Remainders ==
  ASSUME NEW c \in Nat \ {0}
  PROVE  /\ c % c = 0 /\ \A x \in 0..(c - 1) : x % c = x
         /\ \A x \in Nat : x % c \in Nat
OBVIOUS

LEMMA CountIs ==
  ASSUME Replay!ReplayConstants, NEW s, FileRows(s) # {}
  PROVE  /\ Replay!RowCount(s) \in Nat \ {0} /\ Bottom(s) \in 1..Len(File)
         /\ Bottom(s) + Replay!RowCount(s) - 1 = Top(s) /\ Top(s) <= Len(File) /\ Len(File) \in Nat
         /\ Replay!RowCount(s) <= Len(File)
<1>1. /\ Bottom(s) \in 1..Len(File) /\ Top(s) \in 1..Len(File) /\ Bottom(s) <= Top(s)
      /\ Replay!RowCount(s) = Top(s) - Bottom(s) + 1 /\ Len(File) \in Nat
  BY RowsAreTogether, FileIsTyped
<1> QED BY <1>1

\* The buffer from which a row is taken.
LEMMA ReadyHolds ==
  ASSUME Replay!ReplayConstants, NEW p, NEW s, Indexed(p, s), Replay!InFile(p, s),
         buffer[p][s] \in Seq(1..Len(File)), cursor[p][s] \in 0..Len(File)
  PROVE  LET r == Replay!Ready(p, s)
         IN  /\ FileRows(s) # {}
             /\ r.buffer \in Seq(1..Len(File)) /\ r.buffer # <<>> /\ r.cursor \in 0..Len(File)
             /\ \A v : InPlace(s, buffer[p][s], cursor[p][s], v) =>
                  /\ v \in 0..(Replay!RowCount(s) - 1)
                  /\ r.cursor <= Replay!RowCount(s) /\ r.cursor - Len(r.buffer) = v
                  /\ \A i \in 1..Len(r.buffer) : r.buffer[i] = Bottom(s) + v + i - 1
<1> DEFINE r == Replay!Ready(p, s)
           c == Replay!RowCount(s)
           b == Bottom(s)
           n == Len(File)
           pos == cursor[p][s]
           from == IF pos >= index[p][s].count THEN 0 ELSE pos
           taken == Replay!Least(Window, index[p][s].count - from)
           part == [i \in 1..taken |-> index[p][s].start + from + i]
<1>1. FileRows(s) # {} /\ index[p][s].start = b - 1 /\ index[p][s].count = c
  BY DEF Indexed, Replay!InFile
<1>2. c \in Nat \ {0} /\ b \in 1..n /\ b + c - 1 <= n /\ n \in Nat /\ c <= n /\ Window \in Nat \ {0}
  BY <1>1, CountIs, FileIsTyped
<1>3. CASE buffer[p][s] # <<>>
  <2>1. r.buffer = buffer[p][s] /\ r.cursor = pos
    BY <1>3 DEF Replay!Ready
  <2>2. Len(buffer[p][s]) \in Nat \ {0}
    <3> DEFINE q == buffer[p][s]
    <3>1. q \in Seq(1..n) /\ q # <<>>
      BY <1>3
    <3> HIDE DEF q
    <3>2. Len(q) \in Nat \ {0}
      BY <3>1
    <3> QED BY <3>2 DEF q
  <2>3. ASSUME NEW v, InPlace(s, buffer[p][s], pos, v)
        PROVE  v \in 0..(c - 1) /\ pos <= c /\ pos - Len(buffer[p][s]) = v
               /\ \A i \in 1..Len(buffer[p][s]) : buffer[p][s][i] = b + v + i - 1
    <3>1. /\ v \in 0..(c - 1) /\ pos <= c
          /\ pos - Len(buffer[p][s]) = v \/ (v = 0 /\ pos - Len(buffer[p][s]) = c)
          /\ \A i \in 1..Len(buffer[p][s]) : buffer[p][s][i] = b + (pos - Len(buffer[p][s])) + i - 1
      BY <2>3 DEF InPlace
    <3>2. pos - Len(buffer[p][s]) = v
      BY <1>2, <2>2, <3>1
    <3> QED BY <3>1, <3>2
  <2> HIDE DEF r, c, b, pos
  <2>4. r.buffer \in Seq(1..n) /\ r.buffer # <<>> /\ r.cursor \in 0..n
    BY <1>3, <2>1 DEF pos
  <2> QED BY <1>1, <2>1, <2>3, <2>4 DEF r, c, b, pos
<1>4. CASE buffer[p][s] = <<>>
  <2>1. r.buffer = part /\ r.cursor = from + taken
    BY <1>4 DEF Replay!Ready, Replay!Refill, Replay!Taken
  <2>2. from \in 0..(c - 1) /\ (pos < c => from = pos) /\ (pos >= c => from = 0)
    BY <1>1, <1>2
  <2> HIDE DEF from
  <2>3. taken \in 1..(c - from)
    BY <1>1, <1>2, <2>2 DEF Replay!Least
  <2> HIDE DEF taken
  <2>4. /\ part \in Seq(1..n) /\ Len(part) = taken /\ part # <<>>
        /\ \A i \in 1..taken : part[i] = b + from + i - 1
    <3>1. taken \in Nat /\ taken # 0 /\ from \in Nat
      BY <1>2, <2>2, <2>3
    <3>2. ASSUME NEW i \in 1..taken
          PROVE  /\ index[p][s].start + from + i = b + from + i - 1
                 /\ index[p][s].start + from + i \in 1..n
      BY <1>1, <1>2, <2>2, <2>3
    <3>3. part \in Seq(1..n) /\ Len(part) = taken
      BY <3>1, <3>2
    <3>4. \A i \in 1..taken : part[i] = b + from + i - 1
      BY <3>2
    <3> HIDE DEF part
    <3> QED BY <3>1, <3>3, <3>4
  <2>5. ASSUME NEW v, InPlace(s, buffer[p][s], pos, v)
        PROVE  v \in 0..(c - 1) /\ from = v
    <3>1. Len(<<>>) = 0
      OBVIOUS
    <3>2. v \in 0..(c - 1) /\ pos <= c /\ (pos - 0 = v \/ (v = 0 /\ pos - 0 = c))
      BY <1>4, <2>5, <3>1 DEF InPlace
    <3> QED BY <1>2, <2>2, <3>2
  <2> HIDE DEF part, pos, r
  <2>6. from + taken \in 0..n /\ from + taken <= c /\ (from + taken) - taken = from
    BY <1>2, <2>2, <2>3
  <2>7. r.buffer \in Seq(1..n) /\ r.buffer # <<>> /\ r.cursor \in 0..n
    BY <2>1, <2>4, <2>6
  <2>8. ASSUME NEW v, InPlace(s, buffer[p][s], pos, v)
        PROVE  v \in 0..(c - 1) /\ r.cursor <= c /\ r.cursor - Len(r.buffer) = v
               /\ \A i \in 1..Len(r.buffer) : r.buffer[i] = b + v + i - 1
    <3> HIDE DEF c, b
    <3> QED BY <2>1, <2>4, <2>5, <2>6, <2>8
  <2> QED BY <1>1, <2>7, <2>8 DEF r, pos
<1> QED BY <1>3, <1>4

\* When a row is taken, the next one is at the front, and the first follows the last.
LEMMA ServedInPlace ==
  ASSUME Replay!ReplayConstants, NEW s, FileRows(s) # {}, NEW rows \in Seq(1..Len(File)), rows # <<>>,
         NEW pos \in Nat, NEW v \in 0..(Replay!RowCount(s) - 1), pos - Len(rows) = v,
         pos <= Replay!RowCount(s), \A i \in 1..Len(rows) : rows[i] = Bottom(s) + v + i - 1
  PROVE  InPlace(s, Tail(rows), pos, (v + 1) % Replay!RowCount(s))
<1> DEFINE c == Replay!RowCount(s)
           rest == Tail(rows)
           w == (v + 1) % c
<1>1. c \in Nat \ {0} /\ Bottom(s) \in Int
  BY CountIs
<1>2. /\ Len(rows) \in Nat \ {0} /\ Len(rest) = Len(rows) - 1
      /\ \A i \in 1..Len(rest) : rest[i] = rows[i + 1]
  OBVIOUS
<1> HIDE DEF rest
<1>3. (v + 1 < c /\ w = v + 1) \/ (v + 1 = c /\ w = 0)
  <2>1. v + 1 \in 0..(c - 1) \/ v + 1 = c
    BY <1>1
  <2> DEFINE u == v + 1
  <2> HIDE DEF c, u
  <2>2. c % c = 0 /\ \A x \in 0..(c - 1) : x % c = x
    BY <1>1, Remainders
  <2>3. u = v + 1 /\ w = u % c
    BY DEF u
  <2> HIDE DEF w
  <2>4. CASE u \in 0..(c - 1)
    <3>1. w = u
      BY <2>2, <2>3, <2>4
    <3>2. u < c
      BY <1>1, <2>4
    <3> QED BY <2>3, <3>1, <3>2
  <2>5. CASE u = c
    <3>1. w = 0
      BY <2>2, <2>3, <2>5
    <3> QED BY <2>3, <2>5, <3>1
  <2> QED BY <2>1, <2>3, <2>4, <2>5
<1> HIDE DEF w, c
<1>4. w \in 0..(c - 1) /\ pos <= c /\ Len(rest) <= pos
  BY <1>1, <1>2, <1>3 DEF c
<1>5. pos - Len(rest) = v + 1
  BY <1>2
<1>6. pos - Len(rest) = w \/ (w = 0 /\ pos - Len(rest) = c)
  BY <1>3, <1>5
<1>7. ASSUME NEW i \in 1..Len(rest) PROVE rest[i] = Bottom(s) + (pos - Len(rest)) + i - 1
  <2>1. i + 1 \in 1..Len(rows) /\ v \in Int
    BY <1>2
  <2>2. rows[i + 1] = Bottom(s) + v + (i + 1) - 1
    BY <2>1
  <2> QED BY <1>1, <1>2, <1>5, <2>1, <2>2
<1>8. InPlace(s, rest, pos, w)
  BY <1>4, <1>6, <1>7 DEF InPlace, c
<1> QED BY <1>8 DEF rest, w, c

LEMMA ServedAddsUp ==
  ASSUME Replay!ReplayConstants, NEW s \in Replay!Station, FileRows(s) # {},
         NEW v \in 0..(Replay!RowCount(s) - 1), NEW occ \in Nat, NEW d \in Nat, NEW x, NEW C, NEW D,
         AddsUp(s, occ, d, v, x, C), NEW entry, entry = File[Bottom(s) + v],
         x \in D <=> x \in C /\ entry.day = d
  PROVE  AddsUp(s, Replay!Counted(occ, d, entry), entry.day, (v + 1) % Replay!RowCount(s), x, D)
<1> DEFINE c == Replay!RowCount(s)
           b == Bottom(s)
           w == (v + 1) % c
           new == Replay!Counted(occ, d, entry)
<1>1. c \in Nat \ {0} /\ b \in 1..Len(File) /\ b + c - 1 = Top(s) /\ Top(s) <= Len(File) /\ Len(File) \in Nat
  BY CountIs
<1>2. b + v \in 1..Len(File)
  BY <1>1
<1>3. entry.day \in Nat \ {0} /\ entry.net \in Int
  BY <1>2, FileIsTyped
<1>4. CASE v + 1 = c
  <2>1. w = 0
    BY <1>1, <1>4, Remainders
  <2>2. c > 1 => entry.day # File[b].day
    <3> SUFFICES ASSUME c > 1 PROVE entry.day # File[b].day
      OBVIOUS
    <3>1. b + v = Top(s) /\ b # Top(s)
      BY <1>1, <1>4
    <3> QED BY <3>1, DaysGoOn
  <2> HIDE DEF w
  <2>3. AddsUp(s, new, entry.day, w, x, D)
    BY <2>1, <2>2 DEF AddsUp
  <2> QED BY <2>3 DEF w
<1>5. CASE v + 1 < c
  <2>1. w = v + 1
    <3>1. v + 1 \in 0..(c - 1)
      BY <1>1, <1>5
    <3> QED BY <1>1, <3>1, Remainders
  <2>2. v \in Nat /\ v + 1 <= c /\ b + (v + 1) - 1 = b + v
    BY <1>1, <1>5
  <2>3. Total(s, v + 1) = Replay!AddRow(Total(s, v), b + v) /\ Total(s, 0) = Replay!Nothing[s]
    BY <2>2, TotalsGrow
  <2>4. Total(s, v + 1).occupancy = Replay!Counted(Total(s, v).occupancy, Total(s, v).day, entry)
    BY <2>3 DEF Replay!AddRow
  <2>5. x \notin D => new = Total(s, v + 1).occupancy
    <3> SUFFICES ASSUME x \notin D PROVE new = Total(s, v + 1).occupancy
      OBVIOUS
    <3>1. x \notin C \/ entry.day # d
      OBVIOUS
    <3>2. CASE v = 0
      <4>1. entry.day # d
        BY <1>5, <3>1, <3>2, <1>1 DEF AddsUp
      <4>2. new = IF 0 + entry.net > 0 THEN 0 + entry.net ELSE 0
        BY <4>1 DEF Replay!Counted
      <4>3. Total(s, v).day = 0 /\ Total(s, v).occupancy = 0
        BY <2>3, <3>2 DEF Replay!Nothing, Replay!NoDay
      <4>4. Total(s, v + 1).occupancy = IF 0 + entry.net > 0 THEN 0 + entry.net ELSE 0
        BY <2>4, <4>3 DEF Replay!Counted, Replay!NoDay
      <4> QED BY <4>2, <4>4
    <3>3. CASE v > 0
      <4>1. v - 1 \in Nat /\ (v - 1) + 1 = v /\ b + (v - 1) = b + v - 1 /\ v <= c
        BY <1>1, <2>2, <3>3
      <4>2. Total(s, (v - 1) + 1) = Replay!AddRow(Total(s, v - 1), b + (v - 1))
        BY <4>1, TotalsGrow
      <4>3. Total(s, v).day = File[b + v - 1].day
        BY <4>1, <4>2 DEF Replay!AddRow
      <4>4. Total(s, v).day = d
        BY <3>3, <4>3 DEF AddsUp
      <4>5. CASE entry.day # d
        BY <2>4, <4>4, <4>5 DEF Replay!Counted
      <4>6. CASE x \notin C
        <5>1. occ = Total(s, v).occupancy
          BY <3>3, <4>6 DEF AddsUp
        <5> QED BY <2>4, <4>4, <5>1
      <4> QED BY <3>1, <4>5, <4>6
    <3> QED BY <2>2, <3>2, <3>3
  <2>6. AddsUp(s, new, entry.day, v + 1, x, D)
    <3>1. v + 1 > 0 /\ v + 1 # 0
      BY <2>2
    <3>2. entry.day = File[b + (v + 1) - 1].day
      BY <2>2
    <3> HIDE DEF new
    <3> QED BY <2>5, <3>1, <3>2 DEF AddsUp
  <2> QED BY <2>1, <2>6
<1> QED BY <1>1, <1>4, <1>5

-----------------------------------------------------------------------------
\* One process's part of a table is replaced.
LEMMA TableChanges ==
  ASSUME NEW X, NEW held \in [Process -> [Replay!Station -> X]], NEW p \in Process,
         NEW part \in [Replay!Station -> X]
  PROVE  /\ [held EXCEPT ![p] = part] \in [Process -> [Replay!Station -> X]]
         /\ [held EXCEPT ![p] = part][p] = part
         /\ \A q \in Process : q # p => [held EXCEPT ![p] = part][q] = held[q]
OBVIOUS

\* What a process holds, in tables of the right shape.
Held ==
  /\ index \in [Process -> [Replay!Station -> [start : 0..Len(File), count : 0..Len(File)]]]
  /\ buffer \in [Process -> [Replay!Station -> Seq(1..Len(File))]]
  /\ cursor \in [Process -> [Replay!Station -> 0..Len(File)]]
  /\ occupancy \in [Process -> [Replay!Station -> Nat]]
  /\ day \in [Process -> [Replay!Station -> Nat]]
  /\ served \in [Process -> [Replay!Station -> Nat]]
  /\ carried \subseteq Process \X Replay!Station

\* Nothing that the process p holds has changed.
Keeps(p) ==
  /\ index'[p] = index[p] /\ buffer'[p] = buffer[p] /\ cursor'[p] = cursor[p]
  /\ occupancy'[p] = occupancy[p] /\ day'[p] = day[p] /\ served'[p] = served[p]
  /\ \A s \in Replay!Station : <<p, s>> \in carried' <=> <<p, s>> \in carried

LEMMA KeptFollows ==
  ASSUME NEW p, NEW s \in Replay!Station, Keeps(p), Follows(p, s)
  PROVE  Follows(p, s)'
<1>1. /\ index'[p][s] = index[p][s] /\ buffer'[p][s] = buffer[p][s] /\ cursor'[p][s] = cursor[p][s]
      /\ occupancy'[p][s] = occupancy[p][s] /\ day'[p][s] = day[p][s] /\ served'[p][s] = served[p][s]
      /\ <<p, s>> \in carried' <=> <<p, s>> \in carried
  BY DEF Keeps
<1> QED BY <1>1 DEF Follows, Indexed, AddsUp

LEMMA InvHeld == ReplayInv => Held
BY DEF ReplayInv, Replay!TypeOK, Held

LEMMA InitFollows == Replay!ReplayConstants /\ Replay!Init => ReplayInv
<1> SUFFICES ASSUME Replay!ReplayConstants, Replay!Init PROVE ReplayInv
  OBVIOUS
<1>1. Len(File) \in Nat /\ MaxFaults \in Nat
  BY FileIsTyped
<1>2. /\ leader \in Process /\ loaded = {} /\ carried = {} /\ faults = 0
      /\ index = Replay!Empty(Replay!NotRead) /\ buffer = Replay!Empty(<<>>)
      /\ cursor = Replay!Empty(0) /\ occupancy = Replay!Empty(0)
      /\ day = Replay!Empty(0) /\ served = Replay!Empty(0) /\ saved = <<>>
  BY DEF Replay!Init, Replay!NoDay
<1>3. \A x, X : x \in X => Replay!Empty(x) \in [Process -> [Replay!Station -> X]]
  BY DEF Replay!Empty
<1>4. Replay!NotRead \in [start : 0..Len(File), count : 0..Len(File)]
  BY <1>1 DEF Replay!NotRead
<1>5. <<>> \in Seq(1..Len(File)) /\ DOMAIN saved = {}
  BY <1>2
<1>6. 0 \in Nat /\ 0 \in 0..Len(File) /\ 0 \in 0..MaxFaults
  BY <1>1
<1>7. Held
  BY <1>2, <1>3, <1>4, <1>5, <1>6 DEF Held
<1>8. Replay!TypeOK
  BY <1>2, <1>5, <1>6, <1>7 DEF Replay!TypeOK, Held
<1>9. \A p \in Process, s \in Replay!Station : served[p][s] = 0 /\ day[p][s] = 0
  BY <1>2 DEF Replay!Empty
<1> QED BY <1>2, <1>5, <1>8, <1>9 DEF ReplayInv

LEMMA LoadFollows ==
  ASSUME Replay!ReplayConstants, ReplayInv, Replay!Load
  PROVE  ReplayInv'
<1> DEFINE p == leader
           n == Len(File)
           read == Replay!Index
           kept == {s \in DOMAIN saved : read[s].count > 0}
           firstDay(s) == File[read[s].buffer[1]].day
           theirs == {<<p, s>> : s \in {k \in kept : saved[k].day = firstDay(k)}}
           ixs == [s \in Replay!Station |-> [start |-> read[s].start, count |-> read[s].count]]
           bufs == [s \in Replay!Station |-> read[s].buffer]
           curs == [s \in Replay!Station |-> read[s].cursor]
           occs == [s \in Replay!Station |-> IF s \in kept THEN saved[s].occupancy ELSE occupancy[p][s]]
           days == [s \in Replay!Station |-> IF s \in kept THEN saved[s].day ELSE day[p][s]]
<1>1. /\ p \notin loaded /\ loaded' = loaded \cup {p}
      /\ index' = [index EXCEPT ![p] = ixs]
      /\ buffer' = [buffer EXCEPT ![p] = bufs]
      /\ cursor' = [cursor EXCEPT ![p] = curs]
      /\ occupancy' = [occupancy EXCEPT ![p] =
             [s \in Replay!Station |-> IF s \in kept THEN saved[s].occupancy ELSE @[s]]]
      /\ day' = [day EXCEPT ![p] = [s \in Replay!Station |-> IF s \in kept THEN saved[s].day ELSE @[s]]]
      /\ carried' = carried \cup theirs
      /\ leader' = leader /\ saved' = saved /\ served' = served /\ faults' = faults
  BY Zenon DEF Replay!Load
<1>2. /\ Held /\ leader \in Process /\ loaded \subseteq Process /\ DOMAIN saved \subseteq Replay!Station
      /\ faults \in 0..MaxFaults
      /\ \A s \in DOMAIN saved : saved[s].occupancy \in Nat /\ saved[s].day \in Nat
      /\ \A s \in Replay!Station : served[p][s] = 0 /\ day[p][s] = 0
      /\ \A q \in loaded, s \in Replay!Station : Follows(q, s)
  BY <1>1, InvHeld DEF ReplayInv, Replay!TypeOK
<1>3. /\ occupancy' = [occupancy EXCEPT ![p] = occs] /\ day' = [day EXCEPT ![p] = days]
  BY <1>1, <1>2 DEF Held
<1>4. n \in Nat /\ Window \in Nat \ {0}
  BY FileIsTyped
<1> HIDE DEF read
\* What has been read of a station.
<1>5. ASSUME NEW s \in Replay!Station
      PROVE  /\ read[s].start \in 0..n /\ read[s].count \in 0..n
             /\ read[s].buffer \in Seq(1..n) /\ read[s].cursor \in 0..n
             /\ FileRows(s) = {} => read[s].count = 0
             /\ FileRows(s) # {} =>
                  /\ read[s].start = Bottom(s) - 1 /\ read[s].count = Replay!RowCount(s)
                  /\ read[s].buffer[1] = Bottom(s)
             /\ Replay!RowCount(s) >= Window => InPlace(s, read[s].buffer, read[s].cursor, 0)
  <2> DEFINE r == read[s]
             m == Len(r.buffer)
             c == Replay!RowCount(s)
             b == Bottom(s)
  <2>1. read \in Knowns /\ GatheredTo(s, n, r)
    <3>1. s \in Replay!Named
      BY DEF Replay!Named
    <3> QED BY <3>1, IndexIsRight DEF read
  <2>2. r \in Known
    <3>1. s \in Replay!Named
      BY DEF Replay!Named
    <3> QED BY <2>1, <3>1 DEF Knowns
  <2>3. CASE FileRows(s) = {}
    <3>1. r = [start |-> 0, count |-> 0, buffer |-> <<>>, cursor |-> 0]
      BY <2>1, <2>3 DEF GatheredTo
    <3>2. r.start = 0 /\ r.count = 0 /\ r.buffer = <<>> /\ r.cursor = 0
      BY <3>1
    <3>3. c = 0
      BY <2>3, NoRowsAreNone
    <3>4. <<>> \in Seq(1..n)
      OBVIOUS
    <3> HIDE DEF r, c
    <3> QED BY <1>4, <2>3, <3>2, <3>3, <3>4 DEF r, c
  <2>4. CASE FileRows(s) # {}
    <3>1. /\ c \in Nat \ {0} /\ b \in 1..n /\ b + c - 1 = Top(s) /\ Top(s) <= n /\ c <= n
      BY <2>4, CountIs
    <3>2. ~(FileRows(s) = {} \/ n < b) /\ Replay!Least(n, Top(s)) = Top(s)
      BY <1>4, <2>4, <3>1 DEF Replay!Least
    <3>3. /\ r.start = b - 1
          /\ r.count = Replay!Least(n, Top(s)) - b + 1
          /\ r.cursor = Replay!Least(Window, r.count)
          /\ r.cursor <= m /\ m <= Window /\ b + m - 1 <= n
          /\ \A i \in 1..m : r.buffer[i] = b + i - 1
      <4> HIDE DEF r
      <4> QED BY <2>1, <3>2 DEF GatheredTo
    <3>4. r.buffer \in Seq(Int) /\ m \in Nat
      <4>1. r.buffer \in Seq(Int)
        BY <2>2 DEF Known
      <4> HIDE DEF r
      <4> QED BY <4>1
    <3>5. r.count = c /\ r.cursor \in 1..c
      <4> HIDE DEF r, b, c, m
      <4> QED BY <1>4, <3>1, <3>2, <3>3 DEF Replay!Least
    <3>6. m >= 1 /\ r.buffer[1] = b
      <4> HIDE DEF r, b, c, m
      <4> QED BY <3>1, <3>3, <3>4, <3>5
    <3>7. r.buffer \in Seq(1..n)
      <4>1. \A i \in 1..m : r.buffer[i] \in 1..n
        <5> SUFFICES ASSUME NEW i \in 1..m PROVE r.buffer[i] \in 1..n
          OBVIOUS
        <5>1. r.buffer[i] = b + i - 1
          BY <3>3
        <5>2. b + i - 1 \in 1..n
          <6> HIDE DEF r, b, c, m
          <6> QED BY <1>4, <3>1, <3>3, <3>4
        <5> HIDE DEF r, b, m
        <5> QED BY <5>1, <5>2
      <4>2. \A q \in Seq(Int) : (\A i \in 1..Len(q) : q[i] \in 1..n) => q \in Seq(1..n)
        OBVIOUS
      <4> HIDE DEF r
      <4> QED BY <3>4, <4>1, <4>2
    <3>8. c >= Window => InPlace(s, r.buffer, r.cursor, 0)
      <4> SUFFICES ASSUME c >= Window PROVE InPlace(s, r.buffer, r.cursor, 0)
        OBVIOUS
      <4> HIDE DEF r, b, m
      <4>1. r.cursor = Window /\ m = Window /\ r.cursor - m = 0
        BY <1>4, <3>1, <3>3, <3>4, <3>5 DEF Replay!Least
      <4>2. 0 \in 0..(c - 1) /\ r.cursor <= c /\ m <= r.cursor
        BY <1>4, <3>1, <4>1
      <4>3. \A i \in 1..m : r.buffer[i] = b + 0 + i - 1
        BY <3>1, <3>3
      <4> QED BY <4>1, <4>2, <4>3 DEF InPlace, b, m
    <3>9. r.start \in 0..n /\ r.count \in 0..n /\ r.cursor \in 0..n
      <4> HIDE DEF r, b, c, m
      <4> QED BY <1>4, <3>1, <3>3, <3>5
    <3> HIDE DEF r
    <3> QED BY <2>4, <3>3, <3>5, <3>6, <3>7, <3>8, <3>9 DEF r
  <2> QED BY <2>3, <2>4
<1>6. /\ ixs \in [Replay!Station -> [start : 0..n, count : 0..n]]
      /\ bufs \in [Replay!Station -> Seq(1..n)] /\ curs \in [Replay!Station -> 0..n]
  BY <1>5
<1>7. occs \in [Replay!Station -> Nat] /\ days \in [Replay!Station -> Nat]
  BY <1>2 DEF Held
<1>8. theirs \subseteq Process \X Replay!Station /\ \A x \in theirs : x[1] = p
  BY <1>2
<1> HIDE DEF occs, days, ixs, bufs, curs, theirs
<1>9. Held'
  <2>1. index' \in [Process -> [Replay!Station -> [start : 0..Len(File), count : 0..Len(File)]]]
    BY <1>1, <1>2, <1>6, TableChanges DEF Held
  <2>2. buffer' \in [Process -> [Replay!Station -> Seq(1..Len(File))]]
    BY <1>1, <1>2, <1>6, TableChanges DEF Held
  <2>3. cursor' \in [Process -> [Replay!Station -> 0..Len(File)]]
    BY <1>1, <1>2, <1>6, TableChanges DEF Held
  <2>4. occupancy' \in [Process -> [Replay!Station -> Nat]]
    BY <1>2, <1>3, <1>7, TableChanges DEF Held
  <2>5. day' \in [Process -> [Replay!Station -> Nat]]
    BY <1>2, <1>3, <1>7, TableChanges DEF Held
  <2>6. served' \in [Process -> [Replay!Station -> Nat]] /\ carried' \subseteq Process \X Replay!Station
    BY <1>1, <1>2, <1>8 DEF Held
  <2> QED BY <2>1, <2>2, <2>3, <2>4, <2>5, <2>6 DEF Held
<1>10. Replay!TypeOK'
  <2>1. leader' \in Process /\ loaded' \subseteq Process /\ DOMAIN saved' \subseteq Replay!Station
        /\ faults' \in 0..MaxFaults
    BY <1>1, <1>2
  <2> QED BY <1>9, <2>1 DEF Replay!TypeOK, Held
<1>11. ASSUME NEW q \in Process, q # p PROVE Keeps(q)
  <2>1. /\ index'[q] = index[q] /\ buffer'[q] = buffer[q] /\ cursor'[q] = cursor[q]
        /\ occupancy'[q] = occupancy[q] /\ day'[q] = day[q] /\ served'[q] = served[q]
    BY <1>1, <1>2, <1>3, <1>11 DEF Held
  <2>2. \A s : <<q, s>> \notin theirs
    BY <1>8, <1>11
  <2> QED BY <1>1, <2>1, <2>2 DEF Keeps
<1>12. ASSUME NEW o, o = p, NEW s \in Replay!Station PROVE Follows(o, s)'
  <2> DEFINE c == Replay!RowCount(s)
             b == Bottom(s)
  <2>1. /\ index'[o][s] = [start |-> read[s].start, count |-> read[s].count]
        /\ buffer'[o][s] = read[s].buffer /\ cursor'[o][s] = read[s].cursor
        /\ served'[o][s] = 0
        /\ day'[o][s] = IF s \in kept THEN saved[s].day ELSE 0
    <3>1. index'[p] = ixs /\ buffer'[p] = bufs /\ cursor'[p] = curs /\ day'[p] = days
      BY <1>1, <1>2, <1>3 DEF Held
    <3> QED BY <1>1, <1>2, <1>12, <3>1 DEF ixs, bufs, curs, days
  <2>2. FileRows(s) = {} => index'[o][s].count = 0
    BY <1>5, <2>1
  <2>3. FileRows(s) # {} => index'[o][s] = [start |-> b - 1, count |-> c]
    BY <1>5, <2>1
  <2>4. Indexed(o, s)'
    BY <2>2, <2>3 DEF Indexed
  <2>5. ASSUME c >= Window
        PROVE  /\ InPlace(s, buffer'[o][s], cursor'[o][s], served'[o][s])
               /\ AddsUp(s, occupancy'[o][s], day'[o][s], served'[o][s], <<o, s>>, carried')
    <3>1. InPlace(s, buffer'[o][s], cursor'[o][s], served'[o][s])
      <4>1. InPlace(s, read[s].buffer, read[s].cursor, 0)
        BY <1>5, <2>5
      <4> QED BY <2>1, <4>1
    <3>2. FileRows(s) # {}
      BY <1>4, <2>5, NoRowsAreNone
    <3>3. read[s].count > 0 /\ firstDay(s) = File[b].day /\ File[b].day \in Nat \ {0}
      <4>1. read[s].count = c /\ c \in Nat \ {0} /\ read[s].buffer[1] = b /\ b \in 1..n
        BY <1>5, <3>2, CountIs
      <4> QED BY <4>1, FileIsTyped
    <3>4. ASSUME <<o, s>> \notin carried' PROVE day'[o][s] # File[b].day
      <4>1. <<p, s>> \notin theirs
        BY <1>1, <1>12, <3>4
      <4>2. s \in kept => saved[s].day # firstDay(s)
        BY <4>1 DEF theirs
      <4> QED BY <2>1, <3>3, <4>2
    <3>5. AddsUp(s, occupancy'[o][s], day'[o][s], served'[o][s], <<o, s>>, carried')
      BY <2>1, <3>4 DEF AddsUp
    <3> QED BY <3>1, <3>5
  <2> QED BY <2>4, <2>5 DEF Follows
<1>13. ASSUME NEW q \in loaded', NEW s \in Replay!Station PROVE Follows(q, s)'
  <2>1. CASE q = p
    BY <1>12, <2>1
  <2>2. CASE q # p
    <3>1. q \in loaded /\ q \in Process
      BY <1>1, <1>2, <2>2
    <3> QED BY <1>2, <1>11, <2>2, <3>1, KeptFollows
  <2> QED BY <2>1, <2>2
<1>14. ASSUME NEW q \in Process \ loaded', NEW s \in Replay!Station
       PROVE  served'[q][s] = 0 /\ day'[q][s] = 0
  <2>1. q \in Process \ loaded /\ q # p
    BY <1>1
  <2>2. served[q][s] = 0 /\ day[q][s] = 0
    BY <2>1 DEF ReplayInv
  <2> QED BY <1>11, <2>1, <2>2 DEF Keeps
<1>15. \A s \in DOMAIN saved' : saved'[s].occupancy \in Nat /\ saved'[s].day \in Nat
  BY <1>1, <1>2
<1> QED BY <1>10, <1>13, <1>14, <1>15 DEF ReplayInv

\* A row is served to some stations.
LEMMA ServeFollows ==
  ASSUME Replay!ReplayConstants, ReplayInv, NEW p \in loaded, NEW S, Replay!Serve(p, S)
  PROVE  /\ Held'
         /\ \A q \in Process : q # p => Keeps(q)
         /\ \A s \in Replay!Station : Follows(p, s)'
<1> DEFINE n == Len(File)
           ready(s) == Replay!Ready(p, s)
           front(s) == File[Head(ready(s).buffer)]
           T == {s \in S : Replay!InFile(p, s)}
           gone == {<<p, s>> : s \in {t \in T : front(t).day # day[p][t]}}
           bufs == [s \in Replay!Station |-> IF s \in T THEN Tail(ready(s).buffer) ELSE buffer[p][s]]
           curs == [s \in Replay!Station |-> IF s \in T THEN ready(s).cursor ELSE cursor[p][s]]
           occs == [s \in Replay!Station |->
                      IF s \in T THEN Replay!Counted(occupancy[p][s], day[p][s], front(s)) ELSE occupancy[p][s]]
           days == [s \in Replay!Station |-> IF s \in T THEN front(s).day ELSE day[p][s]]
           sers == [s \in Replay!Station |->
                      IF s \in T THEN (served[p][s] + 1) % Replay!RowCount(s) ELSE served[p][s]]
<1>1. /\ buffer' = [buffer EXCEPT ![p] =
             [s \in Replay!Station |-> IF s \in T THEN Tail(ready(s).buffer) ELSE @[s]]]
      /\ cursor' = [cursor EXCEPT ![p] =
             [s \in Replay!Station |-> IF s \in T THEN ready(s).cursor ELSE @[s]]]
      /\ occupancy' = [occupancy EXCEPT ![p] =
             [s \in Replay!Station |-> IF s \in T THEN Replay!Counted(@[s], day[p][s], front(s)) ELSE @[s]]]
      /\ day' = [day EXCEPT ![p] = [s \in Replay!Station |-> IF s \in T THEN front(s).day ELSE @[s]]]
      /\ index' = index
      /\ served' = [served EXCEPT ![p] =
             [s \in Replay!Station |-> IF s \in T THEN (@[s] + 1) % Replay!RowCount(s) ELSE @[s]]]
      /\ carried' = carried \ gone
  BY Zenon DEF Replay!Serve
<1>2. Held /\ p \in Process /\ \A s \in Replay!Station : Follows(p, s)
  BY InvHeld DEF ReplayInv, Replay!TypeOK
<1>3. /\ buffer' = [buffer EXCEPT ![p] = bufs] /\ cursor' = [cursor EXCEPT ![p] = curs]
  BY <1>1, <1>2 DEF Held
<1>4. /\ occupancy' = [occupancy EXCEPT ![p] = occs] /\ day' = [day EXCEPT ![p] = days]
      /\ served' = [served EXCEPT ![p] = sers]
  BY <1>1, <1>2 DEF Held
<1>5. ASSUME NEW s \in Replay!Station
      PROVE  /\ index[p][s] \in [start : 0..n, count : 0..n] /\ buffer[p][s] \in Seq(1..n)
             /\ cursor[p][s] \in 0..n /\ occupancy[p][s] \in Nat /\ day[p][s] \in Nat
             /\ served[p][s] \in Nat
  BY <1>2 DEF Held
\* The row that a station is served.
<1>6. ASSUME NEW s \in Replay!Station, s \in T
      PROVE  /\ FileRows(s) # {}
             /\ ready(s).buffer \in Seq(1..n) /\ ready(s).buffer # <<>> /\ ready(s).cursor \in 0..n
             /\ Head(ready(s).buffer) \in 1..n /\ Head(ready(s).buffer) = ready(s).buffer[1]
             /\ Tail(ready(s).buffer) \in Seq(1..n)
             /\ front(s).day \in Nat /\ front(s).net \in Int
             /\ Replay!RowCount(s) \in Nat \ {0}
             /\ \A v : InPlace(s, buffer[p][s], cursor[p][s], v) =>
                  /\ v \in 0..(Replay!RowCount(s) - 1)
                  /\ ready(s).cursor <= Replay!RowCount(s) /\ ready(s).cursor - Len(ready(s).buffer) = v
                  /\ \A i \in 1..Len(ready(s).buffer) : ready(s).buffer[i] = Bottom(s) + v + i - 1
  <2>1. Indexed(p, s) /\ Replay!InFile(p, s)
    BY <1>2, <1>6 DEF Follows
  <2>2. /\ FileRows(s) # {}
        /\ ready(s).buffer \in Seq(1..n) /\ ready(s).buffer # <<>> /\ ready(s).cursor \in 0..n
        /\ \A v : InPlace(s, buffer[p][s], cursor[p][s], v) =>
                  /\ v \in 0..(Replay!RowCount(s) - 1)
                  /\ ready(s).cursor <= Replay!RowCount(s) /\ ready(s).cursor - Len(ready(s).buffer) = v
                  /\ \A i \in 1..Len(ready(s).buffer) : ready(s).buffer[i] = Bottom(s) + v + i - 1
    BY <1>5, <2>1, ReadyHolds
  <2>3. \A q \in Seq(1..n) : q # <<>> => Head(q) \in 1..n /\ Head(q) = q[1] /\ Tail(q) \in Seq(1..n)
    OBVIOUS
  <2> DEFINE q == ready(s).buffer
  <2> HIDE DEF q
  <2>4. Head(q) \in 1..n /\ Head(q) = q[1] /\ Tail(q) \in Seq(1..n)
    <3>1. q \in Seq(1..n) /\ q # <<>>
      BY <2>2 DEF q
    <3> QED BY <2>3, <3>1
  <2>5. File[Head(q)].day \in Nat /\ File[Head(q)].net \in Int
    BY <2>4, FileIsTyped
  <2>6. Replay!RowCount(s) \in Nat \ {0}
    BY <2>2, CountIs
  <2> QED BY <2>2, <2>4, <2>5, <2>6 DEF q
<1> HIDE DEF ready
<1>7. bufs \in [Replay!Station -> Seq(1..n)] /\ curs \in [Replay!Station -> 0..n]
  <2> SUFFICES ASSUME NEW s \in Replay!Station
               PROVE  /\ (IF s \in T THEN Tail(ready(s).buffer) ELSE buffer[p][s]) \in Seq(1..n)
                      /\ (IF s \in T THEN ready(s).cursor ELSE cursor[p][s]) \in 0..n
    OBVIOUS
  <2> HIDE DEF T
  <2> QED BY <1>5, <1>6
<1>8. /\ occs \in [Replay!Station -> Nat] /\ days \in [Replay!Station -> Nat]
      /\ sers \in [Replay!Station -> Nat]
  <2> SUFFICES ASSUME NEW s \in Replay!Station
               PROVE  /\ (IF s \in T THEN Replay!Counted(occupancy[p][s], day[p][s], front(s))
                          ELSE occupancy[p][s]) \in Nat
                      /\ (IF s \in T THEN front(s).day ELSE day[p][s]) \in Nat
                      /\ (IF s \in T THEN (served[p][s] + 1) % Replay!RowCount(s) ELSE served[p][s]) \in Nat
    OBVIOUS
  <2>1. CASE s \in T
    <3> DEFINE o == occupancy[p][s]
               d == day[p][s]
               entry == front(s)
               c == Replay!RowCount(s)
               v == served[p][s]
    <3>1. /\ entry.day \in Nat /\ entry.net \in Int /\ c \in Nat \ {0} /\ o \in Nat /\ d \in Nat /\ v \in Nat
      BY <1>5, <1>6, <2>1
    <3> HIDE DEF o, d, entry, c, v
    <3>2. Replay!Counted(o, d, entry) \in Nat
      BY <3>1 DEF Replay!Counted
    <3>3. (v + 1) % c \in Nat
      BY <3>1
    <3> HIDE DEF T
    <3> QED BY <2>1, <3>1, <3>2, <3>3 DEF o, d, entry, c, v
  <2>2. CASE s \notin T
    <3> HIDE DEF T
    <3> QED BY <1>5, <2>2
  <2> QED BY <2>1, <2>2
<1>9. gone \subseteq {p} \X T
  OBVIOUS
<1>10. ASSUME NEW s \in Replay!Station
       PROVE  <<p, s>> \in carried' <=>
                <<p, s>> \in carried /\ (s \in T => front(s).day = day[p][s])
  BY <1>1
<1> HIDE DEF bufs, curs, occs, days, sers, gone
<1>11. Held'
  <2>1. index' \in [Process -> [Replay!Station -> [start : 0..Len(File), count : 0..Len(File)]]]
    BY <1>1, <1>2 DEF Held
  <2>2. buffer' \in [Process -> [Replay!Station -> Seq(1..Len(File))]]
    BY <1>2, <1>3, <1>7, TableChanges DEF Held
  <2>3. cursor' \in [Process -> [Replay!Station -> 0..Len(File)]]
    BY <1>2, <1>3, <1>7, TableChanges DEF Held
  <2>4. occupancy' \in [Process -> [Replay!Station -> Nat]]
    BY <1>2, <1>4, <1>8, TableChanges DEF Held
  <2>5. day' \in [Process -> [Replay!Station -> Nat]]
    BY <1>2, <1>4, <1>8, TableChanges DEF Held
  <2>6. served' \in [Process -> [Replay!Station -> Nat]]
    BY <1>2, <1>4, <1>8, TableChanges DEF Held
  <2>7. carried' \subseteq Process \X Replay!Station
    BY <1>1, <1>2 DEF Held
  <2> QED BY <2>1, <2>2, <2>3, <2>4, <2>5, <2>6, <2>7 DEF Held
<1>12. ASSUME NEW q \in Process, q # p PROVE Keeps(q)
  <2>1. /\ index'[q] = index[q] /\ buffer'[q] = buffer[q] /\ cursor'[q] = cursor[q]
        /\ occupancy'[q] = occupancy[q] /\ day'[q] = day[q] /\ served'[q] = served[q]
    BY <1>1, <1>2, <1>3, <1>4, <1>12 DEF Held
  <2>2. \A s : <<q, s>> \notin gone
    BY <1>9, <1>12
  <2> QED BY <1>1, <2>1, <2>2 DEF Keeps
<1>13. ASSUME NEW s \in Replay!Station PROVE Follows(p, s)'
  <2>1. index'[p] = index[p] /\ buffer'[p] = bufs /\ cursor'[p] = curs /\ occupancy'[p] = occs
        /\ day'[p] = days /\ served'[p] = sers
    BY <1>1, <1>2, <1>3, <1>4 DEF Held
  <2>2. CASE s \notin T
    <3>1. /\ buffer'[p][s] = buffer[p][s] /\ cursor'[p][s] = cursor[p][s]
          /\ occupancy'[p][s] = occupancy[p][s] /\ day'[p][s] = day[p][s] /\ served'[p][s] = served[p][s]
          /\ <<p, s>> \in carried' <=> <<p, s>> \in carried
      <4> HIDE DEF T
      <4> QED BY <1>10, <2>1, <2>2 DEF bufs, curs, occs, days, sers
    <3> QED BY <1>2, <2>1, <3>1 DEF Follows, Indexed, AddsUp
  <2>3. CASE s \in T
    <3> DEFINE c == Replay!RowCount(s)
               v == served[p][s]
               o == occupancy[p][s]
               d == day[p][s]
               entry == front(s)
               r == ready(s)
               w == (v + 1) % c
    <3>1. /\ buffer'[p][s] = Tail(r.buffer) /\ cursor'[p][s] = r.cursor
          /\ occupancy'[p][s] = Replay!Counted(o, d, entry) /\ day'[p][s] = entry.day /\ served'[p][s] = w
      <4> HIDE DEF T
      <4> QED BY <2>1, <2>3 DEF bufs, curs, occs, days, sers
    <3>2. <<p, s>> \in carried' <=> <<p, s>> \in carried /\ entry.day = d
      BY <1>10, <2>3
    <3>3. Indexed(p, s)'
      BY <1>2, <2>1 DEF Follows, Indexed
    <3>4. ASSUME c >= Window
          PROVE  InPlace(s, Tail(r.buffer), r.cursor, w)
                 /\ AddsUp(s, Replay!Counted(o, d, entry), entry.day, w, <<p, s>>, carried')
      <4>1. InPlace(s, buffer[p][s], cursor[p][s], v) /\ AddsUp(s, o, d, v, <<p, s>>, carried)
        BY <1>2, <3>4 DEF Follows
      <4>2. /\ FileRows(s) # {} /\ r.buffer \in Seq(1..n) /\ r.buffer # <<>> /\ r.cursor \in Nat
            /\ Head(r.buffer) = r.buffer[1]
            /\ v \in 0..(c - 1) /\ r.cursor <= c /\ r.cursor - Len(r.buffer) = v
            /\ \A i \in 1..Len(r.buffer) : r.buffer[i] = Bottom(s) + v + i - 1
        BY <1>6, <2>3, <4>1
      <4>3. o \in Nat /\ d \in Nat
        BY <1>5
      <4>4. entry = File[Bottom(s) + v]
        <5> DEFINE q == r.buffer
        <5>1. q \in Seq(1..n) /\ q # <<>> /\ \A i \in 1..Len(q) : q[i] = Bottom(s) + v + i - 1
          BY <4>2
        <5>2. Bottom(s) \in Int /\ v \in Int
          BY <4>2, CountIs
        <5> HIDE DEF q, v
        <5>3. 1 \in 1..Len(q)
          BY <5>1
        <5>4. q[1] = Bottom(s) + v
          BY <5>1, <5>2, <5>3
        <5> QED BY <4>2, <5>4 DEF q
      <4> HIDE DEF T, r, entry, v, o, d
      <4>5. InPlace(s, Tail(r.buffer), r.cursor, w)
        <5> DEFINE q == r.buffer
                   pos == r.cursor
        <5> HIDE DEF q, pos
        <5>1. /\ q \in Seq(1..Len(File)) /\ q # <<>> /\ pos \in Nat
              /\ v \in 0..(Replay!RowCount(s) - 1) /\ pos <= Replay!RowCount(s) /\ pos - Len(q) = v
              /\ \A i \in 1..Len(q) : q[i] = Bottom(s) + v + i - 1
          BY <4>2 DEF q, pos
        <5>2. InPlace(s, Tail(q), pos, (v + 1) % Replay!RowCount(s))
          BY <4>2, <5>1, ServedInPlace
        <5> QED BY <5>2 DEF q, pos
      <4>6. AddsUp(s, Replay!Counted(o, d, entry), entry.day, w, <<p, s>>, carried')
        <5> DEFINE x == <<p, s>>
                   D == carried'
        <5>1. x \in D <=> x \in carried /\ entry.day = d
          BY <3>2
        <5>2. AddsUp(s, o, d, v, x, carried)
          BY <4>1
        <5> HIDE DEF x, D
        <5>3. AddsUp(s, Replay!Counted(o, d, entry), entry.day, (v + 1) % Replay!RowCount(s), x, D)
          BY <4>2, <4>3, <4>4, <5>1, <5>2, ServedAddsUp
        <5> QED BY <5>3 DEF x, D
      <4> QED BY <4>5, <4>6
    <3> HIDE DEF w, r, entry, o, d, v
    <3>5. c >= Window =>
            /\ InPlace(s, buffer'[p][s], cursor'[p][s], served'[p][s])
            /\ AddsUp(s, occupancy'[p][s], day'[p][s], served'[p][s], <<p, s>>, carried')
      BY <3>1, <3>4
    <3> QED BY <3>3, <3>5 DEF Follows
  <2> QED BY <2>2, <2>3
<1> QED BY <1>11, <1>12, <1>13

\* What a tick does to some stations keeps the invariant.
LEMMA ServedKeeps ==
  ASSUME Replay!ReplayConstants, ReplayInv, leader \in loaded, NEW S, Replay!Serve(leader, S),
         leader' = leader, loaded' = loaded, DOMAIN saved' \subseteq Replay!Station,
         \A s \in DOMAIN saved' : saved'[s].occupancy \in Nat /\ saved'[s].day \in Nat,
         faults' \in 0..MaxFaults
  PROVE  ReplayInv'
<1> SUFFICES ASSUME NEW p, p = leader PROVE ReplayInv'
  OBVIOUS
<1>1. p \in loaded /\ Replay!Serve(p, S)
  OBVIOUS
<1>2. /\ Held'
      /\ \A q \in Process : q # p => Keeps(q)
      /\ \A s \in Replay!Station : Follows(p, s)'
  BY <1>1, ServeFollows
<1>3. /\ leader \in Process /\ loaded \subseteq Process
      /\ \A q \in Process \ loaded, s \in Replay!Station : served[q][s] = 0 /\ day[q][s] = 0
      /\ \A q \in loaded, s \in Replay!Station : Follows(q, s)
  BY DEF ReplayInv, Replay!TypeOK
<1>4. Replay!TypeOK'
  BY <1>2, <1>3 DEF Replay!TypeOK, Held
<1>5. ASSUME NEW q \in loaded', NEW s \in Replay!Station PROVE Follows(q, s)'
  <2>1. CASE q = p
    BY <1>2, <2>1
  <2>2. CASE q # p
    <3>1. q \in loaded /\ q \in Process
      BY <1>3
    <3> QED BY <1>2, <1>3, <2>2, <3>1, KeptFollows
  <2> QED BY <2>1, <2>2
<1>6. ASSUME NEW q \in Process \ loaded', NEW s \in Replay!Station
      PROVE  served'[q][s] = 0 /\ day'[q][s] = 0
  <2>1. q \in Process \ loaded /\ q # p
    BY <1>1
  <2>2. served[q][s] = 0 /\ day[q][s] = 0
    BY <1>3, <2>1
  <2> QED BY <1>2, <2>1, <2>2 DEF Keeps
<1> QED BY <1>4, <1>5, <1>6 DEF ReplayInv

LEMMA TickFollows ==
  ASSUME Replay!ReplayConstants, ReplayInv, Replay!Tick
  PROVE  ReplayInv'
<1>1. /\ leader \in loaded /\ Replay!Serve(leader, Replay!Station)
      /\ saved' = [s \in {t \in Replay!Station : Replay!InFile(leader, t)} |->
                    [occupancy |-> occupancy'[leader][s], day |-> day'[leader][s]]]
      /\ leader' = leader /\ loaded' = loaded /\ faults' = faults
  BY DEF Replay!Tick
<1>2. Held' /\ leader \in Process
  <2>1. Held'
    BY <1>1, ServeFollows
  <2> QED BY <2>1 DEF ReplayInv, Replay!TypeOK
<1>3. \A s \in Replay!Station : occupancy'[leader][s] \in Nat /\ day'[leader][s] \in Nat
  BY <1>2 DEF Held
<1>4. /\ DOMAIN saved' \subseteq Replay!Station
      /\ \A s \in DOMAIN saved' : saved'[s].occupancy \in Nat /\ saved'[s].day \in Nat
  BY <1>1, <1>3
<1>5. faults' \in 0..MaxFaults
  BY <1>1 DEF ReplayInv, Replay!TypeOK
<1> QED BY <1>1, <1>4, <1>5, ServedKeeps

LEMMA TickFailsFollows ==
  ASSUME Replay!ReplayConstants, ReplayInv, NEW n, Replay!TickFails(n)
  PROVE  ReplayInv'
<1>1. /\ leader \in loaded /\ faults < MaxFaults /\ faults' = faults + 1
      /\ \E S : Replay!Serve(leader, S)
      /\ leader' = leader /\ loaded' = loaded /\ saved' = saved
  BY Zenon DEF Replay!TickFails
<1>2. PICK S : Replay!Serve(leader, S)
  BY <1>1
<1>3. /\ DOMAIN saved \subseteq Replay!Station /\ faults \in 0..MaxFaults
      /\ \A s \in DOMAIN saved : saved[s].occupancy \in Nat /\ saved[s].day \in Nat
  BY DEF ReplayInv, Replay!TypeOK
<1>4. faults' \in 0..MaxFaults
  BY <1>1, <1>3, FileIsTyped
<1>5. /\ DOMAIN saved' \subseteq Replay!Station
      /\ \A s \in DOMAIN saved' : saved'[s].occupancy \in Nat /\ saved'[s].day \in Nat
  BY <1>1, <1>3
<1> QED BY <1>1, <1>2, <1>4, <1>5, ServedKeeps

\* Nothing is held otherwise than before.
LEMMA UntouchedFollows ==
  ASSUME Replay!ReplayConstants, ReplayInv, UNCHANGED Replay!memory, loaded' = loaded,
         leader' \in Process, faults' \in 0..MaxFaults, DOMAIN saved' \subseteq Replay!Station,
         \A s \in DOMAIN saved' : saved'[s].occupancy \in Nat /\ saved'[s].day \in Nat
  PROVE  ReplayInv'
<1>1. /\ index' = index /\ buffer' = buffer /\ cursor' = cursor /\ occupancy' = occupancy
      /\ day' = day /\ served' = served /\ carried' = carried
  BY DEF Replay!memory
<1>2. /\ loaded \subseteq Process
      /\ \A q \in Process \ loaded, s \in Replay!Station : served[q][s] = 0 /\ day[q][s] = 0
      /\ \A q \in loaded, s \in Replay!Station : Follows(q, s)
  BY DEF ReplayInv, Replay!TypeOK
<1>3. Held'
  BY <1>1, InvHeld DEF Held
<1>4. Replay!TypeOK'
  BY <1>2, <1>3 DEF Replay!TypeOK, Held
<1>5. ASSUME NEW q \in loaded', NEW s \in Replay!Station PROVE Follows(q, s)'
  <2>1. Keeps(q) /\ Follows(q, s)
    BY <1>1, <1>2 DEF Keeps
  <2> QED BY <2>1, KeptFollows
<1> QED BY <1>1, <1>2, <1>4, <1>5 DEF ReplayInv

LEMMA HandoverFollows ==
  ASSUME Replay!ReplayConstants, ReplayInv, NEW p \in Process, Replay!Handover(p)
  PROVE  ReplayInv'
<1>1. leader' \in Process /\ loaded' = loaded /\ UNCHANGED Replay!memory /\ saved' = saved /\ faults' = faults
  BY DEF Replay!Handover
<1>2. /\ DOMAIN saved \subseteq Replay!Station /\ faults \in 0..MaxFaults
      /\ \A s \in DOMAIN saved : saved[s].occupancy \in Nat /\ saved[s].day \in Nat
  BY DEF ReplayInv, Replay!TypeOK
<1> QED BY <1>1, <1>2, UntouchedFollows

LEMMA ForgetFollows ==
  ASSUME Replay!ReplayConstants, ReplayInv, Replay!Forget
  PROVE  ReplayInv'
<1>1. /\ leader' = leader /\ loaded' = loaded /\ UNCHANGED Replay!memory /\ saved' = <<>>
      /\ faults < MaxFaults /\ faults' = faults + 1
  BY DEF Replay!Forget
<1>2. leader \in Process /\ faults \in 0..MaxFaults
  BY DEF ReplayInv, Replay!TypeOK
<1>3. faults' \in 0..MaxFaults
  BY <1>1, <1>2, FileIsTyped
<1>4. DOMAIN saved' = {}
  BY <1>1
<1> QED BY <1>1, <1>2, <1>3, <1>4, UntouchedFollows

LEMMA StutterFollows ==
  ASSUME Replay!ReplayConstants, ReplayInv, UNCHANGED Replay!vars
  PROVE  ReplayInv'
<1>1. leader' = leader /\ loaded' = loaded /\ UNCHANGED Replay!memory /\ saved' = saved /\ faults' = faults
  BY DEF Replay!vars
<1>2. /\ leader \in Process /\ DOMAIN saved \subseteq Replay!Station /\ faults \in 0..MaxFaults
      /\ \A s \in DOMAIN saved : saved[s].occupancy \in Nat /\ saved[s].day \in Nat
  BY DEF ReplayInv, Replay!TypeOK
<1> QED BY <1>1, <1>2, UntouchedFollows

\* A process that starts again has nothing left.
LEMMA CrashFollows ==
  ASSUME Replay!ReplayConstants, ReplayInv, NEW p \in Process, Replay!Crash(p)
  PROVE  ReplayInv'
<1> DEFINE n == Len(File)
           blank(x) == [s \in Replay!Station |-> x]
<1>1. /\ faults < MaxFaults /\ faults' = faults + 1 /\ loaded' = loaded \ {p}
      /\ index' = [index EXCEPT ![p] = blank(Replay!NotRead)]
      /\ buffer' = [buffer EXCEPT ![p] = blank(<<>>)]
      /\ cursor' = [cursor EXCEPT ![p] = blank(0)]
      /\ occupancy' = [occupancy EXCEPT ![p] = blank(0)]
      /\ day' = [day EXCEPT ![p] = blank(0)]
      /\ served' = [served EXCEPT ![p] = blank(0)]
      /\ carried' = carried \ ({p} \X Replay!Station)
      /\ leader' = leader /\ saved' = saved
  BY DEF Replay!Crash, Replay!NoDay
<1>2. /\ leader \in Process /\ loaded \subseteq Process
      /\ DOMAIN saved \subseteq Replay!Station /\ faults \in 0..MaxFaults
      /\ \A s \in DOMAIN saved : saved[s].occupancy \in Nat /\ saved[s].day \in Nat
      /\ \A q \in Process \ loaded, s \in Replay!Station : served[q][s] = 0 /\ day[q][s] = 0
      /\ \A q \in loaded, s \in Replay!Station : Follows(q, s)
  BY DEF ReplayInv, Replay!TypeOK
<1>3. Held /\ n \in Nat
  BY InvHeld, FileIsTyped
<1>4. \A x, X : x \in X => blank(x) \in [Replay!Station -> X]
  OBVIOUS
<1>5. /\ Replay!NotRead \in [start : 0..n, count : 0..n] /\ 0 \in 0..n /\ 0 \in Nat
  BY <1>3 DEF Replay!NotRead
<1>6. <<>> \in Seq(1..n)
  OBVIOUS
<1>7. /\ blank(Replay!NotRead) \in [Replay!Station -> [start : 0..n, count : 0..n]]
      /\ blank(<<>>) \in [Replay!Station -> Seq(1..n)]
      /\ blank(0) \in [Replay!Station -> 0..n] /\ blank(0) \in [Replay!Station -> Nat]
  BY <1>4, <1>5, <1>6
<1>8. \A s \in Replay!Station : blank(0)[s] = 0
  OBVIOUS
<1> HIDE DEF blank
<1>9. Held'
  <2>1. index' \in [Process -> [Replay!Station -> [start : 0..Len(File), count : 0..Len(File)]]]
    BY <1>1, <1>3, <1>7, TableChanges DEF Held
  <2>2. buffer' \in [Process -> [Replay!Station -> Seq(1..Len(File))]]
    BY <1>1, <1>3, <1>7, TableChanges DEF Held
  <2>3. cursor' \in [Process -> [Replay!Station -> 0..Len(File)]]
    BY <1>1, <1>3, <1>7, TableChanges DEF Held
  <2>4. /\ occupancy' \in [Process -> [Replay!Station -> Nat]]
        /\ day' \in [Process -> [Replay!Station -> Nat]]
        /\ served' \in [Process -> [Replay!Station -> Nat]]
    BY <1>1, <1>3, <1>7, TableChanges DEF Held
  <2>5. carried' \subseteq Process \X Replay!Station
    BY <1>1, <1>3 DEF Held
  <2> QED BY <2>1, <2>2, <2>3, <2>4, <2>5 DEF Held
<1>10. ASSUME NEW q \in Process, q # p PROVE Keeps(q)
  BY <1>1, <1>3, <1>10 DEF Held, Keeps
<1>11. served'[p] = blank(0) /\ day'[p] = blank(0)
  BY <1>1, <1>3 DEF Held
<1>12. faults' \in 0..MaxFaults
  BY <1>1, <1>2, FileIsTyped
<1>13. Replay!TypeOK'
  BY <1>1, <1>2, <1>9, <1>12 DEF Replay!TypeOK, Held
<1>14. ASSUME NEW q \in loaded', NEW s \in Replay!Station PROVE Follows(q, s)'
  <2>1. q \in loaded /\ q \in Process /\ q # p
    BY <1>1, <1>2
  <2> QED BY <1>2, <1>10, <2>1, KeptFollows
<1>15. ASSUME NEW q \in Process \ loaded', NEW s \in Replay!Station
       PROVE  served'[q][s] = 0 /\ day'[q][s] = 0
  <2>1. CASE q = p
    BY <1>8, <1>11, <2>1
  <2>2. CASE q # p
    <3>1. q \in Process \ loaded
      BY <1>1, <2>2
    <3> QED BY <1>2, <1>10, <2>2, <3>1 DEF Keeps
  <2> QED BY <2>1, <2>2
<1> QED BY <1>1, <1>2, <1>13, <1>14, <1>15 DEF ReplayInv

LEMMA StepFollows ==
  ASSUME Replay!ReplayConstants, ReplayInv, [Replay!Next]_Replay!vars
  PROVE  ReplayInv'
<1>1. ASSUME UNCHANGED Replay!vars PROVE ReplayInv'
  BY <1>1, StutterFollows
<1>2. ASSUME Replay!Load \/ Replay!Tick \/ Replay!Forget PROVE ReplayInv'
  BY <1>2, LoadFollows, TickFollows, ForgetFollows
<1>3. ASSUME NEW n \in 1..(Len(Active) + 1), Replay!TickFails(n) PROVE ReplayInv'
  BY <1>3, TickFailsFollows
<1>4. ASSUME NEW p \in Process, Replay!Handover(p) \/ Replay!Crash(p) PROVE ReplayInv'
  BY <1>4, HandoverFollows, CrashFollows
<1>5. ASSUME Replay!Next PROVE ReplayInv'
  BY <1>2, <1>3, <1>4, <1>5 DEF Replay!Next
<1> QED BY <1>1, <1>5

\* Where the rows of a buffer lie, counted around the rows of the station.
LEMMA RoundAndRound ==
  ASSUME NEW c \in Nat \ {0}, NEW pos \in 0..c, NEW l \in 0..pos, NEW v \in 0..(c - 1),
         pos - l = v \/ (v = 0 /\ pos - l = c)
  PROVE  /\ (pos - v - l) % c = 0
         /\ \A i \in 1..l : (v + i - 1) % c = pos - l + i - 1 /\ pos - l + i - 1 \in 0..(c - 1)
<1>1. c % c = 0 /\ \A x \in 0..(c - 1) : x % c = x
  BY Remainders
<1>2. pos - v - l = 0 \/ pos - v - l = c
  OBVIOUS
<1>3. 0 \in 0..(c - 1)
  OBVIOUS
<1>4. (pos - v - l) % c = 0
  <2> DEFINE u == pos - v - l
  <2> HIDE DEF u
  <2>1. u = 0 \/ u = c
    BY <1>2 DEF u
  <2>2. u % c = 0
    BY <1>1, <1>3, <2>1
  <2> QED BY <2>2 DEF u
<1>5. ASSUME NEW i \in 1..l
      PROVE  (v + i - 1) % c = pos - l + i - 1 /\ pos - l + i - 1 \in 0..(c - 1)
  <2>1. v + i - 1 = pos - l + i - 1 /\ v + i - 1 \in 0..(c - 1)
    BY <1>2
  <2> DEFINE u == v + i - 1
  <2> HIDE DEF u
  <2>2. u = pos - l + i - 1 /\ u \in 0..(c - 1)
    BY <2>1 DEF u
  <2>3. u % c = u
    BY <1>1, <2>2
  <2> QED BY <2>2, <2>3 DEF u
<1> QED BY <1>4, <1>5

LEMMA RowsAreFollowed ==
  ASSUME Replay!ReplayConstants, ReplayInv
  PROVE  Replay!ReplayFollowsTheFile
<1> SUFFICES ASSUME NEW p \in loaded, NEW s \in Replay!Station, Replay!InFile(p, s),
                    Replay!RowCount(s) >= Window
             PROVE  /\ \A i \in 1..Len(buffer[p][s]) :
                          buffer[p][s][i] = Replay!RowOf(s, ((served[p][s] + i - 1) % Replay!RowCount(s)) + 1)
                    /\ (cursor[p][s] - served[p][s] - Len(buffer[p][s])) % Replay!RowCount(s) = 0
                    /\ served[p][s] > 0 /\ <<p, s>> \notin carried
                          => occupancy[p][s] = Replay!Sum(s, served[p][s])
  BY DEF Replay!ReplayFollowsTheFile
<1> DEFINE c == Replay!RowCount(s)
           v == served[p][s]
           rows == buffer[p][s]
           pos == cursor[p][s]
           l == Len(rows)
<1>1. FileRows(s) # {} /\ InPlace(s, rows, pos, v) /\ AddsUp(s, occupancy[p][s], day[p][s], v, <<p, s>>, carried)
  <2>1. Follows(p, s)
    BY DEF ReplayInv
  <2>2. FileRows(s) # {}
    <3> SUFFICES ASSUME FileRows(s) = {} PROVE FALSE
      OBVIOUS
    <3>1. index[p][s].count = 0
      BY <2>1 DEF Follows, Indexed
    <3> QED BY <3>1 DEF Replay!InFile
  <2> QED BY <2>1, <2>2 DEF Follows
<1>2. rows \in Seq(1..Len(File)) /\ pos \in 0..Len(File)
  BY DEF ReplayInv, Replay!TypeOK
<1>3. c \in Nat \ {0} /\ Bottom(s) \in Int
  BY <1>1, CountIs
<1> HIDE DEF rows, pos, v, c
<1>4. pos \in 0..c /\ l \in 0..pos /\ v \in 0..(c - 1) /\ (pos - l = v \/ (v = 0 /\ pos - l = c))
      /\ \A i \in 1..l : rows[i] = Bottom(s) + (pos - l) + i - 1
  <2>1. l \in Nat /\ pos \in Nat
    BY <1>2
  <2>2. /\ v \in 0..(c - 1) /\ pos <= c /\ l <= pos /\ (pos - l = v \/ (v = 0 /\ pos - l = c))
        /\ \A i \in 1..l : rows[i] = Bottom(s) + (pos - l) + i - 1
    BY <1>1 DEF InPlace, c
  <2> QED BY <1>3, <2>1, <2>2
<1> HIDE DEF l
<1>5. /\ (pos - v - l) % c = 0
      /\ \A i \in 1..l : (v + i - 1) % c = pos - l + i - 1 /\ pos - l + i - 1 \in 0..(c - 1)
  BY <1>3, <1>4, RoundAndRound
<1>6. ASSUME NEW i \in 1..l PROVE rows[i] = Replay!RowOf(s, ((v + i - 1) % c) + 1)
  <2> DEFINE m == (v + i - 1) % c
             k == pos - l + i - 1
  <2>1. m = k /\ k \in 0..(c - 1) /\ rows[i] = Bottom(s) + (pos - l) + i - 1
    BY <1>4, <1>5
  <2>2. l \in Int /\ pos \in Int
    BY <1>4, <1>3
  <2>3. rows[i] = Bottom(s) + k
    BY <1>3, <2>1, <2>2
  <2> HIDE DEF m, k
  <2>4. m + 1 \in 1..c /\ m \in Int
    BY <1>3, <2>1
  <2>5. Replay!RowOf(s, m + 1) = Bottom(s) + (m + 1) - 1
    BY <1>1, <2>4, RowsFollow DEF c
  <2>6. rows[i] = Replay!RowOf(s, m + 1)
    BY <1>3, <2>1, <2>3, <2>4, <2>5
  <2> QED BY <2>6 DEF m
<1>7. v > 0 /\ <<p, s>> \notin carried => occupancy[p][s] = Replay!Sum(s, v)
  BY <1>1, SumIsTotal DEF AddsUp
<1> QED BY <1>5, <1>6, <1>7 DEF c, v, rows, pos, l

\* Every process serves a station its own rows in the order of the file, and its occupancy is what
\* the rows of the day add up to: for any file whose rows of a station lie together and do not
\* end on the day they begin, any chunks and windows, and every failure, restart and handover.
THEOREM ReplayAlwaysFollows ==
  ASSUME Replay!ReplayConstants
  PROVE  Replay!Spec => [](Replay!TypeOK /\ Replay!ReplayFollowsTheFile)
<1>1. Replay!Init => ReplayInv
  BY InitFollows
<1>2. ReplayInv /\ [Replay!Next]_Replay!vars => ReplayInv'
  BY StepFollows
<1>3. ReplayInv => Replay!TypeOK /\ Replay!ReplayFollowsTheFile
  BY RowsAreFollowed DEF ReplayInv
<1> QED BY <1>1, <1>2, <1>3, PTL DEF Replay!Spec
=============================================================================
