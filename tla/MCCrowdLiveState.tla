-------------------------- MODULE MCCrowdLiveState --------------------------
(***************************************************************************)
(* Two instances of CrowdLiveState, of which a behaviour runs one: trips   *)
(* both ways between two stations, next to a reader, and one trip next to  *)
(* every other kind of request, with a tick that takes the rows in the     *)
(* order opposite to that of check-outs.  The idle one keeps its initial   *)
(* state, so a property of either is a property of the sum.                *)
(***************************************************************************)
EXTENDS CrowdLiveState

CONSTANTS p, q,              \* passengers
          MixedRequests, MixedCounts

Trip(user, from, to, n) == [user |-> user, from |-> from, to |-> to, n |-> n]
Reading(s, count, seen) == [station |-> s, count |-> count, seen |-> seen]

BothWaysAndAgain == {Trip(p, 1, 2, 1), Trip(q, 2, 1, 1), Trip(p, 1, 2, 2)}
OneTrip == {Trip(p, 1, 2, 1)}

NoReading == {}
\* Sent together or apart, the one of station 2 seen first.
TwoReadings == {Reading(1, 2, 1), Reading(2, 1, 0)}

ById == [s \in Stations |-> s]
Backwards == [s \in Stations |-> -s]

VARIABLES part,   \* the instance that runs
          mNow, mStatus, mRow, mUpdated, mTaken, mHolder, mGuard, mPc, mKind, mTrip, mBatch,
          mValue, mBegan, mPlan, mLooked, mStaged, mCache, mReader, mStops

mVars == <<mNow, mStatus, mRow, mUpdated, mTaken, mHolder, mGuard, mPc, mKind, mTrip, mBatch,
           mValue, mBegan, mPlan, mLooked, mStaged, mCache, mReader, mStops>>

M == INSTANCE CrowdLiveState
     WITH Trips <- OneTrip, Readings <- TwoReadings, Counts <- MixedCounts, Readers <- {},
          Requests <- MixedRequests, TickOrder <- Backwards, MaxStops <- 0,
          now <- mNow, status <- mStatus, row <- mRow, updated <- mUpdated, taken <- mTaken,
          holder <- mHolder, guard <- mGuard, pc <- mPc, kind <- mKind, trip <- mTrip,
          batch <- mBatch, value <- mValue, began <- mBegan, plan <- mPlan,
          looked <- mLooked, staged <- mStaged, cache <- mCache, reader <- mReader,
          stops <- mStops

allVars == <<part, vars, mVars>>

SumInit == part \in {"trips", "mixed"} /\ Init /\ M!Init

SumNext ==
    /\ UNCHANGED part
    /\ \/ part = "trips" /\ Next /\ UNCHANGED mVars
       \/ part = "mixed" /\ M!Next /\ UNCHANGED vars

\* The fairness of FairSpec, for the instance that runs.
SumSpec ==
    /\ SumInit /\ [][SumNext]_allVars
    /\ \A w \in Writers : WF_vars(part = "trips" /\ Proceed(w)) /\ WF_mVars(part = "mixed" /\ M!Proceed(w))
    /\ \A r \in Readers : WF_vars(part = "trips" /\ Fill(r))
    /\ \A s \in Stations : WF_vars(part = "trips" /\ Expire(s)) /\ WF_mVars(part = "mixed" /\ M!Expire(s))
    /\ WF_mVars(/\ part = "mixed"
                /\ \E w \in Writers, base \in [Stations -> MixedCounts] : M!SimulatorTick(w, base))

\* Of the second instance: deltas are exact, and check-ins get counted.
MixedDeltasAreExact == M!DeltasAreExact
MixedCheckInsGetCounted == M!CheckInsGetCounted
=============================================================================
