------------------------------ MODULE MCLoops ------------------------------
(***************************************************************************)
(* What the leader runs for ever, of which a behaviour runs one: the       *)
(* retention job, the tracking of a train, and the loop of the simulator   *)
(* with its settings.  The idle ones keep their initial states, so an      *)
(* invariant of one is an invariant of the sum.                            *)
(***************************************************************************)
EXTENDS CrowdRetention, Sequences
CONSTANTS p1, p2,       \* processes, or threads
          a, b, c, d,   \* stations
          NoRow, NoControl

\* A timetable that gains a station, and a feed that turns the train round.
Lines == << <<a, b, c>>, <<a, b, d, c>> >>
FeedEvents == {[station |-> c, next |-> b, progress |-> 1, observed |-> 0],
               [station |-> b, next |-> c, progress |-> 0, observed |-> 1],
               [station |-> a, next |-> b, progress |-> 1, observed |-> 1]}
Budget(t, f, e, n) == [time |-> t, faults |-> f, edits |-> e, deliveries |-> n]
Tracked == {Budget(0, 2, 0, 0), Budget(0, 1, 1, 0), Budget(1, 0, 0, 3),
            Budget(0, 0, 2, 1), Budget(0, 1, 0, 1)}

\* Administrators pause, resume and slow down the simulator.
Configured == [enabled |-> TRUE, interval |-> 2]
Ask(on, n, fields) == [to |-> [enabled |-> on, interval |-> n], fields |-> fields]
Controls == {Ask(FALSE, 1, {"enabled"}), Ask(TRUE, 1, {"enabled"}), Ask(TRUE, 1, {"interval"})}

VARIABLES part,   \* the one that runs
          tLeader, tTable, tDelay, tShared, tLocal, tStale, tMemory, tTick, tRow,
          tSeen, tApplied, tRewound, tNow, tLeft, cUp, cShared, cClient, cCopy, cOwn, cDraft,
          cLeader, cLoop, cUsed, cRemaining, cAsked, cDoubtful, cChanges, cOutages

tVars == <<tLeader, tTable, tDelay, tShared, tLocal, tStale, tMemory, tTick, tRow, tSeen,
           tApplied, tRewound, tNow, tLeft>>
cVars == <<cUp, cShared, cClient, cCopy, cOwn, cDraft, cLeader, cLoop, cUsed, cRemaining,
           cAsked, cDoubtful, cChanges, cOutages>>

T == INSTANCE TrainTracking
     WITH Process <- {p1, p2}, Routes <- Lines, Parts <- 2, Delays <- {0, 10, -10},
          Events <- FeedEvents, Budgets <- Tracked, leader <- tLeader, table <- tTable,
          delay <- tDelay, shared <- tShared, local <- tLocal, stale <- tStale,
          memory <- tMemory, tick <- tTick, row <- tRow, seen <- tSeen, applied <- tApplied,
          rewound <- tRewound, now <- tNow, left <- tLeft

C == INSTANCE RuntimeControl
     WITH Process <- {p1, p2}, Default <- Configured, Changes <- Controls, MaxChanges <- 3,
          MaxOutages <- 1, up <- cUp, shared <- cShared, client <- cClient, copy <- cCopy,
          own <- cOwn, draft <- cDraft, leader <- cLeader, loop <- cLoop, used <- cUsed,
          remaining <- cRemaining, asked <- cAsked, doubtful <- cDoubtful, changes <- cChanges,
          outages <- cOutages

\* Theorems about TrainTracking and RuntimeControl suppose this of their constants.
ASSUME TrackingAssumption == T!TrackingConstants
ASSUME ControlAssumption == C!ControlConstants

allVars == <<part, vars, tVars, cVars>>

SumInit ==
    /\ part \in {"retention", "tracking", "control"}
    /\ Init /\ T!Init /\ C!Init
    \* An idle one has one initial state.
    /\ part # "tracking" => tLeft = Budget(0, 2, 0, 0)
    /\ part # "control" => cLeader = p1

Runs(name) ==
    /\ part = name /\ UNCHANGED part
    /\ name # "retention" => UNCHANGED vars
    /\ name # "tracking" => UNCHANGED tVars
    /\ name # "control" => UNCHANGED cVars

SumNext ==
    \/ Next /\ Runs("retention")
    \/ T!Next /\ Runs("tracking")
    \/ C!Next /\ Runs("control")

\* The fairness of each module, for the one that runs.
RetentionFairness ==
    /\ WF_vars(part = "retention" /\ Tick)
    /\ WF_vars(part = "retention" /\ Work(p1))

TrackingFairness ==
    /\ WF_tVars(part = "tracking" /\ T!ExpireShared)
    /\ \A p \in {p1, p2} :
          /\ WF_tVars(part = "tracking" /\ T!FindRoute(p)) /\ WF_tVars(part = "tracking" /\ T!FillShared(p))
          /\ WF_tVars(part = "tracking" /\ T!Move(p)) /\ WF_tVars(part = "tracking" /\ T!Commit(p))
          /\ WF_tVars(part = "tracking" /\ T!Invalidate(p)) /\ SF_tVars(part = "tracking" /\ T!ExpireLocal(p))

ControlFairness ==
    /\ WF_cVars(part = "control" /\ C!Check) /\ WF_cVars(part = "control" /\ C!Tick)
    /\ WF_cVars(part = "control" /\ C!Slice)
    /\ \A p \in {p1, p2} :
          /\ WF_cVars(part = "control" /\ C!Store(p)) /\ WF_cVars(part = "control" /\ C!Reconnect(p))

SumSpec ==
    /\ SumInit /\ [][SumNext]_allVars
    /\ RetentionFairness /\ TrackingFairness /\ ControlFairness

-----------------------------------------------------------------------------
\* Every variable has its type.
TypesOK == TypeOK /\ T!TypeOK /\ C!TypeOK

\* The feed moves the train in the order of its events, and a train that runs keeps
\* circulating.
FeedAppliesInOrder == T!FeedAppliesInOrder
KeepsCirculating == part = "tracking" => T!KeepsCirculating

\* The settings are as the administrators left them, and a pause takes hold.
ControlIsAsAsked == C!ControlIsAsAsked
PauseTakesHold == C!PauseTakesHold
=============================================================================
