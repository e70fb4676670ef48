-------------------------- MODULE PredictionService --------------------------
(***************************************************************************)
(* Forecasts and recommendations for one station                           *)
(* (app/services/prediction_service.py, app/ai_engine/prediction): answers *)
(* read through a cache, the fleet statistics a delay is predicted from,   *)
(* kept once in Redis and once in each process, and the rows of            *)
(* predictions, which a key in Redis lets one request write and the others *)
(* look for.  Every request has a moment of its own, its number; an answer *)
(* out of the cache has the moment of the request that computed it.        *)
(***************************************************************************)
EXTENDS Integers, Sequences, FiniteSets, SequencesExt

CONSTANTS Process, Thread,
          Home,     \* the process of a thread
          None,
          Budgets   \* bounds, one set for each scenario: of requests, writes of trains,
                    \* outages, expiries and failed commits

VARIABLES
    clock,    \* the requests so far
    up,       \* Redis is reachable
    redis,    \* what it holds
    own,      \* _local_cache of each process, read when Redis is away
    fleet,    \* the trains, as a version of them
    stats,    \* _fleet_stats_local of each process
    thread,   \* the requests
    rows,     \* predictions: [key, moment, by], in the order of their commits
    loose,    \* history: forecasts two requests were let write
    crossed,  \* history: where statistics were kept across a change of the trains
    left      \* what is left of the budget

vars == <<clock, up, redis, own, fleet, stats, thread, rows, loose, crossed, left>>

(***************************************************************************)
(* Requests                                                                *)
(***************************************************************************)
\* What is asked for is looked up by the hour: the crowd now (as are the delay of a
\* train and the frequency), the next hours, and the delay of no train in particular.
Asks == {"forecast", "demand", "smart", "train"}
Keys(ask) == CASE ask = "forecast" -> <<"crowd">>
               [] ask = "demand" -> <<"soon", "later">>
               [] ask = "smart" -> <<"crowd", "delay">>
               [] OTHER -> <<>>
AllKeys == {"crowd", "soon", "later", "delay"}

\* What the proofs assume: a thread is one of a process, and a request asks for something.
HomesAreProcesses == Home \in [Thread -> Process]
RequestsAreNamed == None \notin Asks

NoAnswers == [k \in AllKeys |-> 0]
Idle == [ask |-> None, at |-> "idle", moment |-> 0, todo |-> <<>>, answers |-> NoAnswers,
         found |-> None, looks |-> 0, added |-> {}]

Store == [answers : [AllKeys -> Nat], claims : SUBSET (AllKeys \X Nat), triple : BOOLEAN,
          stats : Nat \cup {None}]
Empty == [answers |-> NoAnswers, claims |-> {}, triple |-> FALSE, stats |-> None]

TypeOK ==
    /\ clock \in Nat /\ up \in BOOLEAN /\ redis \in Store /\ own \in [Process -> Store] /\ fleet \in Nat
    /\ stats \in [Process -> Nat \cup {None}] /\ DOMAIN thread = Thread
    /\ \A t \in Thread : thread[t].at \in {"idle", "look", "stats", "take", "query", "keep", "put", "claim",
                                           "poll", "save", "commit", "delete", "clear"}
    /\ \A i \in DOMAIN rows : rows[i].key \in AllKeys /\ rows[i].by \in Asks
    /\ loose \subseteq AllKeys \X Nat /\ crossed \subseteq Process \cup {None}
    /\ left \in [{"requests", "writes", "outages", "expiries", "failures"} -> Nat]

Init ==
    /\ clock = 0 /\ up = TRUE /\ redis = Empty /\ own = [p \in Process |-> Empty]
    /\ fleet = 0 /\ stats = [p \in Process |-> None]
    /\ thread = [t \in Thread |-> Idle] /\ rows = <<>> /\ loose = {} /\ crossed = {}
    /\ left \in Budgets

Spend(b) == left[b] > 0 /\ left' = [left EXCEPT ![b] = @ - 1]

At(t, where) == thread[t].at = where
Goes(t, with) == thread' = [thread EXCEPT ![t] = with]

\* The store that a process reads, and a change of the store or stores it writes.
Read(p) == IF up THEN redis ELSE own[p]
SetBoth(p, new) ==
    /\ own' = [own EXCEPT ![p] = new[@]]
    /\ redis' = IF up THEN new[redis] ELSE redis
SetOne(p, new) ==
    IF up THEN redis' = new[redis] /\ UNCHANGED own
          ELSE own' = [own EXCEPT ![p] = new[@]] /\ UNCHANGED redis

\* After an answer, a forecast is written; the recommendations once they have both.
Answered(t, moment) ==
    LET r == [thread[t] EXCEPT !.answers[Head(thread[t].todo)] = moment]
    IN IF r.ask = "smart" /\ Len(r.todo) > 1
       THEN [r EXCEPT !.at = "look", !.todo = Tail(@)] ELSE [r EXCEPT !.at = "claim"]

cacheVars == <<redis, own>>
fleetVars == <<fleet, stats, crossed>>

\* The handlers of app/api/v1/prediction.py, and create_train and update_train.
Begin(t, ask) ==
    /\ At(t, "idle")
    /\ IF ask = "train" THEN Spend("writes") ELSE Spend("requests")
    /\ clock' = clock + 1
    /\ Goes(t, [Idle EXCEPT !.ask = ask, !.moment = clock + 1, !.todo = Keys(ask),
                            !.at = IF ask = "train" THEN "commit" ELSE "look"])
    /\ UNCHANGED <<up, cacheVars, fleetVars, rows, loose>>

\* _cached_prediction: an answer of this hour, or one is computed.
Look(t) ==
    /\ At(t, "look")
    /\ LET key == Head(thread[t].todo)
           cached == Read(Home[t]).answers[key]
       IN Goes(t, IF cached # 0 THEN Answered(t, cached)
                  ELSE [thread[t] EXCEPT !.at = IF key = "delay" THEN "stats" ELSE "put"])
    /\ UNCHANGED <<clock, up, cacheVars, fleetVars, rows, loose, left>>

\* ... and kept for PREDICTION_CACHE_TTL_SECONDS.
Put(t) ==
    /\ At(t, "put")
    /\ SetBoth(Home[t], [s \in Store |-> [s EXCEPT !.answers[Head(thread[t].todo)] = thread[t].moment]])
    /\ Goes(t, Answered(t, thread[t].moment))
    /\ UNCHANGED <<clock, up, fleetVars, rows, loose, left>>

(***************************************************************************)
(* _fleet_stats                                                            *)
(***************************************************************************)
Changing == {t \in Thread : thread[t].at \in {"delete", "clear"}}

\* Old statistics out of Redis: why they may stay with the process.
Stays(p, v) ==
    IF v = fleet THEN crossed \ {p}
    ELSE IF None \in crossed \/ \A t \in Changing : Home[t] # p THEN crossed \cup {p} ELSE crossed

\* The global is tested, ...
TestStats(t) ==
    /\ At(t, "stats")
    /\ LET p == Home[t]
       IN IF stats[p] # None
          THEN Goes(t, [thread[t] EXCEPT !.at = "take"]) /\ UNCHANGED <<stats, crossed>>
          ELSE LET v == Read(p).stats
               IN IF v = None THEN Goes(t, [thread[t] EXCEPT !.at = "query"]) /\ UNCHANGED <<stats, crossed>>
                  ELSE /\ stats' = [stats EXCEPT ![p] = v] /\ crossed' = Stays(p, v)
                       /\ Goes(t, [thread[t] EXCEPT !.at = "put"])
    /\ UNCHANGED <<clock, up, cacheVars, fleet, rows, loose, left>>

\* ... and read again: if it has been cleared, the error makes the heuristic answer.
TakeStats(t) ==
    /\ At(t, "take") /\ Goes(t, [thread[t] EXCEPT !.at = "put"])
    /\ UNCHANGED <<clock, up, cacheVars, fleetVars, rows, loose, left>>

\* _compute_fleet_stats
QueryStats(t) ==
    /\ At(t, "query") /\ Goes(t, [thread[t] EXCEPT !.at = "keep", !.found = fleet])
    /\ UNCHANGED <<clock, up, cacheVars, fleetVars, rows, loose, left>>

\* The process keeps them, and so does the cache.
KeepStats(t) ==
    /\ At(t, "keep")
    /\ LET p == Home[t]
           v == thread[t].found
       IN /\ stats' = [stats EXCEPT ![p] = v]
          /\ SetBoth(p, [s \in Store |-> [s EXCEPT !.stats = v]])
          /\ crossed' = IF v # fleet THEN crossed \cup {p, None}
                        ELSE IF up THEN crossed \ {p, None} ELSE crossed \ {p}
    /\ Goes(t, [thread[t] EXCEPT !.at = "put"])
    /\ UNCHANGED <<clock, up, fleet, rows, loose, left>>

(***************************************************************************)
(* _get_or_save_prediction, _maybe_persist_recommendation_predictions      *)
(***************************************************************************)
Forecast(t) == LET key == Head(thread[t].todo) IN <<key, thread[t].answers[key]>>

\* The request goes on to the next hour of a demand, to its commit, or is answered.
Onward(r) == IF Len(r.todo) > 1 /\ r.ask = "demand" THEN [r EXCEPT !.at = "look", !.todo = Tail(@)]
            ELSE IF r.added # {} THEN [r EXCEPT !.at = "commit"] ELSE Idle

Saving(r, key) == [r EXCEPT !.added = @ \cup {[key |-> key, moment |-> r.answers[key], by |-> r.ask]}]

\* A slip: the key is set, whoever had it.
AlwaysClaimable(s, f) == TRUE

\* set_nx of the key of a forecast.
Claimable(s, f) == f \notin s.claims

\* The one that claims it writes it; the others look for it.
Claim(t) ==
    /\ At(t, "claim") /\ thread[t].ask # "smart"
    /\ LET f == Forecast(t)
           r == thread[t]
       IN IF Claimable(Read(Home[t]), f)
          THEN /\ SetOne(Home[t], [s \in Store |-> [s EXCEPT !.claims = @ \cup {f}]])
               /\ loose' = IF up THEN loose ELSE loose \cup {f}
               /\ Goes(t, Onward(Saving(r, f[1])))
          ELSE Goes(t, [r EXCEPT !.at = "poll", !.looks = 0]) /\ UNCHANGED <<cacheVars, loose>>
    /\ UNCHANGED <<clock, up, fleetVars, rows, left>>

\* The row of the forecast, by whatever request; its session holds it before its commit.
Written(t, f) ==
    \/ \E i \in DOMAIN rows : rows[i].key = f[1] /\ rows[i].moment = f[2]
    \/ \E row \in thread[t].added : row.key = f[1] /\ row.moment = f[2]

\* It looks three times, and writes it after all.
Poll(t) ==
    /\ At(t, "poll")
    /\ LET f == Forecast(t)
           r == thread[t]
       IN IF Written(t, f) THEN Goes(t, Onward(r)) /\ UNCHANGED loose
          ELSE IF r.looks < 2 THEN Goes(t, [r EXCEPT !.looks = @ + 1]) /\ UNCHANGED loose
          ELSE Goes(t, Onward(Saving(r, f[1]))) /\ loose' = loose \cup {f}
    /\ UNCHANGED <<clock, up, cacheVars, fleetVars, rows, left>>

\* The rows of the recommendations, once a minute for a station.
ClaimTriple(t) ==
    /\ At(t, "claim") /\ thread[t].ask = "smart"
    /\ IF Read(Home[t]).triple THEN Goes(t, Idle) /\ UNCHANGED cacheVars
       ELSE /\ SetOne(Home[t], [s \in Store |-> [s EXCEPT !.triple = TRUE]])
            /\ Goes(t, Onward(Saving(Saving(thread[t], "crowd"), "delay")))
    /\ UNCHANGED <<clock, up, fleetVars, rows, loose, left>>

Commit(t) ==
    /\ At(t, "commit") /\ thread[t].ask # "train"
    /\ rows' = rows \o SetToSeq(thread[t].added)
    /\ Goes(t, Idle)
    /\ UNCHANGED <<clock, up, cacheVars, fleetVars, loose, left>>

\* The request fails; the key stays.
CommitFails(t) ==
    /\ At(t, "commit") /\ thread[t].ask # "train" /\ Spend("failures")
    /\ Goes(t, Idle)
    /\ UNCHANGED <<clock, up, cacheVars, fleetVars, rows, loose>>

(***************************************************************************)
(* create_train, update_train                                              *)
(***************************************************************************)
\* Copies of other processes stay for their time.
CommitTrain(t) ==
    /\ At(t, "commit") /\ thread[t].ask = "train"
    /\ fleet' = fleet + 1 /\ crossed' = crossed \cup (Process \ {Home[t]})
    /\ Goes(t, [thread[t] EXCEPT !.at = "delete"])
    /\ UNCHANGED <<clock, up, cacheVars, stats, rows, loose, left>>

\* invalidate_fleet_stats_cache: the cache, ...
DeleteStats(t) ==
    /\ At(t, "delete")
    /\ SetBoth(Home[t], [s \in Store |-> [s EXCEPT !.stats = None]])
    /\ crossed' = IF up THEN crossed \ {None} ELSE crossed \cup {None}
    /\ Goes(t, [thread[t] EXCEPT !.at = "clear"])
    /\ UNCHANGED <<clock, up, fleet, stats, rows, loose, left>>

\* A slip: the global is not the one assigned to.
ClearNothing(t) ==
    /\ At(t, "clear") /\ Goes(t, Idle)
    /\ UNCHANGED <<clock, up, cacheVars, fleetVars, rows, loose, left>>

\* ... then the global.
ClearStats(t) ==
    /\ At(t, "clear")
    /\ stats' = [stats EXCEPT ![Home[t]] = None] /\ crossed' = crossed \ {Home[t]}
    /\ Goes(t, Idle)
    /\ UNCHANGED <<clock, up, cacheVars, fleet, rows, loose, left>>

(***************************************************************************)
(* Time and Redis                                                          *)
(***************************************************************************)
\* A process forgets an answer, or has it pushed out, before Redis does.
AnswerExpires ==
    /\ Spend("expiries")
    /\ \E k \in AllKeys :
          \/ \E p \in Process :
                /\ own[p].answers[k] # 0 /\ own' = [own EXCEPT ![p].answers[k] = 0]
                /\ UNCHANGED redis
          \/ /\ redis.answers[k] # 0 /\ redis' = [redis EXCEPT !.answers[k] = 0]
             /\ \A p \in Process : own[p].answers[k] # redis.answers[k]
             /\ UNCHANGED own
    /\ UNCHANGED <<clock, up, fleetVars, thread, rows, loose>>

\* The other keys.  The claim of a forecast is made after its answer and lasts as long.
Kept(f) == \E s \in {redis} \cup {own[p] : p \in Process} : s.answers[f[1]] = f[2]
Expired(s) ==
    {[s EXCEPT !.claims = @ \ {f}] : f \in {f \in s.claims : ~Kept(f)}}
    \cup (IF s.triple THEN {[s EXCEPT !.triple = FALSE]} ELSE {})
    \cup (IF s.stats # None THEN {[s EXCEPT !.stats = None]} ELSE {})

Held == {Forecast(t) : t \in {t \in Thread : thread[t].todo # <<>>}}

Expires ==
    /\ Spend("expiries")
    /\ \/ \E s \in Expired(redis) :
             /\ redis' = s
             /\ loose' = loose \cup {f \in redis.claims \ s.claims : f \in Held}
             /\ crossed' = IF s.stats = None THEN crossed \ {None} ELSE crossed
             /\ UNCHANGED own
       \/ \E p \in Process : \E s \in Expired(own[p]) :
             own' = [own EXCEPT ![p] = s] /\ UNCHANGED <<redis, loose, crossed>>
    /\ UNCHANGED <<clock, up, fleet, stats, thread, rows>>

StatsExpire(p) ==
    /\ Spend("expiries") /\ stats[p] # None /\ stats' = [stats EXCEPT ![p] = None]
    /\ crossed' = crossed \ {p}
    /\ UNCHANGED <<clock, up, cacheVars, fleet, thread, rows, loose>>

RedisFails ==
    /\ up /\ Spend("outages") /\ up' = FALSE
    /\ UNCHANGED <<clock, cacheVars, fleetVars, thread, rows, loose>>

RedisReturns ==
    /\ ~up /\ up' = TRUE
    /\ UNCHANGED <<clock, cacheVars, fleetVars, thread, rows, loose, left>>

Next ==
    \/ \E t \in Thread :
          \/ \E ask \in Asks : Begin(t, ask)
          \/ Look(t) \/ Put(t)
          \/ TestStats(t) \/ TakeStats(t) \/ QueryStats(t) \/ KeepStats(t)
          \/ Claim(t) \/ Poll(t) \/ ClaimTriple(t) \/ Commit(t) \/ CommitFails(t)
          \/ CommitTrain(t) \/ DeleteStats(t) \/ ClearStats(t)
    \/ \E p \in Process : StatsExpire(p)
    \/ AnswerExpires \/ Expires \/ RedisFails \/ RedisReturns

(***************************************************************************)
(* Properties                                                              *)
(***************************************************************************)
\* Requests for one forecast write one row of it, whatever the order of their steps and
\* the failures of commits, unless one of them gave up looking for it, Redis was away
\* when it was claimed, or the claim expired under a request that was still at it.  (The
\* recommendations write rows of their own.)
OneRowPerForecast ==
    \A i, j \in DOMAIN rows :
        (/\ i # j /\ rows[i].key = rows[j].key /\ rows[i].moment = rows[j].moment
         /\ "smart" \notin {rows[i].by, rows[j].by})
        => <<rows[i].key, rows[i].moment>> \in loose

\* The statistics a delay is predicted from are those of the trains there are, in the
\* process that changed a train and in Redis, once that request is done: unless a reader
\* stored what it had read before, or Redis was away; the others have their copy expire.
FleetIsCurrent ==
    Changing = {} =>
        /\ \A p \in Process \ crossed : stats[p] \in {None, fleet}
        /\ None \notin crossed => redis.stats \in {None, fleet}
=============================================================================
