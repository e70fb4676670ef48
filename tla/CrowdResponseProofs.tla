-------------------------- MODULE CrowdResponseProofs --------------------------
(***************************************************************************)
(* Proofs about alerts and the responses that are linked to them, for any  *)
(* number of alerts, responses, threads, requests and stops.               *)
(***************************************************************************)
EXTENDS CrowdResponse, TLAPS

-------------------------------------------------------------------------------
(***************************************************************************)
(* Histories.                                                              *)
(***************************************************************************)
Logged == [action : {"created", "acknowledged", "assigned", "resolved"}, whom : Staff \cup {Nobody}]

\* What is appended comes last, and the rest stays where it is.
LEMMA Appended ==
  ASSUME NEW S, NEW s \in Seq(S), NEW e \in S
  PROVE  /\ Append(s, e) \in Seq(S) /\ DOMAIN s = 1..Len(s) /\ Len(s) \in Nat
         /\ DOMAIN Append(s, e) = 1..(Len(s) + 1)
         /\ \A i \in 1..Len(s) : Append(s, e)[i] = s[i]
         /\ Append(s, e)[Len(s) + 1] = e
         /\ \A i \in DOMAIN Append(s, e) : i \in DOMAIN s \/ i = Len(s) + 1
OBVIOUS

\* An event of another kind leaves the last one of a kind the last.
LEMMA StaysLast ==
  ASSUME NEW s \in Seq(Logged), NEW e \in Logged, NEW kind, NEW who,
         e.action # kind, LastNamed(s, kind, who)
  PROVE  LastNamed(Append(s, e), kind, who)
<1> DEFINE r == Append(s, e)
<1>1. /\ DOMAIN s = 1..Len(s) /\ Len(s) \in Nat /\ DOMAIN r = 1..(Len(s) + 1)
      /\ \A i \in 1..Len(s) : r[i] = s[i]
      /\ r[Len(s) + 1] = e
  BY Appended
<1> HIDE DEF r
<1>2. CASE who = Nobody /\ \A i \in DOMAIN s : s[i].action # kind
  BY <1>1, <1>2 DEF LastNamed, r
<1>3. ASSUME NEW i \in DOMAIN s, s[i] = Event(kind, who),
             \A j \in DOMAIN s : j > i => s[j].action # kind
      PROVE  LastNamed(r, kind, who)
  <2>1. i \in DOMAIN r /\ r[i] = Event(kind, who)
    BY <1>1, <1>3
  <2>2. \A j \in DOMAIN r : j > i => r[j].action # kind
    BY <1>1, <1>3
  <2> QED BY <2>1, <2>2 DEF LastNamed
<1> QED BY <1>2, <1>3 DEF LastNamed, r

\* An event is the last one of its kind when it is appended.
LEMMA ComesLast ==
  ASSUME NEW s \in Seq(Logged), NEW kind, NEW who, Event(kind, who) \in Logged
  PROVE  LastNamed(Append(s, Event(kind, who)), kind, who)
<1> DEFINE e == Event(kind, who)
           r == Append(s, e)
<1>1. Len(s) \in Nat /\ DOMAIN r = 1..(Len(s) + 1) /\ r[Len(s) + 1] = e
  BY Appended
<1> HIDE DEF r
<1>2. Len(s) + 1 \in DOMAIN r /\ \A j \in DOMAIN r : ~(j > Len(s) + 1)
  BY <1>1
<1>3. LastNamed(r, kind, who)
  BY <1>1, <1>2 DEF LastNamed
<1> QED BY <1>3 DEF r

-------------------------------------------------------------------------------
(***************************************************************************)
(* Alerts.                                                                 *)
(***************************************************************************)

\* What a thread is doing, it is doing to an alert of the table; the one that has
\* updated the row of an alert has its lock, and finds it open when it commits.
Desks ==
  \A t \in Threads :
    /\ pc[t] # Idle => alert[t] \in Alerts
    /\ pc[t] \notin {Idle, "insert"} => alert[t] \in exists
    /\ pc[t] = "resolved" => locker[alert[t]] = t /\ alert[t] \notin is_resolved

\* A thread that is to announce a resolution is the only one, and nobody has yet.
OneAnnounces ==
  \A t \in Threads : pc[t] = "ALERT_RESOLVED" =>
    /\ alert[t] \in wanted /\ ~Announced(alert[t])
    /\ \A u \in Threads : pc[u] = "ALERT_RESOLVED" /\ alert[u] = alert[t] => u = t

\* Unless a thread has stopped, what is to be announced is announced or about to be.
NoneForgotten ==
  stops = 0 => \A a \in wanted : Announced(a) \/ \E t \in Threads : alert[t] = a /\ pc[t] = "ALERT_RESOLVED"

AlertInv ==
  TypeOK /\ Desks /\ ResolvedOnce /\ OneAnnounces /\ NoneForgotten /\ HistoryTellsTheState

LEMMA AlertInit == ResponseAssumption /\ Init => AlertInv
<1> SUFFICES ASSUME ResponseAssumption, Init PROVE AlertInv
  OBVIOUS
<1>1. TypeOK /\ Desks
  BY DEF ResponseAssumption, Init, TypeOK, Desks, Idle, Steps
<1>2. \A a \in Alerts : DOMAIN history[a] = {} /\ DOMAIN jobs[a] = {}
  <2>1. DOMAIN <<>> = {}
    OBVIOUS
  <2>2. \A a \in Alerts : history[a] = <<>> /\ jobs[a] = <<>>
    BY DEF Init
  <2> QED BY <2>1, <2>2
<1>3. ResolvedOnce
  BY <1>2 DEF Init, ResolvedOnce, Announced
<1>4. HistoryTellsTheState
  BY <1>2 DEF Init, HistoryTellsTheState, LastNamed
<1>5. OneAnnounces /\ NoneForgotten
  BY DEF Init, OneAnnounces, NoneForgotten, Idle
<1> QED BY <1>1, <1>3, <1>4, <1>5 DEF AlertInv

\* A thread that takes a request has not changed an alert yet.
LEMMA TakeKeeps ==
  ASSUME ResponseAssumption, AlertInv, NEW t \in Threads, NEW step \in {"insert", "acknowledge", "assign", "resolve"},
         NEW a \in Alerts, NEW who \in Staff \cup {Nobody}, NEW note \in BOOLEAN,
         Take(t, step, a, who, note), step = "insert" \/ a \in exists
  PROVE  AlertInv'
<1> USE DEF AlertInv
<1>1. /\ pc[t] = Idle /\ pc' = [pc EXCEPT ![t] = step] /\ alert' = [alert EXCEPT ![t] = a]
      /\ UNCHANGED <<exists, is_resolved, acknowledged_by, assigned_to, history, jobs, wanted, locker, stops>>
  BY DEF Take, tables
<1>2. TypeOK'
  <2>1. requests' \in 0..MaxRequests
    BY DEF ResponseAssumption, Take, TypeOK
  <2> QED BY <1>1, <2>1 DEF TypeOK, Take, Steps
<1>3. Desks' /\ OneAnnounces'
  BY <1>1 DEF TypeOK, Desks, OneAnnounces, Announced, Idle
<1>4. NoneForgotten'
  BY <1>1 DEF TypeOK, NoneForgotten, Announced, Idle
<1>5. ResolvedOnce' /\ HistoryTellsTheState'
  BY <1>1 DEF ResolvedOnce, HistoryTellsTheState, Announced
<1> QED BY <1>2, <1>3, <1>4, <1>5

\* A thread that goes on without touching a resolution leaves the others to theirs.
LEMMA OthersGoOn ==
  ASSUME Desks, OneAnnounces, NoneForgotten, NEW t \in Threads,
         UNCHANGED <<exists, is_resolved, jobs, wanted, locker, stops>>,
         \A u \in Threads \ {t} : pc'[u] = pc[u] /\ alert'[u] = alert[u],
         pc[t] # "ALERT_RESOLVED", pc'[t] \notin {"resolved", "ALERT_RESOLVED"},
         pc'[t] # Idle => alert'[t] = alert[t] /\ pc[t] \notin {Idle, "insert"}
  PROVE  Desks' /\ OneAnnounces' /\ NoneForgotten'
<1>1. Desks'
  BY DEF Desks
<1>2. OneAnnounces'
  BY DEF OneAnnounces, Announced
<1>3. NoneForgotten'
  BY DEF NoneForgotten, Announced
<1> QED BY <1>1, <1>2, <1>3

LEMMA ForgetKeeps ==
  ASSUME TypeOK, Desks, OneAnnounces, NoneForgotten, NEW t \in Threads, Forget(t), pc[t] # "ALERT_RESOLVED",
         UNCHANGED <<exists, is_resolved, jobs, wanted, locker, stops>>
  PROVE  /\ Desks' /\ OneAnnounces' /\ NoneForgotten'
         /\ pc' \in [Threads -> Steps] /\ alert' \in [Threads -> Alerts \cup {NoAlert}]
         /\ whom' \in [Threads -> Staff \cup {Nobody}] /\ notify' \in [Threads -> BOOLEAN]
<1>1. /\ pc' \in [Threads -> Steps] /\ alert' \in [Threads -> Alerts \cup {NoAlert}]
      /\ whom' \in [Threads -> Staff \cup {Nobody}] /\ notify' \in [Threads -> BOOLEAN]
  BY DEF Forget, TypeOK, Steps, Idle
<1>2. (\A u \in Threads \ {t} : pc'[u] = pc[u] /\ alert'[u] = alert[u]) /\ pc'[t] = Idle
  BY DEF TypeOK, Forget
<1>3. pc'[t] \notin {"resolved", "ALERT_RESOLVED"} /\ ~(pc'[t] # Idle)
  BY <1>2 DEF Idle
<1> QED BY <1>1, <1>2, <1>3, OthersGoOn

LEMMA InsertKeeps ==
  ASSUME AlertInv, NEW t \in Threads, Insert(t) PROVE AlertInv'
<1> USE DEF AlertInv
<1>1. /\ pc[t] = "insert" /\ pc' = [pc EXCEPT ![t] = "record"] /\ exists' = exists \cup {alert[t]}
      /\ UNCHANGED <<alert, whom, notify, is_resolved, acknowledged_by, assigned_to, history, jobs,
                     wanted, locker, requests, stops>>
  BY DEF Insert, Goto
<1>2. TypeOK'
  <2>1. alert[t] \in Alerts
    BY <1>1 DEF Desks, Idle
  <2> QED BY <1>1, <2>1 DEF TypeOK, Steps
<1>3. Desks' /\ OneAnnounces'
  BY <1>1 DEF TypeOK, Desks, OneAnnounces, Announced, Idle
<1>4. NoneForgotten'
  BY <1>1 DEF TypeOK, NoneForgotten, Announced
<1>5. ResolvedOnce' /\ HistoryTellsTheState'
  BY <1>1 DEF ResolvedOnce, HistoryTellsTheState, Announced
<1> QED BY <1>2, <1>3, <1>4, <1>5

\* After an event that is no resolution, an alert is resolved in its history as often as before.
LEMMA LogKeepsResolved ==
  ASSUME TypeOK, ResolvedOnce, NEW b \in Alerts, NEW e \in Logged, e.action # "resolved",
         history' = [history EXCEPT ![b] = Append(history[b], e)],
         UNCHANGED <<is_resolved, jobs, wanted>>
  PROVE  ResolvedOnce'
<1> SUFFICES ASSUME NEW a \in Alerts
             PROVE  /\ a \in is_resolved <=> \E i \in DOMAIN history'[a] : history'[a][i].action = "resolved"
                    /\ \A i, j \in DOMAIN history'[a] :
                          history'[a][i].action = "resolved" /\ history'[a][j].action = "resolved" => i = j
  BY DEF ResolvedOnce, Announced
<1>1. CASE a # b
  <2>1. history'[a] = history[a]
    BY <1>1 DEF TypeOK
  <2> QED BY <2>1 DEF ResolvedOnce
<1>2. CASE a = b
  <2>1. history[b] \in Seq(Logged) /\ history'[b] = Append(history[b], e)
    BY DEF TypeOK, Logged
  <2>2. /\ DOMAIN history[b] = 1..Len(history[b]) /\ Len(history[b]) \in Nat
        /\ DOMAIN history'[b] = 1..(Len(history[b]) + 1)
        /\ \A i \in 1..Len(history[b]) : history'[b][i] = history[b][i]
        /\ history'[b][Len(history[b]) + 1] = e
    BY <2>1, Appended
  <2>3. \A i \in DOMAIN history'[b] :
           history'[b][i].action = "resolved" => i \in DOMAIN history[b] /\ history[b][i].action = "resolved"
    BY <2>2
  <2>4. \A i \in DOMAIN history[b] : i \in DOMAIN history'[b] /\ history'[b][i] = history[b][i]
    BY <2>2
  <2> QED BY <1>2, <2>3, <2>4 DEF ResolvedOnce
<1> QED BY <1>1, <1>2

\* An event leaves what the history tells of other alerts, and of the last events of
\* other kinds.
LEMMA LogKeepsNamed ==
  ASSUME TypeOK, NEW b \in Alerts, NEW e \in Logged,
         history' = [history EXCEPT ![b] = Append(history[b], e)]
  PROVE  \A a \in Alerts : \A kind, who :
           LastNamed(history[a], kind, who) /\ (a # b \/ e.action # kind) => LastNamed(history'[a], kind, who)
<1> SUFFICES ASSUME NEW a \in Alerts, NEW kind, NEW who, LastNamed(history[a], kind, who),
                    a # b \/ e.action # kind
             PROVE  LastNamed(history'[a], kind, who)
  OBVIOUS
<1>0. history \in [Alerts -> Seq(Logged)]
  BY DEF TypeOK, Logged
<1>1. CASE a # b
  BY <1>0, <1>1
<1>2. CASE a = b
  <2>1. history'[a] = Append(history[a], e)
    BY <1>0, <1>2
  <2> QED BY <1>0, <1>2, <2>1, StaysLast
<1> QED BY <1>1, <1>2

LEMMA LogType ==
  ASSUME TypeOK, NEW b \in Alerts, NEW e \in Logged,
         history' = [history EXCEPT ![b] = Append(history[b], e)]
  PROVE  history' \in [Alerts -> Seq(Logged)]
<1>1. history \in [Alerts -> Seq(Logged)]
  BY DEF TypeOK, Logged
<1>2. Append(history[b], e) \in Seq(Logged)
  BY <1>1, Appended
<1> QED BY <1>1, <1>2

LEMMA RecordKeeps ==
  ASSUME AlertInv, NEW t \in Threads, Record(t) PROVE AlertInv'
<1> USE DEF AlertInv
<1> DEFINE a == alert[t]
           e == Event("created", whom[t])
<1>1. /\ pc[t] = "record" /\ a \in Alerts /\ history' = [history EXCEPT ![a] = Append(history[a], e)]
      /\ UNCHANGED <<exists, is_resolved, acknowledged_by, assigned_to, jobs, wanted, locker, requests, stops>>
      /\ e \in Logged /\ e.action = "created"
  BY DEF Record, Log, Desks, Idle, Event, Logged, TypeOK
<1> HIDE DEF e
<1>2. Forget(t) \/ Goto(t, "ALERT_CREATED")
  BY DEF Record, EndOrNotify
<1>3. TypeOK'
  <2>1. history' \in [Alerts -> Seq(Logged)]
    BY <1>1, LogType
  <2>2. pc' \in [Threads -> Steps] /\ alert' \in [Threads -> Alerts \cup {NoAlert}]
        /\ whom' \in [Threads -> Staff \cup {Nobody}] /\ notify' \in [Threads -> BOOLEAN]
    BY <1>2 DEF Forget, Goto, TypeOK, Steps, Idle
  <2> QED BY <1>1, <2>1, <2>2 DEF TypeOK, Logged
<1>4. Desks' /\ OneAnnounces' /\ NoneForgotten'
  <2>1. /\ \A u \in Threads \ {t} : pc'[u] = pc[u] /\ alert'[u] = alert[u]
        /\ pc'[t] = Idle \/ (pc'[t] = "ALERT_CREATED" /\ alert'[t] = alert[t])
    BY <1>2 DEF TypeOK, Forget, Goto
  <2>2. /\ pc[t] # "ALERT_RESOLVED" /\ pc'[t] \notin {"resolved", "ALERT_RESOLVED"}
        /\ pc'[t] # Idle => alert'[t] = alert[t] /\ pc[t] \notin {Idle, "insert"}
    BY <1>1, <2>1 DEF Idle
  <2>3. Desks /\ OneAnnounces /\ NoneForgotten
    OBVIOUS
  <2>4. UNCHANGED <<exists, is_resolved, jobs, wanted, locker, stops>>
    BY <1>1
  <2> HIDE DEF AlertInv
  <2> QED BY <2>1, <2>2, <2>3, <2>4, OthersGoOn
<1>5. ResolvedOnce'
  BY <1>1, LogKeepsResolved
<1>6. HistoryTellsTheState'
  BY <1>1, LogKeepsNamed DEF HistoryTellsTheState
<1> QED BY <1>3, <1>4, <1>5, <1>6

LEMMA AcknowledgeKeeps ==
  ASSUME AlertInv, NEW t \in Threads, CommitAcknowledge(t) PROVE AlertInv'
<1> USE DEF AlertInv
<1> DEFINE a == alert[t]
           e == Event("acknowledged", whom[t])
<1>1. /\ pc[t] = "acknowledge" /\ a \in Alerts /\ history' = [history EXCEPT ![a] = Append(history[a], e)]
      /\ acknowledged_by' = [acknowledged_by EXCEPT ![a] = whom[t]]
      /\ UNCHANGED <<exists, is_resolved, assigned_to, jobs, wanted, locker, requests, stops>>
      /\ e \in Logged /\ e.action = "acknowledged" /\ whom[t] \in Staff \cup {Nobody}
  BY DEF CommitAcknowledge, Log, Desks, Idle, Event, Logged, TypeOK
<1>2. Forget(t)
  BY DEF CommitAcknowledge
<1>3. /\ Desks' /\ OneAnnounces' /\ NoneForgotten'
      /\ pc' \in [Threads -> Steps] /\ alert' \in [Threads -> Alerts \cup {NoAlert}]
      /\ whom' \in [Threads -> Staff \cup {Nobody}] /\ notify' \in [Threads -> BOOLEAN]
  BY <1>1, <1>2, ForgetKeeps
<1>4. LastNamed(history'[a], "acknowledged", whom[t])
  <2>1. history \in [Alerts -> Seq(Logged)] /\ a \in Alerts /\ history'[a] = Append(history[a], e)
    BY <1>1 DEF TypeOK, Logged
  <2> QED BY <1>1, <2>1, ComesLast
<1> HIDE DEF e
<1>5. TypeOK'
  <2>1. history' \in [Alerts -> Seq(Logged)]
    BY <1>1, LogType
  <2> QED BY <1>1, <1>3, <2>1 DEF TypeOK, Logged
<1>6. ResolvedOnce'
  BY <1>1, LogKeepsResolved
<1>7. HistoryTellsTheState'
  <2> SUFFICES ASSUME NEW b \in Alerts
               PROVE  /\ LastNamed(history'[b], "acknowledged", acknowledged_by'[b])
                      /\ LastNamed(history'[b], "assigned", assigned_to'[b])
    BY DEF HistoryTellsTheState
  <2>1. LastNamed(history'[b], "assigned", assigned_to'[b])
    BY <1>1, LogKeepsNamed DEF HistoryTellsTheState
  <2>2. CASE b = a
    BY <1>1, <1>4, <2>1, <2>2 DEF TypeOK
  <2>3. CASE b # a
    <3>1. acknowledged_by'[b] = acknowledged_by[b]
      BY <1>1, <2>3 DEF TypeOK
    <3> QED BY <1>1, <2>1, <2>3, <3>1, LogKeepsNamed DEF HistoryTellsTheState
  <2> QED BY <2>2, <2>3
<1> QED BY <1>3, <1>5, <1>6, <1>7

LEMMA AssignKeeps ==
  ASSUME AlertInv, NEW t \in Threads, CommitAssign(t) PROVE AlertInv'
<1> USE DEF AlertInv
<1> DEFINE a == alert[t]
           e == Event("assigned", whom[t])
<1>1. /\ pc[t] = "assign" /\ a \in Alerts /\ history' = [history EXCEPT ![a] = Append(history[a], e)]
      /\ assigned_to' = [assigned_to EXCEPT ![a] = whom[t]]
      /\ UNCHANGED <<exists, is_resolved, acknowledged_by, jobs, wanted, locker, requests, stops>>
      /\ e \in Logged /\ e.action = "assigned" /\ whom[t] \in Staff \cup {Nobody}
  BY DEF CommitAssign, Log, Desks, Idle, Event, Logged, TypeOK
<1>2. Forget(t)
  BY DEF CommitAssign
<1>3. /\ Desks' /\ OneAnnounces' /\ NoneForgotten'
      /\ pc' \in [Threads -> Steps] /\ alert' \in [Threads -> Alerts \cup {NoAlert}]
      /\ whom' \in [Threads -> Staff \cup {Nobody}] /\ notify' \in [Threads -> BOOLEAN]
  BY <1>1, <1>2, ForgetKeeps
<1>4. LastNamed(history'[a], "assigned", whom[t])
  <2>1. history \in [Alerts -> Seq(Logged)] /\ a \in Alerts /\ history'[a] = Append(history[a], e)
    BY <1>1 DEF TypeOK, Logged
  <2> QED BY <1>1, <2>1, ComesLast
<1> HIDE DEF e
<1>5. TypeOK'
  <2>1. history' \in [Alerts -> Seq(Logged)]
    BY <1>1, LogType
  <2> QED BY <1>1, <1>3, <2>1 DEF TypeOK, Logged
<1>6. ResolvedOnce'
  BY <1>1, LogKeepsResolved
<1>7. HistoryTellsTheState'
  <2> SUFFICES ASSUME NEW b \in Alerts
               PROVE  /\ LastNamed(history'[b], "acknowledged", acknowledged_by'[b])
                      /\ LastNamed(history'[b], "assigned", assigned_to'[b])
    BY DEF HistoryTellsTheState
  <2>1. LastNamed(history'[b], "acknowledged", acknowledged_by'[b])
    BY <1>1, LogKeepsNamed DEF HistoryTellsTheState
  <2>2. CASE b = a
    BY <1>1, <1>4, <2>1, <2>2 DEF TypeOK
  <2>3. CASE b # a
    <3>1. assigned_to'[b] = assigned_to[b]
      BY <1>1, <2>3 DEF TypeOK
    <3> QED BY <1>1, <2>1, <2>3, <3>1, LogKeepsNamed DEF HistoryTellsTheState
  <2> QED BY <2>2, <2>3
<1> QED BY <1>3, <1>5, <1>6, <1>7

\* Only one transaction updates an open alert at a time.
LEMMA UpdateKeeps ==
  ASSUME ResponseAssumption, AlertInv, NEW t \in Threads, UpdateResolved(t) PROVE AlertInv'
<1> USE DEF AlertInv
<1> DEFINE a == alert[t]
<1>1. /\ pc[t] = "resolve" /\ a \in Alerts /\ a \in exists /\ locker[a] = Nobody /\ t # Nobody
      /\ UNCHANGED <<exists, is_resolved, acknowledged_by, assigned_to, history, jobs, wanted, requests, stops>>
  BY DEF UpdateResolved, Desks, Idle, tables, ResponseAssumption
<1>2. ResolvedOnce' /\ HistoryTellsTheState'
  BY <1>1 DEF ResolvedOnce, HistoryTellsTheState, Announced
<1>3. CASE Forget(t) /\ UNCHANGED locker
  <2>1. /\ Desks' /\ OneAnnounces' /\ NoneForgotten'
        /\ pc' \in [Threads -> Steps] /\ alert' \in [Threads -> Alerts \cup {NoAlert}]
        /\ whom' \in [Threads -> Staff \cup {Nobody}] /\ notify' \in [Threads -> BOOLEAN]
    BY <1>1, <1>3, ForgetKeeps
  <2>2. TypeOK'
    BY <1>1, <1>3, <2>1 DEF TypeOK
  <2> QED BY <1>2, <2>1, <2>2
<1>4. CASE a \notin is_resolved /\ locker' = [locker EXCEPT ![a] = t] /\ Goto(t, "resolved")
  <2>1. /\ pc' = [pc EXCEPT ![t] = "resolved"] /\ UNCHANGED <<alert, whom, notify>>
    BY <1>4 DEF Goto
  <2>2. TypeOK'
    BY <1>1, <1>4, <2>1 DEF TypeOK, Steps
  <2>3. Desks'
    <3> SUFFICES ASSUME NEW u \in Threads
                 PROVE  /\ pc'[u] # Idle => alert'[u] \in Alerts
                        /\ pc'[u] \notin {Idle, "insert"} => alert'[u] \in exists'
                        /\ pc'[u] = "resolved" => locker'[alert'[u]] = u /\ alert'[u] \notin is_resolved'
      BY DEF Desks
    <3>1. CASE u = t
      BY <1>1, <1>4, <2>1, <3>1 DEF TypeOK
    <3>2. CASE u # t
      <4>1. pc'[u] = pc[u] /\ alert'[u] = alert[u]
        BY <2>1, <3>2 DEF TypeOK
      <4>2. pc[u] = "resolved" => alert[u] \in Alerts /\ locker[alert[u]] = u /\ alert[u] \notin is_resolved /\ u # Nobody
        BY DEF Desks, Idle, ResponseAssumption
      <4>3. pc[u] = "resolved" => locker'[alert[u]] = u
        BY <1>1, <1>4, <4>2 DEF TypeOK
      <4> QED BY <1>1, <4>1, <4>2, <4>3 DEF Desks
    <3> QED BY <3>1, <3>2
  <2>4. \A u \in Threads : alert'[u] = alert[u] /\ (pc'[u] = "ALERT_RESOLVED" <=> pc[u] = "ALERT_RESOLVED")
    BY <1>1, <2>1 DEF TypeOK
  <2>5. OneAnnounces' /\ NoneForgotten'
    BY <1>1, <2>4 DEF OneAnnounces, NoneForgotten, Announced
  <2> QED BY <1>2, <2>2, <2>3, <2>5
<1> QED BY <1>3, <1>4 DEF UpdateResolved, Matches

\* The resolution of an open alert is the first one in its history.
LEMMA ResolveKeeps ==
  ASSUME ResponseAssumption, AlertInv, NEW t \in Threads, CommitResolved(t) PROVE AlertInv'
<1> USE DEF AlertInv
<1> DEFINE a == alert[t]
           e == Event("resolved", whom[t])
<1>1. /\ pc[t] = "resolved" /\ a \in Alerts /\ a \in exists /\ a \notin is_resolved /\ locker[a] = t
      /\ is_resolved' = is_resolved \cup {a} /\ wanted' = (IF notify[t] THEN wanted \cup {a} ELSE wanted)
      /\ history' = [history EXCEPT ![a] = Append(history[a], e)]
      /\ locker' = [locker EXCEPT ![a] = Nobody]
      /\ UNCHANGED <<exists, acknowledged_by, assigned_to, jobs, requests, stops>>
      /\ e \in Logged /\ e.action = "resolved"
  BY DEF CommitResolved, Log, Desks, Idle, Event, Logged, TypeOK
<1> HIDE DEF e
<1>2. (notify[t] /\ Goto(t, "ALERT_RESOLVED")) \/ (~notify[t] /\ Forget(t))
  BY DEF CommitResolved, EndOrNotify
<1>3. /\ \A u \in Threads \ {t} : pc'[u] = pc[u] /\ alert'[u] = alert[u]
      /\ \/ pc'[t] = "ALERT_RESOLVED" /\ alert'[t] = a /\ a \in wanted'
         \/ pc'[t] = Idle /\ wanted' = wanted
  BY <1>1, <1>2 DEF Forget, Goto, TypeOK
<1>4. TypeOK'
  <2>1. history' \in [Alerts -> Seq(Logged)]
    BY <1>1, LogType
  <2>2. pc' \in [Threads -> Steps] /\ alert' \in [Threads -> Alerts \cup {NoAlert}]
        /\ whom' \in [Threads -> Staff \cup {Nobody}] /\ notify' \in [Threads -> BOOLEAN]
    BY <1>2 DEF Forget, Goto, TypeOK, Steps, Idle
  <2>3. is_resolved' \subseteq exists' /\ wanted' \subseteq is_resolved'
    BY <1>1 DEF TypeOK
  <2> QED BY <1>1, <2>1, <2>2, <2>3 DEF TypeOK, Logged
<1>5. a \notin wanted /\ ~Announced(a)
  BY <1>1 DEF TypeOK, ResolvedOnce
<1>6. Desks'
  <2> SUFFICES ASSUME NEW u \in Threads
               PROVE  /\ pc'[u] # Idle => alert'[u] \in Alerts
                      /\ pc'[u] \notin {Idle, "insert"} => alert'[u] \in exists'
                      /\ pc'[u] = "resolved" => locker'[alert'[u]] = u /\ alert'[u] \notin is_resolved'
    BY DEF Desks
  <2>1. CASE u = t
    BY <1>1, <1>3, <2>1 DEF Idle
  <2>2. CASE u # t
    <3>1. pc'[u] = pc[u] /\ alert'[u] = alert[u]
      BY <1>3, <2>2
    <3>2. pc[u] = "resolved" => alert[u] \in Alerts /\ locker[alert[u]] = u /\ alert[u] \notin is_resolved /\ alert[u] # a
      BY <1>1, <2>2 DEF Desks, Idle
    <3>3. pc[u] = "resolved" => locker'[alert[u]] = u /\ alert[u] \notin is_resolved'
      BY <1>1, <3>2 DEF TypeOK
    <3> QED BY <1>1, <3>1, <3>3 DEF Desks
  <2> QED BY <2>1, <2>2
<1>7. \A b : Announced(b)' <=> Announced(b)
  BY <1>1 DEF Announced
<1>8. OneAnnounces'
  <2>1. \A u \in Threads : pc[u] = "ALERT_RESOLVED" => alert[u] # a
    BY <1>5 DEF OneAnnounces
  <2>2. wanted \subseteq wanted'
    BY <1>1
  <2> QED BY <1>3, <1>5, <1>7, <2>1, <2>2 DEF OneAnnounces, Idle
<1>9. NoneForgotten'
  <2> SUFFICES ASSUME stops' = 0, NEW b \in wanted', ~Announced(b)'
               PROVE  \E u \in Threads : alert'[u] = b /\ pc'[u] = "ALERT_RESOLVED"
    BY DEF NoneForgotten
  <2>1. CASE b \in wanted
    <3>1. PICK u \in Threads : alert[u] = b /\ pc[u] = "ALERT_RESOLVED"
      BY <1>1, <1>7, <2>1 DEF NoneForgotten
    <3> QED BY <1>1, <1>3, <3>1
  <2>2. CASE b \notin wanted
    BY <1>1, <1>3, <2>2 DEF Idle
  <2> QED BY <2>1, <2>2
<1>10. ResolvedOnce'
  <2> SUFFICES ASSUME NEW b \in Alerts
               PROVE  /\ b \in is_resolved' <=> \E i \in DOMAIN history'[b] : history'[b][i].action = "resolved"
                      /\ \A i, j \in DOMAIN history'[b] :
                            history'[b][i].action = "resolved" /\ history'[b][j].action = "resolved" => i = j
                      /\ Announced(b)' => b \in wanted'
                      /\ \A i, j \in DOMAIN jobs'[b] :
                            jobs'[b][i] = "ALERT_RESOLVED" /\ jobs'[b][j] = "ALERT_RESOLVED" => i = j
    BY DEF ResolvedOnce
  <2>1. /\ Announced(b)' => b \in wanted'
        /\ \A i, j \in DOMAIN jobs'[b] :
              jobs'[b][i] = "ALERT_RESOLVED" /\ jobs'[b][j] = "ALERT_RESOLVED" => i = j
    BY <1>1, <1>7 DEF ResolvedOnce
  <2>2. CASE b # a
    <3>1. history'[b] = history[b] /\ (b \in is_resolved' <=> b \in is_resolved)
      BY <1>1, <2>2 DEF TypeOK
    <3> QED BY <2>1, <3>1 DEF ResolvedOnce
  <2>3. CASE b = a
    <3>1. history[a] \in Seq(Logged) /\ history'[a] = Append(history[a], e)
      BY <1>1 DEF TypeOK, Logged
    <3>2. /\ DOMAIN history[a] = 1..Len(history[a]) /\ Len(history[a]) \in Nat
          /\ DOMAIN history'[a] = 1..(Len(history[a]) + 1)
          /\ \A i \in 1..Len(history[a]) : history'[a][i] = history[a][i]
          /\ history'[a][Len(history[a]) + 1] = e
      BY <1>1, <3>1, Appended
    <3>3. \A i \in DOMAIN history[a] : history[a][i].action # "resolved"
      BY <1>1 DEF ResolvedOnce
    <3>4. \A i \in DOMAIN history'[a] : history'[a][i].action = "resolved" => i = Len(history[a]) + 1
      BY <3>2, <3>3
    <3>5. Len(history[a]) + 1 \in DOMAIN history'[a] /\ history'[a][Len(history[a]) + 1].action = "resolved"
      BY <1>1, <3>2
    <3>6. a \in is_resolved'
      BY <1>1
    <3> QED BY <2>1, <2>3, <3>4, <3>5, <3>6
  <2> QED BY <2>2, <2>3
<1>11. HistoryTellsTheState'
  BY <1>1, LogKeepsNamed DEF HistoryTellsTheState
<1> QED BY <1>4, <1>6, <1>8, <1>9, <1>10, <1>11

\* A job says what its request has done, and of a resolution it is the first.
LEMMA EnqueueKeeps ==
  ASSUME AlertInv, NEW t \in Threads, Enqueue(t) PROVE AlertInv'
<1> USE DEF AlertInv
<1> DEFINE a == alert[t]
           Kinds == {"ALERT_CREATED", "ALERT_RESOLVED"}
<1>1. /\ pc[t] \in Kinds /\ a \in Alerts
      /\ jobs' = [jobs EXCEPT ![a] = Append(jobs[a], pc[t])]
      /\ UNCHANGED <<exists, is_resolved, acknowledged_by, assigned_to, history, wanted, locker, requests, stops>>
  BY DEF Enqueue, Desks, Idle
<1>2. Forget(t)
  BY DEF Enqueue
<1>3. (\A u \in Threads \ {t} : pc'[u] = pc[u] /\ alert'[u] = alert[u]) /\ pc'[t] = Idle
  BY <1>2 DEF TypeOK, Forget
<1>4. /\ jobs[a] \in Seq(Kinds) /\ jobs'[a] = Append(jobs[a], pc[t])
      /\ \A b \in Alerts \ {a} : jobs'[b] = jobs[b]
  BY <1>1 DEF TypeOK
<1>5. /\ jobs'[a] \in Seq(Kinds) /\ DOMAIN jobs[a] = 1..Len(jobs[a]) /\ Len(jobs[a]) \in Nat
      /\ DOMAIN jobs'[a] = 1..(Len(jobs[a]) + 1)
      /\ \A i \in 1..Len(jobs[a]) : jobs'[a][i] = jobs[a][i]
      /\ jobs'[a][Len(jobs[a]) + 1] = pc[t]
      /\ \A i \in DOMAIN jobs'[a] : i \in DOMAIN jobs[a] \/ i = Len(jobs[a]) + 1
  <2> HIDE DEF Kinds
  <2> QED BY <1>1, <1>4, Appended
<1>6. TypeOK'
  <2>1. jobs' \in [Alerts -> Seq(Kinds)]
    BY <1>1, <1>5 DEF TypeOK
  <2>2. pc' \in [Threads -> Steps] /\ alert' \in [Threads -> Alerts \cup {NoAlert}]
        /\ whom' \in [Threads -> Staff \cup {Nobody}] /\ notify' \in [Threads -> BOOLEAN]
    BY <1>2 DEF Forget, TypeOK, Steps, Idle
  <2> QED BY <1>1, <2>1, <2>2 DEF TypeOK
<1>7. Desks'
  BY <1>1, <1>3 DEF Desks, Idle
<1>8. HistoryTellsTheState'
  BY <1>1 DEF HistoryTellsTheState
<1>9. \A b \in Alerts : Announced(b)' <=> Announced(b) \/ (b = a /\ pc[t] = "ALERT_RESOLVED")
  <2> SUFFICES ASSUME NEW b \in Alerts
               PROVE  Announced(b)' <=> Announced(b) \/ (b = a /\ pc[t] = "ALERT_RESOLVED")
    OBVIOUS
  <2>1. CASE b # a
    BY <1>4, <2>1 DEF Announced
  <2>2. CASE b = a
    <3>1. \A i \in DOMAIN jobs'[b] : jobs'[b][i] = "ALERT_RESOLVED" =>
             pc[t] = "ALERT_RESOLVED" \/ (i \in DOMAIN jobs[b] /\ jobs[b][i] = "ALERT_RESOLVED")
      BY <1>5, <2>2
    <3>2. \A i \in DOMAIN jobs[b] : i \in DOMAIN jobs'[b] /\ jobs'[b][i] = jobs[b][i]
      BY <1>5, <2>2
    <3>3. Len(jobs[b]) + 1 \in DOMAIN jobs'[b] /\ jobs'[b][Len(jobs[b]) + 1] = pc[t]
      BY <1>5, <2>2
    <3> QED BY <2>2, <3>1, <3>2, <3>3 DEF Announced
  <2> QED BY <2>1, <2>2
<1>10. pc[t] = "ALERT_RESOLVED" => a \in wanted /\ ~Announced(a)
  BY DEF OneAnnounces
<1>11. OneAnnounces'
  <2> SUFFICES ASSUME NEW u \in Threads, pc'[u] = "ALERT_RESOLVED"
               PROVE  /\ alert'[u] \in wanted'
                      /\ \A i \in DOMAIN jobs'[alert'[u]] : jobs'[alert'[u]][i] # "ALERT_RESOLVED"
                      /\ \A v \in Threads : pc'[v] = "ALERT_RESOLVED" /\ alert'[v] = alert'[u] => v = u
    BY DEF OneAnnounces, Announced
  <2>1. u # t /\ pc[u] = "ALERT_RESOLVED" /\ alert'[u] = alert[u]
    BY <1>3 DEF Idle
  <2>2. alert[u] \in wanted /\ alert[u] \in Alerts /\ \A i \in DOMAIN jobs[alert[u]] : jobs[alert[u]][i] # "ALERT_RESOLVED"
    BY <2>1 DEF OneAnnounces, Desks, Idle, Announced
  <2>3. alert[u] = a => pc[t] = "ALERT_CREATED"
    BY <1>1, <2>1 DEF OneAnnounces
  <2>4. \A i \in DOMAIN jobs'[alert[u]] : jobs'[alert[u]][i] # "ALERT_RESOLVED"
    <3>1. CASE alert[u] # a
      BY <1>4, <2>2, <3>1
    <3>2. CASE alert[u] = a
      BY <1>5, <2>2, <2>3, <3>2
    <3> QED BY <3>1, <3>2
  <2>5. \A v \in Threads : pc'[v] = "ALERT_RESOLVED" /\ alert'[v] = alert'[u] => v = u
    BY <1>3, <2>1 DEF OneAnnounces, Idle
  <2> QED BY <1>1, <2>1, <2>2, <2>4, <2>5
<1>12. NoneForgotten'
  <2> SUFFICES ASSUME stops' = 0, NEW b \in wanted', ~Announced(b)'
               PROVE  \E u \in Threads : alert'[u] = b /\ pc'[u] = "ALERT_RESOLVED"
    BY DEF NoneForgotten
  <2>1. b \in wanted /\ b \in Alerts
    BY <1>1 DEF TypeOK
  <2>2. ~Announced(b) /\ ~(b = a /\ pc[t] = "ALERT_RESOLVED")
    BY <1>9, <2>1
  <2>3. PICK u \in Threads : alert[u] = b /\ pc[u] = "ALERT_RESOLVED"
    BY <1>1, <2>1, <2>2 DEF NoneForgotten
  <2> QED BY <1>3, <2>2, <2>3
<1>13. ResolvedOnce'
  <2> SUFFICES ASSUME NEW b \in Alerts
               PROVE  /\ Announced(b)' => b \in wanted'
                      /\ \A i, j \in DOMAIN jobs'[b] :
                            jobs'[b][i] = "ALERT_RESOLVED" /\ jobs'[b][j] = "ALERT_RESOLVED" => i = j
    BY <1>1 DEF ResolvedOnce
  <2>1. Announced(b)' => b \in wanted'
    BY <1>1, <1>9, <1>10 DEF ResolvedOnce
  <2>2. CASE b # a
    BY <1>4, <2>1, <2>2 DEF ResolvedOnce
  <2>3. CASE b = a /\ pc[t] # "ALERT_RESOLVED"
    <3>1. \A i \in DOMAIN jobs'[b] : jobs'[b][i] = "ALERT_RESOLVED" => i \in DOMAIN jobs[b] /\ jobs[b][i] = "ALERT_RESOLVED"
      BY <1>5, <2>3
    <3> QED BY <2>1, <3>1 DEF ResolvedOnce
  <2>4. CASE b = a /\ pc[t] = "ALERT_RESOLVED"
    <3>1. \A i \in DOMAIN jobs[a] : jobs[a][i] # "ALERT_RESOLVED"
      BY <1>10, <2>4 DEF Announced
    <3>2. \A i \in DOMAIN jobs'[b] : jobs'[b][i] = "ALERT_RESOLVED" => i = Len(jobs[a]) + 1
      BY <1>5, <2>4, <3>1
    <3> QED BY <2>1, <3>2
  <2> QED BY <2>2, <2>3, <2>4
<1> QED BY <1>6, <1>7, <1>8, <1>11, <1>12, <1>13

\* A thread that stops releases the row, and its request may be forgotten.
LEMMA StopKeeps ==
  ASSUME ResponseAssumption, AlertInv, NEW t \in Threads, Stop(t) PROVE AlertInv'
<1> USE DEF AlertInv
<1>1. /\ stops < MaxStops /\ stops' = stops + 1 /\ Forget(t)
      /\ locker' = [a \in Alerts |-> IF locker[a] = t THEN Nobody ELSE locker[a]]
      /\ UNCHANGED <<exists, is_resolved, acknowledged_by, assigned_to, history, jobs, wanted, requests>>
  BY DEF Stop, tables
<1>2. (\A u \in Threads \ {t} : pc'[u] = pc[u] /\ alert'[u] = alert[u]) /\ pc'[t] = Idle
  BY <1>1 DEF TypeOK, Forget
<1>3. stops' \in 0..MaxStops /\ stops' # 0
  BY <1>1 DEF TypeOK, ResponseAssumption
<1>4. TypeOK'
  <2>1. pc' \in [Threads -> Steps] /\ alert' \in [Threads -> Alerts \cup {NoAlert}]
        /\ whom' \in [Threads -> Staff \cup {Nobody}] /\ notify' \in [Threads -> BOOLEAN]
    BY <1>1 DEF Forget, TypeOK, Steps, Idle
  <2> QED BY <1>1, <1>3, <2>1 DEF TypeOK
<1>5. Desks'
  BY <1>1, <1>2 DEF Desks, Idle
<1>6. OneAnnounces'
  BY <1>1, <1>2 DEF OneAnnounces, Announced, Idle
<1>7. NoneForgotten'
  BY <1>3 DEF NoneForgotten
<1>8. ResolvedOnce' /\ HistoryTellsTheState'
  BY <1>1 DEF ResolvedOnce, HistoryTellsTheState, Announced
<1> QED BY <1>4, <1>5, <1>6, <1>7, <1>8
-------------------------------------------------------------------------------
(***************************************************************************)
(* The steps of alerts and of responses.                                   *)
(***************************************************************************)

\* A request that changes no alert.
LEMMA ServedKeeps ==
  ASSUME ResponseAssumption, AlertInv, UNCHANGED <<tables, locker, thread>>,
         \/ requests < MaxRequests /\ requests' = requests + 1 /\ stops' = stops
         \/ stops < MaxStops /\ stops' = stops + 1 /\ requests' = requests
         \/ UNCHANGED <<requests, stops>>
  PROVE  AlertInv'
<1> USE DEF AlertInv
<1>1. UNCHANGED <<exists, is_resolved, acknowledged_by, assigned_to, history, jobs, wanted, locker,
                  pc, alert, whom, notify>>
  BY DEF tables, thread
<1>2. TypeOK'
  <2>1. requests' \in 0..MaxRequests /\ stops' \in 0..MaxStops
    BY DEF TypeOK, ResponseAssumption
  <2> QED BY <1>1, <2>1 DEF TypeOK
<1>3. stops' = 0 => stops = 0
  BY DEF TypeOK, ResponseAssumption
<1>4. Desks' /\ OneAnnounces' /\ ResolvedOnce' /\ HistoryTellsTheState'
  BY <1>1 DEF Desks, OneAnnounces, ResolvedOnce, HistoryTellsTheState, Announced
<1>5. NoneForgotten'
  BY <1>1, <1>3 DEF NoneForgotten, Announced
<1> QED BY <1>2, <1>4, <1>5

LEMMA RequestKeeps ==
  ASSUME ResponseAssumption, AlertInv, NEW t \in Threads, NEW a, NEW note \in BOOLEAN,
         NEW who \in Staff \cup {Nobody},
         \/ a \in Alerts /\ Create(t, a, note)
         \/ Resolve(t, a, note)
         \/ a \in Alerts /\ Acknowledge(t, a, who)
         \/ a \in Alerts /\ Assign(t, a, who)
  PROVE  AlertInv'
<1>1. exists \subseteq Alerts /\ Nobody \in Staff \cup {Nobody} /\ FALSE \in BOOLEAN
  BY DEF AlertInv, TypeOK
<1>2. ASSUME a \in Alerts, Create(t, a, note) PROVE AlertInv'
  BY <1>1, <1>2, TakeKeeps DEF Create
<1>3. ASSUME Resolve(t, a, note) PROVE AlertInv'
  BY <1>1, <1>3, TakeKeeps DEF Resolve
<1>4. ASSUME a \in Alerts, Acknowledge(t, a, who) PROVE AlertInv'
  BY <1>1, <1>4, TakeKeeps DEF Acknowledge, Open
<1>5. ASSUME a \in Alerts, Assign(t, a, who) PROVE AlertInv'
  BY <1>1, <1>5, TakeKeeps DEF Assign, Open
<1> QED BY <1>2, <1>3, <1>4, <1>5

LEMMA AlertStepKeeps ==
  ASSUME ResponseAssumption, AlertInv, NEW t \in Threads, AlertStep(t) PROVE AlertInv'
BY InsertKeeps, RecordKeeps, AcknowledgeKeeps, AssignKeeps, UpdateKeeps, ResolveKeeps, EnqueueKeeps,
   StopKeeps DEF AlertStep

LEMMA ResponseStepKeepsAlerts ==
  ASSUME ResponseAssumption, AlertInv, NEW t \in Threads, ResponseStep(t) PROVE AlertInv'
<1>1. ASSUME Served(t) PROVE AlertInv'
  BY <1>1, ServedKeeps DEF Served
<1>2. ASSUME UNCHANGED vars PROVE AlertInv'
  BY <1>2, ServedKeeps DEF vars
<1>3. CASE \E i \in Actions, who \in Staff : SendStaff(t, i, who)
  BY <1>1, <1>3 DEF SendStaff
<1>4. CASE \E i \in Actions, who \in Staff : RemoveResponse(t, i, who)
  <2>1. PICK i \in Actions : (IF action[i].alert # NoAlert THEN Resolve(t, action[i].alert, FALSE) ELSE Served(t))
    BY <1>4 DEF RemoveResponse
  <2>2. ASSUME NEW a, Resolve(t, a, FALSE) PROVE AlertInv'
    BY <2>2, RequestKeeps
  <2> QED BY <1>1, <2>1, <2>2
<1>5. CASE \E a \in Alerts, i \in Actions, who \in Staff : Advise(t, i, a, who)
  <2>1. PICK a \in Alerts : Create(t, a, FALSE)
    BY <1>5 DEF Advise
  <2> QED BY <2>1, RequestKeeps
<1>6. CASE \E i \in Actions, who \in Staff, assign \in BOOLEAN,
              status \in {"none", "in_progress", "completed", "cancelled"} : Change(t, i, who, assign, status)
  BY <1>1, <1>6 DEF Change
<1>7. CASE WriteRow(t) \/ DeleteRow(t)
  BY <1>2, <1>7 DEF WriteRow, DeleteRow
<1>8. CASE CommitChange(t)
  BY <1>2, <1>8 DEF CommitChange
<1>9. CASE StopRequest(t)
  <2>1. CASE Stop(t)
    BY <2>1, StopKeeps
  <2>2. CASE stops < MaxStops /\ stops' = stops + 1 /\ UNCHANGED <<tables, locker, thread, requests>>
    BY <2>2, ServedKeeps
  <2> QED BY <1>9, <2>1, <2>2 DEF StopRequest
<1> QED BY <1>3, <1>4, <1>5, <1>6, <1>7, <1>8, <1>9 DEF ResponseStep

LEMMA StepsKeepAlerts ==
  ASSUME ResponseAssumption, AlertInv, [ResponseNext]_allVars PROVE AlertInv'
<1>1. CASE UNCHANGED allVars
  BY <1>1, ServedKeeps DEF allVars, vars
<1>2. ASSUME NEW t \in Threads, AlertRequest(t) PROVE AlertInv'
  <2>1. Nobody \in Staff \cup {Nobody} /\ FALSE \in BOOLEAN
    OBVIOUS
  <2>2. PICK a \in Alerts :
           \/ \E note \in BOOLEAN : Create(t, a, note) \/ Resolve(t, a, note)
           \/ \E who \in Staff : Acknowledge(t, a, who)
           \/ \E who \in Staff \cup {Nobody} : Assign(t, a, who)
    BY <1>2 DEF AlertRequest
  <2>3. CASE \E note \in BOOLEAN : Create(t, a, note) \/ Resolve(t, a, note)
    BY <2>1, <2>3, RequestKeeps
  <2>4. CASE \E who \in Staff \cup {Nobody} : Acknowledge(t, a, who) \/ Assign(t, a, who)
    BY <2>1, <2>4, RequestKeeps
  <2> QED BY <2>2, <2>3, <2>4
<1> QED BY <1>1, <1>2, AlertStepKeeps, ResponseStepKeepsAlerts DEF ResponseNext

\* Everything that is said of an alert holds together, in every state.
LEMMA AlertsHold == ASSUME ResponseAssumption PROVE ResponseSpec => []AlertInv
<1>1. ResponseInit => AlertInv
  BY AlertInit DEF ResponseInit
<1>2. AlertInv /\ [ResponseNext]_allVars => AlertInv'
  BY StepsKeepAlerts
<1> QED BY <1>1, <1>2, PTL DEF ResponseSpec

\* Whatever requests, threads and stops, the history of an alert is whole: it is resolved
\* exactly once, announced at most once and only if that was asked for, and its last events
\* are those of the row (alert_service.py).
THEOREM HistoriesAreAlwaysWhole == ASSUME ResponseAssumption PROVE ResponseSpec => []HistoryIsWhole
<1>1. AlertInv => HistoryIsWhole
  BY DEF AlertInv, HistoryIsWhole
<1> QED BY <1>1, AlertsHold, PTL

\* A resolution that is to be announced is, once its request is done, if no thread stops:
\* UPDATE ... WHERE is_resolved IS FALSE makes one request the one that announces it.
THEOREM ResolutionsAreAnnounced == ASSUME ResponseAssumption PROVE ResponseSpec => []ResolutionIsAnnounced
<1>1. AlertInv => ResolutionIsAnnounced
  BY DEF AlertInv, NoneForgotten, ResolutionIsAnnounced
<1> QED BY <1>1, AlertsHold, PTL

-------------------------------------------------------------------------------
(***************************************************************************)
(* Responses.                                                              *)
(***************************************************************************)
Statuses == {"none", "open", "in_progress", "completed", "cancelled"}

Rows == [type : {"none", "staff_dispatch", "passenger_advisory"}, status : Statuses,
         assignee : Staff \cup {Nobody}, creator : Staff \cup {Nobody}, alert : Alerts \cup {NoAlert}]

Jobs == [do : {"none", "dispatch", "advise", "update", "remove"}, row : Actions \cup {0},
         alert : Alerts \cup {NoAlert}, who : Staff \cup {Nobody},
         set : {<<>>} \cup ((Staff \cup {Nobody}) \X Statuses \X Rows)]

RowsAreRows ==
  /\ action \in [Actions -> Rows]
  /\ \A i \in Actions : There(i) => action[i].type # "none" /\ action[i].status # "none"
  /\ \A i \in Actions : action[i].alert \in exists \cup {NoAlert}
  /\ started \subseteq Actions /\ advised \subseteq Alerts

JobsAreJobs ==
  /\ job \in [Threads -> Jobs]
  /\ \A t \in Threads : job[t].do # "none" => job[t].row \in Actions
  /\ \A t \in Threads : job[t].do = "none" => job[t] = NoJob
  /\ \A t \in Threads : job[t].do = "update" =>
        job[t].set \in (Staff \cup {Nobody}) \X Statuses \X Rows /\ job[t].set[2] # "none"

\* A request that creates a response has its row for itself.
RowsToWrite ==
  \A t \in Threads : job[t].do \in {"dispatch", "advise"} =>
    /\ ~There(job[t].row)
    /\ \A u \in Threads \ {t} : job[u].row # job[t].row

\* Its alert is about to be inserted, or there.
AlertsToLink ==
  \A t \in Threads :
    /\ job[t].do = "dispatch" => job[t].alert = NoAlert
    /\ job[t].do = "advise" =>
          /\ job[t].alert \in Alerts
          /\ (pc[t] = "insert" /\ alert[t] = job[t].alert) \/ job[t].alert \in exists

\* A request that removes a response removes it with its alert, which it resolves before.
RowsToRemove ==
  \A t \in Threads : job[t].do = "remove" =>
    /\ There(job[t].row) => action[job[t].row].alert = job[t].alert
    /\ \/ job[t].alert = NoAlert \/ job[t].alert \in is_resolved
       \/ pc[t] \in {"resolve", "resolved"} /\ alert[t] = job[t].alert

\* Who completes a response has read that it is in progress, and others may have closed it
\* or removed it since, but not taken that back.
RowsToComplete ==
  \A t \in Threads :
    job[t].do = "update" /\ There(job[t].row) /\ job[t].set[2] = "completed" /\ job[t].set[3].status # "completed"
      => job[t].row \in started

StartedRows ==
  \A i \in Actions :
    action[i].status = "in_progress" \/ (action[i].type = "staff_dispatch" /\ action[i].status = "completed")
      => i \in started

AdvisedAreKept == \A a \in advised : a \in is_resolved \/ Linked(a) \/ Advising(a)

ResponseInv ==
  /\ RowsAreRows /\ JobsAreJobs /\ RowsToWrite /\ AlertsToLink /\ RowsToRemove
  /\ RowsToComplete /\ StartedRows /\ AdvisedAreKept

LEMMA ResponsesStart == ResponseAssumption /\ ResponseInit => ResponseInv
<1> SUFFICES ASSUME ResponseAssumption, ResponseInit PROVE ResponseInv
  OBVIOUS
<1>1. /\ action = [i \in Actions |-> NoAction] /\ job = [t \in Threads |-> NoJob]
      /\ started = {} /\ advised = {}
  BY DEF ResponseInit
<1>2. NoAction \in Rows /\ NoJob \in Jobs /\ NoJob.do = "none" /\ NoAction.status = "none" /\ NoAction.alert = NoAlert
  BY DEF NoAction, NoJob, Rows, Jobs, Statuses
<1>3. RowsAreRows /\ StartedRows
  BY <1>1, <1>2 DEF RowsAreRows, StartedRows, There
<1>4. JobsAreJobs
  BY <1>1, <1>2 DEF JobsAreJobs
<1>5. RowsToWrite /\ AlertsToLink /\ RowsToRemove /\ RowsToComplete /\ AdvisedAreKept
  BY <1>1, <1>2 DEF RowsToWrite, AlertsToLink, RowsToRemove, RowsToComplete, AdvisedAreKept
<1> QED BY <1>3, <1>4, <1>5 DEF ResponseInv

\* What a step of an alert does to the requests that wait for it: those of other threads
\* find the tables with more in them, and its own finds that it has inserted or resolved.
AlertGoesOn(t) ==
  /\ exists \subseteq exists' /\ is_resolved \subseteq is_resolved'
  /\ \A u \in Threads \ {t} : pc'[u] = pc[u] /\ alert'[u] = alert[u]

LEMMA AlertMoves ==
  ASSUME AlertInv, NEW t \in Threads,
         \/ Insert(t) \/ Record(t) \/ CommitAcknowledge(t) \/ CommitAssign(t)
         \/ UpdateResolved(t) \/ CommitResolved(t) \/ Enqueue(t)
  PROVE  /\ AlertGoesOn(t)
         /\ pc[t] = "insert" => alert[t] \in exists'
         /\ pc[t] \in {"resolve", "resolved"} =>
              \/ alert[t] \in is_resolved'
              \/ pc'[t] \in {"resolve", "resolved"} /\ alert'[t] = alert[t]
<1>0. pc \in [Threads -> Steps] /\ alert \in [Threads -> Alerts \cup {NoAlert}]
  BY DEF AlertInv, TypeOK
<1>1. \A u \in Threads \ {t} : pc'[u] = pc[u] /\ alert'[u] = alert[u]
  BY <1>0 DEF Insert, Record, CommitAcknowledge, CommitAssign, UpdateResolved, CommitResolved, Enqueue,
              Goto, Forget, EndOrNotify
<1>2. exists \subseteq exists' /\ is_resolved \subseteq is_resolved'
  BY DEF Insert, Record, CommitAcknowledge, CommitAssign, UpdateResolved, CommitResolved, Enqueue, tables
<1>3. CASE Insert(t)
  BY <1>1, <1>2, <1>3 DEF Insert, AlertGoesOn
<1>4. CASE UpdateResolved(t)
  BY <1>0, <1>1, <1>2, <1>4 DEF UpdateResolved, Matches, Goto, tables, AlertGoesOn
<1>5. CASE CommitResolved(t)
  BY <1>1, <1>2, <1>5 DEF CommitResolved, AlertGoesOn
<1>6. CASE Record(t) \/ CommitAcknowledge(t) \/ CommitAssign(t) \/ Enqueue(t)
  <2>1. pc[t] \notin {"insert", "resolve", "resolved"}
    BY <1>6 DEF Record, CommitAcknowledge, CommitAssign, Enqueue
  <2> QED BY <1>1, <1>2, <2>1 DEF AlertGoesOn
<1> QED BY <1>3, <1>4, <1>5, <1>6

\* As long as the responses stay, their requests go on with the alerts.
LEMMA AlertsKeepResponses ==
  ASSUME ResponseInv, UNCHANGED responseVars, NEW t \in Threads, AlertGoesOn(t),
         job[t] # NoJob => /\ pc[t] = "insert" => alert[t] \in exists'
                           /\ pc[t] \in {"resolve", "resolved"} =>
                                \/ alert[t] \in is_resolved'
                                \/ pc'[t] \in {"resolve", "resolved"} /\ alert'[t] = alert[t]
  PROVE  ResponseInv'
<1> USE DEF ResponseInv
<1>1. UNCHANGED <<action, job, started, advised>>
  BY DEF responseVars
<1>2. /\ exists \subseteq exists' /\ is_resolved \subseteq is_resolved'
      /\ \A u \in Threads \ {t} : pc'[u] = pc[u] /\ alert'[u] = alert[u]
  BY DEF AlertGoesOn
<1>3. RowsAreRows' /\ JobsAreJobs' /\ RowsToWrite' /\ RowsToComplete' /\ StartedRows'
  BY <1>1, <1>2 DEF RowsAreRows, JobsAreJobs, RowsToWrite, RowsToComplete, StartedRows, There
<1>4. AdvisedAreKept'
  BY <1>1, <1>2 DEF AdvisedAreKept, Linked, Advising
<1>5. \A u \in Threads : job[u].do # "none" => job[u] # NoJob
  BY DEF NoJob
<1>6. AlertsToLink'
  BY <1>1, <1>2, <1>5 DEF AlertsToLink
<1>7. RowsToRemove'
  <2> SUFFICES ASSUME NEW u \in Threads, job'[u].do = "remove"
               PROVE  /\ There(job[u].row) => action[job[u].row].alert = job[u].alert
                      /\ \/ job[u].alert = NoAlert \/ job[u].alert \in is_resolved'
                         \/ pc'[u] \in {"resolve", "resolved"} /\ alert'[u] = job[u].alert
    BY <1>1 DEF RowsToRemove, There
  <2>1. CASE u = t
    BY <1>1, <1>2, <1>5, <2>1 DEF RowsToRemove
  <2>2. CASE u # t
    BY <1>1, <1>2, <2>2 DEF RowsToRemove
  <2> QED BY <2>1, <2>2
<1> QED BY <1>3, <1>4, <1>6, <1>7

\* A request begins: with a row that nobody has to create a response, or with one that is there.
LEMMA BeginKeeps ==
  ASSUME ResponseAssumption, ResponseInv, NEW t \in Threads, NEW j \in Jobs, NEW i \in Actions,
         job[t] = NoJob, job' = [job EXCEPT ![t] = j], j.do # "none", j.row = i,
         UNCHANGED <<action, started, exists, is_resolved>>,
         \A u \in Threads \ {t} : pc'[u] = pc[u] /\ alert'[u] = alert[u],
         j.do \in {"dispatch", "advise"} => Unused(i),
         j.do \in {"update", "remove"} => There(i),
         j.do = "dispatch" => j.alert = NoAlert,
         j.do = "advise" => j.alert \in Alerts /\ pc'[t] = "insert" /\ alert'[t] = j.alert,
         advised' = IF j.do = "advise" THEN advised \cup {j.alert} ELSE advised,
         j.do = "remove" => /\ action[i].alert = j.alert
                            /\ j.alert = NoAlert \/ (pc'[t] = "resolve" /\ alert'[t] = j.alert),
         j.do = "update" => /\ j.set \in (Staff \cup {Nobody}) \X Statuses \X Rows /\ j.set[2] # "none"
                            /\ j.set[2] = "completed" /\ j.set[3].status # "completed" => i \in started
  PROVE  ResponseInv'
<1> USE DEF ResponseInv
<1>1. job'[t] = j /\ \A u \in Threads \ {t} : job'[u] = job[u]
  BY DEF JobsAreJobs
<1>2. \A k : There(k)' <=> There(k)
  BY DEF There
<1>3. RowsAreRows' /\ StartedRows'
  BY DEF RowsAreRows, StartedRows, There
<1>4. JobsAreJobs'
  BY <1>1 DEF JobsAreJobs
<1>5. RowsToWrite'
  <2> SUFFICES ASSUME NEW u \in Threads, job'[u].do \in {"dispatch", "advise"}
               PROVE  /\ ~There(job'[u].row)
                      /\ \A v \in Threads \ {u} : job'[v].row # job'[u].row
    BY DEF RowsToWrite, There
  <2>1. CASE u = t
    <3>1. ~There(i) /\ \A v \in Threads : job[v].row # i
      BY <1>1, <2>1 DEF Unused
    <3> QED BY <1>1, <2>1, <3>1
  <2>2. CASE u # t
    <3>1. ~There(job[u].row) /\ \A v \in Threads \ {u} : job[v].row # job[u].row
      BY <1>1, <2>2 DEF RowsToWrite
    <3>2. job[u].row # i
      <4>1. CASE j.do \in {"dispatch", "advise"}
        BY <4>1 DEF Unused
      <4>2. CASE j.do \in {"update", "remove"}
        BY <3>1, <4>2
      <4> QED BY <4>1, <4>2 DEF Jobs
    <3> QED BY <1>1, <2>2, <3>1, <3>2
  <2> QED BY <2>1, <2>2
<1>6. AlertsToLink'
  BY <1>1 DEF AlertsToLink
<1>7. RowsToRemove'
  <2> SUFFICES ASSUME NEW u \in Threads, job'[u].do = "remove"
               PROVE  /\ There(job'[u].row) => action[job'[u].row].alert = job'[u].alert
                      /\ \/ job'[u].alert = NoAlert \/ job'[u].alert \in is_resolved
                         \/ pc'[u] \in {"resolve", "resolved"} /\ alert'[u] = job'[u].alert
    BY DEF RowsToRemove, There
  <2>1. CASE u = t
    BY <1>1, <2>1
  <2>2. CASE u # t
    BY <1>1, <2>2 DEF RowsToRemove
  <2> QED BY <2>1, <2>2
<1>8. RowsToComplete'
  BY <1>1 DEF RowsToComplete, There
<1>9. AdvisedAreKept'
  <2> SUFFICES ASSUME NEW a \in advised', a \notin is_resolved
               PROVE  Linked(a) \/ \E u \in Threads : job'[u].do = "advise" /\ job'[u].alert = a
    BY DEF AdvisedAreKept, Linked, Advising
  <2>1. CASE a \in advised
    <3>1. Linked(a) \/ Advising(a)
      BY <2>1 DEF AdvisedAreKept
    <3>2. \A u \in Threads : job[u].do = "advise" => u # t
      BY DEF NoJob
    <3> QED BY <1>1, <3>1, <3>2 DEF Advising
  <2>2. CASE a \notin advised
    BY <1>1, <2>2
  <2> QED BY <2>1, <2>2
<1> QED BY <1>3, <1>4, <1>5, <1>6, <1>7, <1>8, <1>9

\* What is left of the other requests when a thread has finished its own.
LEMMA OthersStay ==
  ASSUME ResponseInv, NEW t \in Threads, Finish(t)
  PROVE  /\ job'[t] = NoJob /\ NoJob.do = "none" /\ NoJob.row = 0 /\ \A u \in Threads \ {t} : job'[u] = job[u]
         /\ JobsAreJobs'
<1>1. job'[t] = NoJob /\ NoJob.do = "none" /\ NoJob.row = 0 /\ \A u \in Threads \ {t} : job'[u] = job[u]
  BY DEF ResponseInv, JobsAreJobs, Finish, NoJob
<1>2. NoJob \in Jobs
  BY DEF NoJob, Jobs
<1>3. job' \in [Threads -> Jobs]
  BY <1>2 DEF ResponseInv, JobsAreJobs, Finish
<1> QED BY <1>1, <1>3 DEF ResponseInv, JobsAreJobs

\* A request that ends without a change to the rows: it has written nothing, and an alert of
\* its advisory is not counted on any more.
LEMMA DropKeeps ==
  ASSUME ResponseAssumption, ResponseInv, NEW t \in Threads, Finish(t),
         UNCHANGED <<action, started, exists, is_resolved>>,
         \A u \in Threads \ {t} : pc'[u] = pc[u] /\ alert'[u] = alert[u],
         advised' = IF job[t].do = "advise" THEN advised \ {job[t].alert} ELSE advised
  PROVE  ResponseInv'
<1> USE DEF ResponseInv
<1>1. /\ job'[t] = NoJob /\ NoJob.do = "none" /\ NoJob.row = 0 /\ \A u \in Threads \ {t} : job'[u] = job[u]
      /\ JobsAreJobs'
  BY OthersStay
<1>2. RowsAreRows' /\ StartedRows'
  BY DEF RowsAreRows, StartedRows, There
<1>3. RowsToWrite'
  <2> SUFFICES ASSUME NEW u \in Threads, job'[u].do \in {"dispatch", "advise"}
               PROVE  /\ action[job'[u].row] = NoAction
                      /\ \A v \in Threads \ {u} : job'[v].row # job'[u].row
    BY DEF RowsToWrite, There
  <2>1. u # t /\ job'[u] = job[u] /\ job[u].row # 0
    BY <1>1 DEF JobsAreJobs, ResponseAssumption
  <2> QED BY <1>1, <2>1 DEF RowsToWrite, There
<1>4. AlertsToLink' /\ RowsToComplete'
  BY <1>1 DEF AlertsToLink, RowsToComplete, There
<1>5. RowsToRemove'
  <2> SUFFICES ASSUME NEW u \in Threads, job'[u].do = "remove"
               PROVE  /\ action[job'[u].row] # NoAction => action[job'[u].row].alert = job'[u].alert
                      /\ \/ job'[u].alert = NoAlert \/ job'[u].alert \in is_resolved
                         \/ pc'[u] \in {"resolve", "resolved"} /\ alert'[u] = job'[u].alert
    BY DEF RowsToRemove, There
  <2>1. u # t /\ job'[u] = job[u]
    BY <1>1
  <2> QED BY <2>1 DEF RowsToRemove, There
<1>6. AdvisedAreKept'
  BY <1>1 DEF AdvisedAreKept, Linked, Advising
<1> QED BY <1>1, <1>2, <1>3, <1>4, <1>5, <1>6

\* The row that is written is a new one, and links the alert of its advisory.
LEMMA WriteKeeps ==
  ASSUME ResponseAssumption, AlertInv, ResponseInv, NEW t \in Threads, WriteRow(t)
  PROVE  ResponseInv'
<1> USE DEF ResponseInv
<1> DEFINE i == job[t].row
           row == [type |-> IF job[t].do = "dispatch" THEN "staff_dispatch" ELSE "passenger_advisory",
                   status |-> IF job[t].do = "dispatch" THEN "open" ELSE "completed",
                   assignee |-> Nobody, creator |-> job[t].who, alert |-> job[t].alert]
<1>1. /\ pc[t] = Idle /\ job[t].do \in {"dispatch", "advise"} /\ Finish(t)
      /\ action' = [action EXCEPT ![i] = row]
      /\ UNCHANGED <<started, advised, exists, is_resolved, pc, alert>>
  BY DEF WriteRow, vars, tables, thread
<1>2. /\ job'[t] = NoJob /\ NoJob.do = "none" /\ NoJob.row = 0 /\ \A u \in Threads \ {t} : job'[u] = job[u]
      /\ JobsAreJobs'
  BY <1>1, OthersStay
<1>3. i \in Actions /\ ~There(i) /\ \A u \in Threads \ {t} : job[u].row # i
  BY <1>1 DEF JobsAreJobs, RowsToWrite
<1>4. job[t] \in Jobs
  BY DEF JobsAreJobs
<1>5. row \in Rows /\ row.type # "none" /\ row.status \notin {"none", "in_progress"}
      /\ (row.type = "staff_dispatch" => row.status = "open") /\ row.alert = job[t].alert
  BY <1>1, <1>4 DEF Rows, Jobs, Statuses
<1>6. job[t].alert \in exists \cup {NoAlert}
  BY <1>1 DEF AlertsToLink, Idle
<1> HIDE DEF row
<1>7. action'[i] = row /\ \A k \in Actions \ {i} : action'[k] = action[k]
  BY <1>1, <1>3 DEF RowsAreRows
<1>8. \A k \in Actions \ {i} : There(k)' <=> There(k)
  BY <1>7 DEF There
<1>9. \A u \in Threads : job'[u].do # "none" =>
         /\ u # t /\ job'[u] = job[u] /\ job[u].row # i /\ job[u].row \in Actions
         /\ action'[job[u].row] = action[job[u].row] /\ (There(job[u].row)' <=> There(job[u].row))
  <2> SUFFICES ASSUME NEW u \in Threads, job'[u].do # "none"
               PROVE  /\ u # t /\ job'[u] = job[u] /\ job[u].row # i /\ job[u].row \in Actions
                      /\ action'[job[u].row] = action[job[u].row]
                      /\ There(job[u].row)' <=> There(job[u].row)
    OBVIOUS
  <2>1. u # t /\ job'[u] = job[u] /\ job[u].row # i /\ job[u].row \in Actions
    BY <1>2, <1>3 DEF JobsAreJobs
  <2> QED BY <1>7, <2>1 DEF There
<1>10. RowsAreRows'
  <2>1. action' \in [Actions -> Rows]
    BY <1>1, <1>5 DEF RowsAreRows
  <2>2. \A k \in Actions : (action'[k] # NoAction => action'[k].type # "none" /\ action'[k].status # "none")
                           /\ action'[k].alert \in exists \cup {NoAlert}
    BY <1>5, <1>6, <1>7 DEF RowsAreRows, There
  <2> QED BY <1>1, <2>1, <2>2 DEF RowsAreRows, There
<1>11. StartedRows'
  BY <1>1, <1>5, <1>7 DEF StartedRows
<1>12. RowsToWrite'
  <2> SUFFICES ASSUME NEW u \in Threads, job'[u].do \in {"dispatch", "advise"}
               PROVE  /\ action'[job'[u].row] = NoAction
                      /\ \A v \in Threads \ {u} : job'[v].row # job'[u].row
    BY DEF RowsToWrite, There
  <2>1. /\ u # t /\ job'[u] = job[u] /\ job[u].row \in Actions /\ action'[job[u].row] = action[job[u].row]
        /\ job[u].row # 0
    BY <1>9 DEF ResponseAssumption
  <2>2. action[job[u].row] = NoAction /\ \A v \in Threads \ {u} : job[v].row # job[u].row
    BY <2>1 DEF RowsToWrite, There
  <2> QED BY <1>2, <2>1, <2>2
<1>13. AlertsToLink'
  BY <1>1, <1>9 DEF AlertsToLink
<1>14. RowsToRemove'
  BY <1>1, <1>9 DEF RowsToRemove, There
<1>15. RowsToComplete'
  BY <1>1, <1>9 DEF RowsToComplete, There
<1>16. AdvisedAreKept'
  <2> SUFFICES ASSUME NEW a \in advised, a \notin is_resolved
               PROVE  \/ \E k \in Actions : action'[k].alert = a
                      \/ \E u \in Threads : job'[u].do = "advise" /\ job'[u].alert = a
    BY <1>1 DEF AdvisedAreKept, Linked, Advising
  <2>1. CASE Linked(a)
    <3>1. PICK k \in Actions : action[k].alert = a
      BY <2>1 DEF Linked
    <3>2. NoAction.alert = NoAlert /\ a # NoAlert
      BY DEF NoAction, RowsAreRows, ResponseAssumption
    <3>3. k # i
      BY <1>3, <3>1, <3>2 DEF There
    <3> QED BY <1>7, <3>1, <3>3
  <2>2. CASE Advising(a)
    <3>1. PICK u \in Threads : job[u].do = "advise" /\ job[u].alert = a
      BY <2>2 DEF Advising
    <3>2. CASE u = t
      BY <1>3, <1>5, <1>7, <3>1, <3>2
    <3>3. CASE u # t
      BY <1>2, <3>1, <3>3
    <3> QED BY <3>2, <3>3
  <2> QED BY <2>1, <2>2 DEF AdvisedAreKept
<1> QED BY <1>2, <1>10, <1>11, <1>12, <1>13, <1>14, <1>15, <1>16

\* A change leaves a response what it is, and completes only one that has been started.
LEMMA ChangeKeeps ==
  ASSUME ResponseAssumption, AlertInv, ResponseInv, NEW t \in Threads, CommitChange(t)
  PROVE  ResponseInv'
<1> USE DEF ResponseInv
<1> DEFINE i == job[t].row
           set == job[t].set
<1>1. /\ job[t].do = "update" /\ Finish(t)
      /\ action' = (IF ~There(i) THEN action
                    ELSE [action EXCEPT ![i].assignee = IF set[1] # set[3].assignee THEN set[1] ELSE @,
                                        ![i].status = IF set[2] # set[3].status THEN set[2] ELSE @])
      /\ started' = (IF There(i) /\ action'[i].status = "in_progress" THEN started \cup {i} ELSE started)
      /\ UNCHANGED <<advised, exists, is_resolved, pc, alert>>
  BY DEF CommitChange, vars, tables, thread
<1>2. /\ job'[t] = NoJob /\ NoJob.do = "none" /\ NoJob.row = 0 /\ \A u \in Threads \ {t} : job'[u] = job[u]
      /\ JobsAreJobs'
  BY <1>1, OthersStay
<1>3. i \in Actions /\ set \in (Staff \cup {Nobody}) \X Statuses \X Rows /\ set[2] # "none"
  BY <1>1 DEF JobsAreJobs
<1>4. /\ set[1] \in Staff \cup {Nobody} /\ set[2] \in Statuses /\ set[3] \in Rows
  BY <1>3
<1>5. CASE ~There(i)
  <2>1. UNCHANGED <<action, started>>
    BY <1>1, <1>5
  <2> QED BY <1>1, <1>2, <2>1, DropKeeps
<1>6. CASE There(i)
  <2> HIDE DEF set
  <2>1. action[i] \in Rows
    BY <1>3 DEF RowsAreRows
  <2>2. /\ action'[i] \in Rows /\ \A k \in Actions \ {i} : action'[k] = action[k]
        /\ action'[i].type = action[i].type /\ action'[i].alert = action[i].alert
        /\ action'[i].status = (IF set[2] # set[3].status THEN set[2] ELSE action[i].status)
    BY <1>1, <1>3, <1>4, <1>6, <2>1 DEF RowsAreRows, Rows
  <2>3. action' \in [Actions -> Rows]
    BY <1>1, <1>3, <1>6, <2>2 DEF RowsAreRows
  <2>4. action[i].type # "none" /\ action[i].status # "none" /\ NoAction.type = "none"
    BY <1>3, <1>6 DEF RowsAreRows, NoAction
  <2>5. action'[i] # NoAction /\ action'[i].status # "none"
    BY <1>3, <2>2, <2>4
  <2>6. \A k \in Actions : (There(k)' <=> There(k)) /\ action'[k].alert = action[k].alert
    BY <1>6, <2>2, <2>5 DEF There
  <2>7. started \subseteq started' /\ started' \subseteq Actions
    BY <1>1, <1>3 DEF RowsAreRows
  <2>8. RowsAreRows'
    <3>1. \A k \in Actions : (action'[k] # NoAction => action'[k].type # "none" /\ action'[k].status # "none")
                             /\ action'[k].alert \in exists \cup {NoAlert}
      BY <2>2, <2>4, <2>5, <2>6 DEF RowsAreRows, There
    <3> QED BY <1>1, <2>3, <2>7, <3>1 DEF RowsAreRows, There
  <2>9. StartedRows'
    <3> SUFFICES ASSUME NEW k \in Actions,
                        \/ action'[k].status = "in_progress"
                        \/ action'[k].type = "staff_dispatch" /\ action'[k].status = "completed"
                 PROVE  k \in started'
      BY DEF StartedRows
    <3>1. CASE k # i
      <4>1. action'[k] = action[k]
        BY <2>2, <3>1
      <4> QED BY <2>7, <4>1 DEF StartedRows
    <3>2. CASE k = i /\ action'[i].status = "in_progress"
      BY <1>1, <1>6, <3>2
    <3>3. CASE k = i /\ action'[i].type = "staff_dispatch" /\ action'[i].status = "completed"
      <4>1. CASE set[2] # set[3].status
        BY <1>1, <1>6, <2>2, <2>7, <3>3, <4>1 DEF RowsToComplete, set
      <4>2. CASE set[2] = set[3].status
        BY <1>3, <2>2, <2>7, <3>3, <4>2 DEF StartedRows
      <4> QED BY <4>1, <4>2
    <3> QED BY <3>1, <3>2, <3>3
  <2>10. \A u \in Threads : job'[u].do # "none" =>
           /\ u # t /\ job'[u] = job[u] /\ job[u].row \in Actions
           /\ action'[job[u].row].alert = action[job[u].row].alert /\ (There(job[u].row)' <=> There(job[u].row))
    <3> SUFFICES ASSUME NEW u \in Threads, job'[u].do # "none"
                 PROVE  /\ u # t /\ job'[u] = job[u] /\ job[u].row \in Actions
                        /\ action'[job[u].row].alert = action[job[u].row].alert
                        /\ There(job[u].row)' <=> There(job[u].row)
      OBVIOUS
    <3>1. u # t /\ job'[u] = job[u] /\ job[u].row \in Actions
      BY <1>2 DEF JobsAreJobs
    <3> QED BY <2>6, <3>1 DEF There
  <2>11. RowsToWrite'
    <3> SUFFICES ASSUME NEW u \in Threads, job'[u].do \in {"dispatch", "advise"}
                 PROVE  /\ action'[job'[u].row] = NoAction
                        /\ \A v \in Threads \ {u} : job'[v].row # job'[u].row
      BY DEF RowsToWrite, There
    <3>1. u # t /\ job'[u] = job[u] /\ job[u].row \in Actions /\ job[u].row # 0
      BY <2>10 DEF ResponseAssumption
    <3>2. ~There(job[u].row) /\ \A v \in Threads \ {u} : job[v].row # job[u].row
      BY <3>1 DEF RowsToWrite
    <3>3. action'[job[u].row] = NoAction
      BY <1>6, <2>2, <3>1, <3>2 DEF There
    <3> QED BY <1>2, <3>1, <3>2, <3>3
  <2>12. AlertsToLink'
    BY <1>1, <2>10 DEF AlertsToLink
  <2>13. RowsToRemove'
    <3> SUFFICES ASSUME NEW u \in Threads, job'[u].do = "remove"
                 PROVE  /\ action'[job'[u].row] # NoAction => action'[job'[u].row].alert = job'[u].alert
                        /\ \/ job'[u].alert = NoAlert \/ job'[u].alert \in is_resolved
                           \/ pc[u] \in {"resolve", "resolved"} /\ alert[u] = job'[u].alert
      BY <1>1 DEF RowsToRemove, There
    <3>1. u # t /\ job'[u] = job[u] /\ job[u].row \in Actions
      BY <2>10
    <3> QED BY <2>6, <3>1 DEF RowsToRemove, There
  <2>14. RowsToComplete'
    <3> SUFFICES ASSUME NEW u \in Threads, job'[u].do = "update", action'[job'[u].row] # NoAction,
                        job'[u].set[2] = "completed", job'[u].set[3].status # "completed"
                 PROVE  job'[u].row \in started'
      BY DEF RowsToComplete, There
    <3>1. u # t /\ job'[u] = job[u] /\ job[u].row \in Actions
      BY <2>10
    <3> QED BY <2>6, <2>7, <3>1 DEF RowsToComplete, There
  <2>15. AdvisedAreKept'
    <3> SUFFICES ASSUME NEW a \in advised, a \notin is_resolved
                 PROVE  \/ \E k \in Actions : action'[k].alert = a
                        \/ \E u \in Threads : job'[u].do = "advise" /\ job'[u].alert = a
      BY <1>1 DEF AdvisedAreKept, Linked, Advising
    <3>1. CASE Linked(a)
      BY <2>6, <3>1 DEF Linked
    <3>2. CASE Advising(a)
      BY <1>1, <1>2, <3>2 DEF Advising
    <3> QED BY <3>1, <3>2 DEF AdvisedAreKept
  <2> QED BY <1>2, <2>8, <2>9, <2>11, <2>12, <2>13, <2>14, <2>15
<1> QED BY <1>5, <1>6

\* A row is removed when its alert is resolved.
LEMMA DeleteKeeps ==
  ASSUME ResponseAssumption, AlertInv, ResponseInv, NEW t \in Threads, DeleteRow(t)
  PROVE  ResponseInv'
<1> USE DEF ResponseInv
<1> DEFINE i == job[t].row
<1>1. /\ job[t].do = "remove" /\ pc[t] = Idle /\ Finish(t)
      /\ action' = [action EXCEPT ![i] = NoAction] /\ started' = started \ {i}
      /\ UNCHANGED <<advised, exists, is_resolved, pc, alert>>
  BY DEF DeleteRow, Ready, vars, tables, thread
<1>2. /\ job'[t] = NoJob /\ NoJob.do = "none" /\ NoJob.row = 0 /\ \A u \in Threads \ {t} : job'[u] = job[u]
      /\ JobsAreJobs'
  BY <1>1, OthersStay
<1>3. i \in Actions /\ (There(i) => action[i].alert = NoAlert \/ action[i].alert \in is_resolved)
  BY <1>1 DEF JobsAreJobs, RowsToRemove, Idle
<1>4. /\ NoAction \in Rows /\ NoAction.type = "none" /\ NoAction.status = "none" /\ NoAction.alert = NoAlert
  BY DEF NoAction, Rows, Statuses
<1>5. action'[i] = NoAction /\ \A k \in Actions \ {i} : action'[k] = action[k]
  BY <1>1, <1>3 DEF RowsAreRows
<1>6. RowsAreRows'
  <2>1. action' \in [Actions -> Rows]
    BY <1>1, <1>4 DEF RowsAreRows
  <2>2. \A k \in Actions : (action'[k] # NoAction => action'[k].type # "none" /\ action'[k].status # "none")
                           /\ action'[k].alert \in exists \cup {NoAlert}
    BY <1>4, <1>5 DEF RowsAreRows, There
  <2> QED BY <1>1, <2>1, <2>2 DEF RowsAreRows, There
<1>7. StartedRows'
  <2> SUFFICES ASSUME NEW k \in Actions,
                      \/ action'[k].status = "in_progress"
                      \/ action'[k].type = "staff_dispatch" /\ action'[k].status = "completed"
               PROVE  k \in started'
    BY DEF StartedRows
  <2>1. k # i /\ action'[k] = action[k]
    BY <1>4, <1>5
  <2> QED BY <1>1, <2>1 DEF StartedRows
<1>8. \A u \in Threads : job'[u].do # "none" =>
         /\ u # t /\ job'[u] = job[u] /\ job[u].row \in Actions
         /\ action'[job[u].row] # NoAction =>
               job[u].row # i /\ action'[job[u].row] = action[job[u].row] /\ action[job[u].row] # NoAction
  BY <1>2, <1>5 DEF JobsAreJobs
<1>9. RowsToWrite'
  <2> SUFFICES ASSUME NEW u \in Threads, job'[u].do \in {"dispatch", "advise"}
               PROVE  /\ action'[job'[u].row] = NoAction
                      /\ \A v \in Threads \ {u} : job'[v].row # job'[u].row
    BY DEF RowsToWrite, There
  <2>1. u # t /\ job'[u] = job[u] /\ job[u].row \in Actions /\ job[u].row # 0
    BY <1>8 DEF ResponseAssumption
  <2>2. action[job[u].row] = NoAction /\ \A v \in Threads \ {u} : job[v].row # job[u].row
    BY <2>1 DEF RowsToWrite, There
  <2> QED BY <1>2, <1>8, <2>1, <2>2
<1>10. AlertsToLink'
  BY <1>1, <1>8 DEF AlertsToLink
<1>11. RowsToRemove'
  <2> SUFFICES ASSUME NEW u \in Threads, job'[u].do = "remove"
               PROVE  /\ action'[job'[u].row] # NoAction => action'[job'[u].row].alert = job'[u].alert
                      /\ \/ job'[u].alert = NoAlert \/ job'[u].alert \in is_resolved
                         \/ pc[u] \in {"resolve", "resolved"} /\ alert[u] = job'[u].alert
    BY <1>1 DEF RowsToRemove, There
  <2> QED BY <1>8 DEF RowsToRemove, There
<1>12. RowsToComplete'
  <2> SUFFICES ASSUME NEW u \in Threads, job'[u].do = "update", action'[job'[u].row] # NoAction,
                      job'[u].set[2] = "completed", job'[u].set[3].status # "completed"
               PROVE  job'[u].row \in started'
    BY DEF RowsToComplete, There
  <2> QED BY <1>1, <1>8 DEF RowsToComplete, There
<1>13. AdvisedAreKept'
  <2> SUFFICES ASSUME NEW a \in advised, a \notin is_resolved
               PROVE  \/ \E k \in Actions : action'[k].alert = a
                      \/ \E u \in Threads : job'[u].do = "advise" /\ job'[u].alert = a
    BY <1>1 DEF AdvisedAreKept, Linked, Advising
  <2>1. CASE Linked(a)
    <3>1. PICK k \in Actions : action[k].alert = a
      BY <2>1 DEF Linked
    <3>2. a # NoAlert
      BY DEF RowsAreRows, ResponseAssumption
    <3>3. k # i
      BY <1>3, <1>4, <3>1, <3>2 DEF There
    <3> QED BY <1>5, <3>1, <3>3
  <2>2. CASE Advising(a)
    BY <1>1, <1>2, <2>2 DEF Advising
  <2> QED BY <2>1, <2>2 DEF AdvisedAreKept
<1> QED BY <1>2, <1>6, <1>7, <1>9, <1>10, <1>11, <1>12, <1>13

\* The requests that create, change and remove responses begin.
LEMMA RequestsBegin ==
  ASSUME ResponseAssumption, AlertInv, ResponseInv, NEW t \in Threads, NEW i \in Actions, NEW who \in Staff
  PROVE  /\ SendStaff(t, i, who) => ResponseInv'
         /\ RemoveResponse(t, i, who) => ResponseInv'
         /\ \A a \in Alerts : Advise(t, i, a, who) => ResponseInv'
         /\ \A assign \in BOOLEAN, status \in {"none", "in_progress", "completed", "cancelled"} :
               Change(t, i, who, assign, status) => ResponseInv'
<1>0. /\ pc \in [Threads -> Steps] /\ alert \in [Threads -> Alerts \cup {NoAlert}]
      /\ action[i] \in Rows /\ (There(i) => action[i].status # "none")
      /\ \A k \in started : k \in Actions
  BY DEF AlertInv, TypeOK, ResponseInv, RowsAreRows
<1>1. ASSUME Served(t) PROVE UNCHANGED <<exists, is_resolved, pc, alert>>
  BY <1>1 DEF Served, tables, thread
<1>2. ASSUME NEW step, NEW a, NEW w, NEW note, Take(t, step, a, w, note)
      PROVE  /\ UNCHANGED <<exists, is_resolved>> /\ pc'[t] = step /\ alert'[t] = a
             /\ \A u \in Threads \ {t} : pc'[u] = pc[u] /\ alert'[u] = alert[u]
  BY <1>0, <1>2 DEF Take, tables
<1>3. ASSUME SendStaff(t, i, who) PROVE ResponseInv'
  <2> DEFINE j == [do |-> "dispatch", row |-> i, alert |-> NoAlert, who |-> who, set |-> <<>>]
  <2>1. /\ Unused(i) /\ job[t] = NoJob /\ job' = [job EXCEPT ![t] = j] /\ j \in Jobs
        /\ UNCHANGED <<action, started, advised, exists, is_resolved, pc, alert>>
    BY <1>1, <1>3 DEF SendStaff, Begin, Jobs
  <2> QED BY <2>1, BeginKeeps
<1>4. ASSUME RemoveResponse(t, i, who) PROVE ResponseInv'
  <2> DEFINE j == [do |-> "remove", row |-> i, alert |-> action[i].alert, who |-> who, set |-> <<>>]
  <2>1. /\ There(i) /\ job[t] = NoJob /\ job' = [job EXCEPT ![t] = j] /\ j \in Jobs
        /\ UNCHANGED <<action, started, advised>>
    BY <1>0, <1>4 DEF RemoveResponse, Begin, Jobs, Rows
  <2>2. /\ UNCHANGED <<exists, is_resolved>> /\ \A u \in Threads \ {t} : pc'[u] = pc[u] /\ alert'[u] = alert[u]
        /\ j.alert = NoAlert \/ (pc'[t] = "resolve" /\ alert'[t] = j.alert)
    BY <1>1, <1>2, <1>4 DEF RemoveResponse, Resolve
  <2> QED BY <2>1, <2>2, BeginKeeps
<1>5. ASSUME NEW a \in Alerts, Advise(t, i, a, who) PROVE ResponseInv'
  <2> DEFINE j == [do |-> "advise", row |-> i, alert |-> a, who |-> who, set |-> <<>>]
  <2>1. /\ Unused(i) /\ job[t] = NoJob /\ job' = [job EXCEPT ![t] = j] /\ j \in Jobs
        /\ UNCHANGED <<action, started>> /\ advised' = advised \cup {a}
    BY <1>5 DEF Advise, Begin, Jobs
  <2>2. /\ UNCHANGED <<exists, is_resolved>> /\ pc'[t] = "insert" /\ alert'[t] = a
        /\ \A u \in Threads \ {t} : pc'[u] = pc[u] /\ alert'[u] = alert[u]
    BY <1>2, <1>5 DEF Advise, Create
  <2> QED BY <2>1, <2>2, BeginKeeps
<1>6. ASSUME NEW assign \in BOOLEAN, NEW status \in {"none", "in_progress", "completed", "cancelled"},
             Change(t, i, who, assign, status)
      PROVE  ResponseInv'
  <2> DEFINE set == <<IF assign THEN who ELSE action[i].assignee,
                      IF status = "none" THEN action[i].status ELSE status, action[i]>>
             j == [do |-> "update", row |-> i, alert |-> NoAlert, who |-> who, set |-> set]
  <2>1. /\ There(i) /\ action[i].status \notin Closed /\ MaySet(action[i], status)
        /\ job[t] = NoJob /\ job' = [job EXCEPT ![t] = j]
        /\ UNCHANGED <<action, started, advised, exists, is_resolved, pc, alert>>
    BY <1>1, <1>6 DEF Change, Begin
  <2>2. set \in (Staff \cup {Nobody}) \X Statuses \X Rows /\ set[2] # "none"
    BY <1>0, <2>1 DEF Rows, Statuses
  <2>3. set[2] = "completed" /\ set[3].status # "completed" => i \in started
    <3> SUFFICES ASSUME set[2] = "completed" PROVE i \in started
      OBVIOUS
    <3>1. status = "completed"
      BY <2>1 DEF Closed
    <3>2. action[i].status = "in_progress"
      BY <1>0, <2>1, <3>1 DEF MaySet, Closed, Rows, Statuses
    <3> QED BY <3>2 DEF ResponseInv, StartedRows
  <2> HIDE DEF set
  <2>4. j \in Jobs
    BY <2>2 DEF Jobs
  <2> QED BY <2>1, <2>2, <2>3, <2>4, BeginKeeps
<1> QED BY <1>3, <1>4, <1>5, <1>6

LEMMA StepsKeepResponses ==
  ASSUME ResponseAssumption, AlertInv, ResponseInv, [ResponseNext]_allVars
  PROVE  ResponseInv'
<1>0. pc \in [Threads -> Steps] /\ alert \in [Threads -> Alerts \cup {NoAlert}]
  BY DEF AlertInv, TypeOK
<1>1. CASE UNCHANGED allVars
  <2>1. UNCHANGED <<action, job, started, advised, exists, is_resolved, pc, alert>>
    BY <1>1 DEF allVars, vars, responseVars, tables, thread
  <2> QED BY <2>1 DEF ResponseInv, RowsAreRows, JobsAreJobs, RowsToWrite, AlertsToLink, RowsToRemove, RowsToComplete,
                      StartedRows, AdvisedAreKept, There, Linked, Advising
<1>2. ASSUME NEW t \in Threads, AlertRequest(t) PROVE ResponseInv'
  <2>1. job[t] = NoJob /\ UNCHANGED responseVars /\ AlertGoesOn(t)
    BY <1>0, <1>2 DEF AlertRequest, Create, Resolve, Acknowledge, Assign, Take, tables, AlertGoesOn
  <2> QED BY <2>1, AlertsKeepResponses
<1>3. ASSUME NEW t \in Threads, AlertStep(t) PROVE ResponseInv'
  <2>1. CASE job[t] = NoJob /\ Stop(t)
    <3>1. UNCHANGED responseVars /\ AlertGoesOn(t)
      BY <1>0, <1>3, <2>1 DEF AlertStep, Stop, Forget, tables, AlertGoesOn
    <3> QED BY <2>1, <3>1, AlertsKeepResponses
  <2>2. CASE ~(job[t] = NoJob /\ Stop(t))
    BY <1>3, <2>2, AlertMoves, AlertsKeepResponses DEF AlertStep
  <2> QED BY <2>1, <2>2
<1>4. ASSUME NEW t \in Threads, StopRequest(t) PROVE ResponseInv'
  <2>1. /\ Finish(t) /\ UNCHANGED <<action, started, exists, is_resolved>>
        /\ advised' = IF job[t].do = "advise" THEN advised \ {job[t].alert} ELSE advised
        /\ \A u \in Threads \ {t} : pc'[u] = pc[u] /\ alert'[u] = alert[u]
    BY <1>0, <1>4 DEF StopRequest, Stop, Forget, tables, thread
  <2> QED BY <2>1, DropKeeps
<1>5. ASSUME NEW t \in Threads, ResponseStep(t) PROVE ResponseInv'
  BY <1>4, <1>5, RequestsBegin, WriteKeeps, ChangeKeeps, DeleteKeeps DEF ResponseStep
<1> QED BY <1>1, <1>2, <1>3, <1>5 DEF ResponseNext

LEMMA ResponsesHold == ASSUME ResponseAssumption PROVE ResponseSpec => []ResponseInv
<1>1. ResponseInit => ResponseInv
  BY ResponsesStart
<1>2. AlertInv /\ ResponseInv /\ [ResponseNext]_allVars => ResponseInv'
  BY StepsKeepResponses
<1> QED BY <1>1, <1>2, AlertsHold, PTL DEF ResponseSpec

\* Every table and every thread of alerts and responses has its type.
THEOREM ResponseTypes == ASSUME ResponseAssumption PROVE ResponseSpec => [](TypeOK /\ ResponseTypeOK)
<1>1. AlertInv /\ ResponseInv => TypeOK /\ ResponseTypeOK
  <2> SUFFICES ASSUME AlertInv, ResponseInv PROVE TypeOK /\ ResponseTypeOK
    OBVIOUS
  <2>1. \A i \in Actions : /\ action[i].type \in {"none", "staff_dispatch", "passenger_advisory"}
                           /\ action[i].status \in {"none", "open", "in_progress"} \cup Closed
                           /\ action[i].assignee \in Staff \cup {Nobody}
                           /\ action[i].alert \in exists \cup {NoAlert}
    BY DEF ResponseInv, RowsAreRows, Rows, Statuses, Closed
  <2>2. \A t \in Threads : /\ job[t].do \in {"none", "dispatch", "advise", "update", "remove"}
                           /\ job[t].row \in Actions \cup {0}
    BY DEF ResponseInv, JobsAreJobs, Jobs
  <2> QED BY <2>1, <2>2 DEF AlertInv, ResponseTypeOK, ResponseInv, RowsAreRows
<1> QED BY <1>1, AlertsHold, ResponsesHold, PTL

\* However requests cross and wherever they stop, an advisory whose alert is open can be
\* found from a response, or is about to be: create_action writes its row after the alert,
\* and delete_action removes it after the alert is resolved (crowd_response_service.py).
THEOREM AdvisoriesAlwaysEndTogether == ASSUME ResponseAssumption PROVE ResponseSpec => []AdvisoriesEndTogether
<1>1. ResponseInv => AdvisoriesEndTogether
  BY DEF ResponseInv, AdvisedAreKept, AdvisoriesEndTogether, Open
<1> QED BY <1>1, ResponsesHold, PTL

\* Staff that is reported to be done has always been under way, however requests that have
\* read the same row cross.
THEOREM CompletedWasAlwaysStarted == ASSUME ResponseAssumption PROVE ResponseSpec => []CompletedWasStarted
<1>1. ResponseInv => CompletedWasStarted
  BY DEF ResponseInv, StartedRows, CompletedWasStarted
<1> QED BY <1>1, ResponsesHold, PTL
=============================================================================
