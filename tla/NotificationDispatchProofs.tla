---------------------- MODULE NotificationDispatchProofs ----------------------
(***************************************************************************)
(* Proofs about NotificationDispatch, for any number of processes, jobs    *)
(* and recipients and any limits.                                          *)
(***************************************************************************)
EXTENDS NotificationDispatch, TLAPS

\* Counting deliveries keeps the counters within their cap and never lowers one.
LEMMA CountDelivery ==
  ASSUME NEW d \in [Job -> [Target -> 0..DeliveryCap]],
         NEW j \in Job, NEW t \in Target, NEW n \in Nat
  PROVE  /\ Count(d[j][t] + n) \in 0..DeliveryCap
         /\ Count(d[j][t] + n) >= d[j][t]
         /\ n > 0 => Count(d[j][t] + n) > 0
BY DEF Count, DeliveryCap

\* Every step keeps every variable in its type; deliveries are counted up to their
\* cap and attempts are natural numbers.
THEOREM TypeCorrect == Spec => []TypeOK
<1> USE ConstantsAssumption
<1>1. Init => TypeOK
  BY DEF Init, TypeOK, Statuses, NothingSeen, DeliveryCap, Idle, Empty
<1>2. TypeOK /\ [Next]_vars => TypeOK'
  <2> SUFFICES ASSUME TypeOK, [Next]_vars PROVE TypeOK'
    OBVIOUS
  <2> USE DEF TypeOK, Idle, Empty, Active, Statuses, NothingSeen, rows, logs, lifespan, results, Goto
  <2>1. ASSUME NEW p \in Proc, NEW j \in Job, Forget(p, j)
        PROVE  /\ at' \in [Proc -> [Job -> Active \cup {"idle", "queued"}]]
               /\ seen' \in [Proc -> [Job -> [status : Statuses, attempts : Nat]]]
               /\ todo' \in [Proc -> [Job -> SUBSET Target]]
               /\ sent' \in [Proc -> [Job -> SUBSET Target]]
               /\ unsent' \in [Proc -> [Job -> SUBSET Target]]
    BY <2>1 DEF Forget
  <2>2. ASSUME NEW p \in Proc, NEW S, Submit(p, S)
        PROVE  at' \in [Proc -> [Job -> Active \cup {"idle", "queued"}]]
    BY <2>2 DEF Submit
  <2>3. ASSUME NEW p \in Proc, NEW j \in Job, Enqueue(p, j) PROVE TypeOK'
    BY <2>2, <2>3 DEF Enqueue
  <2>4. ASSUME NEW p \in Proc, NEW j \in Job, ReadRow(p, j) PROVE TypeOK'
    <3>1. CASE Forget(p, j)
      BY <2>1, <2>4, <3>1 DEF ReadRow
    <3>2. CASE Goto(p, j, "claiming") /\ UNCHANGED results
      <4>1. [status |-> status[j], attempts |-> attempts[j]]
              \in [status : Statuses, attempts : Nat]
        OBVIOUS
      <4>2. seen' \in [Proc -> [Job -> [status : Statuses, attempts : Nat]]]
        <5>1. CASE seen' = [seen EXCEPT ![p][j] =
                              [status |-> status[j], attempts |-> attempts[j]]]
          BY <4>1, <5>1
        <5>2. CASE Forget(p, j)
          BY <2>1, <5>2
        <5> QED BY <2>4, <5>1, <5>2 DEF ReadRow
      <4> QED BY <2>4, <3>2, <4>2 DEF ReadRow
    <3> QED BY <2>4, <3>1, <3>2 DEF ReadRow
  <2>5. ASSUME NEW p \in Proc, NEW j \in Job, Claim(p, j) PROVE TypeOK'
    <3>1. attempts' \in [Job -> Nat]
      <4>1. seen[p][j].attempts + 1 \in Nat
        OBVIOUS
      <4> QED BY <2>5, <4>1 DEF Claim, ClaimCounted
    <3>2. status' \in [Job -> Statuses]
      BY <2>5 DEF Claim
    <3> QED BY <2>5, <3>1, <3>2 DEF Claim
  <2>6. ASSUME NEW p \in Proc, NEW j \in Job, Plan(p, j) PROVE TypeOK'
    BY <2>6 DEF Plan, NotYetSent
  <2>7. ASSUME NEW p \in Proc, NEW j \in Job, SendSome(p, j) PROVE TypeOK'
    <3>1. PICK t \in Target, o \in Outcomes : Send(p, j, t, o)
      BY <2>7 DEF SendSome
    <3>2. Copies(o) \in Nat
      BY DEF Outcomes, Copies
    <3>3. delivered' \in [Job -> [Target -> 0..DeliveryCap]]
      <4>2. Count(delivered[j][t] + Copies(o)) \in 0..DeliveryCap
        BY <3>2, CountDelivery
      <4> QED BY <3>1, <4>2 DEF Send
    <3>4. /\ todo' \in [Proc -> [Job -> SUBSET Target]]
          /\ sent' \in [Proc -> [Job -> SUBSET Target]]
          /\ unsent' \in [Proc -> [Job -> SUBSET Target]]
      BY <3>1 DEF Send
    <3>5. at' \in [Proc -> [Job -> Active \cup {"idle", "queued"}]]
      BY <3>1 DEF Send
    <3> QED BY <3>1, <3>3, <3>4, <3>5 DEF Send
  <2>8. ASSUME NEW p \in Proc, NEW j \in Job, LogEmails(p, j) \/ LogSms(p, j) PROVE TypeOK'
    <3>1. ASSUME NEW S, Record(p, j, S)
          PROVE  sentLog' \in [Job -> SUBSET Target] /\ failedLog' \in [Job -> SUBSET Target]
      BY <3>1 DEF Record
    <3>2. at' \in [Proc -> [Job -> Active \cup {"idle", "queued"}]]
      <4>1. CASE Goto(p, j, "loggingSms")
        BY <4>1
      <4>2. CASE Goto(p, j, "succeeded")
        BY <4>2
      <4> QED BY <2>8, <4>1, <4>2 DEF LogEmails, LogSms
    <3>3. sentLog' \in [Job -> SUBSET Target] /\ failedLog' \in [Job -> SUBSET Target]
      BY <2>8, <3>1 DEF LogEmails, LogSms
    <3>4. UNCHANGED <<rows, delivered, lifespan, seen, results>>
      BY <2>8 DEF LogEmails, LogSms
    <3> QED BY <3>2, <3>3, <3>4
  <2>9. ASSUME NEW p \in Proc, NEW j \in Job, Mark(p, j) \/ RunRaises(p, j) PROVE TypeOK'
    BY <2>1, <2>9 DEF Mark, RunRaises
  <2>10. ASSUME NEW p \in Proc, NEW j \in Job, DispatchRaises(p, j) PROVE TypeOK'
    BY <2>10 DEF DispatchRaises
  <2>11. ASSUME NEW p \in Proc, Start(p) \/ Exit(p) \/ Shutdown(p) PROVE TypeOK'
    BY <2>11 DEF Start, Exit, Shutdown
  <2>12. ASSUME NEW p \in Proc, RecoverRead(p) PROVE TypeOK'
    BY <2>12 DEF RecoverRead, UnfinishedRows, Exhausted
  <2>13. ASSUME NEW p \in Proc, Recover(p) PROVE TypeOK'
    BY <2>2, <2>13 DEF Recover
  <2>14. ASSUME NEW p \in Proc, Crash(p) PROVE TypeOK'
    BY <2>14 DEF Crash
  <2>15. CASE UNCHANGED vars
    BY <2>15 DEF vars
  <2> QED
    BY <2>3, <2>4, <2>5, <2>6, <2>7, <2>8, <2>9, <2>10, <2>11, <2>12, <2>13, <2>14, <2>15
       DEF Next, Boot, Fault, Run
<1> QED BY <1>1, <1>2, PTL DEF Spec

-------------------------------------------------------------------------------
(***************************************************************************)
(* A worker thread changes one slot of its pool, and the log only grows.   *)
(***************************************************************************)
SlotUnchanged(p, j) ==
  /\ at'[p][j] = at[p][j]
  /\ seen'[p][j] = seen[p][j]
  /\ todo'[p][j] = todo[p][j]
  /\ sent'[p][j] = sent[p][j]
  /\ unsent'[p][j] = unsent[p][j]

LogGrows ==
  \A j \in Job : sentLog[j] \subseteq sentLog'[j] /\ failedLog[j] \subseteq failedLog'[j]

Threads(p, j) == Run(p, j) \/ DispatchRaises(p, j) \/ RunRaises(p, j)

LEMMA OneSlot ==
  ASSUME TypeOK, NEW p \in Proc, NEW j \in Job, Threads(p, j)
  PROVE  \A q \in Proc, k \in Job : q # p \/ k # j => SlotUnchanged(q, k)
<1> SUFFICES ASSUME NEW q \in Proc, NEW k \in Job, q # p \/ k # j
             PROVE  SlotUnchanged(q, k)
  OBVIOUS
<1> USE DEF TypeOK, SlotUnchanged, results
<1>1. ASSUME NEW phase, Goto(p, j, phase) PROVE at'[q][k] = at[q][k]
  BY <1>1 DEF Goto
<1>2. CASE Forget(p, j)
  BY <1>1, <1>2 DEF Forget
<1>3. CASE ReadRow(p, j) /\ ~Forget(p, j)
  BY <1>1, <1>3 DEF ReadRow
<1>4. CASE Claim(p, j)
  BY <1>1, <1>4 DEF Claim
<1>5. CASE Plan(p, j)
  BY <1>1, <1>5 DEF Plan
<1>6. CASE SendSome(p, j)
  BY <1>1, <1>6 DEF SendSome, Send
<1>7. CASE LogEmails(p, j) \/ LogSms(p, j) \/ DispatchRaises(p, j)
  BY <1>1, <1>7 DEF LogEmails, LogSms, DispatchRaises
<1>8. CASE Mark(p, j) \/ RunRaises(p, j)
  BY <1>2, <1>8 DEF Mark, RunRaises
<1> QED BY <1>2, <1>3, <1>4, <1>5, <1>6, <1>7, <1>8 DEF Threads, Run

LEMMA LogOnlyGrows == TypeOK /\ [Next]_vars => LogGrows
<1> SUFFICES ASSUME TypeOK, [Next]_vars PROVE LogGrows
  OBVIOUS
<1> USE DEF TypeOK, LogGrows, logs
<1>1. ASSUME NEW p \in Proc, NEW j \in Job, LogEmails(p, j) \/ LogSms(p, j) PROVE LogGrows
  <2>1. ASSUME NEW S, Record(p, j, S) PROVE LogGrows
    BY <2>1 DEF Record
  <2> QED BY <1>1, <2>1 DEF LogEmails, LogSms
<1>2. CASE UNCHANGED logs
  BY <1>2
<1>3. ASSUME NEW p \in Proc, Boot(p) \/ Shutdown(p) \/ Crash(p) PROVE UNCHANGED logs
  BY <1>3 DEF Boot, Start, RecoverRead, Recover, Shutdown, Exit, Crash
<1>4. ASSUME NEW p \in Proc, NEW j \in Job, Enqueue(p, j) \/ DispatchRaises(p, j) \/ RunRaises(p, j)
      PROVE  UNCHANGED logs
  BY <1>4 DEF Enqueue, DispatchRaises, RunRaises
<1>5. ASSUME NEW p \in Proc, NEW j \in Job,
             ReadRow(p, j) \/ Claim(p, j) \/ Plan(p, j) \/ SendSome(p, j) \/ Mark(p, j)
      PROVE  UNCHANGED logs
  BY <1>5 DEF ReadRow, Claim, Plan, SendSome, Send, Mark
<1>6. CASE UNCHANGED vars
  BY <1>2, <1>6 DEF vars
<1> QED BY <1>1, <1>2, <1>3, <1>4, <1>5, <1>6 DEF Next, Fault, Run

-------------------------------------------------------------------------------
Covered(j) == sentLog[j] \cup failedLog[j]

\* Every recipient of a running job is on record, has a result, or is yet to come.
SlotAudited(p, j) ==
  /\ at[p][j] \in {"sending", "logging", "loggingSms"} =>
       Recipients[j] \subseteq Covered(j) \cup todo[p][j] \cup sent[p][j] \cup unsent[p][j]
  /\ at[p][j] \in {"logging", "loggingSms"} => todo[p][j] = {}
  /\ at[p][j] = "loggingSms" => Recipients[j] \cap Email \subseteq Covered(j)
  /\ at[p][j] = "succeeded" => Recipients[j] \subseteq Covered(j)

AuditInv ==
  /\ DoneIsAudited
  /\ \A p \in Proc, j \in Job : SlotAudited(p, j)

LEMMA AuditStep == TypeOK /\ AuditInv /\ [Next]_vars => AuditInv'
<1> SUFFICES ASSUME TypeOK, AuditInv, [Next]_vars PROVE AuditInv'
  OBVIOUS
<1>1. LogGrows
  BY LogOnlyGrows
<1>2. ASSUME NEW p \in Proc, NEW j \in Job, SlotUnchanged(p, j) PROVE SlotAudited(p, j)'
  BY <1>1, <1>2 DEF AuditInv, SlotAudited, SlotUnchanged, LogGrows, Covered
<1>3. ASSUME NEW p \in Proc, NEW j \in Job, at'[p][j] \in {"idle", "queued"}
      PROVE  SlotAudited(p, j)'
  BY <1>3 DEF SlotAudited
<1>4. ASSUME \A j \in Job : status'[j] = "done" => status[j] = "done",
             \A p \in Proc, j \in Job : SlotAudited(p, j)'
      PROVE  AuditInv'
  BY <1>1, <1>4 DEF AuditInv, DoneIsAudited, LogGrows
<1>5. ASSUME NEW p \in Proc, NEW j \in Job, Threads(p, j), SlotAudited(p, j)'
      PROVE  \A q \in Proc, k \in Job : SlotAudited(q, k)'
  BY <1>2, <1>5, OneSlot
<1>6. ASSUME NEW p \in Proc, NEW j \in Job, Threads(p, j)
      PROVE  AuditInv'
  <2> USE DEF TypeOK, AuditInv, rows, logs, results
  <2>1. CASE Claim(p, j) \/ DispatchRaises(p, j)
    <3>1. at'[p][j] \in {"planning", "failing"}
      BY <2>1 DEF Claim, DispatchRaises, Goto
    <3>2. SlotAudited(p, j)'
      BY <3>1 DEF SlotAudited
    <3>3. \A k \in Job : status'[k] = "done" => status[k] = "done"
      BY <2>1 DEF Claim, DispatchRaises
    <3> QED BY <1>4, <1>5, <1>6, <3>2, <3>3
  <2>2. CASE ReadRow(p, j) \/ RunRaises(p, j)
    <3>1. at'[p][j] \in {"idle", "claiming"}
      BY <2>2 DEF ReadRow, RunRaises, Forget, Goto
    <3>2. SlotAudited(p, j)'
      BY <3>1 DEF SlotAudited
    <3> QED BY <1>4, <1>5, <1>6, <2>2, <3>2 DEF ReadRow, RunRaises
  <2>3. CASE Plan(p, j)
    <3>1. /\ at'[p][j] = IF NotYetSent(j) = {} THEN "succeeded" ELSE "sending"
          /\ todo'[p][j] = NotYetSent(j)
          /\ UNCHANGED <<status, sentLog, failedLog>>
      BY <2>3 DEF Plan, Goto
    <3>2. SlotAudited(p, j)'
      BY <3>1 DEF SlotAudited, NotYetSent, Covered
    <3> QED BY <1>4, <1>5, <1>6, <3>1, <3>2
  <2>4. CASE SendSome(p, j)
    <3>1. PICK t \in Target, o \in Outcomes : Send(p, j, t, o)
      BY <2>4 DEF SendSome
    <3>2. /\ at[p][j] = "sending"
          /\ at'[p][j] = IF todo[p][j] = {t} THEN "logging" ELSE "sending"
          /\ todo'[p][j] = todo[p][j] \ {t}
          /\ UNCHANGED <<status, sentLog, failedLog>>
      BY <3>1 DEF Send, Goto
    <3>3. sent'[p][j] \cup unsent'[p][j] = sent[p][j] \cup unsent[p][j] \cup {t}
      BY <3>1 DEF Send
    <3>4. SlotAudited(p, j)
      OBVIOUS
    <3>5. SlotAudited(p, j)'
      BY <3>2, <3>3, <3>4 DEF SlotAudited, Covered
    <3> QED BY <1>4, <1>5, <1>6, <3>2, <3>5
  <2>5. CASE LogEmails(p, j) \/ LogSms(p, j)
    <3>1. ASSUME NEW S, Record(p, j, S)
          PROVE  Covered(j)' = Covered(j) \cup ((sent[p][j] \cup unsent[p][j]) \cap S)
      BY <3>1 DEF Record, Covered
    <3>2. UNCHANGED <<status, todo, sent, unsent>>
      BY <2>5 DEF LogEmails, LogSms
    <3>3. ASSUME LogEmails(p, j) PROVE SlotAudited(p, j)'
      <4>1. at[p][j] = "logging" /\ at'[p][j] = "loggingSms"
        BY <3>3 DEF LogEmails, Goto
      <4>2. Covered(j)' = Covered(j) \cup ((sent[p][j] \cup unsent[p][j]) \cap Email)
        BY <3>1, <3>3 DEF LogEmails
      <4>3. SlotAudited(p, j)
        OBVIOUS
      <4> QED BY <3>2, <4>1, <4>2, <4>3 DEF SlotAudited
    <3>4. ASSUME LogSms(p, j) PROVE SlotAudited(p, j)'
      <4>1. at[p][j] = "loggingSms" /\ at'[p][j] = "succeeded"
        BY <3>4 DEF LogSms, Goto
      <4>2. Covered(j)' = Covered(j) \cup ((sent[p][j] \cup unsent[p][j]) \cap (Target \ Email))
        BY <3>1, <3>4 DEF LogSms
      <4>3. SlotAudited(p, j)
        OBVIOUS
      <4>4. Recipients[j] \subseteq Target
        BY ConstantsAssumption
      <4> QED BY <3>2, <4>1, <4>2, <4>3, <4>4 DEF SlotAudited
    <3>5. SlotAudited(p, j)'
      BY <2>5, <3>3, <3>4
    <3> QED BY <1>4, <1>5, <1>6, <3>2, <3>5
  <2>6. CASE Mark(p, j)
    <3>1. /\ at'[p][j] = "idle"
          /\ \A k \in Job : status'[k] = "done" => status[k] = "done" \/ k = j
          /\ status'[j] = "done" => at[p][j] = "succeeded"
      BY <2>6 DEF Mark, Forget, Goto
    <3>2. status'[j] = "done" => Recipients[j] \subseteq Covered(j)
      BY <3>1 DEF SlotAudited
    <3>3. DoneIsAudited'
      BY <1>1, <3>1, <3>2 DEF DoneIsAudited, Covered, LogGrows
    <3> QED BY <1>3, <1>5, <1>6, <3>1, <3>3
  <2> QED BY <1>6, <2>1, <2>2, <2>3, <2>4, <2>5, <2>6 DEF Threads, Run
<1>7. ASSUME NEW p \in Proc, NEW S, Submit(p, S), UNCHANGED results
      PROVE  \A q \in Proc, k \in Job : SlotAudited(q, k)'
  <2> SUFFICES ASSUME NEW q \in Proc, NEW k \in Job PROVE SlotAudited(q, k)'
    OBVIOUS
  <2>1. at'[q][k] = "queued" \/ at'[q][k] = at[q][k]
    BY <1>7 DEF Submit, TypeOK
  <2>2. SlotAudited(q, k)
    BY DEF AuditInv
  <2> QED BY <1>1, <1>7, <2>1, <2>2 DEF SlotAudited, results, LogGrows, Covered
<1>8. ASSUME NEW p \in Proc, NEW j \in Job, Enqueue(p, j) PROVE AuditInv'
  BY <1>4, <1>7, <1>8 DEF Enqueue, TypeOK
<1>9. ASSUME NEW p \in Proc, Recover(p) PROVE AuditInv'
  BY <1>4, <1>7, <1>9 DEF Recover, TypeOK
<1>10. ASSUME NEW p \in Proc, Crash(p) PROVE AuditInv'
  <2>1. ASSUME NEW q \in Proc, NEW k \in Job PROVE SlotAudited(q, k)'
    <3>1. CASE q = p
      BY <1>3, <1>10, <3>1 DEF Crash, TypeOK, Idle
    <3>2. CASE q # p
      BY <1>2, <1>10, <3>2 DEF Crash, TypeOK, SlotUnchanged
    <3> QED BY <3>1, <3>2
  <2> QED BY <1>4, <1>10, <2>1 DEF Crash, rows
<1>11. ASSUME UNCHANGED <<status, at, seen, results>> PROVE AuditInv'
  BY <1>2, <1>4, <1>11 DEF SlotUnchanged, results
<1>12. ASSUME NEW p \in Proc, Start(p) \/ RecoverRead(p) \/ Exit(p) \/ Shutdown(p)
       PROVE  AuditInv'
  BY <1>11, <1>12 DEF Start, RecoverRead, Exit, Shutdown, rows
<1>13. CASE UNCHANGED vars
  BY <1>11, <1>13 DEF vars, results
<1> QED
  BY <1>6, <1>8, <1>9, <1>10, <1>12, <1>13 DEF Next, Boot, Fault, Threads

\* Whatever crashes or fails, and however many processes run the same job, a job that
\* is done has a log row for every recipient (run_job, _dispatch, _log_results).
THEOREM DoneAudited == Spec => []DoneIsAudited
<1>1. Init => AuditInv
  BY DEF Init, AuditInv, DoneIsAudited, SlotAudited, Idle
<1>2. AuditInv => DoneIsAudited
  BY DEF AuditInv
<1> QED BY <1>1, <1>2, TypeCorrect, AuditStep, PTL DEF Spec

-------------------------------------------------------------------------------
(***************************************************************************)
(* A result "sent" stands for a delivery, and deliveries are never undone. *)
(***************************************************************************)
SlotTruthful(p, j) == \A t \in sent[p][j] : delivered[j][t] > 0

TruthInv ==
  /\ LogIsTruthful
  /\ \A p \in Proc, j \in Job : SlotTruthful(p, j)

DeliveredGrows == \A j \in Job, t \in Target : delivered[j][t] > 0 => delivered'[j][t] > 0

LEMMA SendDelivers ==
  ASSUME TypeOK, NEW p \in Proc, NEW j \in Job, NEW t \in Target, NEW o \in Outcomes,
         Send(p, j, t, o)
  PROVE  DeliveredGrows /\ (o.ok => delivered'[j][t] > 0)
<1> USE ConstantsAssumption
<1>1. Copies(o) \in Nat /\ (o.ok => Copies(o) > 0)
  BY DEF Outcomes, Copies
<1>2. delivered \in [Job -> [Target -> 0..DeliveryCap]]
  BY DEF TypeOK
<1>3. /\ delivered'[j][t] = Count(delivered[j][t] + Copies(o))
      /\ \A k \in Job, u \in Target : k # j \/ u # t => delivered'[k][u] = delivered[k][u]
  BY <1>2 DEF Send
<1>4. /\ Count(delivered[j][t] + Copies(o)) \in 0..DeliveryCap
      /\ Count(delivered[j][t] + Copies(o)) >= delivered[j][t]
      /\ Copies(o) > 0 => Count(delivered[j][t] + Copies(o)) > 0
  BY <1>1, <1>2, CountDelivery
<1>5. delivered[j][t] \in 0..DeliveryCap
  BY <1>2
<1>6. delivered[j][t] > 0 => delivered'[j][t] > 0
  BY <1>3, <1>4, <1>5 DEF DeliveryCap
<1> QED BY <1>1, <1>3, <1>4, <1>6 DEF DeliveredGrows

LEMMA TruthStep == TypeOK /\ TruthInv /\ [Next]_vars => TruthInv'
<1> SUFFICES ASSUME TypeOK, TruthInv, [Next]_vars PROVE TruthInv'
  OBVIOUS
<1> USE DEF TruthInv
<1>1. ASSUME DeliveredGrows, UNCHANGED sentLog,
             \A p \in Proc, j \in Job :
               sent'[p][j] \subseteq sent[p][j] \/ SlotTruthful(p, j)'
      PROVE  TruthInv'
  <2>1. LogIsTruthful'
    BY <1>1 DEF LogIsTruthful, DeliveredGrows, TypeOK
  <2>2. ASSUME NEW p \in Proc, NEW j \in Job PROVE SlotTruthful(p, j)'
    BY <1>1, <2>2 DEF SlotTruthful, DeliveredGrows, TypeOK
  <2> QED BY <2>1, <2>2
<1>2. ASSUME UNCHANGED delivered PROVE DeliveredGrows
  BY <1>2 DEF DeliveredGrows
<1>3. CASE UNCHANGED <<sentLog, delivered, sent>>
  BY <1>1, <1>2, <1>3
<1>4. ASSUME NEW p \in Proc, NEW j \in Job, Forget(p, j), UNCHANGED <<sentLog, delivered>>
      PROVE  TruthInv'
  <2>1. \A q \in Proc, k \in Job : sent'[q][k] \subseteq sent[q][k]
    BY <1>4 DEF Forget, TypeOK
  <2> QED BY <1>1, <1>2, <1>4, <2>1
<1>5. ASSUME NEW p \in Proc, NEW j \in Job,
             ReadRow(p, j) \/ Mark(p, j) \/ RunRaises(p, j)
      PROVE  TruthInv'
  BY <1>3, <1>4, <1>5 DEF ReadRow, Mark, RunRaises, logs, results
<1>6. ASSUME NEW p \in Proc, NEW j \in Job,
             Enqueue(p, j) \/ Claim(p, j) \/ Plan(p, j) \/ DispatchRaises(p, j)
      PROVE  TruthInv'
  BY <1>3, <1>6 DEF Enqueue, Claim, Plan, DispatchRaises, logs, results
<1>7. ASSUME NEW p \in Proc, NEW j \in Job, SendSome(p, j) PROVE TruthInv'
  <2>1. PICK t \in Target, o \in Outcomes : Send(p, j, t, o)
    BY <1>7 DEF SendSome
  <2>2. DeliveredGrows /\ (o.ok => delivered'[j][t] > 0)
    BY <2>1, SendDelivers
  <2>3. /\ \A q \in Proc, k \in Job : q # p \/ k # j => sent'[q][k] = sent[q][k]
        /\ sent'[p][j] = IF o.ok THEN sent[p][j] \cup {t} ELSE sent[p][j]
        /\ UNCHANGED sentLog
    BY <2>1 DEF Send, TypeOK, logs
  <2>4. \A u \in sent[p][j] : delivered'[j][u] > 0
    BY <2>2 DEF DeliveredGrows, SlotTruthful, TypeOK
  <2>5. SlotTruthful(p, j)'
    BY <2>2, <2>3, <2>4 DEF SlotTruthful
  <2> QED BY <1>1, <2>2, <2>3, <2>5
<1>8. ASSUME NEW p \in Proc, NEW j \in Job, LogEmails(p, j) \/ LogSms(p, j) PROVE TruthInv'
  <2>1. UNCHANGED <<delivered, sent>>
    BY <1>8 DEF LogEmails, LogSms, results
  <2>2. ASSUME NEW S, Record(p, j, S)
        PROVE  \A k \in Job : sentLog'[k] \subseteq sentLog[k] \/ (k = j /\ sentLog'[k] \subseteq sentLog[k] \cup sent[p][k])
    BY <2>2 DEF Record, TypeOK
  <2>3. \A k \in Job : sentLog'[k] \subseteq sentLog[k] \/ (k = j /\ sentLog'[k] \subseteq sentLog[k] \cup sent[p][k])
    BY <1>8, <2>2 DEF LogEmails, LogSms
  <2>4. LogIsTruthful'
    BY <2>1, <2>3 DEF LogIsTruthful, SlotTruthful
  <2> QED BY <2>1, <2>4 DEF SlotTruthful
<1>9. ASSUME NEW p \in Proc, Crash(p) PROVE TruthInv'
  <2>1. \A q \in Proc, k \in Job : sent'[q][k] \subseteq sent[q][k]
    BY <1>9 DEF Crash, TypeOK, Empty
  <2> QED BY <1>1, <1>2, <1>9, <2>1 DEF Crash, logs
<1>10. ASSUME NEW p \in Proc, Boot(p) \/ Shutdown(p) PROVE TruthInv'
  BY <1>3, <1>10 DEF Boot, Start, RecoverRead, Recover, Exit, Shutdown, logs, results
<1>11. CASE UNCHANGED vars
  BY <1>3, <1>11 DEF vars
<1> QED
  BY <1>5, <1>6, <1>7, <1>8, <1>9, <1>10, <1>11 DEF Next, Fault, Run

\* Under every fault and with any number of processes, a SENT row is never there
\* without a delivery (_log_results).
THEOREM LogTruthful == Spec => []LogIsTruthful
<1>1. Init => TruthInv
  BY DEF Init, TruthInv, LogIsTruthful, SlotTruthful, Empty
<1>2. TruthInv => LogIsTruthful
  BY DEF TruthInv
<1> QED BY <1>1, <1>2, TypeCorrect, TruthStep, PTL DEF Spec

\* The audit log leaves no one out, and records no delivery that there was not, for any
\* number of processes, jobs and recipients (run_job, _log_results).
THEOREM AuditTruthful == Spec => []AuditIsTruthful
<1>1. DoneIsAudited /\ LogIsTruthful => AuditIsTruthful
  BY DEF AuditIsTruthful
<1> QED BY <1>1, DoneAudited, LogTruthful, PTL

-------------------------------------------------------------------------------
(***************************************************************************)
(* A deployment of one process: it owns every job in its pool, and recovery*)
(* meets a pool that is empty.                                             *)
(***************************************************************************)
OneProcess == \A p, q \in Proc : p = q

Owned(p, j) ==
  /\ at[p][j] # "idle" =>
       status[j] \in {"queued", "in_progress"} /\ proc[p] \in {"up", "draining"}
  /\ j \in resume[p] \cup giveUp[p] =>
       status[j] \in {"queued", "in_progress"} /\ proc[p] = "recovering"
  /\ j \in resume[p] => j \notin giveUp[p]
  /\ status[j] = "absent" => attempts[j] = 0
  /\ at[p][j] \in {"queued", "claiming"} \/ j \in resume[p] => attempts[j] < MaxAttempts
  /\ at[p][j] = "claiming" => seen[p][j].attempts = attempts[j]
  /\ at[p][j] = "sending" => todo[p][j] \cap sentLog[j] = {}
  /\ attempts[j] <= MaxAttempts

OwnInv == \A p \in Proc, j \in Job : Owned(p, j)

\* A worker thread changes the row and the log of its own job only.
LEMMA OneRow ==
  ASSUME TypeOK, NEW p \in Proc, NEW j \in Job, Threads(p, j)
  PROVE  /\ \A k \in Job : k # j =>
              status'[k] = status[k] /\ attempts'[k] = attempts[k] /\ sentLog'[k] = sentLog[k]
         /\ UNCHANGED lifespan
<1> USE DEF TypeOK, rows, logs, lifespan
<1>1. CASE ReadRow(p, j) \/ Plan(p, j) \/ DispatchRaises(p, j) \/ RunRaises(p, j)
  BY <1>1 DEF ReadRow, Plan, DispatchRaises, RunRaises
<1>2. CASE SendSome(p, j)
  BY <1>2 DEF SendSome, Send
<1>3. CASE Claim(p, j)
  BY <1>3 DEF Claim, ClaimCounted
<1>4. CASE LogEmails(p, j) \/ LogSms(p, j)
  BY <1>4 DEF LogEmails, LogSms, Record
<1>5. CASE Mark(p, j)
  BY <1>5 DEF Mark
<1> QED BY <1>1, <1>2, <1>3, <1>4, <1>5 DEF Threads, Run

LEMMA OwnThread ==
  ASSUME OneProcess, TypeOK, OwnInv, NEW p \in Proc, NEW j \in Job, Threads(p, j)
  PROVE  OwnInv'
<1> USE DEF rows, logs, results
<1>1. Owned(p, j)
  BY DEF OwnInv
<1>2. UNCHANGED lifespan
  BY OneRow
<1>3. ASSUME Owned(p, j)' PROVE OwnInv'
  <2> SUFFICES ASSUME NEW q \in Proc, NEW k \in Job, k # j PROVE Owned(q, k)'
    BY <1>3 DEF OwnInv, OneProcess
  <2>1. SlotUnchanged(q, k)
    BY OneSlot
  <2>2. status'[k] = status[k] /\ attempts'[k] = attempts[k] /\ sentLog'[k] = sentLog[k]
    BY OneRow
  <2>3. Owned(q, k)
    BY DEF OwnInv
  <2> QED BY <1>2, <2>1, <2>2, <2>3 DEF Owned, SlotUnchanged, lifespan
<1>4. /\ at[p][j] # "idle" /\ status[j] \in {"queued", "in_progress"}
      /\ proc'[p] \in {"up", "draining"} /\ j \notin resume'[p] \cup giveUp'[p]
  BY <1>1, <1>2 DEF Owned, Threads, Run, ReadRow, Claim, Plan, SendSome, Send, LogEmails, LogSms,
                    Mark, DispatchRaises, RunRaises, lifespan
<1>5. ASSUME status'[j] \in {"queued", "in_progress"}, UNCHANGED attempts,
             at'[p][j] \notin {"idle", "queued", "claiming", "sending"}
      PROVE  OwnInv'
  BY <1>1, <1>3, <1>4, <1>5 DEF Owned
<1>6. CASE ReadRow(p, j)
  <2>1. /\ at[p][j] = "queued" /\ at'[p][j] = "claiming"
        /\ seen'[p][j].attempts = attempts[j]
        /\ UNCHANGED rows
    BY <1>4, <1>6 DEF ReadRow, Goto, TypeOK
  <2> QED BY <1>1, <1>3, <1>4, <2>1 DEF Owned
<1>7. CASE Claim(p, j)
  <2>1. /\ at'[p][j] = "planning" /\ status'[j] \in {"queued", "in_progress"}
        /\ attempts'[j] = seen[p][j].attempts + 1
    BY <1>4, <1>7 DEF Claim, ClaimCounted, Goto, TypeOK
  <2>2. attempts[j] \in Nat /\ attempts[j] < MaxAttempts /\ seen[p][j].attempts = attempts[j]
    BY <1>1, <1>7 DEF Claim, Owned, TypeOK
  <2>3. attempts'[j] <= MaxAttempts
    BY <2>1, <2>2, ConstantsAssumption
  <2> QED BY <1>3, <1>4, <2>1, <2>3 DEF Owned
<1>8. CASE Plan(p, j)
  <2>1. /\ at'[p][j] \in {"succeeded", "sending"}
        /\ todo'[p][j] \cap sentLog'[j] = {}
        /\ UNCHANGED rows
    BY <1>8 DEF Plan, Goto, NotYetSent, TypeOK
  <2> QED BY <1>1, <1>3, <1>4, <2>1 DEF Owned
<1>9. CASE SendSome(p, j)
  <2>1. /\ at[p][j] = "sending" /\ at'[p][j] \in {"sending", "logging"}
        /\ todo'[p][j] \subseteq todo[p][j]
        /\ UNCHANGED <<status, attempts, sentLog>>
    BY <1>9 DEF SendSome, Send, Goto, TypeOK
  <2> QED BY <1>1, <1>3, <1>4, <2>1 DEF Owned
<1>10. CASE LogEmails(p, j) \/ LogSms(p, j) \/ DispatchRaises(p, j)
  <2>1. at'[p][j] \in {"loggingSms", "succeeded", "failing"} /\ UNCHANGED rows
    BY <1>10 DEF LogEmails, LogSms, DispatchRaises, Goto, TypeOK
  <2> QED BY <1>4, <1>5, <2>1
<1>11. CASE Mark(p, j) \/ RunRaises(p, j)
  <2>1. at'[p][j] = "idle" /\ status'[j] # "absent" /\ UNCHANGED attempts
    BY <1>4, <1>11 DEF Mark, RunRaises, Forget, Goto, TypeOK
  <2> QED BY <1>1, <1>3, <1>4, <2>1 DEF Owned
<1> QED BY <1>6, <1>7, <1>8, <1>9, <1>10, <1>11 DEF Threads, Run

LEMMA OwnStep == OneProcess /\ TypeOK /\ OwnInv /\ [Next]_vars => OwnInv'
<1> SUFFICES ASSUME OneProcess, TypeOK, OwnInv, [Next]_vars PROVE OwnInv'
  OBVIOUS
<1> USE DEF rows, logs, results
<1>1. ASSUME NEW p \in Proc, NEW j \in Job, Owned(p, j)', NEW q \in Proc
      PROVE  Owned(q, j)'
  BY <1>1 DEF OneProcess
<1>2. ASSUME NEW p \in Proc, NEW j \in Job, Enqueue(p, j) PROVE OwnInv'
  <2> SUFFICES ASSUME NEW k \in Job PROVE Owned(p, k)'
    BY <1>1 DEF OwnInv
  <2>1. Owned(p, k) /\ Owned(p, j)
    BY DEF OwnInv
  <2>2. k # j => status'[k] = status[k] /\ at'[p][k] = at[p][k]
    BY <1>2 DEF Enqueue, Submit, TypeOK
  <2>3. /\ k = j => status'[k] = "queued" /\ at[p][j] = "idle" /\ attempts[k] = 0
        /\ k = j => at'[p][k] \in {"idle", "queued"}
        /\ k = j => k \notin resume[p] \cup giveUp[p]
        /\ proc[p] \in {"up", "draining"}
    BY <1>2, <2>1 DEF Enqueue, Submit, TypeOK, Owned
  <2>4. UNCHANGED <<attempts, sentLog, proc, resume, giveUp, seen, todo>>
    BY <1>2 DEF Enqueue, lifespan
  <2> QED BY <2>1, <2>2, <2>3, <2>4, ConstantsAssumption DEF Owned
<1>3. ASSUME NEW p \in Proc, Recover(p) PROVE OwnInv'
  <2> SUFFICES ASSUME NEW k \in Job PROVE Owned(p, k)'
    BY <1>1 DEF OwnInv
  <2>1. Owned(p, k)
    BY DEF OwnInv
  <2>2. proc[p] = "recovering" /\ at[p][k] = "idle"
    BY <1>3, <2>1 DEF Recover, Owned
  <2>3. /\ status'[k] = IF k \in giveUp[p] THEN "failed" ELSE status[k]
        /\ at'[p][k] = IF k \in resume[p] THEN "queued" ELSE "idle"
        /\ resume'[p] = {} /\ giveUp'[p] = {} /\ proc'[p] = "up"
        /\ UNCHANGED <<attempts, sentLog>>
    BY <1>3, <2>2 DEF Recover, Submit, TypeOK
  <2>4. k \in resume[p] => k \notin giveUp[p]
    BY <2>1 DEF Owned
  <2> QED BY <2>1, <2>2, <2>3, <2>4 DEF Owned
<1>4. ASSUME NEW p \in Proc, RecoverRead(p) PROVE OwnInv'
  <2> SUFFICES ASSUME NEW k \in Job PROVE Owned(p, k)'
    BY <1>1 DEF OwnInv
  <2>1. Owned(p, k) /\ attempts[k] \in Nat
    BY DEF OwnInv, TypeOK
  <2>2. proc[p] = "starting" /\ at[p][k] = "idle"
    BY <1>4, <2>1 DEF RecoverRead, Owned
  <2>3. /\ proc'[p] = "recovering"
        /\ resume'[p] = UnfinishedRows \ Exhausted
        /\ giveUp'[p] = UnfinishedRows \cap Exhausted
        /\ UNCHANGED <<status, attempts, at>>
    BY <1>4 DEF RecoverRead, TypeOK
  <2>4. k \in resume'[p] => attempts[k] < MaxAttempts
    BY <2>1, <2>3, ConstantsAssumption DEF Exhausted
  <2> QED BY <2>1, <2>2, <2>3, <2>4 DEF Owned, UnfinishedRows
<1>5. ASSUME NEW p \in Proc, Start(p) \/ Shutdown(p) \/ Exit(p) PROVE OwnInv'
  <2> SUFFICES ASSUME NEW k \in Job PROVE Owned(p, k)'
    BY <1>1 DEF OwnInv
  <2>1. Owned(p, k)
    BY DEF OwnInv
  <2>2. /\ proc[p] # "recovering"
        /\ at[p][k] # "idle" => proc'[p] = "draining"
        /\ UNCHANGED <<status, attempts, sentLog, resume, giveUp, at, seen, todo>>
    BY <1>5, <2>1 DEF Start, Shutdown, Exit, Drained, TypeOK, Owned
  <2> QED BY <2>1, <2>2 DEF Owned
<1>6. ASSUME NEW p \in Proc, Crash(p) PROVE OwnInv'
  <2> SUFFICES ASSUME NEW k \in Job PROVE Owned(p, k)'
    BY <1>1 DEF OwnInv
  <2>1. Owned(p, k)
    BY DEF OwnInv
  <2>2. /\ at'[p][k] = "idle" /\ resume'[p] = {} /\ giveUp'[p] = {}
        /\ UNCHANGED <<status, attempts>>
    BY <1>6 DEF Crash, Idle, TypeOK
  <2> QED BY <2>1, <2>2 DEF Owned
<1>7. CASE UNCHANGED vars
  BY <1>7 DEF vars, OwnInv, Owned
<1> QED
  BY <1>2, <1>3, <1>4, <1>5, <1>6, <1>7, OwnThread DEF Next, Boot, Fault, Threads

LEMMA OwnInit == Init => OwnInv
BY ConstantsAssumption DEF Init, OwnInv, Owned, Idle, Empty

\* In a deployment of one process, restarts never run a job more often than the limit
\* allows (run_job, recover_pending_jobs).
THEOREM AttemptsAreBounded ==
  ASSUME OneProcess, Proc # {}
  PROVE  Spec => []AttemptsBounded
<1>1. OwnInv => AttemptsBounded
  BY DEF OwnInv, Owned, AttemptsBounded
<1> QED BY <1>1, OwnInit, TypeCorrect, OwnStep, PTL DEF Spec

\* In a deployment of one process, no run sends to a recipient with a SENT row
\* (_already_sent_recipients).
THEOREM NoLoggedResend ==
  ASSUME OneProcess
  PROVE  Spec => LoggedNeverResent
<1> DEFINE Kept == \A j \in Job : \A t \in sentLog[j] : delivered'[j][t] = delivered[j][t]
<1>1. TypeOK /\ OwnInv /\ [Next]_vars => [Kept]_vars
  <2> SUFFICES ASSUME TypeOK, OwnInv, Next PROVE Kept
    OBVIOUS
  <2>1. ASSUME NEW p \in Proc, NEW j \in Job, SendSome(p, j) PROVE Kept
    <3>1. PICK t \in Target, o \in Outcomes : Send(p, j, t, o)
      BY <2>1 DEF SendSome
    <3>2. t \notin sentLog[j]
      BY <3>1 DEF Send, OwnInv, Owned
    <3> QED BY <3>1, <3>2 DEF Send, TypeOK
  <2>2. ASSUME UNCHANGED delivered PROVE Kept
    BY <2>2
  <2>3. ASSUME NEW p \in Proc, Boot(p) \/ Shutdown(p) \/ Crash(p) PROVE Kept
    BY <2>2, <2>3 DEF Boot, Start, RecoverRead, Recover, Shutdown, Exit, Crash
  <2>4. ASSUME NEW p \in Proc, NEW j \in Job,
               Enqueue(p, j) \/ DispatchRaises(p, j) \/ RunRaises(p, j)
        PROVE  Kept
    BY <2>2, <2>4 DEF Enqueue, DispatchRaises, RunRaises
  <2>5. ASSUME NEW p \in Proc, NEW j \in Job,
               ReadRow(p, j) \/ Claim(p, j) \/ Plan(p, j) \/ LogEmails(p, j) \/ LogSms(p, j)
                 \/ Mark(p, j)
        PROVE  Kept
    BY <2>2, <2>5 DEF ReadRow, Claim, Plan, LogEmails, LogSms, Mark
  <2> QED BY <2>1, <2>3, <2>4, <2>5 DEF Next, Fault, Run
<1> QED BY <1>1, OwnInit, TypeCorrect, OwnStep, PTL DEF Spec, LoggedNeverResent

-------------------------------------------------------------------------------
(***************************************************************************)
(* The refinement of JobQueue.                                             *)
(***************************************************************************)
QueueState == [j \in Job |-> StateOf(j)]
QueueCovered == [j \in Job |-> Covered(j)]

LEMMA QueueStep ==
  OneProcess /\ Proc # {} /\ TypeOK /\ OwnInv /\ AuditInv /\ [Next]_vars
    => [Queue!Next]_<<QueueState, QueueCovered>>
<1> SUFFICES ASSUME OneProcess, Proc # {}, TypeOK, OwnInv, AuditInv, [Next]_vars
             PROVE  [Queue!Next]_<<QueueState, QueueCovered>>
  OBVIOUS
<1> USE DEF rows, logs, QueueState, QueueCovered
<1>1. ASSUME UNCHANGED <<sentLog, failedLog>> PROVE UNCHANGED QueueCovered
  BY <1>1 DEF Covered
<1>2. CASE UNCHANGED <<status, sentLog, failedLog>>
  <2>1. UNCHANGED QueueState
    BY <1>2 DEF StateOf
  <2> QED BY <1>1, <1>2, <2>1
<1>3. ASSUME NEW p \in Proc, NEW j \in Job, Enqueue(p, j)
      PROVE  [Queue!Next]_<<QueueState, QueueCovered>>
  <2>1. /\ StateOf(j) = "absent" /\ StateOf(j)' = "pending"
        /\ \A k \in Job : k # j => StateOf(k)' = StateOf(k)
        /\ UNCHANGED <<sentLog, failedLog>>
    BY <1>3 DEF Enqueue, StateOf, TypeOK
  <2>2. Queue!Accept(j)
    BY <1>1, <2>1 DEF Queue!Accept, Covered
  <2> QED BY <2>2 DEF Queue!Next
<1>4. ASSUME NEW p \in Proc, Recover(p)
      PROVE  [Queue!Next]_<<QueueState, QueueCovered>>
  <2>1. \A k \in giveUp[p] : StateOf(k) = "pending"
    BY DEF OwnInv, Owned, StateOf, TypeOK
  <2>2. \A k \in Job : StateOf(k)' = IF k \in giveUp[p] THEN "failed" ELSE StateOf(k)
    BY <1>4 DEF Recover, StateOf, TypeOK
  <2>3. giveUp[p] \in SUBSET Job
    BY DEF TypeOK
  <2>4. UNCHANGED <<sentLog, failedLog>>
    BY <1>4 DEF Recover
  <2>5. Queue!GiveUp(giveUp[p])
    BY <1>1, <2>1, <2>2, <2>3, <2>4 DEF Queue!GiveUp, Covered
  <2> QED BY <2>3, <2>5 DEF Queue!Next
<1>5. ASSUME NEW p \in Proc, NEW j \in Job, LogEmails(p, j) \/ LogSms(p, j)
      PROVE  [Queue!Next]_<<QueueState, QueueCovered>>
  <2>1. StateOf(j) = "pending" /\ UNCHANGED QueueState
    BY <1>5 DEF LogEmails, LogSms, OwnInv, Owned, StateOf
  <2>2. ASSUME NEW S, Record(p, j, S)
        PROVE  /\ Covered(j)' = Covered(j) \cup ((sent[p][j] \cup unsent[p][j]) \cap S)
               /\ \A k \in Job : k # j => Covered(k)' = Covered(k)
    BY <2>2 DEF Record, Covered, TypeOK
  <2>3. PICK S : Record(p, j, S)
    BY <1>5 DEF LogEmails, LogSms
  <2>4. PICK R \in SUBSET Target :
          /\ Covered(j)' = Covered(j) \cup R
          /\ \A k \in Job : k # j => Covered(k)' = Covered(k)
    <3>1. (sent[p][j] \cup unsent[p][j]) \cap S \in SUBSET Target
      BY DEF TypeOK
    <3> QED BY <2>2, <2>3, <3>1
  <2>5. Queue!Record(j, R)
    BY <2>1, <2>4 DEF Queue!Record, Covered
  <2> QED BY <2>5 DEF Queue!Next
<1>6. ASSUME NEW p \in Proc, NEW j \in Job, Mark(p, j)
      PROVE  [Queue!Next]_<<QueueState, QueueCovered>>
  <2>1. StateOf(j) = "pending"
    BY <1>6 DEF Mark, OwnInv, Owned, StateOf
  <2>2. \A k \in Job : k # j => StateOf(k)' = StateOf(k)
    BY <1>6 DEF Mark, StateOf, TypeOK
  <2>3. UNCHANGED <<sentLog, failedLog>>
    BY <1>6 DEF Mark
  <2>4. CASE at[p][j] = "succeeded"
    <3>1. StateOf(j)' = "done"
      BY <1>6, <2>4 DEF Mark, StateOf, TypeOK
    <3>2. Recipients[j] \subseteq Covered(j)
      BY <2>4 DEF AuditInv, SlotAudited
    <3>3. Queue!Complete(j)
      BY <1>1, <2>1, <2>2, <2>3, <3>1, <3>2 DEF Queue!Complete, Covered
    <3> QED BY <3>3 DEF Queue!Next
  <2>5. CASE at[p][j] # "succeeded"
    <3>1. StateOf(j)' = "failed"
      BY <1>6, <2>5 DEF Mark, StateOf, TypeOK
    <3>2. Queue!GiveUp({j})
      BY <1>1, <2>1, <2>2, <2>3, <3>1 DEF Queue!GiveUp, Covered
    <3> QED BY <3>2 DEF Queue!Next
  <2> QED BY <2>4, <2>5
<1>7. ASSUME NEW p \in Proc, NEW j \in Job, Claim(p, j)
      PROVE  [Queue!Next]_<<QueueState, QueueCovered>>
  <2>1. status[j] \in {"queued", "in_progress"} /\ status'[j] \in {"queued", "in_progress"}
    BY <1>7 DEF Claim, OwnInv, Owned, TypeOK
  <2>2. \A k \in Job : k # j => status'[k] = status[k]
    BY <1>7 DEF Claim, TypeOK
  <2>3. UNCHANGED QueueState
    BY <2>1, <2>2 DEF StateOf
  <2> QED BY <1>1, <1>7, <2>3 DEF Claim
<1>8. ASSUME NEW p \in Proc,
             Start(p) \/ RecoverRead(p) \/ Exit(p) \/ Shutdown(p) \/ Crash(p)
      PROVE  [Queue!Next]_<<QueueState, QueueCovered>>
  BY <1>2, <1>8 DEF Start, RecoverRead, Exit, Shutdown, Crash
<1>9. ASSUME NEW p \in Proc, NEW j \in Job,
             ReadRow(p, j) \/ Plan(p, j) \/ SendSome(p, j) \/ DispatchRaises(p, j)
               \/ RunRaises(p, j)
      PROVE  [Queue!Next]_<<QueueState, QueueCovered>>
  BY <1>2, <1>9 DEF ReadRow, Plan, SendSome, Send, DispatchRaises, RunRaises
<1>10. CASE UNCHANGED vars
  BY <1>2, <1>10 DEF vars
<1> QED
  BY <1>3, <1>4, <1>5, <1>6, <1>7, <1>8, <1>9, <1>10 DEF Next, Boot, Fault, Run

\* In a deployment of one process, rows, threads, recovery and crashes implement the
\* queue that settles each accepted job once, and as done only with all recipients
\* on record.
THEOREM DispatchImplementsJobQueue ==
  ASSUME OneProcess, Proc # {}
  PROVE  Spec => ImplementsJobQueue
<1>1. Init => Queue!Init
  BY DEF Init, Queue!Init, StateOf
<1>2. Init => AuditInv
  BY DEF Init, AuditInv, DoneIsAudited, SlotAudited, Idle
<1>3. TypeOK /\ OwnInv /\ AuditInv /\ [Next]_vars
        => [Queue!Next]_<<[j \in Job |-> StateOf(j)], [j \in Job |-> sentLog[j] \cup failedLog[j]]>>
  BY QueueStep DEF QueueState, QueueCovered, Covered
<1> QED
  BY <1>1, <1>2, <1>3, OwnInit, TypeCorrect, OwnStep, AuditStep, PTL
     DEF Spec, ImplementsJobQueue, Queue!Spec

==============================================================================
