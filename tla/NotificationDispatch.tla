------------------------- MODULE NotificationDispatch -------------------------
(***************************************************************************)
(* The durable queue of alert notifications: rows of                       *)
(* notification_dispatch_jobs and notification_logs in the database, and   *)
(* in each worker process a thread pool that runs the jobs                 *)
(* (services/notification_dispatch_queue.py, core/notification_executor.py,*)
(* _dispatch of services/alert_service.py, core/email.py, core/sms.py).    *)
(*                                                                         *)
(* A target is a recipient on a channel.  Every database transaction that  *)
(* reads or writes is a step of its own, and so is every recipient's turn  *)
(* at the provider.                                                        *)
(***************************************************************************)
EXTENDS Integers, FiniteSets

CONSTANTS
  Proc,          \* worker processes
  Job,           \* rows that will ever be inserted
  Target, Email, \* targets; those of the email channel, the others being SMS
  Recipients,    \* the targets each job is for, by its flags and the active users
  MaxAttempts,   \* NOTIFICATION_DISPATCH_MAX_JOB_ATTEMPTS
  MaxTries,      \* NOTIFICATION_SEND_MAX_ATTEMPTS
  Workers,       \* NOTIFICATION_DISPATCH_WORKERS
  Faults         \* the faults of the environment that this instance admits

FaultKinds == {"crash", "database", "lostAnswer"}

ASSUME ConstantsAssumption ==
  /\ Email \subseteq Target
  /\ Recipients \in [Job -> SUBSET Target]
  /\ MaxAttempts \in Nat \ {0} /\ MaxTries \in Nat \ {0} /\ Workers \in Nat \ {0}
  /\ Faults \subseteq FaultKinds

VARIABLES
  \* the database, and what the providers delivered
  status,      \* NotificationDispatchJob.status, "absent" before the insert
  attempts,    \* NotificationDispatchJob.attempts
  sentLog,     \* targets with a SENT row in notification_logs
  failedLog,   \* targets with a FAILED row
  delivered,   \* how often the provider delivered to the target
  \* per process
  proc,        \* where its lifespan is
  resume,      \* rows that recovery has read and will submit
  giveUp,      \* rows that recovery has read and will mark as failed
  \* per process and job, in its pool
  at,          \* where run_job is
  seen,        \* the status and attempts that run_job has read
  todo,        \* the targets it still has to send to
  sent,        \* results: "sent"
  unsent       \* results: "failed: ..."

rows == <<status, attempts>>
logs == <<sentLog, failedLog>>
lifespan == <<proc, resume, giveUp>>
results == <<todo, sent, unsent>>
vars == <<status, attempts, sentLog, failedLog, delivered, proc, resume, giveUp,
          at, seen, todo, sent, unsent>>

(***************************************************************************)
(* at: "idle" not in the pool; "queued" submitted; "claiming" the row was  *)
(* read; "planning" the claim was committed; "sending" to one target after *)
(* the other; "logging" the email results, "loggingSms" the others;        *)
(* "succeeded", "failing": about to mark the row.                          *)
(***************************************************************************)
Active == {"claiming", "planning", "sending", "logging", "loggingSms", "succeeded", "failing"}
Statuses == {"absent", "queued", "in_progress", "done", "failed"}
Idle == [j \in Job |-> "idle"]
Empty == [j \in Job |-> {}]

\* delivered counts up to here; two stands for more than one.
DeliveryCap == 2

TypeOK ==
  /\ status \in [Job -> Statuses]
  /\ attempts \in [Job -> Nat]
  /\ sentLog \in [Job -> SUBSET Target]
  /\ failedLog \in [Job -> SUBSET Target]
  /\ delivered \in [Job -> [Target -> 0..DeliveryCap]]
  /\ proc \in [Proc -> {"off", "starting", "recovering", "up", "draining"}]
  /\ resume \in [Proc -> SUBSET Job]
  /\ giveUp \in [Proc -> SUBSET Job]
  /\ at \in [Proc -> [Job -> Active \cup {"idle", "queued"}]]
  /\ seen \in [Proc -> [Job -> [status : Statuses, attempts : Nat]]]
  /\ todo \in [Proc -> [Job -> SUBSET Target]]
  /\ sent \in [Proc -> [Job -> SUBSET Target]]
  /\ unsent \in [Proc -> [Job -> SUBSET Target]]

NothingSeen == [status |-> "absent", attempts |-> 0]

Init ==
  /\ status = [j \in Job |-> "absent"]
  /\ attempts = [j \in Job |-> 0]
  /\ sentLog = [j \in Job |-> {}]
  /\ failedLog = [j \in Job |-> {}]
  /\ delivered = [j \in Job |-> [t \in Target |-> 0]]
  /\ proc = [p \in Proc |-> "off"]
  /\ resume = [p \in Proc |-> {}]
  /\ giveUp = [p \in Proc |-> {}]
  /\ at = [p \in Proc |-> Idle]
  /\ seen = [p \in Proc |-> [j \in Job |-> NothingSeen]]
  /\ todo = [p \in Proc |-> Empty]
  /\ sent = [p \in Proc |-> Empty]
  /\ unsent = [p \in Proc |-> Empty]

-------------------------------------------------------------------------------
(***************************************************************************)
(* The pool.                                                               *)
(***************************************************************************)
Goto(p, j, phase) == at' = [at EXCEPT ![p][j] = phase]

\* run_job returns or raises; the pool forgets the job and its results.
Forget(p, j) ==
  /\ Goto(p, j, "idle")
  /\ seen' = [seen EXCEPT ![p][j] = NothingSeen]
  /\ todo' = [todo EXCEPT ![p][j] = {}]
  /\ sent' = [sent EXCEPT ![p][j] = {}]
  /\ unsent' = [unsent EXCEPT ![p][j] = {}]

\* submit: a pool that is shutting down refuses, and the job is dropped.
Submit(p, S) ==
  at' = [at EXCEPT ![p] = [j \in Job |->
           IF j \in S /\ proc[p] # "draining" THEN "queued" ELSE at[p][j]]]

\* enqueue_and_submit: the row is committed before the pool hears of the job.
Enqueue(p, j) ==
  /\ proc[p] \in {"up", "draining"} /\ status[j] = "absent"
  /\ status' = [status EXCEPT ![j] = "queued"]
  /\ Submit(p, {j})
  /\ UNCHANGED <<attempts, logs, delivered, lifespan, seen, results>>

-------------------------------------------------------------------------------
(***************************************************************************)
(* run_job: claim the row, dispatch, mark the row.                         *)
(***************************************************************************)
FreeWorker(p) == Cardinality({j \in Job : at[p][j] \in Active}) < Workers

\* A worker thread takes the job and reads its row; a job that is done is left.
ReadRow(p, j) ==
  /\ at[p][j] = "queued" /\ FreeWorker(p)
  /\ \/ /\ status[j] = "done"
        /\ Forget(p, j)
     \/ /\ status[j] # "done"
        /\ Goto(p, j, "claiming")
        /\ seen' = [seen EXCEPT ![p][j] = [status |-> status[j], attempts |-> attempts[j]]]
        /\ UNCHANGED results
  /\ UNCHANGED <<rows, logs, delivered, lifespan>>

\* A slip: the column counts the attempts that are left, and starts at zero.
ClaimCountsDown(p, j) == attempts' = [attempts EXCEPT ![j] = seen[p][j].attempts - 1]

\* attempts += 1, computed from the value that was read.
ClaimCounted(p, j) == attempts' = [attempts EXCEPT ![j] = seen[p][j].attempts + 1]

\* The claim is written: the status only if it differs from the one read.
Claim(p, j) ==
  /\ at[p][j] = "claiming"
  /\ status' = [status EXCEPT ![j] =
       IF seen[p][j].status = "in_progress" THEN @ ELSE "in_progress"]
  /\ ClaimCounted(p, j)
  /\ Goto(p, j, "planning")
  /\ UNCHANGED <<logs, delivered, lifespan, seen, results>>

\* A slip: to forget which recipients already have a SENT row.
PlanAll(j) == Recipients[j]

\* _already_sent_recipients.
NotYetSent(j) == Recipients[j] \ sentLog[j]

\* _dispatch reads the alert, the recipients and the log.
Plan(p, j) ==
  /\ at[p][j] = "planning"
  /\ todo' = [todo EXCEPT ![p][j] = NotYetSent(j)]
  /\ Goto(p, j, IF NotYetSent(j) = {} THEN "succeeded" ELSE "sending")
  /\ UNCHANGED <<rows, logs, delivered, lifespan, seen, sent, unsent>>

\* A try whose answer is lost has delivered all the same; it is repeated until the
\* tries are used up.
Outcomes ==
  {o \in [lost : 0..MaxTries, ok : BOOLEAN] :
     /\ o.lost + (IF o.ok THEN 1 ELSE 0) <= MaxTries
     /\ o.lost > 0 => "lostAnswer" \in Faults}

Copies(o) == o.lost + (IF o.ok THEN 1 ELSE 0)

Count(n) == IF n > DeliveryCap THEN DeliveryCap ELSE n

\* One recipient's turn in send_alert_emails or send_alert_sms: all emails, then
\* all SMS; every recipient gets one result, and no failure stops the others.
Send(p, j, t, o) ==
  /\ at[p][j] = "sending" /\ t \in todo[p][j]
  /\ t \notin Email => todo[p][j] \cap Email = {}
  /\ delivered' = [delivered EXCEPT ![j][t] = Count(@ + Copies(o))]
  /\ sent' = [sent EXCEPT ![p][j] = IF o.ok THEN @ \cup {t} ELSE @]
  /\ unsent' = [unsent EXCEPT ![p][j] = IF o.ok THEN @ ELSE @ \cup {t}]
  /\ todo' = [todo EXCEPT ![p][j] = @ \ {t}]
  /\ Goto(p, j, IF todo[p][j] = {t} THEN "logging" ELSE "sending")
  /\ UNCHANGED <<rows, logs, lifespan, seen>>

\* A slip: every result is logged as SENT.
RecordAllSent(p, j, S) ==
  /\ sentLog' = [sentLog EXCEPT ![j] = @ \cup ((sent[p][j] \cup unsent[p][j]) \cap S)]
  /\ UNCHANGED failedLog

\* _log_results for one channel, committed at once.
Record(p, j, S) ==
  /\ sentLog' = [sentLog EXCEPT ![j] = @ \cup (sent[p][j] \cap S)]
  /\ failedLog' = [failedLog EXCEPT ![j] = @ \cup (unsent[p][j] \cap S)]

LogEmails(p, j) ==
  /\ at[p][j] = "logging"
  /\ Record(p, j, Email)
  /\ Goto(p, j, "loggingSms")
  /\ UNCHANGED <<rows, delivered, lifespan, seen, results>>

LogSms(p, j) ==
  /\ at[p][j] = "loggingSms"
  /\ Record(p, j, Target \ Email)
  /\ Goto(p, j, "succeeded")
  /\ UNCHANGED <<rows, delivered, lifespan, seen, results>>

\* _mark.
Mark(p, j) ==
  /\ at[p][j] \in {"succeeded", "failing"}
  /\ status' = [status EXCEPT ![j] = IF at[p][j] = "succeeded" THEN "done" ELSE "failed"]
  /\ Forget(p, j)
  /\ UNCHANGED <<attempts, logs, delivered, lifespan>>

\* A slip: run_job logs the exception of the dispatch and marks the row as done.
DispatchIgnored(p, j) ==
  /\ "database" \in Faults
  /\ at[p][j] \in {"planning", "logging", "loggingSms"}
  /\ Goto(p, j, "succeeded")
  /\ UNCHANGED <<rows, logs, delivered, lifespan, seen, results>>

\* A query or a commit of _dispatch raises; what was committed before stays.
DispatchRaises(p, j) ==
  /\ "database" \in Faults
  /\ at[p][j] \in {"planning", "logging", "loggingSms"}
  /\ Goto(p, j, "failing")
  /\ UNCHANGED <<rows, logs, delivered, lifespan, seen, results>>

\* The claim or _mark raises: run_job ends and the row stays as it is.
RunRaises(p, j) ==
  /\ "database" \in Faults
  /\ at[p][j] \in {"claiming", "succeeded", "failing"}
  /\ Forget(p, j)
  /\ UNCHANGED <<rows, logs, delivered, lifespan>>

-------------------------------------------------------------------------------
(***************************************************************************)
(* The process: recovery at startup, shutdown, crash.                      *)
(***************************************************************************)
Start(p) ==
  /\ proc[p] = "off"
  /\ proc' = [proc EXCEPT ![p] = "starting"]
  /\ UNCHANGED <<rows, logs, delivered, resume, giveUp, at, seen, results>>

\* A slip: recovery looks for interrupted jobs only.
InterruptedRows == {j \in Job : status[j] = "in_progress"}

\* A slip: recovery takes failed rows for unfinished ones.
NotDoneRows == {j \in Job : status[j] \notin {"absent", "done"}}

UnfinishedRows == {j \in Job : status[j] \in {"queued", "in_progress"}}

\* A slip: recovery never gives up.
NoneExhausted == {}

Exhausted == {j \in Job : attempts[j] >= MaxAttempts}

\* recover_pending_jobs reads the rows that are not finished ...
RecoverRead(p) ==
  /\ proc[p] = "starting"
  /\ proc' = [proc EXCEPT ![p] = "recovering"]
  /\ resume' = [resume EXCEPT ![p] = UnfinishedRows \ Exhausted]
  /\ giveUp' = [giveUp EXCEPT ![p] = UnfinishedRows \cap Exhausted]
  /\ UNCHANGED <<rows, logs, delivered, at, seen, results>>

\* ... fails those with no attempts left, and submits the others.
Recover(p) ==
  /\ proc[p] = "recovering"
  /\ proc' = [proc EXCEPT ![p] = "up"]
  /\ status' = [j \in Job |-> IF j \in giveUp[p] THEN "failed" ELSE status[j]]
  /\ Submit(p, resume[p])
  /\ resume' = [resume EXCEPT ![p] = {}]
  /\ giveUp' = [giveUp EXCEPT ![p] = {}]
  /\ UNCHANGED <<attempts, logs, delivered, seen, results>>

\* notification_executor.shutdown(wait=True): no new jobs, the queued ones run.
Shutdown(p) ==
  /\ proc[p] = "up"
  /\ proc' = [proc EXCEPT ![p] = "draining"]
  /\ UNCHANGED <<rows, logs, delivered, resume, giveUp, at, seen, results>>

Drained(p) == proc[p] = "draining" /\ \A j \in Job : at[p][j] = "idle"

Exit(p) ==
  /\ Drained(p)
  /\ proc' = [proc EXCEPT ![p] = "off"]
  /\ UNCHANGED <<rows, logs, delivered, resume, giveUp, at, seen, results>>

\* The process is killed with everything it kept in memory; one that is drained
\* has nothing to lose and just exits.
Crash(p) ==
  /\ "crash" \in Faults
  /\ proc[p] # "off" /\ ~Drained(p)
  /\ proc' = [proc EXCEPT ![p] = "off"]
  /\ resume' = [resume EXCEPT ![p] = {}]
  /\ giveUp' = [giveUp EXCEPT ![p] = {}]
  /\ at' = [at EXCEPT ![p] = Idle]
  /\ seen' = [seen EXCEPT ![p] = [j \in Job |-> NothingSeen]]
  /\ todo' = [todo EXCEPT ![p] = Empty]
  /\ sent' = [sent EXCEPT ![p] = Empty]
  /\ unsent' = [unsent EXCEPT ![p] = Empty]
  /\ UNCHANGED <<rows, logs, delivered>>

-------------------------------------------------------------------------------
SendSome(p, j) == \E t \in Target, o \in Outcomes : Send(p, j, t, o)

\* What a worker thread does with a job unless something fails.
Run(p, j) ==
  \/ ReadRow(p, j) \/ Claim(p, j) \/ Plan(p, j) \/ SendSome(p, j)
  \/ LogEmails(p, j) \/ LogSms(p, j) \/ Mark(p, j)

Fault(p) ==
  \/ Crash(p)
  \/ \E j \in Job : DispatchRaises(p, j) \/ RunRaises(p, j)

\* The supervisor and the lifespan of the process.
Boot(p) == Start(p) \/ RecoverRead(p) \/ Recover(p) \/ Exit(p)

Next ==
  \E p \in Proc :
    \/ Boot(p) \/ Shutdown(p) \/ Fault(p)
    \/ \E j \in Job : Enqueue(p, j) \/ Run(p, j)

Spec == Init /\ [][Next]_vars

\* Threads run, and the supervisor starts a process that has ended
\* (restart: unless-stopped); requests, shutdowns and faults are not fair.
FairSpec ==
  /\ Spec
  /\ \A p \in Proc : WF_vars(Boot(p)) /\ \A j \in Job : WF_vars(Run(p, j))

-------------------------------------------------------------------------------
(***************************************************************************)
(* Properties.                                                             *)
(***************************************************************************)

\* A job is marked as done only when every recipient it is for has a log row,
\* SENT or FAILED, written by this run or by an earlier one that ended anywhere:
\* through crashes, failed commits and several processes running the same job.
DoneIsAudited ==
  \A j \in Job : status[j] = "done" => Recipients[j] \subseteq sentLog[j] \cup failedLog[j]

\* A SENT row, on which later runs rely to leave the recipient out, is never there
\* without a delivery (_log_results after send_alert_emails, send_alert_sms).
LogIsTruthful ==
  \A j \in Job : \A t \in sentLog[j] : delivered[j][t] > 0

\* The audit log leaves no one out, and records no delivery that there was not.
AuditIsTruthful == DoneIsAudited /\ LogIsTruthful

\* In a deployment of one process, no restart retries a job for ever: the persisted
\* counter never passes its limit (run_job, recover_pending_jobs).  With more
\* processes, claims that overwrite each other's count can bring it back down.
AttemptsBounded == \A j \in Job : attempts[j] <= MaxAttempts

\* In a deployment of one process, no run sends to a recipient whose delivery is on
\* record, whatever crashed or failed before (_already_sent_recipients).
LoggedNeverResent ==
  [][\A j \in Job : \A t \in sentLog[j] : delivered'[j][t] = delivered[j][t]]_vars

\* In a deployment of one process, the table is the queue it is meant to be: what is
\* accepted is settled once, and done only when all its recipients are covered.
StateOf(j) == IF status[j] \in {"queued", "in_progress"} THEN "pending" ELSE status[j]
Queue == INSTANCE JobQueue WITH
  state <- [j \in Job |-> StateOf(j)],
  covered <- [j \in Job |-> sentLog[j] \cup failedLog[j]]
ImplementsJobQueue == Queue!Spec

\* No accepted job is lost: after the last fault, and as long as processes are
\* restarted now and then, all jobs get settled and stay settled, also when the
\* same job is resumed by several processes (recover_pending_jobs).
NoJobLost ==
  /\ <>[][~\E p \in Proc : Fault(p)]_vars
  /\ []<>(\E p \in Proc : proc[p] = "recovering")
  => <>[](\A j \in Job : status[j] \in {"absent", "done", "failed"})

-------------------------------------------------------------------------------
(***************************************************************************)
(* What the documentation says, and the code does not do.                  *)
(***************************************************************************)

\* "a job resumed after a crash cannot send that recipient a duplicate email/SMS"
\* (docs/notification-delivery.md, Surviving a process restart).
NoDuplicateAfterCrash == \A j \in Job : \A t \in Target : delivered[j][t] <= 1
==============================================================================
