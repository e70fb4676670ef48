---------------------------- MODULE ReportScheduler ----------------------------
(***************************************************************************)
(* Scheduled report delivery: rows of report_schedules, the requests of    *)
(* one user that edit them, and the passes over the due rows that the      *)
(* loop of the elected worker runs, each in a thread of its own            *)
(* (services/report_schedule_service.py, started in simulator/scheduler.py)*)
(*                                                                         *)
(* Every transaction of a pass is a step, and so is the sending of one     *)
(* report.  Time goes in units of which Day make a day; instants are kept  *)
(* relative to now, so that the clock can run for ever.                    *)
(***************************************************************************)
EXTENDS Integers, FiniteSets

CONSTANTS
  Schedule,     \* rows that will ever be inserted
  Pass,         \* threads that passes run in
  Plans,        \* the plans that users choose: [weekly, hour, day]
  Day, Week,    \* units in a day, days in a week
  Retry,        \* REPORT_SCHEDULE_RETRY_SECONDS
  Stuck,        \* REPORT_SCHEDULE_STUCK_SECONDS
  MaxAttempts,  \* REPORT_SCHEDULE_MAX_ATTEMPTS
  Batch,        \* REPORT_SCHEDULER_BATCH_SIZE
  MaxPerUser,   \* schedules per account: five
  PassLimit,    \* bound: what a pass may take
  Late,         \* bound: rows overdue by more are not told apart
  Requests,     \* the requests of users that this instance admits
  Faults        \* the faults that this instance admits

RequestKinds == {"update", "toggle", "delete"}
FaultKinds == {"crash", "database", "handover", "lostAnswer"}

ASSUME ConstantsAssumption ==
  /\ Day \in Nat \ {0} /\ Week \in Nat \ {0}
  /\ Plans \subseteq [weekly : BOOLEAN, hour : 0..Day-1, day : 0..Week-1] /\ Plans # {}
  /\ Retry \in Nat \ {0} /\ Stuck \in Nat \ {0} /\ MaxAttempts \in Nat \ {0}
  /\ Batch \in Nat \ {0} /\ MaxPerUser \in Nat \ {0}
  /\ PassLimit \in Nat /\ Late \in Nat /\ PassLimit <= Late
  /\ Requests \subseteq RequestKinds /\ Faults \subseteq FaultKinds

VARIABLES
  phase,     \* now, within the week
  \* the rows
  status,    \* last_run_status; "new" before the first run
  active,    \* is_active
  plan,      \* frequency, delivery_hour_utc and day_of_week
  due,       \* next_run_at, as the time until then
  age,       \* last_run_at of a row in progress, as the time since then, up to Stuck + 1
  attempts,  \* run_attempts
  creating,  \* rows of create requests that have passed the count
  \* the passes
  current,   \* the pass that the loop of the leader waits for, if any
  pc,        \* where the pass is
  passAge,   \* the time since the instant that the pass takes for now
  todo,      \* claimed rows that it has not sent
  item,      \* what it has copied of a claimed row: the plan, and is_retry
  doing,     \* the row whose report was sent last
  ok,        \* whether that was reported as sent
  \* history
  tries,     \* claims of the row in passes begun since its last delivery time, or
             \* since a user changed its plan or a pass that had it was cut short
  sends      \* reports that these passes have sent and know of

rows == <<status, active, plan, due, age, attempts>>
passes == <<pc, passAge, todo, item, doing, ok>>
history == <<tries, sends>>
vars == <<phase, status, active, plan, due, age, attempts, creating, current, pc,
          passAge, todo, item, doing, ok, tries, sends>>

Period == Day * Week
Rows == {s \in Schedule : status[s] \notin {"absent", "deleted"}}
AnyPlan == CHOOSE pl \in Plans : TRUE
NoItem == [retry |-> FALSE, plan |-> AnyPlan]

\* History counts up to here; two stands for more than one.
TriesCap == MaxAttempts + 1
SendsCap == 2

TypeOK ==
  /\ phase \in 0..Period-1
  /\ status \in [Schedule -> {"absent", "new", "processing", "sent", "failed", "deleted"}]
  /\ active \in [Schedule -> BOOLEAN]
  /\ plan \in [Schedule -> Plans]
  /\ due \in [Schedule -> -Late..(Period + Retry)]
  /\ age \in [Schedule -> 0..Stuck+1]
  /\ attempts \in [Schedule -> Nat]
  /\ creating \subseteq Schedule
  /\ current \subseteq Pass
  /\ pc \in [Pass -> {"idle", "claiming", "sending", "recording"}]
  /\ passAge \in [Pass -> 0..PassLimit]
  /\ todo \in [Pass -> SUBSET Schedule]
  /\ item \in [Pass -> [Schedule -> [retry : BOOLEAN, plan : Plans]]]
  /\ doing \in [Pass -> SUBSET Schedule]
  /\ ok \in [Pass -> BOOLEAN]
  /\ tries \in [Schedule -> 0..TriesCap]
  /\ sends \in [Schedule -> 0..SendsCap]

Init ==
  /\ phase = 0
  /\ status = [s \in Schedule |-> "absent"]
  /\ active = [s \in Schedule |-> TRUE]
  /\ plan = [s \in Schedule |-> AnyPlan]
  /\ due = [s \in Schedule |-> 0]
  /\ age = [s \in Schedule |-> 0]
  /\ attempts = [s \in Schedule |-> 0]
  /\ creating = {}
  /\ current = {}
  /\ pc = [p \in Pass |-> "idle"]
  /\ passAge = [p \in Pass |-> 0]
  /\ todo = [p \in Pass |-> {}]
  /\ item = [p \in Pass |-> [s \in Schedule |-> NoItem]]
  /\ doing = [p \in Pass |-> {}]
  /\ ok = [p \in Pass |-> FALSE]
  /\ tries = [s \in Schedule |-> 0]
  /\ sends = [s \in Schedule |-> 0]

-------------------------------------------------------------------------------
(***************************************************************************)
(* Time.                                                                   *)
(***************************************************************************)
\* How long after the instant t the plan's hour comes on the same day.
HourDelay(t, pl) == pl.hour - (t % Day)

\* A slip: the weekday is forgotten.
CandidateToday(t, pl) == HourDelay(t, pl)

Candidate(t, pl) ==
  HourDelay(t, pl) + (IF pl.weekly THEN Day * ((pl.day - (t \div Day)) % Week) ELSE 0)

\* A slip: an instant that is a delivery time is its own next one.
NextDelayFromNow(t, pl) ==
  IF Candidate(t, pl) >= 0 THEN Candidate(t, pl)
  ELSE Candidate(t, pl) + (IF pl.weekly THEN Period ELSE Day)

\* next_run_at(t), as the time from t to it.
NextDelay(t, pl) ==
  IF Candidate(t, pl) > 0 THEN Candidate(t, pl)
  ELSE Candidate(t, pl) + (IF pl.weekly THEN Period ELSE Day)

\* What a pass computes starts from the instant at which it began.
Began(p) == (phase - passAge[p]) % Period
Floor(n) == IF n < -Late THEN -Late ELSE n
NextOf(p, pl) == Floor(NextDelay(Began(p), pl) - passAge[p])
RetryOf(p) == Floor(Retry - passAge[p])

\* The delivery times of a plan, and whether none has come since the pass began.
DeliveryTime(t, pl) == t % Day = pl.hour /\ (pl.weekly => (t \div Day) % Week = pl.day)
SameSlot(p, pl) == \A d \in 0..passAge[p]-1 : ~DeliveryTime((phase - d) % Period, pl)

Tick ==
  /\ \A p \in Pass : pc[p] # "idle" => passAge[p] < PassLimit
  /\ phase' = (phase + 1) % Period
  /\ due' = [s \in Schedule |-> IF s \in Rows THEN Floor(due[s] - 1) ELSE 0]
  /\ age' = [s \in Schedule |->
       IF status[s] # "processing" THEN 0 ELSE IF age[s] > Stuck THEN age[s] ELSE age[s] + 1]
  /\ passAge' = [p \in Pass |-> IF pc[p] = "idle" THEN 0 ELSE passAge[p] + 1]
  /\ tries' = [s \in Schedule |-> IF DeliveryTime(phase', plan[s]) THEN 0 ELSE tries[s]]
  /\ sends' = [s \in Schedule |-> IF DeliveryTime(phase', plan[s]) THEN 0 ELSE sends[s]]
  /\ UNCHANGED <<status, active, plan, attempts, creating, current, pc, todo, item, doing, ok>>

-------------------------------------------------------------------------------
(***************************************************************************)
(* Requests.                                                               *)
(***************************************************************************)
\* create_schedule: the rows of the account are counted, and one is inserted.
CreateChecked(s) ==
  /\ status[s] = "absent" /\ s \notin creating
  /\ Cardinality(Rows) < MaxPerUser
  /\ creating' = creating \cup {s}
  /\ UNCHANGED <<phase, rows, current, passes, history>>

CreateInserted(s, pl) ==
  /\ s \in creating
  /\ creating' = creating \ {s}
  /\ status' = [status EXCEPT ![s] = "new"]
  /\ plan' = [plan EXCEPT ![s] = pl]
  /\ due' = [due EXCEPT ![s] = NextDelay(phase, pl)]
  /\ UNCHANGED <<phase, active, age, attempts, current, passes, history>>

\* update_schedule with another time: next_run_at is computed anew.
Update(s, pl) ==
  /\ "update" \in Requests
  /\ s \in Rows
  /\ plan' = [plan EXCEPT ![s] = pl]
  /\ due' = [due EXCEPT ![s] = NextDelay(phase, pl)]
  /\ tries' = [tries EXCEPT ![s] = 0]
  /\ sends' = [sends EXCEPT ![s] = 0]
  /\ UNCHANGED <<phase, status, active, age, attempts, creating, current, passes>>

\* update_schedule with is_active: next_run_at is computed anew only if it is set.
Activate(s) ==
  /\ "toggle" \in Requests
  /\ s \in Rows
  /\ active' = [active EXCEPT ![s] = TRUE]
  /\ due' = [due EXCEPT ![s] = NextDelay(phase, plan[s])]
  /\ UNCHANGED <<phase, status, plan, age, attempts, creating, current, passes, history>>

Deactivate(s) ==
  /\ "toggle" \in Requests
  /\ s \in Rows
  /\ active' = [active EXCEPT ![s] = FALSE]
  /\ UNCHANGED <<phase, status, plan, due, age, attempts, creating, current, passes, history>>

\* delete_schedule.
Delete(s) ==
  /\ "delete" \in Requests
  /\ s \in Rows
  /\ status' = [status EXCEPT ![s] = "deleted"]
  /\ due' = [due EXCEPT ![s] = 0]
  /\ age' = [age EXCEPT ![s] = 0]
  /\ attempts' = [attempts EXCEPT ![s] = 0]
  /\ active' = [active EXCEPT ![s] = TRUE]
  /\ UNCHANGED <<phase, plan, creating, current, passes, history>>

-------------------------------------------------------------------------------
(***************************************************************************)
(* A pass: run_due_report_schedules_once.                                  *)
(***************************************************************************)
CanRetry(n) == n < MaxAttempts

\* A slip: a row counts as stuck as soon as it is in progress.
InProgress == {s \in Rows : status[s] = "processing"}

\* In progress for longer than the limit.
StuckRows == {s \in Rows : status[s] = "processing" /\ age[s] > Stuck}

\* The rows that a pass has claimed and not recorded.
Holds(p) == todo[p] \cup doing[p]

\* The loop starts a pass, which first fails the rows that are stuck.
Begin(p) ==
  /\ current = {} /\ pc[p] = "idle"
  /\ current' = {p}
  /\ pc' = [pc EXCEPT ![p] = "claiming"]
  /\ status' = [s \in Schedule |-> IF s \in StuckRows THEN "failed" ELSE status[s]]
  /\ attempts' = [s \in Schedule |-> IF s \in StuckRows THEN attempts[s] + 1 ELSE attempts[s]]
  /\ due' = [s \in Schedule |->
       IF s \in StuckRows /\ CanRetry(attempts[s] + 1) THEN Retry ELSE due[s]]
  /\ UNCHANGED <<phase, active, plan, age, creating, passAge, todo, item, doing, ok, history>>

\* The pass ends, and the loop goes on if it still waits for it.
End(p) ==
  /\ pc' = [pc EXCEPT ![p] = "idle"]
  /\ passAge' = [passAge EXCEPT ![p] = 0]
  /\ todo' = [todo EXCEPT ![p] = {}]
  /\ item' = [item EXCEPT ![p] = [s \in Schedule |-> NoItem]]
  /\ doing' = [doing EXCEPT ![p] = {}]
  /\ ok' = [ok EXCEPT ![p] = FALSE]
  /\ current' = current \ {p}

DueRows(p) == {s \in Rows : active[s] /\ due[s] <= -passAge[p]}

\* The rows a pass claims: those due first, as many as the batch has room for.
Claimable(p) ==
  {S \in SUBSET DueRows(p) :
     /\ Cardinality(S) <= Batch
     /\ S # DueRows(p) => Cardinality(S) = Batch
     /\ \A s \in S, t \in DueRows(p) \ S : due[s] <= due[t]}

\* Slips: any failed run of the row makes the next one a retry, or none does.
AnyFailureRetried(s) == status[s] = "failed"
NothingRetried(s) == FALSE

IsRetry(s) == status[s] = "failed" /\ attempts[s] > 0 /\ CanRetry(attempts[s])

\* A slip: the row stays due until its report was sent.
DueAfterClaimKept(p, s) == due[s]

DueAfterClaim(p, s) == IF IsRetry(s) THEN due[s] ELSE NextOf(p, plan[s])

\* A claim that is no retry moves the row to its next delivery time.
Claim(p, S) ==
  /\ pc[p] = "claiming" /\ S \in Claimable(p)
  /\ status' = [s \in Schedule |-> IF s \in S THEN "processing" ELSE status[s]]
  /\ attempts' = [s \in Schedule |-> IF s \in S /\ ~IsRetry(s) THEN 0 ELSE attempts[s]]
  /\ due' = [s \in Schedule |-> IF s \in S THEN DueAfterClaim(p, s) ELSE due[s]]
  /\ age' = [s \in Schedule |->
       IF s \in S THEN IF passAge[p] > Stuck THEN Stuck + 1 ELSE passAge[p] ELSE age[s]]
  /\ tries' = [s \in Schedule |-> IF s \in S /\ SameSlot(p, plan[s]) /\ tries[s] < TriesCap THEN tries[s] + 1 ELSE tries[s]]
  /\ \/ /\ S = {} /\ End(p)
     \/ /\ S # {}
        /\ pc' = [pc EXCEPT ![p] = "sending"]
        /\ todo' = [todo EXCEPT ![p] = S]
        /\ item' = [item EXCEPT ![p] = [s \in Schedule |->
             IF s \in S THEN [retry |-> IsRetry(s), plan |-> plan[s]] ELSE NoItem]]
        /\ UNCHANGED <<passAge, doing, ok, current>>
  /\ UNCHANGED <<phase, active, plan, creating, sends>>

\* The report is made and sent, whatever has become of the row.  A report whose
\* answer is lost counts as failed, and has arrived.
Send(p, s, sent, arrived) ==
  /\ pc[p] = "sending" /\ s \in todo[p]
  /\ sent => arrived
  /\ arrived /\ ~sent => "lostAnswer" \in Faults
  /\ pc' = [pc EXCEPT ![p] = "recording"]
  /\ todo' = [todo EXCEPT ![p] = @ \ {s}]
  /\ doing' = [doing EXCEPT ![p] = {s}]
  /\ ok' = [ok EXCEPT ![p] = sent]
  /\ sends' = [sends EXCEPT ![s] = IF sent /\ SameSlot(p, plan[s]) /\ @ < SendsCap THEN @ + 1 ELSE @]
  /\ UNCHANGED <<phase, rows, creating, current, passAge, item, tries>>

DueAfterFailure(p, s, n) ==
  IF CanRetry(n) THEN RetryOf(p)
  ELSE IF item[p][s].retry THEN NextOf(p, item[p][s].plan) ELSE due[s]

DueAfterSuccess(p, s) == IF item[p][s].retry THEN NextOf(p, item[p][s].plan) ELSE due[s]

\* A slip: the status keeps the reason that send_report_email has added.
ResultWithReason(p) == IF ok[p] THEN "sent" ELSE "failed: reason"

Result(p) == IF ok[p] THEN "sent" ELSE "failed"

\* The result is written to the row, if there still is one.
Recorded(p, s) ==
  /\ status' = [status EXCEPT ![s] = Result(p)]
  /\ attempts' = [attempts EXCEPT ![s] = IF ok[p] THEN 0 ELSE @ + 1]
  /\ due' = [due EXCEPT ![s] =
       IF ok[p] THEN DueAfterSuccess(p, s) ELSE DueAfterFailure(p, s, attempts[s] + 1)]

Record(p, s) ==
  /\ pc[p] = "recording" /\ s \in doing[p]
  /\ IF s \in Rows THEN Recorded(p, s) ELSE UNCHANGED <<status, attempts, due>>
  /\ \/ /\ todo[p] = {} /\ End(p)
     \/ /\ todo[p] # {}
        /\ pc' = [pc EXCEPT ![p] = "sending"]
        /\ doing' = [doing EXCEPT ![p] = {}]
        /\ ok' = [ok EXCEPT ![p] = FALSE]
        /\ item' = [item EXCEPT ![p][s] = NoItem]
        /\ UNCHANGED <<passAge, todo, current>>
  /\ UNCHANGED <<phase, active, plan, age, creating, history>>

\* A slip: the exception leaves run_forever, and the loop starts no other pass.
PassRaisesForGood(p) ==
  /\ "database" \in Faults
  /\ pc[p] \in {"claiming", "recording"}
  /\ pc' = [pc EXCEPT ![p] = "idle"]
  /\ UNCHANGED <<phase, rows, creating, current, passAge, todo, item, doing, ok, history>>

\* History starts again for the rows that a pass has when it is cut short.
ForgetHeld(p) ==
  /\ tries' = [s \in Schedule |-> IF s \in Holds(p) THEN 0 ELSE tries[s]]
  /\ sends' = [s \in Schedule |-> IF s \in Holds(p) THEN 0 ELSE sends[s]]

\* A transaction of the pass raises: the pass ends, and what it has claimed and not
\* recorded stays in progress.
PassRaises(p) ==
  /\ "database" \in Faults
  /\ pc[p] \in {"claiming", "recording"}
  /\ End(p)
  /\ ForgetHeld(p)
  /\ UNCHANGED <<phase, rows, creating>>

\* The process of the pass is killed; the next leader runs the loop.
Crash(p) ==
  /\ "crash" \in Faults
  /\ pc[p] # "idle"
  /\ End(p)
  /\ ForgetHeld(p)
  /\ UNCHANGED <<phase, rows, creating>>

\* The leader steps down, or there is a second one: the pass of the old loop goes
\* on in its thread, and the new loop does not wait for it.
Handover ==
  /\ "handover" \in Faults
  /\ current # {}
  /\ current' = {}
  /\ UNCHANGED <<phase, rows, creating, passes, history>>

-------------------------------------------------------------------------------
Request ==
  \E s \in Schedule :
    \/ CreateChecked(s) \/ Activate(s) \/ Deactivate(s) \/ Delete(s)
    \/ \E pl \in Plans : CreateInserted(s, pl) \/ Update(s, pl)

\* What the thread of a pass does unless something fails.
Run(p) ==
  \/ \E S \in Claimable(p) : Claim(p, S)
  \/ \E s \in Schedule :
       \/ Record(p, s)
       \/ \E sent, arrived \in BOOLEAN : Send(p, s, sent, arrived)

Fault == Handover \/ \E p \in Pass : PassRaises(p) \/ Crash(p)

Next ==
  \/ Tick \/ Request \/ Fault
  \/ \E p \in Pass : Begin(p) \/ Run(p)

Spec == Init /\ [][Next]_vars

\* Time passes, some leader's loop starts the next pass, and threads run.
FairSpec ==
  /\ Spec
  /\ WF_vars(Tick) /\ WF_vars(\E p \in Pass : Begin(p))
  /\ \A p \in Pass : WF_vars(Run(p))

-------------------------------------------------------------------------------
(***************************************************************************)
(* Properties.                                                             *)
(***************************************************************************)

\* Whatever crashes and fails, a row that does not wait for a retry is due at the
\* very next delivery time of its plan (next_run_at, at its three places in a pass).
\* Users who change the plan while a retry is under way are left out of the runs that
\* check it: the retry then puts the time of the old plan back.
NextIsDeliveryTime ==
  \A s \in Rows :
    due[s] > 0 /\ ~(status[s] = "failed" /\ CanRetry(attempts[s])) =>
      /\ DeliveryTime((phase + due[s]) % Period, plan[s])
      /\ \A d \in 1..(due[s] - 1) : ~DeliveryTime((phase + d) % Period, plan[s])

\* With one pass at a time, the attempts on record never exceed the limit, crashes
\* counted by the one who finds them included.
AttemptsWithinLimit == \A s \in Schedule : attempts[s] <= MaxAttempts

\* Unless the pass that has a row is cut short, no more than the limit of attempts fall
\* between two delivery times, and after it no more than the limit again, whenever users
\* pause and resume the schedule.
SlotTriesBounded == \A s \in Schedule : tries[s] <= MaxAttempts

\* In the same conditions, a report that is known to be sent is the last one until the
\* next delivery time.
OneReportPerSlot == \A s \in Schedule : sends[s] <= 1

\* What one pass at a time keeps of a delivery time.
SlotsAreKept == NextIsDeliveryTime /\ AttemptsWithinLimit /\ SlotTriesBounded /\ OneReportPerSlot

\* If rows get one attempt, passes that overlap, of an old leader and a new one, share
\* a row only if one of them has been at it over a delivery time: the claim moves the
\* row on (run_due_report_schedules_once).  The claim of a retry does not, and two passes
\* may both have it.
SharedOnlyOverSlot ==
  \A p, q \in Pass : p # q =>
    \A s \in Holds(p) \cap Holds(q) :
      \E r \in {p, q} : ~SameSlot(p, item[r][s].plan) \/ ~SameSlot(q, item[r][s].plan)

\* If they also take less than it takes a row to get stuck, the rows that a pass declares
\* stuck are in no one's hands.
StuckIsAbandoned ==
  [][\A p \in Pass : Begin(p) => \A s \in StuckRows, q \in Pass : s \notin Holds(q)]_vars

\* What passes that overlap keep apart.
OverlapsAreApart == []SharedOnlyOverSlot /\ StuckIsAbandoned

\* Once faults and edits have ended, every active schedule is run again and again, and
\* every run gets its result, whatever state the faults have left the row in.
KeepsReporting ==
  /\ <>[][~Fault]_vars
  /\ <>[][~Request]_vars
  => \A s \in Schedule :
       <>[](s \in Rows /\ active[s]) =>
         []<>(status[s] = "processing") /\ []<>(status[s] \in {"sent", "failed"})

==============================================================================
