-------------------------- MODULE MCReportScheduler --------------------------
(***************************************************************************)
(* Two instances of ReportScheduler, of which a behaviour runs one: two    *)
(* schedules under every fault of one pass at a time, and passes that      *)
(* overlap after a change of leader.  The idle one keeps its initial       *)
(* state, so a property of either is a property of the sum.                *)
(***************************************************************************)
EXTENDS ReportScheduler
CONSTANTS s1, s2, p1, p2

Daily(h) == [weekly |-> FALSE, hour |-> h, day |-> 0]
Weekly(h, d) == [weekly |-> TRUE, hour |-> h, day |-> d]
TwoPlans == {Daily(1), Weekly(0, 1)}

VARIABLES part,   \* the instance that runs
          oPhase, oStatus, oActive, oPlan, oDue, oAge, oAttempts, oCreating, oCurrent, oPc,
          oPassAge, oTodo, oItem, oDoing, oOk, oTries, oSends

oVars == <<oPhase, oStatus, oActive, oPlan, oDue, oAge, oAttempts, oCreating, oCurrent, oPc,
           oPassAge, oTodo, oItem, oDoing, oOk, oTries, oSends>>

O == INSTANCE ReportScheduler
     WITH Schedule <- {s1}, Pass <- {p1, p2}, MaxAttempts <- 1, Batch <- 1, PassLimit <- 2,
          Late <- 2, Requests <- {"toggle", "delete", "update"}, Faults <- {"handover"},
          phase <- oPhase, status <- oStatus, active <- oActive, plan <- oPlan, due <- oDue,
          age <- oAge, attempts <- oAttempts, creating <- oCreating, current <- oCurrent,
          pc <- oPc, passAge <- oPassAge, todo <- oTodo, item <- oItem, doing <- oDoing,
          ok <- oOk, tries <- oTries, sends <- oSends

allVars == <<part, vars, oVars>>

SumInit == part \in {"faults", "overlap"} /\ Init /\ O!Init

SumNext ==
    /\ UNCHANGED part
    /\ \/ part = "faults" /\ Next /\ UNCHANGED oVars
       \/ part = "overlap" /\ O!Next /\ UNCHANGED vars

\* The fairness of FairSpec, for the first instance.
SumSpec ==
    /\ SumInit /\ [][SumNext]_allVars
    /\ WF_vars(part = "faults" /\ Tick)
    /\ WF_vars(part = "faults" /\ \E p \in Pass : Begin(p))
    /\ \A p \in Pass : WF_vars(part = "faults" /\ Run(p))

\* Of the second instance: what passes that overlap keep apart.
PassesAreApart == O!OverlapsAreApart
==============================================================================
