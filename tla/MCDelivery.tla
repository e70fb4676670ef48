----------------------------- MODULE MCDelivery -----------------------------
(***************************************************************************)
(* The WebSocket clients of two processes, and the election, among three   *)
(* processes whose Redis never fails, of the one whose simulators make the *)
(* messages that those clients get.  A behaviour runs one of the two; the  *)
(* idle one keeps its initial state, so a property of either is a property *)
(* of the sum.                                                             *)
(***************************************************************************)
EXTENDS MCWebSocketManager
CONSTANTS c1, c2, c3, h1, nobody, orphan  \* processes that elect, their host, no holder

VARIABLES part,   \* the one that runs
          reach, lease, flock, kept, client, retryIn, backoff, pc, pollIn, everReached,
          sinceConn, worker, basis, stopHung

electionVars == <<reach, lease, flock, kept, client, retryIn, backoff, pc, pollIn,
                  everReached, sinceConn, worker, basis, stopHung>>

Elected == INSTANCE LeaderElection
           WITH Proc <- {c1, c2, c3}, Host <- {h1}, HostOf <- [c \in {c1, c2, c3} |-> h1],
                None <- nobody, Orphan <- orphan, RedisEnabled <- TRUE, LockFileUsable <- {h1},
                Lease <- 3, Poll <- 1, Late <- 1, BackoffCap <- 2,
                Faults <- {"crash", "shutdown", "worker"}

allVars == <<part, vars, electionVars>>

SumInit ==
    /\ part \in {"sockets", "election"}
    /\ Elected!Init /\ MCInit
    /\ part # "sockets" => Tabs  \* idle ones have one initial state

SumNext ==
    /\ UNCHANGED part
    /\ \/ part = "sockets" /\ Next /\ UNCHANGED electionVars
       \/ part = "election" /\ Elected!Next /\ UNCHANGED vars

\* The fairness of WebSocketManager, if it is the one that runs.
SumFairness ==
    /\ \A p \in Process :
          /\ \A e \in Events : WF_vars(part = "sockets" /\ Flush(p, e))
          /\ WF_vars(part = "sockets" /\ Send(p)) /\ WF_vars(part = "sockets" /\ Relayed(p))
          /\ WF_vars(part = "sockets" /\ Subscribe(p))
    /\ \A s \in Socket :
          /\ WF_vars(part = "sockets" /\ Accepted(s)) /\ WF_vars(part = "sockets" /\ AcceptFails(s))
          /\ WF_vars(part = "sockets" /\ EndpointEnds(s))
          /\ WF_vars(part = "sockets" /\ ReaperPings(s)) /\ WF_vars(part = "sockets" /\ PingReturns(s))

SumSpec == SumInit /\ [][SumNext]_allVars /\ SumFairness

-----------------------------------------------------------------------------
\* The elections of the three processes implement the single leader (SingleLeader).
ImplementsSingleLeader == Elected!ImplementsSingleLeader
=============================================================================
