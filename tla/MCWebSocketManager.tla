------------------------- MODULE MCWebSocketManager -------------------------
EXTENDS WebSocketManager
CONSTANTS p1, p2, a1, a2, b1, station, train, ann, guest

HomeOf == (a1 :> p1) @@ (a2 :> p1) @@ (b1 :> p2)
Users == (a1 :> ann) @@ (a2 :> ann) @@ (b1 :> guest)
Carriers == (station :> "crowd_update") @@ (train :> "train_position")

\* Every process knows what was announced n times.
Announced(k, n) ==
    /\ version = [Nothing EXCEPT ![k] = n]
    /\ latest = [p \in Process |-> version]

\* The sockets of S are connected, those of N will connect, and the others never do.
Sockets(S, N) ==
    /\ sock = [s \in Socket |-> IF s \in S THEN "open" ELSE IF s \in N THEN "new" ELSE "gone"]
    /\ handler = [s \in Socket |-> IF s \in S THEN "receiving"
                                   ELSE IF s \in N THEN "none" ELSE "ended"]
    /\ active = S /\ tracked = S
    /\ view = [s \in Socket |-> IF s \in S THEN version ELSE Nothing]

\* Two tabs of one user connect to the first process, and nothing fails.
Tabs ==
    /\ Announced(station, 1) /\ Sockets({}, {a1, a2})
    /\ news = (p1 :> 2 @@ p2 :> 0) /\ faults = MaxFaults

\* The second process has a socket, and one connects to the first; there are faults.
Relay ==
    /\ Announced(train, 1) /\ Sockets({b1}, {a2})
    /\ news = (p1 :> 1 @@ p2 :> 1) /\ faults = 0

MCInit ==
    /\ Tabs \/ Relay
    /\ disturbed = {}
    /\ buffer = [p \in Process |-> Nothing] /\ scheduled = [p \in Process |-> {}]
    /\ casts = [p \in Process |-> <<>>] /\ inbox = [p \in Process |-> <<>>]
    /\ iter = [s \in Socket |-> [known |-> {}, todo |-> {}]]
    /\ pinged = {}
    /\ redis = TRUE /\ subscribed = Process

MCSpec == MCInit /\ [][Next]_vars /\ Fairness
==============================================================================
