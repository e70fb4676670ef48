-------------------------- MODULE WebSocketManager --------------------------
(***************************************************************************)
(* The delivery of live state over WebSockets (app/websocket/manager.py,   *)
(* class ConnectionManager, and the endpoint websocket_monitor of          *)
(* app/main.py).  Each process runs one event loop: a step between two     *)
(* awaits is one action.  A process buffers what its threads notify for    *)
(* 200 ms, sends it to its own sockets, and then publishes it on a Redis   *)
(* channel for the sockets of the other processes.                         *)
(***************************************************************************)
EXTENDS Integers, Sequences, FiniteSets, SequencesExt

CONSTANTS Process, Socket,
          Home,           \* the process that a socket connects to
          UserOf, Guest,  \* the user a socket authenticates as, or Guest
          Slow,           \* sockets whose client may stop reading for some time
          Item, EventOf,  \* stations and trains, and the event that carries each
          Ticker,         \* the process that runs the simulators
          MaxConnections, MaxPerUser,
          Faults,         \* what may happen to it: "leave", "redis", "relay", "restart"
          MaxNews, MaxFaults \* bounds: announcements of a process, faults

Everyone == "everyone"

\* A socket stays with the process that accepted it, and one of them runs the simulators.
HomesAreProcesses ==
    /\ Home \in [Socket -> Process] /\ Ticker \in Process /\ Everyone \notin Socket

ASSUME SocketsAssumption == HomesAreProcesses

VARIABLES
    news,       \* the announcements each process will still make
    version,    \* how many times each item was announced; what is announced is that number
    disturbed,  \* history: items whose last announcement crossed another one, or was lost
    buffer,     \* _coalesce_buffers: the newest value of each item, 0 when there is none
    scheduled,  \* _coalesce_scheduled: the events a flush is waiting for
    latest,     \* _latest_state of each process
    casts,      \* broadcasts and resyncs whose sends are not all done, in order of start
    sock,       \* the transport: "new", "open" or "gone"
    handler,    \* where websocket_monitor is for each socket
    iter,       \* _send_latest_state: the events known at its start and those still to send
    active,     \* active_connections (and _connection_users)
    tracked,    \* the sockets of _last_seen
    pinged,     \* sockets the reaper is sending a ping to
    view,       \* what the client of a socket shows
    redis,      \* Redis is reachable
    subscribed, \* processes whose relay thread is subscribed
    inbox,      \* relayed messages of each process, not yet broadcast there
    faults

hub == <<buffer, scheduled, latest>>
clients == <<sock, handler, iter, active, tracked, pinged, view>>
relay == <<redis, subscribed, inbox>>
vars == <<news, version, disturbed, hub, casts, clients, relay, faults>>

Events == {EventOf[k] : k \in Item}
Values == [Item -> 0..(MaxNews * Cardinality(Process))]
Nothing == [k \in Item |-> 0]

Newer(old, items) == [k \in Item |-> IF items[k] > 0 THEN items[k] ELSE old[k]]
Only(items, e) == [k \in Item |-> IF EventOf[k] = e THEN items[k] ELSE 0]
ItemsOf(items) == {k \in Item : items[k] > 0}
Known(l) == {EventOf[k] : k \in ItemsOf(l)}

Here(p) == {s \in active : Home[s] = p}

Cast == [items : Values, to : SUBSET Socket, stale : SUBSET Socket,
         publish : BOOLEAN, for : Socket \cup {Everyone}]

TypeOK ==
    /\ news \in [Process -> 0..MaxNews] /\ version \in Values /\ disturbed \subseteq Item
    /\ buffer \in [Process -> Values] /\ latest \in [Process -> Values]
    /\ scheduled \in [Process -> SUBSET Events]
    /\ casts \in [Process -> Seq(Cast)] /\ inbox \in [Process -> Seq(Values)]
    /\ sock \in [Socket -> {"new", "open", "gone"}]
    /\ handler \in [Socket -> {"none", "accepting", "resync", "receiving", "ended"}]
    /\ iter \in [Socket -> [known : SUBSET Events, todo : SUBSET Events]]
    /\ active \subseteq Socket /\ tracked \subseteq Socket /\ pinged \subseteq Socket
    /\ view \in [Socket -> Values]
    /\ redis \in BOOLEAN /\ subscribed \subseteq Process
    /\ faults \in 0..MaxFaults

Init ==
    /\ news = [p \in Process |-> MaxNews] /\ version = Nothing /\ disturbed = {}
    /\ buffer = [p \in Process |-> Nothing] /\ latest = [p \in Process |-> Nothing]
    /\ scheduled = [p \in Process |-> {}]
    /\ casts = [p \in Process |-> <<>>] /\ inbox = [p \in Process |-> <<>>]
    /\ sock = [s \in Socket |-> "new"] /\ handler = [s \in Socket |-> "none"]
    /\ iter = [s \in Socket |-> [known |-> {}, todo |-> {}]]
    /\ active = {} /\ tracked = {} /\ pinged = {}
    /\ view = [s \in Socket |-> Nothing]
    /\ redis = TRUE /\ subscribed = Process
    /\ faults = 0

Fault(kind) == kind \in Faults /\ faults < MaxFaults /\ faults' = faults + 1

(***************************************************************************)
(* Broadcasts                                                              *)
(***************************************************************************)
\* _publish_relay, to the other processes; a process skips what it published itself.
Publish(p, items) ==
    inbox' = [q \in Process |-> IF redis /\ q # p /\ q \in subscribed
                                THEN Append(inbox[q], items) ELSE inbox[q]]

\* What the other processes never get of a publication made now.
Lost(p, items) ==
    IF redis /\ Process \ {p} \subseteq subscribed THEN {} ELSE ItemsOf(items)

\* broadcast up to its first await; without a socket here nothing is awaited.
Broadcast(p, items, publish) ==
    /\ latest' = [latest EXCEPT ![p] = Newer(@, items)]
    /\ IF Here(p) # {}
       THEN /\ casts' = [casts EXCEPT ![p] = Append(@,
                    [items |-> items, to |-> Here(p), stale |-> {},
                     publish |-> publish, for |-> Everyone])]
            /\ UNCHANGED inbox
       ELSE casts' = casts /\ (IF publish THEN Publish(p, items) ELSE UNCHANGED inbox)

LostBy(p, items) == IF Here(p) = {} THEN Lost(p, items) ELSE {}

\* An older value of k may still reach a process after one that p announces now.
Crosses(p, k) ==
    \/ \E q \in Process \ {p} : buffer[q][k] > 0
    \/ \E q \in Process : \E i \in DOMAIN inbox[q] : inbox[q][i][k] > 0
    \/ \E q \in Process : \E i \in DOMAIN casts[q] :
           casts[q][i].publish /\ casts[q][i].items[k] > 0

\* notify, from a thread that serves a request: the value waits in the buffer, and
\* the first one of an event schedules the flush.
Notify(p, k) ==
    /\ news[p] > 0 /\ news' = [news EXCEPT ![p] = @ - 1]
    /\ version' = [version EXCEPT ![k] = @ + 1]
    /\ buffer' = [buffer EXCEPT ![p][k] = version[k] + 1]
    /\ scheduled' = [scheduled EXCEPT ![p] = @ \cup {EventOf[k]}]
    /\ disturbed' = IF Crosses(p, k) THEN disturbed \cup {k} ELSE disturbed \ {k}
    /\ UNCHANGED <<latest, casts, clients, relay, faults>>

\* _flush_coalesced_after_delay
Flush(p, e) ==
    LET items == Only(buffer[p], e)
    IN /\ e \in scheduled[p]
       /\ scheduled' = [scheduled EXCEPT ![p] = @ \ {e}]
       /\ buffer' = [buffer EXCEPT ![p] = [k \in Item |-> IF EventOf[k] = e THEN 0 ELSE @[k]]]
       /\ IF ItemsOf(items) # {}
          THEN /\ Broadcast(p, items, TRUE)
               /\ disturbed' = disturbed \cup LostBy(p, items)
          ELSE UNCHANGED <<latest, casts, inbox, disturbed>>
       /\ UNCHANGED <<news, version, clients, redis, subscribed, faults>>

\* A slip: the announced values are one ahead of the stored ones.
TickAhead(e) ==
    LET items == [k \in Item |-> IF EventOf[k] = e THEN version[k] + 2 ELSE 0]
    IN /\ news[Ticker] > 0 /\ news' = [news EXCEPT ![Ticker] = @ - 1]
       /\ version' = Newer(version, items) /\ Broadcast(Ticker, items, TRUE)
       /\ UNCHANGED <<buffer, scheduled, disturbed, clients, redis, subscribed, faults>>

\* A tick of a simulator broadcasts every item of an event, past the buffer.
Tick(e) ==
    LET announced == {k \in Item : EventOf[k] = e}
        items == [k \in Item |-> IF k \in announced THEN version[k] + 1 ELSE 0]
        crossed == {k \in announced : Crosses(Ticker, k) \/ buffer[Ticker][k] > 0}
    IN /\ news[Ticker] > 0 /\ news' = [news EXCEPT ![Ticker] = @ - 1]
       /\ version' = Newer(version, items)
       /\ Broadcast(Ticker, items, TRUE)
       /\ disturbed' = (disturbed \ announced) \cup crossed \cup LostBy(Ticker, items)
       /\ UNCHANGED <<buffer, scheduled, clients, redis, subscribed, faults>>

\* A slip: only what a process announces itself is remembered there.
RelayedUnremembered(p) ==
    /\ inbox[p] # <<>> /\ inbox' = [inbox EXCEPT ![p] = Tail(@)]
    /\ casts' = IF Here(p) = {} THEN casts
                ELSE [casts EXCEPT ![p] = Append(@,
                         [items |-> Head(inbox[p]), to |-> Here(p), stale |-> {},
                          publish |-> FALSE, for |-> Everyone])]
    /\ UNCHANGED <<news, version, disturbed, hub, clients, redis, subscribed, faults>>

\* _relay_loop hands a message to the event loop: broadcast(..., _from_relay=True)
Relayed(p) ==
    /\ inbox[p] # <<>>
    /\ latest' = [latest EXCEPT ![p] = Newer(@, Head(inbox[p]))]
    /\ casts' = IF Here(p) = {} THEN casts
                ELSE [casts EXCEPT ![p] = Append(@,
                         [items |-> Head(inbox[p]), to |-> Here(p), stale |-> {},
                          publish |-> FALSE, for |-> Everyone])]
    /\ inbox' = [inbox EXCEPT ![p] = Tail(@)]
    /\ UNCHANGED <<news, version, disturbed, buffer, scheduled, clients, redis, subscribed, faults>>

(***************************************************************************)
(* Sends                                                                   *)
(***************************************************************************)
\* What _send_latest_state still has to do for s: the next event, or the return
\* to the endpoint.  An event that became known meanwhile makes the iteration
\* raise, past the finally of the endpoint: the server closes the socket.
Resync(s, cs, known, todo) ==
    LET p == Home[s]
    IN \/ /\ Known(latest[p]) # known
          /\ handler' = [handler EXCEPT ![s] = "ended"]
          /\ sock' = [sock EXCEPT ![s] = "gone"]
          /\ casts' = [casts EXCEPT ![p] = cs] /\ UNCHANGED iter
       \/ /\ Known(latest[p]) = known /\ todo = {}
          /\ handler' = [handler EXCEPT ![s] = "receiving"]
          /\ casts' = [casts EXCEPT ![p] = cs] /\ UNCHANGED <<sock, iter>>
       \/ /\ Known(latest[p]) = known
          /\ \E e \in todo :
                /\ iter' = [iter EXCEPT ![s] = [known |-> known, todo |-> todo \ {e}]]
                /\ casts' = [casts EXCEPT ![p] = Append(cs,
                       [items |-> Only(latest[p], e), to |-> {s}, stale |-> {},
                        publish |-> FALSE, for |-> s])]
          /\ handler' = [handler EXCEPT ![s] = "resync"]
          /\ UNCHANGED sock

\* The last send of a cast is done: broadcast drops the sockets that failed and
\* publishes; _send_latest_state goes on, or gives up when its send failed.
Finish(p, i, cast) ==
    LET others == RemoveAt(casts[p], i)
    IN IF cast.for = Everyone
       THEN /\ casts' = [casts EXCEPT ![p] = others]
            /\ active' = active \ cast.stale
            /\ tracked' = tracked \ cast.stale
            /\ IF cast.publish
               THEN Publish(p, cast.items) /\ disturbed' = disturbed \cup Lost(p, cast.items)
               ELSE UNCHANGED <<inbox, disturbed>>
            /\ UNCHANGED <<sock, handler, iter>>
       ELSE /\ IF cast.stale = {}
               THEN Resync(cast.for, others, iter[cast.for].known, iter[cast.for].todo)
               ELSE /\ casts' = [casts EXCEPT ![p] = others]
                    /\ handler' = [handler EXCEPT ![cast.for] = "receiving"]
                    /\ UNCHANGED <<sock, iter>>
            /\ UNCHANGED <<active, tracked, inbox, disturbed>>

\* _send_one returns.  Frames of a socket leave in order; one that times out after
\* 5 seconds is in the connection already and is read when the client goes on.
Sent(p, i, s, failed) ==
    LET cast == [casts[p][i] EXCEPT !.to = @ \ {s},
                                    !.stale = IF failed THEN @ \cup {s} ELSE @]
    IN /\ s \in casts[p][i].to
       /\ \A j \in 1..(i - 1) : s \notin casts[p][j].to
       /\ view' = IF sock[s] = "open" THEN [view EXCEPT ![s] = Newer(@, cast.items)] ELSE view
       /\ IF cast.to = {} THEN Finish(p, i, cast)
          ELSE /\ casts' = [casts EXCEPT ![p][i] = cast]
               /\ UNCHANGED <<sock, handler, iter, active, tracked, inbox, disturbed>>
       /\ UNCHANGED <<news, version, hub, pinged, redis, subscribed, faults>>

\* A slip: a send to a connection that is gone never returns.
SendWithoutEnd(p) ==
    \E i \in DOMAIN casts[p], s \in Socket : sock[s] = "open" /\ Sent(p, i, s, FALSE)

Send(p) == \E i \in DOMAIN casts[p], s \in Socket : Sent(p, i, s, sock[s] = "gone")
SendTimesOut(p) == \E i \in DOMAIN casts[p], s \in Slow : sock[s] = "open" /\ Sent(p, i, s, TRUE)

(***************************************************************************)
(* The endpoint of one socket                                              *)
(***************************************************************************)
\* connect: the limits are checked before the handshake is awaited.
Connect(s) ==
    LET p == Home[s]
        full == \/ Cardinality(Here(p)) >= MaxConnections
                \/ /\ UserOf[s] # Guest
                   /\ Cardinality({t \in Here(p) : UserOf[t] = UserOf[s]}) >= MaxPerUser
    IN /\ handler[s] = "none" /\ sock[s] = "new"
       /\ IF full
          THEN /\ sock' = [sock EXCEPT ![s] = "gone"]
               /\ handler' = [handler EXCEPT ![s] = "ended"]
          ELSE /\ sock' = [sock EXCEPT ![s] = "open"]
               /\ handler' = [handler EXCEPT ![s] = "accepting"]
       /\ UNCHANGED <<news, version, disturbed, hub, casts, iter, active, tracked, pinged, view,
                      relay, faults>>

\* A slip: the socket is registered and nothing is sent to it.
AcceptedSilently(s) ==
    /\ handler[s] = "accepting" /\ sock[s] = "open"
    /\ active' = active \cup {s} /\ tracked' = tracked \cup {s}
    /\ handler' = [handler EXCEPT ![s] = "receiving"]
    /\ UNCHANGED <<news, version, disturbed, hub, casts, sock, iter, pinged, view, relay, faults>>

\* The socket is registered, and the resync starts in the same step.
Accepted(s) ==
    LET known == Known(latest[Home[s]])
    IN /\ handler[s] = "accepting" /\ sock[s] = "open"
       /\ active' = active \cup {s} /\ tracked' = tracked \cup {s}
       /\ Resync(s, casts[Home[s]], known, known)
       /\ UNCHANGED <<news, version, disturbed, hub, pinged, view, relay, faults>>

AcceptFails(s) ==
    /\ handler[s] = "accepting" /\ sock[s] = "gone"
    /\ handler' = [handler EXCEPT ![s] = "ended"]
    /\ UNCHANGED <<news, version, disturbed, hub, casts, sock, iter, active, tracked, pinged, view,
                   relay, faults>>

\* A frame of the client, a ping among them: record_activity, and a pong.
ClientSpeaks(s) ==
    /\ handler[s] = "receiving" /\ sock[s] = "open" /\ s \notin tracked
    /\ tracked' = tracked \cup {s}
    /\ UNCHANGED <<news, version, disturbed, hub, casts, sock, handler, iter, active, pinged, view,
                   relay, faults>>

\* The client leaves, or its connection breaks.
Leave(s) ==
    /\ Fault("leave") /\ sock[s] = "open" /\ sock' = [sock EXCEPT ![s] = "gone"]
    /\ UNCHANGED <<news, version, disturbed, hub, casts, handler, iter, active, tracked, pinged, view,
                   relay>>

\* receive_text raises, and the finally of websocket_monitor disconnects.
EndpointEnds(s) ==
    /\ handler[s] = "receiving" /\ sock[s] = "gone"
    /\ handler' = [handler EXCEPT ![s] = "ended"]
    /\ active' = active \ {s} /\ tracked' = tracked \ {s}
    /\ UNCHANGED <<news, version, disturbed, hub, casts, sock, iter, pinged, view, relay, faults>>

\* _reap_stale pings a socket that was quiet for 45 seconds, and awaits the send.
ReaperPings(s) ==
    /\ s \in tracked \ pinged /\ (sock[s] = "gone" \/ s \in Slow)
    /\ pinged' = pinged \cup {s}
    /\ UNCHANGED <<news, version, disturbed, hub, casts, sock, handler, iter, active, tracked, view,
                   relay, faults>>

\* The ping fails, and the socket is dropped; or it is sent, and the time is noted.
ReaperGoesOn(s, failed) ==
    /\ s \in pinged /\ pinged' = pinged \ {s}
    /\ IF failed THEN active' = active \ {s} /\ tracked' = tracked \ {s}
       ELSE tracked' = tracked \cup {s} /\ UNCHANGED active
    /\ UNCHANGED <<news, version, disturbed, hub, casts, sock, handler, iter, view, relay, faults>>

\* A slip: the outcome of the ping is ignored.
PingIgnored(s) == ReaperGoesOn(s, FALSE)

PingReturns(s) == ReaperGoesOn(s, sock[s] = "gone")
PingTimesOut(s) == sock[s] = "open" /\ s \in Slow /\ ReaperGoesOn(s, TRUE)

(***************************************************************************)
(* Faults                                                                  *)
(***************************************************************************)
Undelivered(ps) == {k \in Item : \E q \in ps : \E i \in DOMAIN inbox[q] : inbox[q][i][k] > 0}

\* Redis goes away, with every subscription.
RedisFails ==
    /\ Fault("redis") /\ redis /\ redis' = FALSE /\ subscribed' = {}
    /\ inbox' = [p \in Process |-> <<>>]
    /\ disturbed' = disturbed \cup Undelivered(Process)
    /\ UNCHANGED <<news, version, hub, casts, clients>>

RedisReturns ==
    /\ ~redis /\ redis' = TRUE
    /\ UNCHANGED <<news, version, disturbed, hub, casts, clients, subscribed, inbox, faults>>

\* get_message raises: _relay_loop leaves the subscription and backs off.
RelayBreaks(p) ==
    /\ Fault("relay") /\ p \in subscribed /\ subscribed' = subscribed \ {p}
    /\ inbox' = [inbox EXCEPT ![p] = <<>>]
    /\ disturbed' = disturbed \cup Undelivered({p})
    /\ UNCHANGED <<news, version, hub, casts, clients, redis>>

Subscribe(p) ==
    /\ redis /\ p \notin subscribed /\ subscribed' = subscribed \cup {p}
    /\ UNCHANGED <<news, version, disturbed, hub, casts, clients, redis, inbox, faults>>

\* A process is killed and started again: everything it held is lost.
Restart(p) ==
    LET mine == {s \in Socket : Home[s] = p /\ handler[s] # "none"}
    IN /\ Fault("restart")
       /\ buffer' = [buffer EXCEPT ![p] = Nothing] /\ latest' = [latest EXCEPT ![p] = Nothing]
       /\ scheduled' = [scheduled EXCEPT ![p] = {}] /\ casts' = [casts EXCEPT ![p] = <<>>]
       /\ sock' = [s \in Socket |-> IF s \in mine THEN "gone" ELSE sock[s]]
       /\ handler' = [s \in Socket |-> IF s \in mine THEN "ended" ELSE handler[s]]
       /\ active' = active \ mine /\ tracked' = tracked \ mine /\ pinged' = pinged \ mine
       /\ inbox' = [inbox EXCEPT ![p] = <<>>] /\ subscribed' = subscribed \ {p}
       /\ disturbed' = disturbed \cup ItemsOf(version)
       /\ UNCHANGED <<news, version, iter, view, redis>>

Next ==
    \/ \E p \in Process : \/ \E k \in Item : Notify(p, k)
                          \/ \E e \in Events : Flush(p, e)
                          \/ Relayed(p) \/ Send(p) \/ SendTimesOut(p)
                          \/ RelayBreaks(p) \/ Subscribe(p) \/ Restart(p)
    \/ \E e \in Events : Tick(e)
    \/ \E s \in Socket : \/ Connect(s) \/ Accepted(s) \/ AcceptFails(s)
                         \/ ClientSpeaks(s) \/ Leave(s) \/ EndpointEnds(s)
                         \/ ReaperPings(s) \/ PingReturns(s) \/ PingTimesOut(s)
    \/ RedisFails \/ RedisReturns

\* The event loop runs what is ready, _send_one waits for five seconds at most, and
\* the reaper comes round every 20 seconds.
Fairness ==
    /\ \A p \in Process : /\ \A e \in Events : WF_vars(Flush(p, e))
                          /\ WF_vars(Send(p)) /\ WF_vars(Relayed(p)) /\ WF_vars(Subscribe(p))
    /\ \A s \in Socket : /\ WF_vars(Accepted(s)) /\ WF_vars(AcceptFails(s))
                         /\ WF_vars(EndpointEnds(s))
                         /\ WF_vars(ReaperPings(s)) /\ WF_vars(PingReturns(s))

Spec == Init /\ [][Next]_vars
FairSpec == Spec /\ Fairness

(***************************************************************************)
(* Properties                                                              *)
(***************************************************************************)
\* When a process has nothing left to send, each of its registered sockets that is
\* open shows the newest of everything the process knows: no update falls between
\* the resync of a connection and the broadcasts that go on meanwhile, and a send that
\* times out leaves no registered socket behind.  (A resync that times out is given up
\* and the socket stays registered without the events that were still to send.)
SettledClientsAreCurrent ==
    \A s \in active :
        sock[s] = "open" /\ iter[s].todo = {} /\ casts[Home[s]] = <<>>
            => view[s] = latest[Home[s]]

\* Nothing is left to flush, send or relay.
Quiet ==
    \A p \in Process : scheduled[p] = {} /\ casts[p] = <<>> /\ inbox[p] = <<>>

\* What was announced last is what every process ends up with, unless the announcement
\* crossed an older one on its way, or a relay lost it: the relay orders nothing, but
\* it neither forgets nor reverses announcements made one after the other.
ProcessesAgree ==
    Quiet => \A k \in Item \ disturbed, p \in Process : latest[p][k] = version[k]

\* What is notified at a process is sent: a flush is always scheduled for what is in
\* the buffer, and no send holds the broadcasts up for good.  With the invariant above,
\* the sockets of the process then show it.
NotifiedIsSent ==
    \A p \in Process : buffer[p] # Nothing ~> buffer[p] = Nothing /\ casts[p] = <<>>

\* A registration that no endpoint will remove, because the resync raised before the
\* endpoint was in its try block, is removed by a broadcast or by the reaper, and so is
\* what the reaper or a late frame noted about a socket that is gone.
GhostsAreDropped ==
    \A s \in Socket : handler[s] = "ended" ~> s \notin active \cup tracked

\* A client whose pings are answered is registered for updates: a connection that a
\* failed send removes is dropped, not only forgotten.
AnsweredClientsAreServed ==
    \A s \in Socket : handler[s] = "receiving" /\ sock[s] = "open" => s \in active
==============================================================================
