----------------------- MODULE WebSocketManagerProofs -----------------------
(***************************************************************************)
(* Proofs about WebSocketManager: what the clients of a process show, and  *)
(* what the processes remember, for any processes, sockets and items.      *)
(***************************************************************************)
EXTENDS WebSocketManager, TLAPS

(***************************************************************************)
(* Sequences of broadcasts                                                 *)
(***************************************************************************)
LEMMA Typed ==
  ASSUME NEW S, NEW cs \in Seq(S)
  PROVE  /\ Len(cs) \in Nat /\ DOMAIN cs = 1..Len(cs)
         /\ \A i \in DOMAIN cs : cs[i] \in S
OBVIOUS

LEMMA Appended ==
  ASSUME NEW S, NEW cs \in Seq(S), NEW c \in S
  PROVE  /\ Append(cs, c) \in Seq(S) /\ Len(cs) \in Nat
         /\ DOMAIN cs = 1..Len(cs) /\ DOMAIN Append(cs, c) = 1..(Len(cs) + 1)
         /\ \A j \in 1..Len(cs) : Append(cs, c)[j] = cs[j]
         /\ Append(cs, c)[Len(cs) + 1] = c
OBVIOUS

LEMMA Replaced ==
  ASSUME NEW S, NEW cs \in Seq(S), NEW i \in DOMAIN cs, NEW c \in S
  PROVE  /\ [cs EXCEPT ![i] = c] \in Seq(S)
         /\ Len(cs) \in Nat /\ DOMAIN cs = 1..Len(cs) /\ DOMAIN [cs EXCEPT ![i] = c] = DOMAIN cs
         /\ \A j \in DOMAIN cs : [cs EXCEPT ![i] = c][j] = IF j = i THEN c ELSE cs[j]
OBVIOUS

LEMMA Joined ==
  ASSUME NEW S, NEW a \in Seq(S), NEW b \in Seq(S)
  PROVE  Len(a \o b) = Len(a) + Len(b)
OBVIOUS

LEMMA Removed ==
  ASSUME NEW S, NEW cs \in Seq(S), NEW i \in DOMAIN cs
  PROVE  /\ RemoveAt(cs, i) \in Seq(S)
         /\ Len(cs) \in Nat /\ DOMAIN cs = 1..Len(cs) /\ i \in 1..Len(cs)
         /\ DOMAIN RemoveAt(cs, i) = 1..(Len(cs) - 1)
         /\ \A j \in 1..(Len(cs) - 1) :
                RemoveAt(cs, i)[j] = IF j < i THEN cs[j] ELSE cs[j + 1]
<1>1. Len(cs) \in Nat /\ DOMAIN cs = 1..Len(cs) /\ i \in 1..Len(cs)
  BY Typed
<1>2. DEFINE before == SubSeq(cs, 1, i - 1)
             after == SubSeq(cs, i + 1, Len(cs))
<1>3. /\ before \in Seq(S) /\ Len(before) = i - 1
      /\ \A j \in 1..(i - 1) : before[j] = cs[j]
  BY <1>1
<1>4. /\ after \in Seq(S) /\ Len(after) = Len(cs) - i
      /\ \A j \in 1..(Len(cs) - i) : after[j] = cs[j + i]
  BY <1>1
<1>5. /\ before \o after \in Seq(S) /\ Len(before \o after) = Len(cs) - 1
      /\ \A j \in 1..(Len(cs) - 1) : (before \o after)[j] = IF j < i THEN cs[j] ELSE cs[j + 1]
  <2> HIDE DEF before, after
  <2>1. before \o after \in Seq(S)
    BY <1>3, <1>4
  <2>3. Len(before \o after) = Len(before) + Len(after)
    BY <1>3, <1>4, Joined
  <2>2. ASSUME NEW j \in 1..(Len(cs) - 1)
        PROVE  (before \o after)[j] = IF j < i THEN cs[j] ELSE cs[j + 1]
    <3>1. CASE j < i
      BY <1>1, <1>3, <1>4, <3>1
    <3>2. CASE ~(j < i)
      <4>1. (before \o after)[j] = after[j - (i - 1)]
        BY <1>1, <1>3, <1>4, <3>2
      <4>2. j - (i - 1) \in 1..(Len(cs) - i) /\ (j - (i - 1)) + i = j + 1
        BY <1>1, <3>2
      <4> QED BY <1>1, <1>4, <3>2, <4>1, <4>2
    <3> QED BY <3>1, <3>2
  <2> QED BY <1>1, <1>3, <1>4, <2>1, <2>2, <2>3
<1>6. RemoveAt(cs, i) = before \o after
  BY DEF RemoveAt
<1> HIDE DEF before, after
<1>7. DOMAIN (before \o after) = 1..Len(before \o after)
  BY <1>5
<1> QED BY <1>1, <1>5, <1>6, <1>7

\* A message carries a value of each item, or 0; a broadcast under way sends one.
Messages == [Item -> Nat]
Sends == [items : Messages, to : SUBSET Socket, stale : SUBSET Socket,
          publish : BOOLEAN, for : Socket \cup {Everyone}]

\* Broadcast c still takes a value of item k to socket s.
Takes(c, s, k) == s \in c.to /\ c.items[k] > 0

\* Once what is under way has been sent, socket s, which shows the value now, shows
\* the newest value of item k.
WillShow(cs, s, k, now, newest) ==
    /\ (\A j \in DOMAIN cs : ~Takes(cs[j], s, k)) => now = newest
    /\ \A j \in DOMAIN cs :
          Takes(cs[j], s, k) /\ (\A l \in DOMAIN cs : l > j => ~Takes(cs[l], s, k))
              => cs[j].items[k] = newest

\* A broadcast that takes k to s decides what s will show of k; another changes nothing.
LEMMA StartedLast ==
  ASSUME NEW cs \in Seq(Sends), NEW c \in Sends, NEW s \in Socket, NEW k \in Item,
         NEW now, Takes(c, s, k)
  PROVE  WillShow(Append(cs, c), s, k, now, c.items[k])
BY Appended DEF WillShow

LEMMA StartedOther ==
  ASSUME NEW cs \in Seq(Sends), NEW c \in Sends, NEW s \in Socket, NEW k \in Item,
         NEW now, NEW newest, ~Takes(c, s, k), WillShow(cs, s, k, now, newest)
  PROVE  WillShow(Append(cs, c), s, k, now, newest)
<1> DEFINE ds == Append(cs, c)
<1>1. /\ Len(cs) \in Nat /\ DOMAIN cs = 1..Len(cs) /\ DOMAIN ds = 1..(Len(cs) + 1)
      /\ \A j \in 1..Len(cs) : ds[j] = cs[j]
      /\ ds[Len(cs) + 1] = c
  BY Appended
<1> HIDE DEF ds
<1>2. \A j \in DOMAIN ds : Takes(ds[j], s, k) => j \in DOMAIN cs
  BY <1>1
<1>3. \A j \in DOMAIN cs : j \in DOMAIN ds /\ (Takes(ds[j], s, k) <=> Takes(cs[j], s, k))
  BY <1>1
<1>4. WillShow(ds, s, k, now, newest)
  BY <1>1, <1>2, <1>3 DEF WillShow
<1> QED BY <1>4 DEF ds

\* The first of the sends to s is done, and its broadcast has more to do: what s will
\* show is what it was to show, and nothing changes for the other sockets.
LEMMA SentFirst ==
  ASSUME NEW cs \in Seq(Sends), NEW i \in DOMAIN cs, NEW c \in Sends, NEW s \in Socket,
         NEW t \in Socket, NEW k \in Item, NEW now, NEW newest,
         s \in cs[i].to, \A j \in 1..(i - 1) : s \notin cs[j].to,
         c.items = cs[i].items, c.to = cs[i].to \ {s},
         WillShow(cs, t, k, now, newest)
  PROVE  WillShow([cs EXCEPT ![i] = c], t, k,
                  IF t = s /\ cs[i].items[k] > 0 THEN cs[i].items[k] ELSE now, newest)
<1> DEFINE ds == [cs EXCEPT ![i] = c]
<1>1. /\ Len(cs) \in Nat /\ DOMAIN cs = 1..Len(cs) /\ DOMAIN ds = DOMAIN cs
      /\ \A j \in DOMAIN cs : ds[j] = IF j = i THEN c ELSE cs[j]
  BY Replaced
<1> HIDE DEF ds
<1>2. ASSUME NEW j \in DOMAIN cs
      PROVE  /\ Takes(ds[j], t, k) <=> Takes(cs[j], t, k) /\ ~(j = i /\ t = s)
             /\ ds[j].items = cs[j].items
  BY <1>1 DEF Takes
<1>3. CASE t = s /\ cs[i].items[k] > 0
  <2>1. Takes(cs[i], t, k) /\ \A j \in DOMAIN cs : j < i => ~Takes(cs[j], t, k)
    BY <1>1, <1>3 DEF Takes
  <2>2. WillShow(ds, t, k, cs[i].items[k], newest)
    BY <1>1, <1>2, <1>3, <2>1 DEF WillShow
  <2> QED BY <1>3, <2>2 DEF ds
<1>4. CASE ~(t = s /\ cs[i].items[k] > 0)
  <2>1. \A j \in DOMAIN cs : Takes(ds[j], t, k) <=> Takes(cs[j], t, k)
    BY <1>2, <1>4 DEF Takes
  <2>2. WillShow(ds, t, k, now, newest)
    BY <1>1, <1>2, <2>1 DEF WillShow
  <2> QED BY <1>4, <2>2 DEF ds
<1> QED BY <1>3, <1>4

\* The same when that send is the last of its broadcast, which is then forgotten.
LEMMA SentLast ==
  ASSUME NEW cs \in Seq(Sends), NEW i \in DOMAIN cs, NEW s \in Socket,
         NEW t \in Socket, NEW k \in Item, NEW now, NEW newest,
         s \in cs[i].to, \A j \in 1..(i - 1) : s \notin cs[j].to, cs[i].to \ {s} = {},
         WillShow(cs, t, k, now, newest)
  PROVE  WillShow(RemoveAt(cs, i), t, k,
                  IF t = s /\ cs[i].items[k] > 0 THEN cs[i].items[k] ELSE now, newest)
<1> DEFINE ds == RemoveAt(cs, i)
<1>1. /\ Len(cs) \in Nat /\ DOMAIN cs = 1..Len(cs) /\ i \in 1..Len(cs)
      /\ DOMAIN ds = 1..(Len(cs) - 1)
      /\ \A j \in 1..(Len(cs) - 1) : ds[j] = IF j < i THEN cs[j] ELSE cs[j + 1]
  BY Removed
<1> HIDE DEF ds
<1>2. \A j \in DOMAIN ds : j < i => ds[j] = cs[j] /\ j \in DOMAIN cs
  BY <1>1
<1>3. \A j \in DOMAIN ds : ~(j < i) => ds[j] = cs[j + 1] /\ j + 1 \in DOMAIN cs /\ j + 1 > i
  BY <1>1
<1>4. \A j \in DOMAIN cs : j < i => j \in DOMAIN ds /\ ds[j] = cs[j]
  BY <1>1
<1>5. \A j \in DOMAIN cs : j > i => j - 1 \in DOMAIN ds /\ ds[j - 1] = cs[j] /\ ~(j - 1 < i)
  BY <1>1
<1>6. CASE t = s /\ cs[i].items[k] > 0
  <2>1. Takes(cs[i], t, k) /\ \A j \in DOMAIN cs : j < i => ~Takes(cs[j], t, k)
    BY <1>1, <1>6 DEF Takes
  <2>2. ASSUME \A j \in DOMAIN ds : ~Takes(ds[j], t, k)
        PROVE  cs[i].items[k] = newest
    <3>1. \A j \in DOMAIN cs : j > i => ~Takes(cs[j], t, k)
      BY <1>5, <2>2
    <3> QED BY <2>1, <3>1 DEF WillShow
  <2>3. ASSUME NEW j \in DOMAIN ds, Takes(ds[j], t, k),
               \A l \in DOMAIN ds : l > j => ~Takes(ds[l], t, k)
        PROVE  ds[j].items[k] = newest
    <3>1. ~(j < i) /\ ds[j] = cs[j + 1] /\ j + 1 \in DOMAIN cs
      BY <1>2, <1>3, <2>1, <2>3
    <3>2. \A l \in DOMAIN cs : l > j + 1 => ~Takes(cs[l], t, k)
      <4> SUFFICES ASSUME NEW l \in DOMAIN cs, l > j + 1 PROVE ~Takes(cs[l], t, k)
        OBVIOUS
      <4>1. l > i /\ l - 1 > j
        BY <1>1, <3>1
      <4> QED BY <1>5, <2>3, <4>1
    <3> QED BY <2>3, <3>1, <3>2 DEF WillShow
  <2>4. WillShow(ds, t, k, cs[i].items[k], newest)
    BY <2>2, <2>3 DEF WillShow
  <2> QED BY <1>6, <2>4 DEF ds
<1>7. CASE ~(t = s /\ cs[i].items[k] > 0)
  <2>1. ~Takes(cs[i], t, k)
    BY <1>7 DEF Takes
  <2>2. ASSUME \A j \in DOMAIN ds : ~Takes(ds[j], t, k)
        PROVE  now = newest
    <3>1. \A j \in DOMAIN cs : ~Takes(cs[j], t, k)
      <4> SUFFICES ASSUME NEW j \in DOMAIN cs PROVE ~Takes(cs[j], t, k)
        OBVIOUS
      <4>1. j < i \/ j = i \/ j > i
        BY <1>1
      <4> QED BY <1>4, <1>5, <2>1, <2>2, <4>1
    <3> QED BY <3>1 DEF WillShow
  <2>3. ASSUME NEW j \in DOMAIN ds, Takes(ds[j], t, k),
               \A l \in DOMAIN ds : l > j => ~Takes(ds[l], t, k)
        PROVE  ds[j].items[k] = newest
    <3>1. CASE j < i
      <4>1. ds[j] = cs[j] /\ j \in DOMAIN cs
        BY <1>2, <3>1
      <4>2. \A l \in DOMAIN cs : l > j => ~Takes(cs[l], t, k)
        <5> SUFFICES ASSUME NEW l \in DOMAIN cs, l > j PROVE ~Takes(cs[l], t, k)
          OBVIOUS
        <5>1. l < i \/ l = i \/ (l > i /\ l - 1 > j)
          BY <1>1, <3>1
        <5> QED BY <1>4, <1>5, <2>1, <2>3, <5>1
      <4> QED BY <2>3, <4>1, <4>2 DEF WillShow
    <3>2. CASE ~(j < i)
      <4>1. ds[j] = cs[j + 1] /\ j + 1 \in DOMAIN cs
        BY <1>3, <3>2
      <4>2. \A l \in DOMAIN cs : l > j + 1 => ~Takes(cs[l], t, k)
        <5> SUFFICES ASSUME NEW l \in DOMAIN cs, l > j + 1 PROVE ~Takes(cs[l], t, k)
          OBVIOUS
        <5>1. l > i /\ l - 1 > j
          BY <1>1, <3>2
        <5> QED BY <1>5, <2>3, <5>1
      <4> QED BY <2>3, <4>1, <4>2 DEF WillShow
    <3> QED BY <3>1, <3>2
  <2>4. WillShow(ds, t, k, now, newest)
    BY <2>2, <2>3 DEF WillShow
  <2> QED BY <1>7, <2>4 DEF ds
<1> QED BY <1>6, <1>7

(***************************************************************************)
(* What the steps do                                                       *)
(***************************************************************************)
Stages == {"none", "accepting", "resync", "receiving", "ended"}

\* TypeOK with the bound of announcements left out: values are natural numbers.
Types ==
    /\ version \in Messages /\ disturbed \subseteq Item
    /\ buffer \in [Process -> Messages] /\ latest \in [Process -> Messages]
    /\ scheduled \in [Process -> SUBSET Events]
    /\ casts \in [Process -> Seq(Sends)] /\ inbox \in [Process -> Seq(Messages)]
    /\ sock \in [Socket -> {"new", "open", "gone"}] /\ handler \in [Socket -> Stages]
    /\ iter \in [Socket -> [known : SUBSET Events, todo : SUBSET Events]]
    /\ active \subseteq Socket /\ view \in [Socket -> Messages]

LEMMA NewerValues ==
  ASSUME NEW old \in Messages, NEW items \in Messages
  PROVE  /\ Newer(old, items) \in Messages
         /\ \A k \in Item : Newer(old, items)[k] = IF items[k] > 0 THEN items[k] ELSE old[k]
BY DEF Newer, Messages

LEMMA OnlyValues ==
  ASSUME NEW items \in Messages, NEW e
  PROVE  /\ Only(items, e) \in Messages
         /\ \A k \in Item : Only(items, e)[k] = IF EventOf[k] = e THEN items[k] ELSE 0
BY DEF Only, Messages

LEMMA NothingValues == Nothing \in Messages /\ \A k \in Item : Nothing[k] = 0
BY DEF Nothing, Messages

LEMMA KnownValues ==
  ASSUME NEW l \in Messages
  PROVE  /\ Known(l) \subseteq Events
         /\ \A k \in Item : EventOf[k] \notin Known(l) => l[k] = 0
BY DEF Known, Events, ItemsOf, Messages

\* The broadcast that Broadcast and Relayed start at process p.
Cast4All(items, to, publish) ==
    [items |-> items, to |-> to, stale |-> {}, publish |-> publish, for |-> Everyone]

\* What a broadcast at process p does there.
Heard(p, items, publish) ==
    /\ latest' = [latest EXCEPT ![p] = Newer(latest[p], items)]
    /\ casts' = IF Here(p) = {} THEN casts
                ELSE [casts EXCEPT ![p] = Append(casts[p], Cast4All(items, Here(p), publish))]

LEMMA BroadcastIsHeard ==
  ASSUME NEW p \in Process, NEW items, NEW publish, Broadcast(p, items, publish)
  PROVE  Heard(p, items, publish)
BY DEF Broadcast, Heard, Cast4All

LEMMA RelayedIsHeard ==
  ASSUME NEW p \in Process, Relayed(p)
  PROVE  Heard(p, Head(inbox[p]), FALSE)
BY DEF Relayed, Heard, Cast4All

LEMMA Cast4AllTyped ==
  ASSUME Types, NEW p \in Process, NEW items \in Messages, NEW publish \in BOOLEAN
  PROVE  /\ Cast4All(items, Here(p), publish) \in Sends
         /\ \A s \in Here(p) : s \in Socket /\ s \in active /\ Home[s] = p
BY DEF Types, Cast4All, Sends, Here

LEMMA HeardTyped ==
  ASSUME Types, NEW p \in Process, NEW items \in Messages, NEW publish \in BOOLEAN,
         Heard(p, items, publish)
  PROVE  latest' \in [Process -> Messages] /\ casts' \in [Process -> Seq(Sends)]
<1>1. latest' \in [Process -> Messages]
  BY NewerValues DEF Types, Heard
<1>2. Append(casts[p], Cast4All(items, Here(p), publish)) \in Seq(Sends)
  BY Cast4AllTyped, Appended DEF Types
<1> QED BY <1>1, <1>2 DEF Types, Heard

LEMMA PublishTyped ==
  ASSUME Types, NEW p \in Process, NEW items \in Messages, Publish(p, items)
  PROVE  inbox' \in [Process -> Seq(Messages)]
<1>1. ASSUME NEW q \in Process PROVE Append(inbox[q], items) \in Seq(Messages)
  BY Appended DEF Types
<1> QED BY <1>1 DEF Types, Publish

\* The rest of a broadcast after one of its sends, and the resync of an event.
Rest(c, s, failed) ==
    [c EXCEPT !.to = c.to \ {s}, !.stale = IF failed THEN c.stale \cup {s} ELSE c.stale]

Resent(p, s, e) ==
    [items |-> Only(latest[p], e), to |-> {s}, stale |-> {}, publish |-> FALSE, for |-> s]

LEMMA RestTyped ==
  ASSUME NEW c \in Sends, NEW s \in Socket, NEW failed \in BOOLEAN
  PROVE  /\ Rest(c, s, failed) \in Sends
         /\ Rest(c, s, failed).items = c.items /\ Rest(c, s, failed).to = c.to \ {s}
         /\ Rest(c, s, failed).publish = c.publish /\ Rest(c, s, failed).for = c.for
         /\ Rest(c, s, failed).stale \subseteq Socket
BY DEF Rest, Sends

LEMMA ResentTyped ==
  ASSUME Types, NEW p \in Process, NEW s \in Socket, NEW e
  PROVE  Resent(p, s, e) \in Sends
BY OnlyValues DEF Types, Resent, Sends

(***************************************************************************)
(* The clients of a process                                                *)
(***************************************************************************)
\* A broadcast goes to sockets of its own process, a resync to one socket and to no
\* other process, and neither sends what the process does not know.
Routed ==
    \A p \in Process : \A i \in DOMAIN casts[p] :
        /\ \A s \in casts[p][i].to : Home[s] = p
        /\ casts[p][i].for # Everyone =>
              /\ Home[casts[p][i].for] = p
              /\ casts[p][i].to \subseteq {casts[p][i].for} /\ ~casts[p][i].publish
        /\ \A k \in Item : casts[p][i].items[k] > 0 => latest[p][k] > 0

\* Nothing is sent to a socket before it is registered.
Untouched ==
    \A s \in Socket : handler[s] \in {"none", "accepting"} =>
        /\ s \notin active /\ view[s] = Nothing /\ iter[s].todo = {}
        /\ \A p \in Process : \A i \in DOMAIN casts[p] :
               s \notin casts[p][i].to /\ casts[p][i].for # s

\* A registered client shows no item that its process does not know.
NotBefore ==
    \A s \in active, k \in Item : view[s][k] > 0 => latest[Home[s]][k] > 0

\* What is under way brings a registered client up to date, but for the events of
\* its resync that are still to send.
Current ==
    \A s \in active, k \in Item :
        sock[s] = "open" /\ EventOf[k] \notin iter[s].todo
            => WillShow(casts[Home[s]], s, k, view[s][k], latest[Home[s]][k])

Clients == Types /\ Routed /\ Untouched /\ NotBefore /\ Current

LEMMA ClientsInit ==
  ASSUME HomesAreProcesses, Init PROVE Clients
<1>1. Types
  BY NothingValues DEF Init, Types, Stages, Events
<1>2. Routed
  BY DEF Init, Routed
<1>3. Untouched
  BY DEF Init, Untouched
<1>4. NotBefore /\ Current
  BY DEF Init, NotBefore, Current
<1> QED BY <1>1, <1>2, <1>3, <1>4 DEF Clients

\* A step that sends nothing and brings no value keeps the invariant.
LEMMA OthersKeepClients ==
  ASSUME Clients, Types', UNCHANGED <<casts, latest, view, iter>>, active' \subseteq active,
         \A s \in Socket : handler'[s] \in {"none", "accepting"}
                               => handler[s] \in {"none", "accepting"},
         \A s \in active : sock'[s] = "open" => sock[s] = "open"
  PROVE  Clients'
<1>1. Routed'
  BY DEF Clients, Routed
<1>2. Untouched'
  BY DEF Clients, Untouched
<1>3. NotBefore' /\ Current'
  BY DEF Clients, NotBefore, Current, Types
<1> QED BY <1>1, <1>2, <1>3 DEF Clients

\* A broadcast reaches every registered socket of the process that starts it.
LEMMA HeardKeepsClients ==
  ASSUME HomesAreProcesses, Clients, Types', NEW p \in Process, NEW items \in Messages,
         NEW publish \in BOOLEAN,
         Heard(p, items, publish), UNCHANGED clients
  PROVE  Clients'
<1> DEFINE c == Cast4All(items, Here(p), publish)
<1>1. /\ c \in Sends /\ c.items = items /\ c.to = Here(p) /\ c.for = Everyone
      /\ \A s \in Here(p) : s \in Socket /\ s \in active /\ Home[s] = p
  BY Cast4AllTyped DEF Clients, Cast4All
<1>2. ASSUME NEW q \in Process, NEW k \in Item
      PROVE  /\ latest'[q][k] = IF q = p /\ items[k] > 0 THEN items[k] ELSE latest[q][k]
             /\ latest[q][k] \in Nat /\ items[k] \in Nat
  <2>1. latest[p] \in Messages /\ latest[q] \in Messages
    BY DEF Clients, Types
  <2>2. latest'[q] = IF q = p THEN Newer(latest[p], items) ELSE latest[q]
    BY DEF Heard, Clients, Types
  <2>3. Newer(latest[p], items)[k] = IF items[k] > 0 THEN items[k] ELSE latest[p][k]
    BY <2>1, NewerValues
  <2>4. latest[q][k] \in Nat /\ items[k] \in Nat
    BY <2>1 DEF Messages
  <2> QED BY <2>2, <2>3, <2>4
<1>3. ASSUME NEW q \in Process
      PROVE  casts'[q] = IF q = p /\ Here(p) # {} THEN Append(casts[p], c) ELSE casts[q]
  BY DEF Heard, Clients, Types
<1>4. casts[p] \in Seq(Sends)
  BY DEF Clients, Types
<1>u. UNCHANGED <<sock, handler, iter, active, view>>
  BY DEF clients
<1> HIDE DEF c
<1>5. ASSUME NEW q \in Process, NEW i \in DOMAIN casts'[q]
      PROVE  \/ i \in DOMAIN casts[q] /\ casts'[q][i] = casts[q][i]
             \/ q = p /\ casts'[q][i] = c
  <2>1. CASE q = p /\ Here(p) # {}
    <3>1. casts'[q] = Append(casts[p], c)
      BY <1>3, <2>1
    <3>2. i \in 1..Len(casts[p]) \/ i = Len(casts[p]) + 1
      BY <1>1, <1>4, <3>1, Appended
    <3> QED BY <1>1, <1>4, <2>1, <3>1, <3>2, Appended
  <2>2. CASE ~(q = p /\ Here(p) # {})
    BY <1>3, <2>2
  <2> QED BY <2>1, <2>2
<1>6. Routed'
  <2> SUFFICES ASSUME NEW q \in Process, NEW i \in DOMAIN casts'[q]
               PROVE  /\ \A s \in casts'[q][i].to : Home[s] = q
                      /\ casts'[q][i].for # Everyone =>
                            /\ Home[casts'[q][i].for] = q
                            /\ casts'[q][i].to \subseteq {casts'[q][i].for}
                            /\ ~casts'[q][i].publish
                      /\ \A k \in Item : casts'[q][i].items[k] > 0 => latest'[q][k] > 0
    BY DEF Routed
  <2>1. CASE i \in DOMAIN casts[q] /\ casts'[q][i] = casts[q][i]
    <3>1. \A k \in Item : latest[q][k] > 0 => latest'[q][k] > 0
      BY <1>2
    <3> QED BY <2>1, <3>1 DEF Clients, Routed
  <2>2. CASE q = p /\ casts'[q][i] = c
    BY <1>1, <1>2, <2>2
  <2> QED BY <1>5, <2>1, <2>2
<1>7. Untouched'
  <2> SUFFICES ASSUME NEW s \in Socket, handler[s] \in {"none", "accepting"}
               PROVE  /\ s \notin active /\ view[s] = Nothing /\ iter[s].todo = {}
                      /\ \A q \in Process : \A i \in DOMAIN casts'[q] :
                             s \notin casts'[q][i].to /\ casts'[q][i].for # s
    BY <1>u DEF Untouched
  <2>1. /\ s \notin active /\ view[s] = Nothing /\ iter[s].todo = {}
        /\ \A q \in Process : \A i \in DOMAIN casts[q] :
               s \notin casts[q][i].to /\ casts[q][i].for # s
    BY DEF Clients, Untouched
  <2>2. s \notin c.to /\ c.for # s
    BY <1>1, <2>1 DEF HomesAreProcesses
  <2> QED BY <1>5, <2>1, <2>2
<1>8. NotBefore'
  <2> SUFFICES ASSUME NEW s \in active, NEW k \in Item, view[s][k] > 0
               PROVE  latest'[Home[s]][k] > 0
    BY <1>u DEF NotBefore
  <2>1. Home[s] \in Process /\ latest[Home[s]][k] > 0
    BY DEF Clients, NotBefore, Types, HomesAreProcesses
  <2> QED BY <1>2, <2>1
<1>9. Current'
  <2> SUFFICES ASSUME NEW s \in active, NEW k \in Item,
                      sock[s] = "open", EventOf[k] \notin iter[s].todo
               PROVE  WillShow(casts'[Home[s]], s, k, view[s][k], latest'[Home[s]][k])
    BY <1>u DEF Current
  <2>1. Home[s] \in Process /\ s \in Socket
    BY DEF Clients, Types, HomesAreProcesses
  <2>2. WillShow(casts[Home[s]], s, k, view[s][k], latest[Home[s]][k])
    BY DEF Clients, Current
  <2>3. CASE Home[s] = p
    <3>1. s \in c.to /\ casts'[Home[s]] = Append(casts[p], c)
      BY <1>1, <1>3, <2>3 DEF Here
    <3>2. CASE items[k] > 0
      <4>1. Takes(c, s, k) /\ latest'[Home[s]][k] = c.items[k]
        BY <1>1, <1>2, <2>3, <3>1, <3>2 DEF Takes
      <4> QED BY <1>1, <1>4, <2>1, <3>1, <4>1, StartedLast
    <3>3. CASE ~(items[k] > 0)
      <4>1. ~Takes(c, s, k) /\ latest'[Home[s]][k] = latest[Home[s]][k]
        BY <1>1, <1>2, <2>3, <3>3 DEF Takes
      <4> QED BY <1>1, <1>4, <2>1, <2>2, <2>3, <3>1, <4>1, StartedOther
    <3> QED BY <3>2, <3>3
  <2>4. CASE Home[s] # p
    BY <1>2, <1>3, <2>1, <2>2, <2>4
  <2> QED BY <2>3, <2>4
<1> QED BY <1>6, <1>7, <1>8, <1>9 DEF Clients

\* The outcomes of a send: the broadcast has more to send; it was the last of a
\* broadcast to all; it was a resync, which ends, fails, or goes on with event e.
SentMore(p, i, s, failed) ==
    /\ Rest(casts[p][i], s, failed).to # {}
    /\ casts' = [casts EXCEPT ![p] = [casts[p] EXCEPT ![i] = Rest(casts[p][i], s, failed)]]
    /\ UNCHANGED <<sock, handler, iter, active, inbox, disturbed>>

Forgotten(p, i, s) ==
    casts[p][i].to \ {s} = {} /\ casts' = [casts EXCEPT ![p] = RemoveAt(casts[p], i)]

SentToAll(p, i, s) ==
    /\ Forgotten(p, i, s) /\ casts[p][i].for = Everyone
    /\ active' \subseteq active /\ UNCHANGED <<sock, handler, iter>>
    /\ IF casts[p][i].publish
       THEN /\ Publish(p, casts[p][i].items)
            /\ disturbed' = disturbed \cup Lost(p, casts[p][i].items)
       ELSE UNCHANGED <<inbox, disturbed>>

ResyncEnds(p, i, s) ==
    /\ Forgotten(p, i, s) /\ casts[p][i].for = s
    /\ handler' = [handler EXCEPT ![s] = "receiving"]
    /\ UNCHANGED <<sock, iter, active, inbox, disturbed>>

ResyncRaises(p, i, s) ==
    /\ Forgotten(p, i, s) /\ casts[p][i].for = s
    /\ handler' = [handler EXCEPT ![s] = "ended"] /\ sock' = [sock EXCEPT ![s] = "gone"]
    /\ UNCHANGED <<iter, active, inbox, disturbed>>

ResyncGoesOn(p, i, s, e) ==
    /\ casts[p][i].to \ {s} = {} /\ casts[p][i].for = s
    /\ casts' = [casts EXCEPT ![p] = Append(RemoveAt(casts[p], i), Resent(p, s, e))]
    /\ iter' = [iter EXCEPT ![s] = [known |-> iter[s].known, todo |-> iter[s].todo \ {e}]]
    /\ e \in iter[s].todo
    /\ handler' = [handler EXCEPT ![s] = "resync"]
    /\ UNCHANGED <<sock, active, inbox, disturbed>>

LEMMA SentCases ==
  ASSUME HomesAreProcesses, Types, Routed,
         NEW p \in Process, NEW i \in DOMAIN casts[p], NEW s \in Socket, NEW failed \in BOOLEAN,
         Sent(p, i, s, failed)
  PROVE  /\ casts[p][i] \in Sends /\ s \in casts[p][i].to /\ Home[s] = p
         /\ \A j \in 1..(i - 1) : s \notin casts[p][j].to
         /\ view' = IF sock[s] = "open"
                    THEN [view EXCEPT ![s] = Newer(view[s], casts[p][i].items)] ELSE view
         /\ UNCHANGED <<version, buffer, scheduled, latest, redis, subscribed>>
         /\ \/ SentMore(p, i, s, failed) \/ SentToAll(p, i, s)
            \/ ResyncEnds(p, i, s) \/ ResyncRaises(p, i, s)
            \/ \E e \in Events : ResyncGoesOn(p, i, s, e)
<1> DEFINE c == [casts[p][i] EXCEPT !.to = @ \ {s},
                                    !.stale = IF failed THEN @ \cup {s} ELSE @]
<1>1. casts[p][i] \in Sends
  BY Typed DEF Types
<1>2. c = Rest(casts[p][i], s, failed)
  BY <1>1 DEF Rest, Sends
<1>3. /\ s \in casts[p][i].to /\ \A j \in 1..(i - 1) : s \notin casts[p][j].to
      /\ view' = IF sock[s] = "open" THEN [view EXCEPT ![s] = Newer(@, c.items)] ELSE view
      /\ IF c.to = {} THEN Finish(p, i, c)
         ELSE /\ casts' = [casts EXCEPT ![p][i] = c]
              /\ UNCHANGED <<sock, handler, iter, active, tracked, inbox, disturbed>>
      /\ UNCHANGED <<version, buffer, scheduled, latest, redis, subscribed>>
  BY DEF Sent, hub
<1>4. /\ c \in Sends /\ c.items = casts[p][i].items /\ c.to = casts[p][i].to \ {s}
      /\ c.publish = casts[p][i].publish /\ c.for = casts[p][i].for
  BY <1>1, <1>2, RestTyped
<1> HIDE DEF c
<1>5. Home[s] = p
  BY <1>3 DEF Routed
<1>6. CASE c.to # {}
  <2>1. [casts EXCEPT ![p][i] = c] = [casts EXCEPT ![p] = [casts[p] EXCEPT ![i] = c]]
    OBVIOUS
  <2> QED BY <1>1, <1>2, <1>3, <1>4, <1>5, <1>6, <2>1 DEF SentMore
<1>7. CASE c.to = {} /\ c.for = Everyone
  <2>1. SentToAll(p, i, s)
    BY <1>3, <1>4, <1>7 DEF SentToAll, Forgotten, Finish
  <2> QED BY <1>1, <1>3, <1>4, <1>5, <2>1
<1>8. CASE c.to = {} /\ c.for # Everyone
  <2>1. casts[p][i].for = s /\ casts[p][i].to \ {s} = {}
    BY <1>3, <1>4, <1>8 DEF Routed
  <2>2. /\ IF c.stale = {}
           THEN Resync(s, RemoveAt(casts[p], i), iter[s].known, iter[s].todo)
           ELSE /\ casts' = [casts EXCEPT ![p] = RemoveAt(casts[p], i)]
                /\ handler' = [handler EXCEPT ![s] = "receiving"]
                /\ UNCHANGED <<sock, iter>>
        /\ UNCHANGED <<active, inbox, disturbed>>
    BY <1>3, <1>4, <1>8, <2>1 DEF Finish
  <2>3. CASE c.stale # {}
    <3>1. ResyncEnds(p, i, s)
      BY <2>1, <2>2, <2>3 DEF ResyncEnds, Forgotten
    <3> QED BY <1>1, <1>3, <1>4, <1>5, <3>1
  <2>4. CASE c.stale = {}
    <3>1. Resync(s, RemoveAt(casts[p], i), iter[s].known, iter[s].todo)
      BY <2>2, <2>4
    <3>2. \/ ResyncEnds(p, i, s) \/ ResyncRaises(p, i, s)
          \/ \E e \in iter[s].todo : ResyncGoesOn(p, i, s, e)
      BY <1>5, <2>1, <2>2, <3>1
         DEF Resync, ResyncEnds, ResyncRaises, ResyncGoesOn, Forgotten, Resent
    <3>3. iter[s].todo \subseteq Events
      BY DEF Types
    <3> QED BY <1>1, <1>3, <1>4, <1>5, <3>2, <3>3
  <2> QED BY <2>3, <2>4
<1> QED BY <1>6, <1>7, <1>8

\* Whatever is under way after a step was under way before it, or is a resync of s.
LEMMA RoutedKept ==
  ASSUME HomesAreProcesses, Clients, UNCHANGED latest, NEW s \in Socket,
         \A q \in Process : \A j \in DOMAIN casts'[q] :
             \/ \E l \in DOMAIN casts[q] :
                    /\ casts'[q][j].items = casts[q][l].items
                    /\ casts'[q][j].for = casts[q][l].for
                    /\ casts'[q][j].publish = casts[q][l].publish
                    /\ casts'[q][j].to \subseteq casts[q][l].to
             \/ /\ q = Home[s] /\ casts'[q][j].to = {s} /\ casts'[q][j].for = s
                /\ casts'[q][j].publish = FALSE
                /\ \A k \in Item : casts'[q][j].items[k] > 0 => latest[q][k] > 0,
         \A t \in Socket : handler'[t] \in {"none", "accepting"} =>
             /\ t # s /\ handler[t] \in {"none", "accepting"}
             /\ t \in active' => t \in active
             /\ view'[t] = view[t] /\ iter'[t].todo = iter[t].todo
  PROVE  Routed' /\ Untouched'
<1>1. Routed'
  <2> SUFFICES ASSUME NEW q \in Process, NEW j \in DOMAIN casts'[q]
               PROVE  /\ \A t \in casts'[q][j].to : Home[t] = q
                      /\ casts'[q][j].for # Everyone =>
                            /\ Home[casts'[q][j].for] = q
                            /\ casts'[q][j].to \subseteq {casts'[q][j].for}
                            /\ ~casts'[q][j].publish
                      /\ \A k \in Item : casts'[q][j].items[k] > 0 => latest'[q][k] > 0
    BY DEF Routed
  <2>1. CASE \E l \in DOMAIN casts[q] :
                    /\ casts'[q][j].items = casts[q][l].items
                    /\ casts'[q][j].for = casts[q][l].for
                    /\ casts'[q][j].publish = casts[q][l].publish
                    /\ casts'[q][j].to \subseteq casts[q][l].to
    <3> PICK l \in DOMAIN casts[q] :
                    /\ casts'[q][j].items = casts[q][l].items
                    /\ casts'[q][j].for = casts[q][l].for
                    /\ casts'[q][j].publish = casts[q][l].publish
                    /\ casts'[q][j].to \subseteq casts[q][l].to
      BY <2>1
    <3>1. /\ \A t \in casts[q][l].to : Home[t] = q
          /\ casts[q][l].for # Everyone =>
                /\ Home[casts[q][l].for] = q
                /\ casts[q][l].to \subseteq {casts[q][l].for} /\ ~casts[q][l].publish
          /\ \A k \in Item : casts[q][l].items[k] > 0 => latest[q][k] > 0
      BY DEF Clients, Routed
    <3> QED BY <3>1
  <2>2. CASE /\ q = Home[s] /\ casts'[q][j].to = {s} /\ casts'[q][j].for = s
             /\ casts'[q][j].publish = FALSE
             /\ \A k \in Item : casts'[q][j].items[k] > 0 => latest[q][k] > 0
    BY <2>2
  <2> QED BY <2>1, <2>2
<1>2. Untouched'
  <2> SUFFICES ASSUME NEW t \in Socket, handler'[t] \in {"none", "accepting"}
               PROVE  /\ t \notin active' /\ view'[t] = Nothing /\ iter'[t].todo = {}
                      /\ \A q \in Process : \A j \in DOMAIN casts'[q] :
                             t \notin casts'[q][j].to /\ casts'[q][j].for # t
    BY DEF Untouched, Nothing
  <2>1. /\ t # s /\ t \notin active /\ view[t] = Nothing /\ iter[t].todo = {}
        /\ \A q \in Process : \A j \in DOMAIN casts[q] :
               t \notin casts[q][j].to /\ casts[q][j].for # t
    BY DEF Clients, Untouched
  <2>2. ASSUME NEW q \in Process, NEW j \in DOMAIN casts'[q]
        PROVE  t \notin casts'[q][j].to /\ casts'[q][j].for # t
    <3>1. \/ \E l \in DOMAIN casts[q] : /\ casts'[q][j].for = casts[q][l].for
                                        /\ casts'[q][j].to \subseteq casts[q][l].to
          \/ casts'[q][j].to = {s} /\ casts'[q][j].for = s
      OBVIOUS
    <3> QED BY <2>1, <3>1
  <2> QED BY <2>1, <2>2
<1> QED BY <1>1, <1>2

\* Of the broadcasts under way at p, a send changes one, and may add a resync.
LEMMA SentUnderWay ==
  ASSUME HomesAreProcesses, Types, Routed,
         NEW p \in Process, NEW i \in DOMAIN casts[p], NEW s \in Socket, NEW failed \in BOOLEAN,
         Sent(p, i, s, failed)
  PROVE  /\ casts' \in [Process -> Seq(Sends)]
         /\ \A q \in Process : q # p => casts'[q] = casts[q]
         /\ \A q \in Process : \A j \in DOMAIN casts'[q] :
             \/ \E l \in DOMAIN casts[q] :
                    /\ casts'[q][j].items = casts[q][l].items
                    /\ casts'[q][j].for = casts[q][l].for
                    /\ casts'[q][j].publish = casts[q][l].publish
                    /\ casts'[q][j].to \subseteq casts[q][l].to
             \/ /\ q = Home[s] /\ casts'[q][j].to = {s} /\ casts'[q][j].for = s
                /\ casts'[q][j].publish = FALSE
                /\ \A k \in Item : casts'[q][j].items[k] > 0 => latest[q][k] > 0
<1> DEFINE cs == casts[p]
           c == Rest(casts[p][i], s, failed)
           From(d, q) == \E l \in DOMAIN casts[q] :
                             /\ d.items = casts[q][l].items
                             /\ d.for = casts[q][l].for
                             /\ d.publish = casts[q][l].publish
                             /\ d.to \subseteq casts[q][l].to
           Fresh(d, q) == /\ q = Home[s] /\ d.to = {s} /\ d.for = s /\ d.publish = FALSE
                          /\ \A k \in Item : d.items[k] > 0 => latest[q][k] > 0
<1>1. cs \in Seq(Sends) /\ cs[i] \in Sends /\ Home[s] = p /\ latest[p] \in Messages
  BY SentCases DEF Types
<1>2. \/ SentMore(p, i, s, failed) \/ Forgotten(p, i, s)
      \/ \E e \in Events : ResyncGoesOn(p, i, s, e)
  BY SentCases DEF SentToAll, ResyncEnds, ResyncRaises
<1>3. ASSUME NEW q \in Process, NEW l \in DOMAIN casts[q] PROVE From(casts[q][l], q)
  OBVIOUS
<1>4. RemoveAt(cs, i) \in Seq(Sends)
      /\ \A j \in DOMAIN RemoveAt(cs, i) : From(RemoveAt(cs, i)[j], p)
  <2>1. RemoveAt(cs, i) \in Seq(Sends)
    BY <1>1, Removed
  <2>2. ASSUME NEW j \in DOMAIN RemoveAt(cs, i)
        PROVE  \E l \in DOMAIN cs : RemoveAt(cs, i)[j] = cs[l]
    <3> DEFINE ds == RemoveAt(cs, i)
    <3>1. /\ Len(cs) \in Nat /\ DOMAIN cs = 1..Len(cs) /\ i \in 1..Len(cs)
          /\ DOMAIN ds = 1..(Len(cs) - 1)
          /\ \A m \in 1..(Len(cs) - 1) : ds[m] = IF m < i THEN cs[m] ELSE cs[m + 1]
      BY <1>1, Removed
    <3> HIDE DEF ds, cs
    <3>2. j \in DOMAIN ds
      BY DEF ds
    <3>3. ds[j] = (IF j < i THEN cs[j] ELSE cs[j + 1]) /\ j \in DOMAIN cs /\ j + 1 \in DOMAIN cs
      BY <3>1, <3>2
    <3>4. \E l \in DOMAIN cs : ds[j] = cs[l]
      BY <3>3
    <3> QED BY <3>4 DEF ds
  <2>3. ASSUME NEW j \in DOMAIN RemoveAt(cs, i) PROVE From(RemoveAt(cs, i)[j], p)
    <3> PICK l \in DOMAIN cs : RemoveAt(cs, i)[j] = cs[l]
      BY <2>2
    <3> QED BY <1>3
  <2> QED BY <2>1, <2>3
<1>5. ASSUME NEW ds \in Seq(Sends), casts' = [casts EXCEPT ![p] = ds],
             \A j \in DOMAIN ds : From(ds[j], p) \/ Fresh(ds[j], p)
      PROVE  /\ casts' \in [Process -> Seq(Sends)]
             /\ \A q \in Process : q # p => casts'[q] = casts[q]
             /\ \A q \in Process : \A j \in DOMAIN casts'[q] :
                    From(casts'[q][j], q) \/ Fresh(casts'[q][j], q)
  <2>1. casts' \in [Process -> Seq(Sends)] /\ casts'[p] = ds
        /\ \A q \in Process : q # p => casts'[q] = casts[q]
    BY <1>5 DEF Types
  <2>2. ASSUME NEW q \in Process, NEW j \in DOMAIN casts'[q]
        PROVE  From(casts'[q][j], q) \/ Fresh(casts'[q][j], q)
    <3>1. CASE q = p
      <4>1. j \in DOMAIN ds /\ casts'[q][j] = ds[j]
        BY <2>1, <3>1
      <4> HIDE DEF From, Fresh
      <4> QED BY <1>5, <3>1, <4>1
    <3>2. CASE q # p
      <4>1. j \in DOMAIN casts[q] /\ casts'[q][j] = casts[q][j]
        BY <2>1, <3>2
      <4> QED BY <4>1
    <3> QED BY <3>1, <3>2
  <2> QED BY <2>1, <2>2
<1>6. CASE SentMore(p, i, s, failed)
  <2>1. c \in Sends /\ From(c, p)
    BY <1>1, RestTyped
  <2>2. /\ [cs EXCEPT ![i] = c] \in Seq(Sends) /\ DOMAIN [cs EXCEPT ![i] = c] = DOMAIN cs
        /\ \A j \in DOMAIN cs : [cs EXCEPT ![i] = c][j] = IF j = i THEN c ELSE cs[j]
    BY <1>1, <2>1, Replaced
  <2>3. \A j \in DOMAIN [cs EXCEPT ![i] = c] : From([cs EXCEPT ![i] = c][j], p)
    <3> HIDE DEF From, c
    <3> QED BY <1>3, <2>1, <2>2
  <2>4. casts' = [casts EXCEPT ![p] = [cs EXCEPT ![i] = c]]
    BY <1>6 DEF SentMore
  <2> HIDE DEF From, Fresh, c
  <2>5. /\ casts' \in [Process -> Seq(Sends)]
        /\ \A q \in Process : q # p => casts'[q] = casts[q]
        /\ \A q \in Process : \A j \in DOMAIN casts'[q] :
               From(casts'[q][j], q) \/ Fresh(casts'[q][j], q)
    BY <1>5, <2>2, <2>3, <2>4
  <2> QED BY <2>5 DEF From, Fresh
<1>7. CASE Forgotten(p, i, s)
  <2>1. casts' = [casts EXCEPT ![p] = RemoveAt(cs, i)]
    BY <1>7 DEF Forgotten
  <2> HIDE DEF From, Fresh
  <2>2. /\ casts' \in [Process -> Seq(Sends)]
        /\ \A q \in Process : q # p => casts'[q] = casts[q]
        /\ \A q \in Process : \A j \in DOMAIN casts'[q] :
               From(casts'[q][j], q) \/ Fresh(casts'[q][j], q)
    BY <1>4, <1>5, <2>1
  <2> QED BY <2>2 DEF From, Fresh
<1>8. CASE \E e \in Events : ResyncGoesOn(p, i, s, e)
  <2> PICK e \in Events : ResyncGoesOn(p, i, s, e)
    BY <1>8
  <2> DEFINE r == Resent(p, s, e)
             ds == Append(RemoveAt(cs, i), r)
  <2>1. r \in Sends /\ Fresh(r, p)
    <3>1. r \in Sends
      BY ResentTyped
    <3>2. /\ r.to = {s} /\ r.for = s /\ r.publish = FALSE
          /\ r.items = Only(latest[p], e)
      BY DEF Resent
    <3>3. \A k \in Item : r.items[k] > 0 => latest[p][k] > 0
      BY <1>1, <3>2, OnlyValues
    <3> QED BY <1>1, <3>1, <3>2, <3>3
  <2>2. casts' = [casts EXCEPT ![p] = ds]
    BY DEF ResyncGoesOn
  <2> HIDE DEF From, Fresh, r
  <2>3. /\ ds \in Seq(Sends)
        /\ \A j \in DOMAIN ds : \/ j \in DOMAIN RemoveAt(cs, i) /\ ds[j] = RemoveAt(cs, i)[j]
                                \/ ds[j] = r
    <3> DEFINE bs == RemoveAt(cs, i)
    <3>1. bs \in Seq(Sends)
      BY <1>4
    <3> HIDE DEF bs
    <3>2. /\ Append(bs, r) \in Seq(Sends)
          /\ \A j \in DOMAIN Append(bs, r) : \/ j \in DOMAIN bs /\ Append(bs, r)[j] = bs[j]
                                             \/ Append(bs, r)[j] = r
      BY <2>1, <3>1, Appended
    <3> QED BY <3>2 DEF bs
  <2>4. \A j \in DOMAIN ds : From(ds[j], p) \/ Fresh(ds[j], p)
    <3> HIDE DEF ds
    <3> QED BY <1>4, <2>1, <2>3
  <2>5. /\ casts' \in [Process -> Seq(Sends)]
        /\ \A q \in Process : q # p => casts'[q] = casts[q]
        /\ \A q \in Process : \A j \in DOMAIN casts'[q] :
               From(casts'[q][j], q) \/ Fresh(casts'[q][j], q)
    <3> HIDE DEF ds
    <3> QED BY <1>5, <2>2, <2>3, <2>4
  <2> QED BY <2>5 DEF From, Fresh
<1> QED BY <1>2, <1>6, <1>7, <1>8

\* What a send does to what the sockets of its process will show.
LEMMA SentShows ==
  ASSUME HomesAreProcesses, Clients,
         NEW p \in Process, NEW i \in DOMAIN casts[p], NEW s \in Socket, NEW failed \in BOOLEAN,
         Sent(p, i, s, failed),
         NEW t \in Socket, t \in active', Home[t] = p, sock'[t] = "open", NEW k \in Item,
         EventOf[k] \notin iter'[t].todo
  PROVE  WillShow(casts'[p], t, k, view'[t][k], latest[p][k])
<1> DEFINE cs == casts[p]
           c == Rest(casts[p][i], s, failed)
           now == IF t = s /\ cs[i].items[k] > 0 THEN cs[i].items[k] ELSE view[t][k]
<1>1. /\ cs \in Seq(Sends) /\ cs[i] \in Sends /\ s \in cs[i].to /\ Home[s] = p
      /\ \A j \in 1..(i - 1) : s \notin cs[j].to
      /\ latest[p] \in Messages /\ view[t] \in Messages /\ cs[i].items \in Messages
  <2>1. /\ cs[i] \in Sends /\ s \in cs[i].to /\ Home[s] = p
        /\ \A j \in 1..(i - 1) : s \notin cs[j].to
    BY SentCases DEF Clients
  <2> QED BY <2>1 DEF Clients, Types, Sends
<1>2. /\ \/ SentMore(p, i, s, failed) \/ SentToAll(p, i, s)
         \/ ResyncEnds(p, i, s) \/ ResyncRaises(p, i, s)
         \/ \E e \in Events : ResyncGoesOn(p, i, s, e)
      /\ view' = IF sock[s] = "open"
                 THEN [view EXCEPT ![s] = Newer(view[s], cs[i].items)] ELSE view
  BY SentCases DEF Clients
<1>3. t \in active /\ sock[t] = "open"
  BY <1>2 DEF SentMore, SentToAll, ResyncEnds, ResyncRaises, ResyncGoesOn, Clients, Types
<1>4. view'[t][k] = now
  <2>1. CASE t = s
    <3>1. view'[t] = Newer(view[t], cs[i].items)
      BY <1>2, <1>3, <2>1 DEF Clients, Types
    <3> QED BY <1>1, <2>1, <3>1, NewerValues
  <2>2. CASE t # s
    BY <1>2, <2>2 DEF Clients, Types
  <2> QED BY <2>1, <2>2
<1> HIDE DEF now
<1>5. SUFFICES WillShow(casts'[p], t, k, now, latest[p][k])
  BY <1>4
<1>6. EventOf[k] \notin iter[t].todo => WillShow(cs, t, k, view[t][k], latest[p][k])
  BY <1>3 DEF Clients, Current
<1>7. CASE SentMore(p, i, s, failed)
  <2>1. c \in Sends /\ c.items = cs[i].items /\ c.to = cs[i].to \ {s}
    BY <1>1, RestTyped
  <2>2. casts'[p] = [cs EXCEPT ![i] = c] /\ iter' = iter
    BY <1>7 DEF SentMore, Clients, Types
  <2> HIDE DEF c
  <2> QED BY <1>1, <1>6, <2>1, <2>2, SentFirst DEF now
<1>8. CASE Forgotten(p, i, s) /\ iter' = iter
  <2>1. casts'[p] = RemoveAt(cs, i) /\ cs[i].to \ {s} = {}
    BY <1>8 DEF Forgotten, Clients, Types
  <2> QED BY <1>1, <1>6, <1>8, <2>1, SentLast DEF now
<1>9. CASE \E e \in Events : ResyncGoesOn(p, i, s, e)
  <2> PICK e \in Events : ResyncGoesOn(p, i, s, e)
    BY <1>9
  <2> DEFINE r == Resent(p, s, e)
             bs == RemoveAt(cs, i)
  <2>1. r \in Sends /\ r.to = {s} /\ r.items = Only(latest[p], e)
    BY ResentTyped DEF Clients, Resent
  <2>2. bs \in Seq(Sends)
    BY <1>1, Removed
  <2>3. casts'[p] = Append(bs, r) /\ cs[i].to \ {s} = {} /\ e \in iter[s].todo
    BY DEF ResyncGoesOn, Clients, Types
  <2>4. iter'[t].todo = IF t = s THEN iter[s].todo \ {e} ELSE iter[t].todo
    BY DEF ResyncGoesOn, Clients, Types
  <2>5. r.items[k] = IF EventOf[k] = e THEN latest[p][k] ELSE 0
    BY <1>1, <2>1, OnlyValues
  <2>6. latest[p][k] \in Nat
    BY <1>1 DEF Messages
  <2> HIDE DEF r, bs
  <2>7. CASE t = s /\ EventOf[k] = e
    <3>1. CASE latest[p][k] > 0
      <4>1. Takes(r, t, k) /\ r.items[k] = latest[p][k]
        BY <2>1, <2>5, <2>7, <3>1 DEF Takes
      <4> QED BY <2>1, <2>2, <2>3, <4>1, StartedLast
    <3>2. CASE latest[p][k] = 0
      <4>1. ~(view[t][k] > 0) /\ ~(cs[i].items[k] > 0)
        BY <1>3, <3>2 DEF Clients, NotBefore, Routed
      <4>2. now = latest[p][k]
        BY <1>1, <3>2, <4>1 DEF now, Messages
      <4>3. \A j \in DOMAIN casts'[p] : ~Takes(casts'[p][j], t, k)
        <5> SUFFICES ASSUME NEW j \in DOMAIN casts'[p]
                     PROVE  ~(casts'[p][j].items[k] > 0)
          BY DEF Takes
        <5>0. \A q \in Process : \A m \in DOMAIN casts'[q] :
                 \/ \E l \in DOMAIN casts[q] :
                        /\ casts'[q][m].items = casts[q][l].items
                        /\ casts'[q][m].for = casts[q][l].for
                        /\ casts'[q][m].publish = casts[q][l].publish
                        /\ casts'[q][m].to \subseteq casts[q][l].to
                 \/ /\ q = Home[s] /\ casts'[q][m].to = {s} /\ casts'[q][m].for = s
                    /\ casts'[q][m].publish = FALSE
                    /\ \A n \in Item : casts'[q][m].items[n] > 0 => latest[q][n] > 0
          BY SentUnderWay DEF Clients
        <5>1. \/ \E l \in DOMAIN casts[p] : casts'[p][j].items = casts[p][l].items
              \/ \A m \in Item : casts'[p][j].items[m] > 0 => latest[p][m] > 0
          BY <5>0
        <5>2. \A l \in DOMAIN casts[p] : ~(casts[p][l].items[k] > 0)
          BY <3>2 DEF Clients, Routed
        <5> QED BY <3>2, <5>1, <5>2
      <4> QED BY <4>2, <4>3 DEF WillShow
    <3> QED BY <2>6, <3>1, <3>2
  <2>8. CASE ~(t = s /\ EventOf[k] = e)
    <3>1. WillShow(cs, t, k, view[t][k], latest[p][k])
      BY <1>6, <2>4, <2>8
    <3>2. WillShow(bs, t, k, now, latest[p][k])
      BY <1>1, <2>3, <3>1, SentLast DEF now, bs
    <3>3. ~Takes(r, t, k)
      BY <2>1, <2>5, <2>8 DEF Takes
    <3> QED BY <2>1, <2>2, <2>3, <3>2, <3>3, StartedOther
  <2> QED BY <2>7, <2>8
<1> QED BY <1>2, <1>7, <1>8, <1>9 DEF SentToAll, ResyncEnds, ResyncRaises

LEMMA SentKeepsClients ==
  ASSUME HomesAreProcesses, Clients, Types',
         NEW p \in Process, NEW i \in DOMAIN casts[p], NEW s \in Socket, NEW failed \in BOOLEAN,
         Sent(p, i, s, failed)
  PROVE  Clients'
<1>1. /\ casts[p][i] \in Sends /\ s \in casts[p][i].to /\ Home[s] = p
      /\ view' = IF sock[s] = "open"
                 THEN [view EXCEPT ![s] = Newer(view[s], casts[p][i].items)] ELSE view
      /\ UNCHANGED latest
      /\ \/ SentMore(p, i, s, failed) \/ SentToAll(p, i, s)
         \/ ResyncEnds(p, i, s) \/ ResyncRaises(p, i, s)
         \/ \E e \in Events : ResyncGoesOn(p, i, s, e)
  BY SentCases DEF Clients
<1>2. active' \subseteq active
  BY <1>1 DEF SentMore, SentToAll, ResyncEnds, ResyncRaises, ResyncGoesOn
<1>3. ASSUME NEW t \in Socket, t # s
      PROVE  handler'[t] = handler[t] /\ sock'[t] = sock[t] /\ view'[t] = view[t]
             /\ iter'[t] = iter[t]
  BY <1>1, <1>3 DEF SentMore, SentToAll, ResyncEnds, ResyncRaises, ResyncGoesOn, Clients, Types
<1>4. handler'[s] \notin {"none", "accepting"}
  <2>1. handler[s] \notin {"none", "accepting"}
    BY <1>1 DEF Clients, Untouched
  <2> QED BY <1>1, <2>1
       DEF SentMore, SentToAll, ResyncEnds, ResyncRaises, ResyncGoesOn, Clients, Types
<1>5. Routed' /\ Untouched'
  <2>1. \A t \in Socket : handler'[t] \in {"none", "accepting"} =>
             /\ t # s /\ handler[t] \in {"none", "accepting"}
             /\ t \in active' => t \in active
             /\ view'[t] = view[t] /\ iter'[t].todo = iter[t].todo
    BY <1>2, <1>3, <1>4
  <2>2. \A q \in Process : \A j \in DOMAIN casts'[q] :
             \/ \E l \in DOMAIN casts[q] :
                    /\ casts'[q][j].items = casts[q][l].items
                    /\ casts'[q][j].for = casts[q][l].for
                    /\ casts'[q][j].publish = casts[q][l].publish
                    /\ casts'[q][j].to \subseteq casts[q][l].to
             \/ /\ q = Home[s] /\ casts'[q][j].to = {s} /\ casts'[q][j].for = s
                /\ casts'[q][j].publish = FALSE
                /\ \A k \in Item : casts'[q][j].items[k] > 0 => latest[q][k] > 0
    BY SentUnderWay DEF Clients
  <2> QED BY <1>1, <2>1, <2>2, RoutedKept
<1>6. NotBefore'
  <2> SUFFICES ASSUME NEW t \in active, NEW k \in Item, view'[t][k] > 0
               PROVE  latest[Home[t]][k] > 0
    BY <1>1, <1>2 DEF NotBefore
  <2>1. t \in Socket /\ (view[t][k] > 0 => latest[Home[t]][k] > 0)
    BY DEF Clients, NotBefore, Types
  <2>2. CASE t = s /\ sock[s] = "open"
    <3>1. view'[t] = Newer(view[t], casts[p][i].items)
          /\ view[t] \in Messages /\ casts[p][i].items \in Messages
      BY <1>1, <2>2 DEF Clients, Types, Sends
    <3>2. casts[p][i].items[k] > 0 \/ view[t][k] > 0
      BY <3>1, NewerValues
    <3>3. casts[p][i].items[k] > 0 => latest[p][k] > 0
      BY DEF Clients, Routed
    <3> QED BY <1>1, <2>1, <2>2, <3>2, <3>3
  <2>3. CASE ~(t = s /\ sock[s] = "open")
    BY <1>1, <1>3, <2>1, <2>3
  <2> QED BY <2>2, <2>3
<1>7. \A q \in Process : q # p => casts'[q] = casts[q]
  BY <1>1 DEF SentMore, SentToAll, ResyncEnds, ResyncRaises, ResyncGoesOn, Forgotten, Clients, Types
<1>8. Current'
  <2> SUFFICES ASSUME NEW t \in active', NEW k \in Item,
                      sock'[t] = "open", EventOf[k] \notin iter'[t].todo
               PROVE  WillShow(casts'[Home[t]], t, k, view'[t][k], latest[Home[t]][k])
    BY <1>1 DEF Current
  <2>1. t \in Socket /\ t \in active /\ Home[t] \in Process
    BY <1>2 DEF Clients, Types, HomesAreProcesses
  <2>2. CASE Home[t] = p
    BY <2>1, <2>2, SentShows
  <2>3. CASE Home[t] # p
    <3>1. t # s /\ casts'[Home[t]] = casts[Home[t]]
      BY <1>1, <1>7, <2>1, <2>3
    <3>2. sock[t] = "open" /\ iter'[t] = iter[t] /\ view'[t] = view[t]
      BY <1>3, <2>1, <3>1
    <3> QED BY <2>1, <3>1, <3>2 DEF Clients, Current
  <2> QED BY <2>2, <2>3
<1> QED BY <1>5, <1>6, <1>8 DEF Clients

\* A connection is registered and its resync starts, in one step.
AcceptedAlone(s) ==
    /\ Known(latest[Home[s]]) = {}
    /\ handler' = [handler EXCEPT ![s] = "receiving"]
    /\ casts' = [casts EXCEPT ![Home[s]] = casts[Home[s]]] /\ UNCHANGED iter

AcceptedWith(s, e) ==
    LET known == Known(latest[Home[s]])
    IN /\ e \in known
       /\ iter' = [iter EXCEPT ![s] = [known |-> known, todo |-> known \ {e}]]
       /\ casts' = [casts EXCEPT ![Home[s]] = Append(casts[Home[s]], Resent(Home[s], s, e))]
       /\ handler' = [handler EXCEPT ![s] = "resync"]

LEMMA AcceptedCases ==
  ASSUME HomesAreProcesses, Types, NEW s \in Socket, Accepted(s)
  PROVE  /\ handler[s] = "accepting" /\ active' = active \cup {s}
         /\ UNCHANGED <<version, disturbed, buffer, scheduled, latest, sock, view, inbox>>
         /\ AcceptedAlone(s) \/ \E e \in Events : AcceptedWith(s, e)
<1>1. /\ handler[s] = "accepting" /\ active' = active \cup {s}
      /\ UNCHANGED <<version, disturbed, buffer, scheduled, latest, view, inbox>>
      /\ Resync(s, casts[Home[s]], Known(latest[Home[s]]), Known(latest[Home[s]]))
  BY DEF Accepted, hub, relay
<1>2. Known(latest[Home[s]]) \subseteq Events
  BY KnownValues DEF Types, HomesAreProcesses
<1>3. sock' = sock /\ (AcceptedAlone(s) \/ \E e \in Known(latest[Home[s]]) : AcceptedWith(s, e))
  BY <1>1 DEF Resync, AcceptedAlone, AcceptedWith, Resent
<1> QED BY <1>1, <1>2, <1>3

LEMMA AcceptedKeepsClients ==
  ASSUME HomesAreProcesses, Clients, Types', NEW s \in Socket, Accepted(s)
  PROVE  Clients'
<1> DEFINE p == Home[s]
           cs == casts[p]
<1>1. /\ handler[s] = "accepting" /\ active' = active \cup {s}
      /\ UNCHANGED <<latest, sock, view>>
      /\ AcceptedAlone(s) \/ \E e \in Events : AcceptedWith(s, e)
  BY AcceptedCases DEF Clients
<1>2. /\ p \in Process /\ cs \in Seq(Sends) /\ latest[p] \in Messages
      /\ view[s] = Nothing /\ iter[s].todo = {}
      /\ \A k \in Item : view[s][k] = 0
      /\ \A j \in DOMAIN cs : s \notin cs[j].to
  <2>1. view[s] = Nothing /\ iter[s].todo = {} /\ \A j \in DOMAIN cs : s \notin cs[j].to
    BY <1>1 DEF Clients, Untouched, HomesAreProcesses
  <2> QED BY <2>1, NothingValues DEF Clients, Types, HomesAreProcesses
<1>3. NotBefore'
  BY <1>1, <1>2 DEF Clients, NotBefore
<1>4. ASSUME NEW t \in Socket, t # s PROVE handler'[t] = handler[t] /\ iter'[t] = iter[t]
  BY <1>1, <1>4 DEF AcceptedAlone, AcceptedWith, Clients, Types
<1>5. handler'[s] \notin {"none", "accepting"}
  BY <1>1 DEF AcceptedAlone, AcceptedWith, Clients, Types
<1>6. \A t \in Socket : handler'[t] \in {"none", "accepting"} =>
          /\ t # s /\ handler[t] \in {"none", "accepting"}
          /\ t \in active' => t \in active
          /\ view'[t] = view[t] /\ iter'[t].todo = iter[t].todo
  BY <1>1, <1>4, <1>5
<1>7. CASE AcceptedAlone(s)
  <2>1. casts' = casts /\ iter' = iter
    BY <1>7 DEF AcceptedAlone, Clients, Types
  <2>2. Routed' /\ Untouched'
    BY <1>1, <1>6, <2>1, RoutedKept
  <2>3. Current'
    <3> SUFFICES ASSUME NEW t \in active', NEW k \in Item,
                        sock[t] = "open", EventOf[k] \notin iter[t].todo
                 PROVE  WillShow(casts[Home[t]], t, k, view[t][k], latest[Home[t]][k])
      BY <1>1, <2>1 DEF Current
    <3>1. CASE t = s
      <4>1. latest[p][k] = 0
        BY <1>2, <1>7, KnownValues DEF AcceptedAlone
      <4> QED BY <1>2, <3>1, <4>1 DEF WillShow, Takes
    <3>2. CASE t # s
      BY <1>1, <3>2 DEF Clients, Current
    <3> QED BY <3>1, <3>2
  <2> QED BY <1>3, <2>2, <2>3 DEF Clients
<1>8. CASE \E e \in Events : AcceptedWith(s, e)
  <2> PICK e \in Events : AcceptedWith(s, e)
    BY <1>8
  <2> DEFINE r == Resent(p, s, e)
  <2>1. /\ r \in Sends /\ r.to = {s} /\ r.for = s /\ r.publish = FALSE
        /\ r.items = Only(latest[p], e)
    BY <1>2, ResentTyped DEF Clients, Resent
  <2>2. \A k \in Item : r.items[k] = IF EventOf[k] = e THEN latest[p][k] ELSE 0
    BY <1>2, <2>1, OnlyValues
  <2>3. /\ casts'[p] = Append(cs, r)
        /\ \A q \in Process : q # p => casts'[q] = casts[q]
        /\ iter'[s].todo = Known(latest[p]) \ {e}
    BY <1>2 DEF AcceptedWith, Clients, Types
  <2> HIDE DEF r
  <2>4. Routed' /\ Untouched'
    <3>1. ASSUME NEW q \in Process, NEW j \in DOMAIN casts'[q]
          PROVE  \/ \E l \in DOMAIN casts[q] :
                        /\ casts'[q][j].items = casts[q][l].items
                        /\ casts'[q][j].for = casts[q][l].for
                        /\ casts'[q][j].publish = casts[q][l].publish
                        /\ casts'[q][j].to \subseteq casts[q][l].to
                 \/ /\ q = Home[s] /\ casts'[q][j].to = {s} /\ casts'[q][j].for = s
                    /\ casts'[q][j].publish = FALSE
                    /\ \A k \in Item : casts'[q][j].items[k] > 0 => latest[q][k] > 0
      <4>1. \/ j \in DOMAIN casts[q] /\ casts'[q][j] = casts[q][j]
            \/ q = p /\ casts'[q][j] = r
        BY <1>2, <2>1, <2>3, Appended
      <4>2. \A k \in Item : r.items[k] > 0 => latest[p][k] > 0
        BY <2>2
      <4> QED BY <2>1, <4>1, <4>2
    <3> QED BY <1>1, <1>6, <3>1, RoutedKept
  <2>5. Current'
    <3> SUFFICES ASSUME NEW t \in active', NEW k \in Item,
                        sock[t] = "open", EventOf[k] \notin iter'[t].todo
                 PROVE  WillShow(casts'[Home[t]], t, k, view[t][k], latest[Home[t]][k])
      BY <1>1 DEF Current
    <3>1. CASE t = s
      <4>1. \A j \in DOMAIN cs : ~Takes(cs[j], t, k)
        BY <1>2, <3>1 DEF Takes
      <4>2. CASE EventOf[k] = e /\ latest[p][k] > 0
        <5>1. Takes(r, t, k) /\ r.items[k] = latest[p][k]
          BY <2>1, <2>2, <3>1, <4>2 DEF Takes
        <5>2. t \in Socket
          BY <3>1
        <5>3. WillShow(Append(cs, r), t, k, view[t][k], r.items[k])
          <6> HIDE DEF p, cs
          <6> QED BY <1>2, <2>1, <5>1, <5>2, StartedLast
        <5> QED BY <2>3, <3>1, <5>1, <5>3
      <4>3. CASE ~(EventOf[k] = e /\ latest[p][k] > 0)
        <5>1. latest[p][k] = 0
          <6>1. latest[p][k] \in Nat
            BY <1>2 DEF Messages
          <6>2. EventOf[k] # e => EventOf[k] \notin Known(latest[p])
            BY <2>3, <3>1
          <6> QED BY <1>2, <4>3, <6>1, <6>2, KnownValues
        <5>2. ~Takes(r, t, k)
          BY <2>2, <5>1 DEF Takes
        <5>3. WillShow(cs, t, k, view[t][k], latest[p][k])
          BY <1>2, <3>1, <4>1, <5>1 DEF WillShow
        <5>4. t \in Socket
          BY <3>1
        <5>5. WillShow(Append(cs, r), t, k, view[t][k], latest[p][k])
          <6> HIDE DEF p, cs
          <6> QED BY <1>2, <2>1, <5>2, <5>3, <5>4, StartedOther
        <5> QED BY <2>3, <3>1, <5>5
      <4> QED BY <4>2, <4>3
    <3>2. CASE t # s
      <4>1. t \in active /\ t \in Socket /\ iter'[t] = iter[t] /\ Home[t] \in Process
        BY <1>1, <1>4, <3>2 DEF Clients, Types, HomesAreProcesses
      <4>2. WillShow(casts[Home[t]], t, k, view[t][k], latest[Home[t]][k])
        BY <4>1 DEF Clients, Current
      <4>3. CASE Home[t] = p
        <5>1. ~Takes(r, t, k)
          BY <2>1, <3>2 DEF Takes
        <5>2. WillShow(cs, t, k, view[t][k], latest[p][k])
          BY <4>2, <4>3
        <5>3. WillShow(Append(cs, r), t, k, view[t][k], latest[p][k])
          <6> HIDE DEF p, cs
          <6> QED BY <1>2, <2>1, <4>1, <5>1, <5>2, StartedOther
        <5> QED BY <2>3, <4>3, <5>3
      <4>4. CASE Home[t] # p
        BY <2>3, <4>1, <4>2, <4>4
      <4> QED BY <4>3, <4>4
    <3> QED BY <3>1, <3>2
  <2> QED BY <1>3, <2>4, <2>5 DEF Clients
<1> QED BY <1>1, <1>7, <1>8

\* A process that is started again knows nothing and has no registered socket.
LEMMA RestartKeepsClients ==
  ASSUME HomesAreProcesses, Clients, Types', NEW p \in Process, Restart(p)
  PROVE  Clients'
<1> DEFINE mine == {s \in Socket : Home[s] = p /\ handler[s] # "none"}
<1>1. /\ active' = active \ mine /\ UNCHANGED <<iter, view>>
      /\ \A s \in Socket : /\ sock'[s] = IF s \in mine THEN "gone" ELSE sock[s]
                           /\ handler'[s] = IF s \in mine THEN "ended" ELSE handler[s]
      /\ casts'[p] = <<>>
      /\ \A q \in Process : q # p => casts'[q] = casts[q] /\ latest'[q] = latest[q]
  BY DEF Restart, Clients, Types
<1>2. ASSUME NEW t \in active' PROVE t \in active /\ t \in Socket /\ Home[t] # p
  BY <1>1 DEF Clients, Types, Untouched
<1> HIDE DEF mine
<1>3. Routed'
  <2> SUFFICES ASSUME NEW q \in Process, NEW i \in DOMAIN casts'[q]
               PROVE  /\ \A s \in casts'[q][i].to : Home[s] = q
                      /\ casts'[q][i].for # Everyone =>
                            /\ Home[casts'[q][i].for] = q
                            /\ casts'[q][i].to \subseteq {casts'[q][i].for}
                            /\ ~casts'[q][i].publish
                      /\ \A k \in Item : casts'[q][i].items[k] > 0 => latest'[q][k] > 0
    BY DEF Routed
  <2>1. q # p
    BY <1>1
  <2> QED BY <1>1, <2>1 DEF Clients, Routed
<1>4. Untouched'
  <2> SUFFICES ASSUME NEW s \in Socket, handler'[s] \in {"none", "accepting"}
               PROVE  /\ s \notin active' /\ view[s] = Nothing /\ iter[s].todo = {}
                      /\ \A q \in Process : \A i \in DOMAIN casts'[q] :
                             s \notin casts'[q][i].to /\ casts'[q][i].for # s
    BY <1>1 DEF Untouched, Nothing
  <2>1. handler[s] \in {"none", "accepting"}
    BY <1>1
  <2>2. /\ s \notin active /\ view[s] = Nothing /\ iter[s].todo = {}
        /\ \A q \in Process : \A i \in DOMAIN casts[q] :
               s \notin casts[q][i].to /\ casts[q][i].for # s
    BY <2>1 DEF Clients, Untouched
  <2>3. ASSUME NEW q \in Process, NEW i \in DOMAIN casts'[q]
        PROVE  s \notin casts'[q][i].to /\ casts'[q][i].for # s
    <3>1. q # p
      BY <1>1
    <3> QED BY <1>1, <2>2, <3>1
  <2> QED BY <1>1, <2>2, <2>3
<1>5. NotBefore'
  BY <1>1, <1>2 DEF Clients, NotBefore, HomesAreProcesses
<1>6. Current'
  <2> SUFFICES ASSUME NEW t \in active', NEW k \in Item,
                      sock'[t] = "open", EventOf[k] \notin iter[t].todo
               PROVE  WillShow(casts'[Home[t]], t, k, view[t][k], latest'[Home[t]][k])
    BY <1>1 DEF Current
  <2>1. /\ t \in active /\ t \in Socket /\ Home[t] \in Process /\ Home[t] # p /\ sock[t] = "open"
    BY <1>1, <1>2 DEF HomesAreProcesses
  <2> QED BY <1>1, <2>1 DEF Clients, Current
<1> QED BY <1>3, <1>4, <1>5, <1>6 DEF Clients

(***************************************************************************)
(* Every step                                                              *)
(***************************************************************************)
LEMMA NotifyTyped ==
  ASSUME Types, NEW p \in Process, NEW k \in Item, Notify(p, k)
  PROVE  Types'
<1>1. version' \in Messages /\ buffer' \in [Process -> Messages]
  BY DEF Notify, Types, Messages
<1>2. scheduled' \in [Process -> SUBSET Events] /\ disturbed' \subseteq Item
  BY DEF Notify, Types, Events
<1>3. UNCHANGED <<latest, casts, inbox, sock, handler, iter, active, view>>
  BY DEF Notify, clients, relay
<1> QED BY <1>1, <1>2, <1>3 DEF Types

LEMMA BroadcastTyped ==
  ASSUME Types, NEW p \in Process, NEW items \in Messages, NEW publish \in BOOLEAN,
         Broadcast(p, items, publish)
  PROVE  /\ latest' \in [Process -> Messages] /\ casts' \in [Process -> Seq(Sends)]
         /\ inbox' \in [Process -> Seq(Messages)]
         /\ LostBy(p, items) \subseteq Item
<1>1. inbox' \in [Process -> Seq(Messages)]
  <2>1. UNCHANGED inbox \/ Publish(p, items)
    BY DEF Broadcast
  <2> QED BY <2>1, PublishTyped DEF Types
<1>2. LostBy(p, items) \subseteq Item
  BY DEF LostBy, Lost, ItemsOf
<1> QED BY <1>1, <1>2, BroadcastIsHeard, HeardTyped

LEMMA FlushTyped ==
  ASSUME Types, NEW p \in Process, NEW e \in Events, Flush(p, e)
  PROVE  Types' /\ Only(buffer[p], e) \in Messages
<1> DEFINE items == Only(buffer[p], e)
<1>1. items \in Messages
  BY OnlyValues DEF Types
<1>2. /\ latest' \in [Process -> Messages] /\ casts' \in [Process -> Seq(Sends)]
      /\ inbox' \in [Process -> Seq(Messages)] /\ disturbed' \subseteq Item
  <2>1. CASE UNCHANGED <<latest, casts, inbox, disturbed>>
    BY <2>1 DEF Types
  <2>2. CASE Broadcast(p, items, TRUE) /\ disturbed' = disturbed \cup LostBy(p, items)
    <3> HIDE DEF items
    <3> QED BY <1>1, <2>2, BroadcastTyped DEF Types
  <2> QED BY <2>1, <2>2 DEF Flush
<1>3. buffer' \in [Process -> Messages] /\ scheduled' \in [Process -> SUBSET Events]
  BY DEF Flush, Types, Messages
<1>4. UNCHANGED <<version, sock, handler, iter, active, view>>
  BY DEF Flush, clients
<1> QED BY <1>1, <1>2, <1>3, <1>4 DEF Types

\* What a tick announces: the next value of each item of the event.
Ticked(e) == [k \in Item |-> IF k \in {i \in Item : EventOf[i] = e} THEN version[k] + 1 ELSE 0]

LEMMA TickTyped ==
  ASSUME Types, HomesAreProcesses, NEW e \in Events, Tick(e)
  PROVE  Types' /\ Ticked(e) \in Messages
<1>1. Ticked(e) \in Messages
  BY DEF Types, Ticked, Messages
<1>2. /\ Broadcast(Ticker, Ticked(e), TRUE) /\ version' = Newer(version, Ticked(e))
      /\ disturbed' \subseteq disturbed \cup Item \cup LostBy(Ticker, Ticked(e))
      /\ UNCHANGED <<buffer, scheduled, sock, handler, iter, active, view>>
  BY DEF Tick, Ticked, clients
<1>3. Ticker \in Process
  BY DEF HomesAreProcesses
<1>4. version' \in Messages
  BY <1>1, <1>2, NewerValues DEF Types
<1>5. /\ latest' \in [Process -> Messages] /\ casts' \in [Process -> Seq(Sends)]
      /\ inbox' \in [Process -> Seq(Messages)] /\ LostBy(Ticker, Ticked(e)) \subseteq Item
  BY <1>1, <1>2, <1>3, BroadcastTyped
<1> QED BY <1>1, <1>2, <1>4, <1>5 DEF Types

LEMMA RelayedTyped ==
  ASSUME Types, NEW p \in Process, Relayed(p)
  PROVE  Types' /\ Head(inbox[p]) \in Messages
<1>1. inbox[p] \in Seq(Messages) /\ inbox[p] # <<>>
  BY DEF Types, Relayed
<1>2. Head(inbox[p]) \in Messages /\ Tail(inbox[p]) \in Seq(Messages)
  BY <1>1
<1>3. latest' \in [Process -> Messages] /\ casts' \in [Process -> Seq(Sends)]
  BY <1>2, RelayedIsHeard, HeardTyped
<1>4. inbox' \in [Process -> Seq(Messages)]
  BY <1>2 DEF Relayed, Types
<1>5. UNCHANGED <<version, disturbed, buffer, scheduled, sock, handler, iter, active, view>>
  BY DEF Relayed, clients
<1> QED BY <1>2, <1>3, <1>4, <1>5 DEF Types

LEMMA SentTyped ==
  ASSUME HomesAreProcesses, Types, Routed,
         NEW p \in Process, NEW i \in DOMAIN casts[p], NEW s \in Socket, NEW failed \in BOOLEAN,
         Sent(p, i, s, failed)
  PROVE  Types'
<1>1. /\ casts[p][i] \in Sends
      /\ view' = IF sock[s] = "open"
                 THEN [view EXCEPT ![s] = Newer(view[s], casts[p][i].items)] ELSE view
      /\ UNCHANGED <<version, buffer, scheduled, latest>>
      /\ \/ SentMore(p, i, s, failed) \/ SentToAll(p, i, s)
         \/ ResyncEnds(p, i, s) \/ ResyncRaises(p, i, s)
         \/ \E e \in Events : ResyncGoesOn(p, i, s, e)
  BY SentCases
<1>2. casts[p][i].items \in Messages /\ view[s] \in Messages
  BY <1>1 DEF Sends, Types
<1>3. view' \in [Socket -> Messages]
  BY <1>1, <1>2, NewerValues DEF Types
<1>4. casts' \in [Process -> Seq(Sends)]
  BY SentUnderWay
<1>5. /\ sock' \in [Socket -> {"new", "open", "gone"}] /\ handler' \in [Socket -> Stages]
      /\ active' \subseteq Socket
      /\ iter' \in [Socket -> [known : SUBSET Events, todo : SUBSET Events]]
  <2>1. CASE SentMore(p, i, s, failed) \/ SentToAll(p, i, s)
    BY <2>1 DEF SentMore, SentToAll, Types
  <2>2. CASE ResyncEnds(p, i, s) \/ ResyncRaises(p, i, s)
    BY <2>2 DEF ResyncEnds, ResyncRaises, Types, Stages
  <2>3. CASE \E e \in Events : ResyncGoesOn(p, i, s, e)
    <3>1. iter[s] \in [known : SUBSET Events, todo : SUBSET Events]
      BY DEF Types
    <3>2. /\ \E e \in Events :
                iter' = [iter EXCEPT ![s] = [known |-> iter[s].known, todo |-> iter[s].todo \ {e}]]
          /\ handler' = [handler EXCEPT ![s] = "resync"] /\ UNCHANGED <<sock, active>>
      BY <2>3 DEF ResyncGoesOn
    <3>3. iter' \in [Socket -> [known : SUBSET Events, todo : SUBSET Events]]
      BY <3>1, <3>2 DEF Types
    <3> QED BY <3>2, <3>3 DEF Types, Stages
  <2> QED BY <1>1, <2>1, <2>2, <2>3
<1>6. inbox' \in [Process -> Seq(Messages)] /\ disturbed' \subseteq Item
  <2>1. CASE UNCHANGED <<inbox, disturbed>>
    BY <2>1 DEF Types
  <2>2. CASE /\ Publish(p, casts[p][i].items)
             /\ disturbed' = disturbed \cup Lost(p, casts[p][i].items)
    <3>1. inbox' \in [Process -> Seq(Messages)]
      BY <1>2, <2>2, PublishTyped
    <3>2. disturbed' \subseteq Item
      BY <2>2 DEF Lost, ItemsOf, Types
    <3> QED BY <3>1, <3>2
  <2> QED BY <1>1, <2>1, <2>2
       DEF SentMore, SentToAll, ResyncEnds, ResyncRaises, ResyncGoesOn
<1> QED BY <1>1, <1>3, <1>4, <1>5, <1>6 DEF Types

LEMMA AcceptedTyped ==
  ASSUME HomesAreProcesses, Types, NEW s \in Socket, Accepted(s)
  PROVE  Types'
<1>1. /\ active' = active \cup {s}
      /\ UNCHANGED <<version, disturbed, buffer, scheduled, latest, sock, view, inbox>>
      /\ AcceptedAlone(s) \/ \E e \in Events : AcceptedWith(s, e)
  BY AcceptedCases
<1>2. Home[s] \in Process /\ casts[Home[s]] \in Seq(Sends)
  BY DEF Types, HomesAreProcesses
<1>3. \A e \in Events : Append(casts[Home[s]], Resent(Home[s], s, e)) \in Seq(Sends)
  BY <1>2, ResentTyped, Appended
<1>4. Known(latest[Home[s]]) \subseteq Events
  BY <1>2, KnownValues DEF Types
<1>5. CASE AcceptedAlone(s)
  <2>1. casts' = casts /\ iter' = iter /\ handler' \in [Socket -> Stages]
    BY <1>5 DEF AcceptedAlone, Types, Stages
  <2> QED BY <1>1, <2>1 DEF Types
<1>6. CASE \E e \in Events : AcceptedWith(s, e)
  <2> PICK e \in Events : AcceptedWith(s, e)
    BY <1>6
  <2> DEFINE known == Known(latest[Home[s]])
             cs == Append(casts[Home[s]], Resent(Home[s], s, e))
  <2>1. /\ iter' = [iter EXCEPT ![s] = [known |-> known, todo |-> known \ {e}]]
        /\ casts' = [casts EXCEPT ![Home[s]] = cs]
        /\ handler' = [handler EXCEPT ![s] = "resync"]
    BY DEF AcceptedWith
  <2>2. cs \in Seq(Sends) /\ known \subseteq Events
    BY <1>3, <1>4
  <2> HIDE DEF known, cs
  <2>3. casts' \in [Process -> Seq(Sends)]
    BY <1>2, <2>1, <2>2 DEF Types
  <2>4. iter' \in [Socket -> [known : SUBSET Events, todo : SUBSET Events]]
    BY <2>1, <2>2 DEF Types
  <2>5. handler' \in [Socket -> Stages]
    BY <2>1 DEF Types, Stages
  <2> QED BY <1>1, <2>3, <2>4, <2>5 DEF Types
<1> QED BY <1>1, <1>5, <1>6

\* The steps that neither send nor bring a value.
Aside ==
    \/ \E s \in Socket : \/ Connect(s) \/ AcceptFails(s) \/ ClientSpeaks(s) \/ Leave(s)
                         \/ EndpointEnds(s) \/ ReaperPings(s) \/ PingReturns(s) \/ PingTimesOut(s)
    \/ \E p \in Process : RelayBreaks(p) \/ Subscribe(p)
    \/ RedisFails \/ RedisReturns

LEMMA AsideChanges ==
  ASSUME Clients, Aside
  PROVE  /\ UNCHANGED <<version, buffer, scheduled, casts, latest, view, iter>>
         /\ active' \subseteq active
         /\ sock' \in [Socket -> {"new", "open", "gone"}] /\ handler' \in [Socket -> Stages]
         /\ \A s \in Socket : handler'[s] \in {"none", "accepting"}
                                  => handler[s] \in {"none", "accepting"}
         /\ \A s \in active : sock'[s] = "open" => sock[s] = "open"
         /\ \/ UNCHANGED <<inbox, disturbed>>
            \/ inbox' = [p \in Process |-> <<>>]
               /\ disturbed' = disturbed \cup Undelivered(Process)
            \/ \E p \in Process : /\ inbox' = [inbox EXCEPT ![p] = <<>>]
                                  /\ disturbed' = disturbed \cup Undelivered({p})
<1>1. ASSUME NEW s \in Socket,
             \/ AcceptFails(s) \/ ClientSpeaks(s) \/ Leave(s) \/ EndpointEnds(s)
             \/ ReaperPings(s) \/ PingReturns(s) \/ PingTimesOut(s)
      PROVE  /\ UNCHANGED <<version, buffer, scheduled, casts, latest, view, iter>>
             /\ active' \subseteq active /\ UNCHANGED <<inbox, disturbed>>
             /\ sock' = sock \/ sock' = [sock EXCEPT ![s] = "gone"]
             /\ handler' = handler \/ handler' = [handler EXCEPT ![s] = "ended"]
  BY <1>1 DEF AcceptFails, ClientSpeaks, Leave, EndpointEnds, ReaperPings, PingReturns,
              PingTimesOut, ReaperGoesOn, hub, clients, relay
<1>2. ASSUME NEW s \in Socket, Connect(s)
      PROVE  /\ UNCHANGED <<version, buffer, scheduled, casts, latest, view, iter>>
             /\ active' = active /\ UNCHANGED <<inbox, disturbed>>
             /\ handler[s] = "none"
             /\ \E v \in {"open", "gone"} : sock' = [sock EXCEPT ![s] = v]
             /\ \E h \in {"accepting", "ended"} : handler' = [handler EXCEPT ![s] = h]
  BY <1>2 DEF Connect, hub, relay
<1>3. ASSUME \/ \E p \in Process : RelayBreaks(p) \/ Subscribe(p)
             \/ RedisFails \/ RedisReturns
      PROVE  /\ UNCHANGED <<version, buffer, scheduled, casts, latest, view, iter>>
             /\ UNCHANGED <<sock, handler, active>>
             /\ \/ UNCHANGED <<inbox, disturbed>>
                \/ inbox' = [p \in Process |-> <<>>]
                   /\ disturbed' = disturbed \cup Undelivered(Process)
                \/ \E p \in Process : /\ inbox' = [inbox EXCEPT ![p] = <<>>]
                                      /\ disturbed' = disturbed \cup Undelivered({p})
  BY <1>3 DEF RelayBreaks, Subscribe, RedisFails, RedisReturns, hub, clients
<1>4. Types /\ Untouched
  BY DEF Clients
<1>5. CASE \E s \in Socket : \/ AcceptFails(s) \/ ClientSpeaks(s) \/ Leave(s) \/ EndpointEnds(s)
                             \/ ReaperPings(s) \/ PingReturns(s) \/ PingTimesOut(s)
  BY <1>1, <1>4, <1>5 DEF Types, Stages
<1>6. CASE \E s \in Socket : Connect(s)
  <2> PICK s \in Socket : Connect(s)
    BY <1>6
  <2>1. s \notin active
    BY <1>2, <1>4 DEF Untouched
  <2> QED BY <1>2, <1>4, <2>1 DEF Types, Stages
<1>7. CASE \/ \E p \in Process : RelayBreaks(p) \/ Subscribe(p)
           \/ RedisFails \/ RedisReturns
  BY <1>3, <1>4, <1>7 DEF Types
<1> QED BY <1>5, <1>6, <1>7 DEF Aside

LEMMA AsideTyped ==
  ASSUME Clients, Aside PROVE Types'
<1>1. /\ UNCHANGED <<version, buffer, scheduled, casts, latest, view, iter>>
      /\ active' \subseteq active
      /\ sock' \in [Socket -> {"new", "open", "gone"}] /\ handler' \in [Socket -> Stages]
  BY AsideChanges
<1>2. \/ UNCHANGED <<inbox, disturbed>>
      \/ inbox' = [p \in Process |-> <<>>]
         /\ disturbed' = disturbed \cup Undelivered(Process)
      \/ \E p \in Process : /\ inbox' = [inbox EXCEPT ![p] = <<>>]
                            /\ disturbed' = disturbed \cup Undelivered({p})
  BY AsideChanges
<1>3. inbox' \in [Process -> Seq(Messages)]
  <2>1. inbox \in [Process -> Seq(Messages)] /\ <<>> \in Seq(Messages)
    BY DEF Clients, Types
  <2> DEFINE Inboxes == Seq(Messages)
  <2> HIDE DEF Inboxes
  <2>2. inbox \in [Process -> Inboxes] /\ <<>> \in Inboxes
    BY <2>1 DEF Inboxes
  <2>3. inbox' \in [Process -> Inboxes]
    BY <1>2, <2>2
  <2> QED BY <2>3 DEF Inboxes
<1>4. disturbed' \subseteq Item
  BY <1>2 DEF Clients, Types, Undelivered
<1> QED BY <1>1, <1>3, <1>4 DEF Clients, Types

LEMMA RestartTyped ==
  ASSUME Types, NEW p \in Process, Restart(p) PROVE Types'
<1>1. /\ buffer' = [buffer EXCEPT ![p] = Nothing] /\ latest' = [latest EXCEPT ![p] = Nothing]
      /\ scheduled' = [scheduled EXCEPT ![p] = {}] /\ casts' = [casts EXCEPT ![p] = <<>>]
      /\ inbox' = [inbox EXCEPT ![p] = <<>>] /\ active' \subseteq active
      /\ disturbed' = disturbed \cup ItemsOf(version)
      /\ UNCHANGED <<version, iter, view>>
  BY DEF Restart
<1>2. sock' \in [Socket -> {"new", "open", "gone"}] /\ handler' \in [Socket -> Stages]
  BY DEF Restart, Types, Stages
<1>3. buffer' \in [Process -> Messages] /\ latest' \in [Process -> Messages]
  BY <1>1, NothingValues DEF Types
<1>4. casts' \in [Process -> Seq(Sends)] /\ inbox' \in [Process -> Seq(Messages)]
  BY <1>1 DEF Types
<1>5. disturbed' \subseteq Item /\ scheduled' \in [Process -> SUBSET Events]
  BY <1>1 DEF Types, ItemsOf
<1> QED BY <1>1, <1>2, <1>3, <1>4, <1>5 DEF Types

LEMMA NextCases ==
  ASSUME HomesAreProcesses, Types, Next
  PROVE  \/ \E p \in Process, k \in Item : Notify(p, k)
         \/ \E p \in Process, e \in Events : Flush(p, e)
         \/ \E e \in Events : Tick(e)
         \/ \E p \in Process : Relayed(p)
         \/ \E p \in Process : \E i \in DOMAIN casts[p] : \E s \in Socket, failed \in BOOLEAN :
                Sent(p, i, s, failed)
         \/ \E s \in Socket : Accepted(s)
         \/ \E p \in Process : Restart(p)
         \/ Aside
<1>1. ASSUME NEW p \in Process, SendTimesOut(p)
      PROVE  \E i \in DOMAIN casts[p] : \E s \in Socket, failed \in BOOLEAN : Sent(p, i, s, failed)
  <2> PICK i \in DOMAIN casts[p], s \in Slow : Sent(p, i, s, TRUE)
    BY <1>1 DEF SendTimesOut
  <2>1. s \in casts[p][i].to
    BY DEF Sent
  <2>2. casts[p][i] \in Sends
    BY Typed DEF Types
  <2>3. s \in Socket
    BY <2>1, <2>2 DEF Sends
  <2> QED BY <2>3
<1>2. ASSUME NEW p \in Process, Send(p)
      PROVE  \E i \in DOMAIN casts[p] : \E s \in Socket, failed \in BOOLEAN : Sent(p, i, s, failed)
  <2> PICK i \in DOMAIN casts[p], s \in Socket : Sent(p, i, s, sock[s] = "gone")
    BY <1>2 DEF Send
  <2>1. (sock[s] = "gone") \in BOOLEAN
    OBVIOUS
  <2> QED BY <2>1
<1> QED BY <1>1, <1>2 DEF Next, Aside

LEMMA ClientsStep ==
  ASSUME HomesAreProcesses, Clients, Next PROVE Clients'
<1>0. Types /\ Routed
  BY DEF Clients
<1>1. ASSUME NEW p \in Process, NEW k \in Item, Notify(p, k) PROVE Clients'
  <2>1. Types'
    BY <1>0, <1>1, NotifyTyped
  <2>2. UNCHANGED <<casts, latest, view, iter, active, handler, sock>>
    BY <1>1 DEF Notify, clients
  <2> QED BY <2>1, <2>2, OthersKeepClients
<1>2. ASSUME NEW p \in Process, NEW e \in Events, Flush(p, e) PROVE Clients'
  <2>1. Types' /\ Only(buffer[p], e) \in Messages
    BY <1>0, <1>2, FlushTyped
  <2>2. CASE Broadcast(p, Only(buffer[p], e), TRUE)
    <3>1. Heard(p, Only(buffer[p], e), TRUE) /\ UNCHANGED clients
      BY <1>2, <2>2, BroadcastIsHeard DEF Flush
    <3> QED BY <2>1, <3>1, HeardKeepsClients
  <2>3. CASE UNCHANGED <<latest, casts>>
    <3>1. UNCHANGED <<casts, latest, view, iter, active, handler, sock>>
      BY <1>2, <2>3 DEF Flush, clients
    <3> QED BY <2>1, <3>1, OthersKeepClients
  <2> QED BY <1>2, <2>2, <2>3 DEF Flush
<1>3. ASSUME NEW e \in Events, Tick(e) PROVE Clients'
  <2>1. Types' /\ Ticked(e) \in Messages /\ Ticker \in Process
    BY <1>0, <1>3, TickTyped DEF HomesAreProcesses
  <2>2. Broadcast(Ticker, Ticked(e), TRUE) /\ UNCHANGED clients
    BY <1>3 DEF Tick, Ticked
  <2>3. Heard(Ticker, Ticked(e), TRUE)
    BY <2>1, <2>2, BroadcastIsHeard
  <2> QED BY <2>1, <2>2, <2>3, HeardKeepsClients
<1>4. ASSUME NEW p \in Process, Relayed(p) PROVE Clients'
  <2>1. Types' /\ Head(inbox[p]) \in Messages
    BY <1>0, <1>4, RelayedTyped
  <2>2. Heard(p, Head(inbox[p]), FALSE) /\ UNCHANGED clients
    BY <1>4, RelayedIsHeard DEF Relayed
  <2> QED BY <2>1, <2>2, HeardKeepsClients
<1>5. ASSUME NEW p \in Process, NEW i \in DOMAIN casts[p], NEW s \in Socket,
             NEW failed \in BOOLEAN, Sent(p, i, s, failed)
      PROVE  Clients'
  <2>1. Types'
    BY <1>0, <1>5, SentTyped
  <2> QED BY <1>5, <2>1, SentKeepsClients
<1>6. ASSUME NEW s \in Socket, Accepted(s) PROVE Clients'
  <2>1. Types'
    BY <1>0, <1>6, AcceptedTyped
  <2> QED BY <1>6, <2>1, AcceptedKeepsClients
<1>7. ASSUME NEW p \in Process, Restart(p) PROVE Clients'
  <2>1. Types'
    BY <1>0, <1>7, RestartTyped
  <2> QED BY <1>7, <2>1, RestartKeepsClients
<1>8. ASSUME Aside PROVE Clients'
  <2>1. Types'
    BY <1>8, AsideTyped
  <2> QED BY <1>8, <2>1, AsideChanges, OthersKeepClients
<1> QED BY <1>0, <1>1, <1>2, <1>3, <1>4, <1>5, <1>6, <1>7, <1>8, NextCases

LEMMA ClientsStutter ==
  ASSUME Clients, UNCHANGED vars PROVE Clients'
<1>1. UNCHANGED <<version, disturbed, buffer, scheduled, latest, casts, sock, handler, iter,
                  active, view, inbox>>
  BY DEF vars, hub, clients, relay
<1>2. Types'
  BY <1>1 DEF Clients, Types
<1> QED BY <1>1, <1>2, OthersKeepClients

\* What is under way reaches the registered sockets, and no other, in the order in which it
\* began (broadcasts, _send_latest_state): so it brings them up to date.
THEOREM ClientsAreServedInOrder == Spec => []Clients
<1>1. Init => Clients
  BY ClientsInit, SocketsAssumption
<1>2. Clients /\ [Next]_vars => Clients'
  BY ClientsStep, ClientsStutter, SocketsAssumption
<1> QED BY <1>1, <1>2, PTL DEF Spec

\* A process with nothing left to send has sent its registered clients the newest of
\* everything it knows: what SettledClientsAreCurrent says of a connection, its resync
\* and the broadcasts that go on meanwhile.
THEOREM SettledClientsAreAlwaysCurrent == Spec => []SettledClientsAreCurrent
<1>1. Clients => SettledClientsAreCurrent
  <2> SUFFICES ASSUME Clients, NEW s \in active, sock[s] = "open", iter[s].todo = {},
                      casts[Home[s]] = <<>>
               PROVE  view[s] = latest[Home[s]]
    BY DEF SettledClientsAreCurrent
  <2>1. view[s] \in [Item -> Nat] /\ latest[Home[s]] \in [Item -> Nat]
    BY SocketsAssumption DEF Clients, Types, HomesAreProcesses, Messages
  <2>2. ASSUME NEW k \in Item PROVE view[s][k] = latest[Home[s]][k]
    <3>1. WillShow(casts[Home[s]], s, k, view[s][k], latest[Home[s]][k])
      BY DEF Clients, Current
    <3>2. DOMAIN casts[Home[s]] = {}
      OBVIOUS
    <3> QED BY <3>1, <3>2 DEF WillShow
  <2> QED BY <2>1, <2>2
<1>2. Spec => []Clients
  BY ClientsAreServedInOrder
<1> QED BY <1>1, <1>2, PTL

(***************************************************************************)
(* What the processes remember                                             *)
(***************************************************************************)
\* What is on its way to another process is the value that was announced last.
OneValue(k) ==
    /\ \A p \in Process : buffer[p][k] > 0 => buffer[p][k] = version[k]
    /\ \A p \in Process : \A i \in DOMAIN casts[p] :
          casts[p][i].publish /\ casts[p][i].items[k] > 0 => casts[p][i].items[k] = version[k]
    /\ \A p \in Process : \A i \in DOMAIN inbox[p] :
          inbox[p][i][k] > 0 => inbox[p][i][k] = version[k]

Buffered(k) == \E p \in Process : buffer[p][k] > 0
Published(p, k) == \E i \in DOMAIN casts[p] : casts[p][i].publish /\ casts[p][i].items[k] > 0
Waiting(q, k) == \E i \in DOMAIN inbox[q] : inbox[q][i][k] > 0

\* Process q has the value that was announced last, or it is on its way to q.
Arrives(q, k) ==
    \/ latest[q][k] = version[k]
    \/ Buffered(k)
    \/ \E p \in Process \ {q} : Published(p, k)
    \/ Waiting(q, k)

Agreed == \A k \in Item \ disturbed : OneValue(k) /\ \A q \in Process : Arrives(q, k)

\* A flush waits for whatever is in a buffer.
Scheduled ==
    \A p \in Process, k \in Item : buffer[p][k] > 0 => EventOf[k] \in scheduled[p]

Hubs == Clients /\ Agreed /\ Scheduled

LEMMA HubsInit == ASSUME HomesAreProcesses, Init PROVE Hubs
<1>1. Agreed
  BY NothingValues DEF Init, Agreed, OneValue, Arrives
<1>2. Scheduled
  BY NothingValues DEF Init, Scheduled
<1> QED BY <1>1, <1>2, ClientsInit DEF Hubs

\* A step that announces no value of k keeps what is on its way, or delivers it.
LEMMA NotAnnounced ==
  ASSUME NEW k \in Item, OneValue(k), \A q \in Process : Arrives(q, k), Types, Types',
         version'[k] = version[k],
         \A p \in Process : buffer'[p][k] = buffer[p][k],
         \A p \in Process : \A j \in DOMAIN casts'[p] :
             casts'[p][j].publish /\ casts'[p][j].items[k] > 0 =>
                 \E l \in DOMAIN casts[p] :
                     casts[p][l].publish /\ casts[p][l].items = casts'[p][j].items,
         \A p \in Process : \A j \in DOMAIN inbox'[p] :
             inbox'[p][j][k] > 0 => \/ inbox'[p][j][k] = version[k]
                                    \/ \E l \in DOMAIN inbox[p] : inbox'[p][j] = inbox[p][l],
         \A p \in Process : Published(p, k) =>
             Published(p, k)' \/ \A q \in Process \ {p} : Waiting(q, k)',
         \A q \in Process : Waiting(q, k) => Waiting(q, k)' \/ latest'[q][k] = version[k],
         \A q \in Process : latest[q][k] = version[k] => latest'[q][k] = version[k]
  PROVE  OneValue(k)' /\ \A q \in Process : Arrives(q, k)'
<1>1. OneValue(k)'
  <2>1. \A p \in Process : buffer'[p][k] > 0 => buffer'[p][k] = version'[k]
    BY DEF OneValue
  <2>2. ASSUME NEW p \in Process, NEW j \in DOMAIN casts'[p],
               casts'[p][j].publish, casts'[p][j].items[k] > 0
        PROVE  casts'[p][j].items[k] = version'[k]
    <3> PICK l \in DOMAIN casts[p] :
                casts[p][l].publish /\ casts[p][l].items = casts'[p][j].items
      BY <2>2
    <3> QED BY <2>2 DEF OneValue
  <2>3. ASSUME NEW p \in Process, NEW j \in DOMAIN inbox'[p], inbox'[p][j][k] > 0
        PROVE  inbox'[p][j][k] = version'[k]
    BY <2>3 DEF OneValue
  <2> QED BY <2>1, <2>2, <2>3 DEF OneValue
<1>2. ASSUME NEW q \in Process PROVE Arrives(q, k)'
  <2>1. Arrives(q, k)
    OBVIOUS
  <2>2. Buffered(k) => Buffered(k)'
    BY DEF Buffered
  <2> QED BY <2>1, <2>2 DEF Arrives
<1> QED BY <1>1, <1>2

\* What a broadcast adds to the ones under way, and a publication to the messages
\* that wait; nothing of either is lost.
LEMMA HeardAdds ==
  ASSUME Types, NEW p \in Process, NEW items \in Messages, NEW publish \in BOOLEAN,
         Heard(p, items, publish)
  PROVE  /\ \A q \in Process : \A j \in DOMAIN casts[q] :
                j \in DOMAIN casts'[q] /\ casts'[q][j] = casts[q][j]
         /\ \A q \in Process : \A j \in DOMAIN casts'[q] :
                \/ j \in DOMAIN casts[q] /\ casts'[q][j] = casts[q][j]
                \/ casts'[q][j].items = items /\ casts'[q][j].publish = publish
         /\ Here(p) # {} => \E j \in DOMAIN casts'[p] :
                casts'[p][j].items = items /\ casts'[p][j].publish = publish
<1> DEFINE c == Cast4All(items, Here(p), publish)
           ds == Append(casts[p], c)
<1>1. c \in Sends /\ c.items = items /\ c.publish = publish
  BY Cast4AllTyped DEF Cast4All
<1>2. casts[p] \in Seq(Sends)
  BY DEF Types
<1>3. /\ Len(casts[p]) \in Nat /\ DOMAIN casts[p] = 1..Len(casts[p])
      /\ DOMAIN ds = 1..(Len(casts[p]) + 1) /\ ds[Len(casts[p]) + 1] = c
      /\ \A j \in 1..Len(casts[p]) : ds[j] = casts[p][j]
  <2> HIDE DEF c
  <2> QED BY <1>1, <1>2, Appended
<1>4. /\ \A j \in DOMAIN casts[p] : j \in DOMAIN ds /\ ds[j] = casts[p][j]
      /\ \A j \in DOMAIN ds : \/ j \in DOMAIN casts[p] /\ ds[j] = casts[p][j]
                              \/ ds[j] = c
      /\ \E j \in DOMAIN ds : ds[j] = c
  <2> HIDE DEF c, ds
  <2>1. \A j \in DOMAIN ds : j \in 1..Len(casts[p]) \/ j = Len(casts[p]) + 1
    BY <1>3
  <2>2. Len(casts[p]) + 1 \in DOMAIN ds
    BY <1>3
  <2> QED BY <1>3, <2>1, <2>2
<1>5. /\ casts'[p] = IF Here(p) = {} THEN casts[p] ELSE ds
      /\ \A q \in Process : q # p => casts'[q] = casts[q]
  BY DEF Heard, Types
<1> HIDE DEF c, ds
<1>6. \A q \in Process : \A j \in DOMAIN casts[q] :
          j \in DOMAIN casts'[q] /\ casts'[q][j] = casts[q][j]
  BY <1>4, <1>5
<1>7. \A q \in Process : \A j \in DOMAIN casts'[q] :
          \/ j \in DOMAIN casts[q] /\ casts'[q][j] = casts[q][j]
          \/ casts'[q][j].items = items /\ casts'[q][j].publish = publish
  BY <1>1, <1>4, <1>5
<1>8. Here(p) # {} => \E j \in DOMAIN casts'[p] :
          casts'[p][j].items = items /\ casts'[p][j].publish = publish
  BY <1>1, <1>4, <1>5
<1> QED BY <1>6, <1>7, <1>8

LEMMA HeardBrings ==
  ASSUME Types, NEW p \in Process, NEW items \in Messages,
         latest' = [latest EXCEPT ![p] = Newer(latest[p], items)],
         NEW q \in Process, NEW k \in Item
  PROVE  latest'[q][k] = IF q = p /\ items[k] > 0 THEN items[k] ELSE latest[q][k]
<1>1. latest[p] \in Messages
  BY DEF Types
<1>2. latest'[q] = IF q = p THEN Newer(latest[p], items) ELSE latest[q]
  BY DEF Types
<1> QED BY <1>1, <1>2, NewerValues

LEMMA HeardKeeps ==
  ASSUME Types, NEW p \in Process, NEW items \in Messages, NEW publish \in BOOLEAN,
         Heard(p, items, publish), NEW q \in Process, NEW j \in DOMAIN casts[q]
  PROVE  j \in DOMAIN casts'[q] /\ casts'[q][j] = casts[q][j]
BY HeardAdds

LEMMA HeardAddsOnly ==
  ASSUME Types, NEW p \in Process, NEW items \in Messages, NEW publish \in BOOLEAN,
         Heard(p, items, publish), NEW q \in Process, NEW j \in DOMAIN casts'[q]
  PROVE  \/ j \in DOMAIN casts[q] /\ casts'[q][j] = casts[q][j]
         \/ casts'[q][j].items = items /\ casts'[q][j].publish = publish
BY HeardAdds

LEMMA HeardStarts ==
  ASSUME Types, NEW p \in Process, NEW items \in Messages, NEW publish \in BOOLEAN,
         Heard(p, items, publish), Here(p) # {}
  PROVE  \E j \in DOMAIN casts'[p] :
            casts'[p][j].items = items /\ casts'[p][j].publish = publish
BY HeardAdds

LEMMA PublishAdds ==
  ASSUME Types, NEW p \in Process, NEW items \in Messages, Publish(p, items),
         NEW q \in Process
  PROVE  /\ \A j \in DOMAIN inbox[q] : j \in DOMAIN inbox'[q] /\ inbox'[q][j] = inbox[q][j]
         /\ \A j \in DOMAIN inbox'[q] :
                \/ j \in DOMAIN inbox[q] /\ inbox'[q][j] = inbox[q][j]
                \/ inbox'[q][j] = items
         /\ redis /\ q # p /\ q \in subscribed => \E j \in DOMAIN inbox'[q] : inbox'[q][j] = items
<1> DEFINE ds == Append(inbox[q], items)
<1>1. inbox[q] \in Seq(Messages)
  BY DEF Types
<1>2. /\ Len(inbox[q]) \in Nat /\ DOMAIN inbox[q] = 1..Len(inbox[q])
      /\ DOMAIN ds = 1..(Len(inbox[q]) + 1) /\ ds[Len(inbox[q]) + 1] = items
      /\ \A j \in 1..Len(inbox[q]) : ds[j] = inbox[q][j]
  BY <1>1, Appended
<1>3. inbox'[q] = IF redis /\ q # p /\ q \in subscribed THEN ds ELSE inbox[q]
  BY DEF Publish
<1> HIDE DEF ds
<1>4. \A j \in DOMAIN ds : j \in 1..Len(inbox[q]) \/ j = Len(inbox[q]) + 1
  BY <1>2
<1>5. Len(inbox[q]) + 1 \in DOMAIN ds /\ \A j \in 1..Len(inbox[q]) : j \in DOMAIN ds
  BY <1>2
<1>6. CASE redis /\ q # p /\ q \in subscribed
  BY <1>2, <1>3, <1>4, <1>5, <1>6
<1>7. CASE ~(redis /\ q # p /\ q \in subscribed)
  BY <1>3, <1>7
<1> QED BY <1>6, <1>7

\* A broadcast at p keeps what is under way of an item that it does not carry.
LEMMA BroadcastKeeps ==
  ASSUME Types, Types', NEW p \in Process, NEW items \in Messages,
         Broadcast(p, items, TRUE), NEW k \in Item, items[k] = 0,
         version'[k] = version[k], \A q \in Process : buffer'[q][k] = buffer[q][k],
         OneValue(k), \A q \in Process : Arrives(q, k)
  PROVE  OneValue(k)' /\ \A q \in Process : Arrives(q, k)'
<1>1. Heard(p, items, TRUE)
  BY BroadcastIsHeard
<1>2. /\ \A q \in Process : \A j \in DOMAIN casts[q] :
            j \in DOMAIN casts'[q] /\ casts'[q][j] = casts[q][j]
      /\ \A q \in Process : \A j \in DOMAIN casts'[q] :
            \/ j \in DOMAIN casts[q] /\ casts'[q][j] = casts[q][j]
            \/ casts'[q][j].items = items /\ casts'[q][j].publish = TRUE
  BY <1>1, HeardAdds
<1>3. ASSUME NEW q \in Process PROVE latest'[q][k] = latest[q][k]
  <2>1. latest'[q][k] = IF q = p /\ items[k] > 0 THEN items[k] ELSE latest[q][k]
    <3>1. latest' = [latest EXCEPT ![p] = Newer(latest[p], items)]
      BY <1>1 DEF Heard
    <3> QED BY <3>1, HeardBrings
  <2> QED BY <2>1
<1>4. \A q \in Process :
         /\ \A j \in DOMAIN inbox[q] : j \in DOMAIN inbox'[q] /\ inbox'[q][j] = inbox[q][j]
         /\ \A j \in DOMAIN inbox'[q] :
                \/ j \in DOMAIN inbox[q] /\ inbox'[q][j] = inbox[q][j]
                \/ inbox'[q][j] = items
  <2>1. CASE UNCHANGED inbox
    BY <2>1
  <2>2. CASE Publish(p, items)
    BY <2>2, PublishAdds
  <2> QED BY <2>1, <2>2 DEF Broadcast
<1>5. \A q \in Process : \A j \in DOMAIN casts'[q] :
         casts'[q][j].publish /\ casts'[q][j].items[k] > 0 =>
             \E l \in DOMAIN casts[q] :
                 casts[q][l].publish /\ casts[q][l].items = casts'[q][j].items
  BY <1>2
<1>6. \A q \in Process : \A j \in DOMAIN inbox'[q] :
         inbox'[q][j][k] > 0 => \/ inbox'[q][j][k] = version[k]
                                \/ \E l \in DOMAIN inbox[q] : inbox'[q][j] = inbox[q][l]
  BY <1>4
<1>7. \A q \in Process : (Published(q, k) => Published(q, k)') /\ (Waiting(q, k) => Waiting(q, k)')
  BY <1>2, <1>4 DEF Published, Waiting
<1> QED BY <1>3, <1>5, <1>6, <1>7, NotAnnounced

\* A broadcast that carries a new value of k takes it to every process, or loses it.
LEMMA BroadcastAnnounces ==
  ASSUME Types, Types', NEW p \in Process, NEW items \in Messages,
         Broadcast(p, items, TRUE), NEW k \in Item, items[k] > 0,
         items[k] = version'[k], k \notin LostBy(p, items),
         \A q \in Process : buffer'[q][k] > 0 => buffer'[q][k] = version'[k],
         \A q \in Process : \A i \in DOMAIN casts[q] :
             casts[q][i].publish /\ casts[q][i].items[k] > 0
                 => casts[q][i].items[k] = version'[k],
         \A q \in Process : \A i \in DOMAIN inbox[q] :
             inbox[q][i][k] > 0 => inbox[q][i][k] = version'[k]
  PROVE  OneValue(k)' /\ \A q \in Process : Arrives(q, k)'
<1>1. Heard(p, items, TRUE)
  BY BroadcastIsHeard
<1>2. \A q \in Process : \A j \in DOMAIN casts'[q] :
          \/ j \in DOMAIN casts[q] /\ casts'[q][j] = casts[q][j]
          \/ casts'[q][j].items = items /\ casts'[q][j].publish = TRUE
  BY <1>1, HeardAdds
<1>8. Here(p) # {} => \E j \in DOMAIN casts'[p] :
          casts'[p][j].items = items /\ casts'[p][j].publish = TRUE
  BY <1>1, HeardStarts
<1>3. latest'[p][k] = version'[k]
  <2>1. latest' = [latest EXCEPT ![p] = Newer(latest[p], items)]
    BY <1>1 DEF Heard
  <2>2. latest'[p][k] = IF p = p /\ items[k] > 0 THEN items[k] ELSE latest[p][k]
    BY <2>1, HeardBrings
  <2> QED BY <2>2
<1>4. UNCHANGED inbox \/ Publish(p, items)
  BY DEF Broadcast
<1>5. \A q \in Process : \A j \in DOMAIN inbox'[q] :
         \/ j \in DOMAIN inbox[q] /\ inbox'[q][j] = inbox[q][j]
         \/ inbox'[q][j] = items
  BY <1>4, PublishAdds
<1>6. OneValue(k)'
  <2>1. \A q \in Process : \A j \in DOMAIN casts'[q] :
           casts'[q][j].publish /\ casts'[q][j].items[k] > 0
               => casts'[q][j].items[k] = version'[k]
    BY <1>2
  <2>2. \A q \in Process : \A j \in DOMAIN inbox'[q] :
           inbox'[q][j][k] > 0 => inbox'[q][j][k] = version'[k]
    BY <1>5
  <2> QED BY <2>1, <2>2 DEF OneValue
<1>7. ASSUME NEW q \in Process PROVE Arrives(q, k)'
  <2>1. CASE q = p
    BY <1>3, <2>1 DEF Arrives
  <2>2. CASE q # p /\ Here(p) # {}
    <3>1. Published(p, k)'
      BY <1>8, <2>2 DEF Published
    <3> QED BY <2>2, <3>1 DEF Arrives
  <2>3. CASE q # p /\ Here(p) = {}
    <3>1. Publish(p, items)
      BY <2>3 DEF Broadcast
    <3>2. redis /\ Process \ {p} \subseteq subscribed
      BY <2>3 DEF LostBy, Lost, ItemsOf
    <3>3. \E j \in DOMAIN inbox'[q] : inbox'[q][j] = items
      BY <2>3, <3>1, <3>2, PublishAdds
    <3>4. Waiting(q, k)'
      BY <3>3 DEF Waiting
    <3> QED BY <3>4 DEF Arrives
  <2> QED BY <2>1, <2>2, <2>3
<1> QED BY <1>6, <1>7

LEMMA NotifyAgreed ==
  ASSUME Types, Types', Agreed, NEW p \in Process, NEW j \in Item, Notify(p, j)
  PROVE  Agreed'
<1> SUFFICES ASSUME NEW k \in Item, k \notin disturbed'
             PROVE  OneValue(k)' /\ \A q \in Process : Arrives(q, k)'
  BY DEF Agreed
<1>1. /\ version' = [version EXCEPT ![j] = version[j] + 1]
      /\ buffer' = [buffer EXCEPT ![p] = [buffer[p] EXCEPT ![j] = version[j] + 1]]
      /\ disturbed' = IF Crosses(p, j) THEN disturbed \cup {j} ELSE disturbed \ {j}
      /\ UNCHANGED <<latest, casts, inbox>>
  BY DEF Notify, relay
<1>2. CASE k = j
  <2>1. ~Crosses(p, j) /\ version'[k] = version[k] + 1 /\ version'[k] > 0
    BY <1>1, <1>2 DEF Types, Messages
  <2>2. buffer'[p][k] = version'[k] /\ \A q \in Process : q # p => buffer'[q] = buffer[q]
    BY <1>1, <1>2 DEF Types, Messages
  <2>3. OneValue(k)'
    BY <1>1, <1>2, <2>1, <2>2 DEF Crosses, OneValue
  <2>4. Buffered(k)'
    BY <2>1, <2>2 DEF Buffered
  <2> QED BY <2>3, <2>4 DEF Arrives
<1>3. CASE k # j
  <2>1. k \notin disturbed /\ version'[k] = version[k]
    BY <1>1, <1>3 DEF Types, Messages
  <2>2. \A q \in Process : buffer'[q][k] = buffer[q][k]
    BY <1>1, <1>3 DEF Types, Messages
  <2>3. OneValue(k) /\ \A q \in Process : Arrives(q, k)
    BY <2>1 DEF Agreed
  <2> QED BY <1>1, <2>1, <2>2, <2>3 DEF OneValue, Arrives, Buffered, Published, Waiting
<1> QED BY <1>2, <1>3

LEMMA FlushAgreed ==
  ASSUME Types, Types', Agreed, NEW p \in Process, NEW e \in Events, Flush(p, e)
  PROVE  Agreed'
<1> DEFINE items == Only(buffer[p], e)
<1> SUFFICES ASSUME NEW k \in Item, k \notin disturbed'
             PROVE  OneValue(k)' /\ \A q \in Process : Arrives(q, k)'
  BY DEF Agreed
<1>1. /\ version' = version
      /\ \A q \in Process : buffer'[q][k] = IF q = p /\ EventOf[k] = e THEN 0 ELSE buffer[q][k]
  BY DEF Flush, Types, Messages
<1>2. /\ items \in Messages /\ buffer[p][k] \in Nat
      /\ items[k] = IF EventOf[k] = e THEN buffer[p][k] ELSE 0
  <2>1. buffer[p] \in Messages
    BY DEF Types
  <2> QED BY <2>1, OnlyValues DEF Messages
<1>3. \/ Broadcast(p, items, TRUE) /\ disturbed' = disturbed \cup LostBy(p, items)
      \/ ItemsOf(items) = {} /\ UNCHANGED <<latest, casts, inbox, disturbed>>
  BY DEF Flush
<1>4. OneValue(k) /\ \A q \in Process : Arrives(q, k)
  BY <1>3 DEF Agreed
<1> HIDE DEF items
<1>5. CASE items[k] > 0
  <2>1. Broadcast(p, items, TRUE) /\ k \notin LostBy(p, items)
    BY <1>3, <1>5 DEF ItemsOf
  <2>2. items[k] = version'[k]
    BY <1>1, <1>2, <1>4, <1>5 DEF OneValue
  <2>3. \A q \in Process : buffer'[q][k] > 0 => buffer'[q][k] = version'[k]
    BY <1>1, <1>4 DEF OneValue
  <2>4. /\ \A q \in Process : \A i \in DOMAIN casts[q] :
              casts[q][i].publish /\ casts[q][i].items[k] > 0
                  => casts[q][i].items[k] = version'[k]
        /\ \A q \in Process : \A i \in DOMAIN inbox[q] :
              inbox[q][i][k] > 0 => inbox[q][i][k] = version'[k]
    BY <1>1, <1>4 DEF OneValue
  <2> QED BY <1>2, <1>5, <2>1, <2>2, <2>3, <2>4, BroadcastAnnounces
<1>6. CASE items[k] = 0
  <2>1. \A q \in Process : buffer'[q][k] = buffer[q][k]
    BY <1>1, <1>2, <1>6
  <2>2. CASE Broadcast(p, items, TRUE)
    BY <1>1, <1>2, <1>4, <1>6, <2>1, <2>2, BroadcastKeeps
  <2>3. CASE UNCHANGED <<latest, casts, inbox>>
    BY <1>1, <1>4, <2>1, <2>3 DEF OneValue, Arrives, Buffered, Published, Waiting
  <2> QED BY <1>3, <2>2, <2>3
<1> QED BY <1>2, <1>5, <1>6

LEMMA TickAgreed ==
  ASSUME HomesAreProcesses, Types, Types', Agreed, NEW e \in Events, Tick(e)
  PROVE  Agreed'
<1> SUFFICES ASSUME NEW k \in Item, k \notin disturbed'
             PROVE  OneValue(k)' /\ \A q \in Process : Arrives(q, k)'
  BY DEF Agreed
<1> DEFINE items == Ticked(e)
           announced == {i \in Item : EventOf[i] = e}
<1>1. /\ Broadcast(Ticker, items, TRUE) /\ version' = Newer(version, items)
      /\ disturbed' = (disturbed \ announced)
             \cup {i \in announced : Crosses(Ticker, i) \/ buffer[Ticker][i] > 0}
             \cup LostBy(Ticker, items)
      /\ buffer' = buffer
  BY DEF Tick, Ticked
<1>2. /\ items \in Messages /\ items[k] = IF EventOf[k] = e THEN version[k] + 1 ELSE 0
      /\ version \in Messages /\ version[k] \in Nat /\ Ticker \in Process
  BY DEF Types, Ticked, Messages, HomesAreProcesses
<1>3. version'[k] = IF items[k] > 0 THEN items[k] ELSE version[k]
  BY <1>1, <1>2, NewerValues
<1> HIDE DEF items
<1>4. CASE EventOf[k] = e
  <2>1. items[k] > 0 /\ items[k] = version'[k]
    BY <1>2, <1>3, <1>4
  <2>2. ~Crosses(Ticker, k) /\ ~(buffer[Ticker][k] > 0) /\ k \notin LostBy(Ticker, items)
    BY <1>1, <1>4
  <2>3. \A q \in Process : buffer'[q][k] > 0 => buffer'[q][k] = version'[k]
    BY <1>1, <2>2 DEF Crosses
  <2>4. /\ \A q \in Process : \A i \in DOMAIN casts[q] :
              casts[q][i].publish /\ casts[q][i].items[k] > 0
                  => casts[q][i].items[k] = version'[k]
        /\ \A q \in Process : \A i \in DOMAIN inbox[q] :
              inbox[q][i][k] > 0 => inbox[q][i][k] = version'[k]
    BY <2>2 DEF Crosses
  <2> QED BY <1>1, <1>2, <2>1, <2>2, <2>3, <2>4, BroadcastAnnounces
<1>5. CASE EventOf[k] # e
  <2>1. items[k] = 0 /\ version'[k] = version[k] /\ k \notin disturbed
    BY <1>1, <1>2, <1>3, <1>5
  <2>2. OneValue(k) /\ \A q \in Process : Arrives(q, k)
    BY <2>1 DEF Agreed
  <2> QED BY <1>1, <1>2, <2>1, <2>2, BroadcastKeeps
<1> QED BY <1>4, <1>5

LEMMA RelayedAgreed ==
  ASSUME Types, Types', Agreed, NEW p \in Process, Relayed(p)
  PROVE  Agreed'
<1> SUFFICES ASSUME NEW k \in Item, k \notin disturbed'
             PROVE  OneValue(k)' /\ \A q \in Process : Arrives(q, k)'
  BY DEF Agreed
<1> DEFINE m == Head(inbox[p])
           rest == Tail(inbox[p])
<1>1. /\ UNCHANGED <<version, disturbed, buffer>> /\ inbox[p] # <<>>
      /\ inbox' = [inbox EXCEPT ![p] = rest]
      /\ latest' = [latest EXCEPT ![p] = Newer(latest[p], m)]
      /\ Heard(p, m, FALSE)
  BY RelayedIsHeard DEF Relayed
<1>2. OneValue(k) /\ \A q \in Process : Arrives(q, k)
  BY <1>1 DEF Agreed
<1>3. inbox[p] \in Seq(Messages)
  BY DEF Types
<1>4. /\ m \in Messages /\ m = inbox[p][1] /\ 1 \in DOMAIN inbox[p]
      /\ \A j \in DOMAIN rest : j + 1 \in DOMAIN inbox[p] /\ rest[j] = inbox[p][j + 1]
      /\ \A j \in DOMAIN inbox[p] : j # 1 => j - 1 \in DOMAIN rest /\ rest[j - 1] = inbox[p][j]
  <2>1. /\ Len(inbox[p]) \in Nat /\ Len(inbox[p]) > 0 /\ DOMAIN inbox[p] = 1..Len(inbox[p])
        /\ m = inbox[p][1] /\ m \in Messages
    BY <1>1, <1>3
  <2>2. /\ rest \in Seq(Messages) /\ Len(rest) = Len(inbox[p]) - 1
        /\ \A j \in 1..(Len(inbox[p]) - 1) : rest[j] = inbox[p][j + 1]
    BY <1>1, <1>3
  <2>3. DOMAIN rest = 1..(Len(inbox[p]) - 1)
    BY <2>2
  <2> HIDE DEF m, rest
  <2>4. \A j \in DOMAIN rest : j + 1 \in DOMAIN inbox[p] /\ rest[j] = inbox[p][j + 1]
    BY <2>1, <2>2, <2>3
  <2>5. ASSUME NEW j \in DOMAIN inbox[p], j # 1
        PROVE  j - 1 \in DOMAIN rest /\ rest[j - 1] = inbox[p][j]
    <3>1. j - 1 \in 1..(Len(inbox[p]) - 1) /\ (j - 1) + 1 = j
      BY <2>1, <2>5
    <3> QED BY <2>2, <2>3, <3>1
  <2> QED BY <2>1, <2>4, <2>5
<1>5. ASSUME NEW q \in Process
      PROVE  latest'[q][k] = IF q = p /\ m[k] > 0 THEN m[k] ELSE latest[q][k]
  <2> HIDE DEF m
  <2> QED BY <1>1, <1>4, HeardBrings
<1>6. inbox'[p] = rest /\ \A q \in Process : q # p => inbox'[q] = inbox[q]
  BY <1>1 DEF Types
<1> HIDE DEF m, rest
<1>7. m[k] > 0 => m[k] = version[k]
  BY <1>2, <1>4 DEF OneValue
<1>8. \A q \in Process : latest[q][k] = version[k] => latest'[q][k] = version[k]
  <2> SUFFICES ASSUME NEW q \in Process, latest[q][k] = version[k]
               PROVE  latest'[q][k] = version[k]
    OBVIOUS
  <2>1. latest'[q][k] = IF q = p /\ m[k] > 0 THEN m[k] ELSE latest[q][k]
    BY <1>5
  <2> QED BY <1>7, <2>1
<1>9. \A q \in Process : \A j \in DOMAIN inbox'[q] :
         inbox'[q][j][k] > 0 => \/ inbox'[q][j][k] = version[k]
                                \/ \E l \in DOMAIN inbox[q] : inbox'[q][j] = inbox[q][l]
  BY <1>4, <1>6
<1>10. \A q \in Process : Waiting(q, k) => Waiting(q, k)' \/ latest'[q][k] = version[k]
  <2> SUFFICES ASSUME NEW q \in Process, Waiting(q, k)
               PROVE  Waiting(q, k)' \/ latest'[q][k] = version[k]
    OBVIOUS
  <2> PICK i \in DOMAIN inbox[q] : inbox[q][i][k] > 0
    BY DEF Waiting
  <2>1. CASE q = p /\ i = 1
    <3>1. m[k] > 0
      BY <1>4, <2>1
    <3>2. latest'[q][k] = IF q = p /\ m[k] > 0 THEN m[k] ELSE latest[q][k]
      BY <1>5
    <3> QED BY <1>7, <2>1, <3>1, <3>2
  <2>2. CASE q = p /\ i # 1
    <3>1. i - 1 \in DOMAIN inbox'[q] /\ inbox'[q][i - 1] = inbox[q][i]
      BY <1>4, <1>6, <2>2
    <3> QED BY <3>1 DEF Waiting
  <2>3. CASE q # p
    BY <1>6, <2>3 DEF Waiting
  <2> QED BY <2>1, <2>2, <2>3
<1>11. /\ \A q \in Process : \A j \in DOMAIN casts[q] :
            j \in DOMAIN casts'[q] /\ casts'[q][j] = casts[q][j]
       /\ \A q \in Process : \A j \in DOMAIN casts'[q] :
            \/ j \in DOMAIN casts[q] /\ casts'[q][j] = casts[q][j]
            \/ casts'[q][j].items = m /\ casts'[q][j].publish = FALSE
  <2> DEFINE publish == FALSE
  <2>1. m \in Messages /\ Heard(p, m, publish) /\ publish \in BOOLEAN
    BY <1>1, <1>4
  <2> HIDE DEF m, publish
  <2>2. \A q \in Process : \A j \in DOMAIN casts[q] :
           j \in DOMAIN casts'[q] /\ casts'[q][j] = casts[q][j]
    BY <2>1, HeardKeeps
  <2>3. ASSUME NEW q \in Process, NEW j \in DOMAIN casts'[q]
        PROVE  \/ j \in DOMAIN casts[q] /\ casts'[q][j] = casts[q][j]
               \/ casts'[q][j].items = m /\ casts'[q][j].publish = publish
    BY <2>1, HeardAddsOnly
  <2>4. \A q \in Process : \A j \in DOMAIN casts'[q] :
           \/ j \in DOMAIN casts[q] /\ casts'[q][j] = casts[q][j]
           \/ casts'[q][j].items = m /\ casts'[q][j].publish = FALSE
    BY <2>3 DEF publish
  <2> QED BY <2>2, <2>4
<1>12. \A q \in Process : \A j \in DOMAIN casts'[q] :
         casts'[q][j].publish /\ casts'[q][j].items[k] > 0 =>
             \E l \in DOMAIN casts[q] :
                 casts[q][l].publish /\ casts[q][l].items = casts'[q][j].items
  BY <1>11
<1>13. \A q \in Process : Published(q, k) => Published(q, k)'
  BY <1>11 DEF Published
<1> QED BY <1>1, <1>2, <1>8, <1>9, <1>10, <1>12, <1>13, NotAnnounced

\* A send forgets no broadcast but its own, and that one when nothing is left of it.
LEMMA SentForgets ==
  ASSUME HomesAreProcesses, Types, Routed,
         NEW p \in Process, NEW i \in DOMAIN casts[p], NEW s \in Socket, NEW failed \in BOOLEAN,
         Sent(p, i, s, failed), NEW j \in DOMAIN casts[p],
         j # i \/ SentMore(p, i, s, failed)
  PROVE  \E l \in DOMAIN casts'[p] :
            casts'[p][l].items = casts[p][j].items /\ casts'[p][l].publish = casts[p][j].publish
<1> DEFINE cs == casts[p]
           c == Rest(casts[p][i], s, failed)
           bs == RemoveAt(cs, i)
<1>1. cs \in Seq(Sends) /\ cs[i] \in Sends
  BY SentCases DEF Types
<1>2. \/ SentMore(p, i, s, failed) \/ Forgotten(p, i, s)
      \/ \E e \in Events : ResyncGoesOn(p, i, s, e)
  BY SentCases DEF SentToAll, ResyncEnds, ResyncRaises
<1>3. CASE SentMore(p, i, s, failed)
  <2>1. c \in Sends /\ c.items = cs[i].items /\ c.publish = cs[i].publish
    BY <1>1, RestTyped
  <2>2. casts'[p] = [cs EXCEPT ![i] = c]
    BY <1>3 DEF SentMore, Types
  <2> HIDE DEF c
  <2>3. j \in DOMAIN [cs EXCEPT ![i] = c]
        /\ [cs EXCEPT ![i] = c][j] = IF j = i THEN c ELSE cs[j]
    BY <1>1, <2>1, Replaced
  <2>4. /\ j \in DOMAIN casts'[p] /\ casts'[p][j].items = cs[j].items
        /\ casts'[p][j].publish = cs[j].publish
    BY <2>1, <2>2, <2>3
  <2> QED BY <2>4
<1>4. ASSUME j # i
      PROVE  \E l \in DOMAIN bs : bs[l] = cs[j]
  <2>1. /\ Len(cs) \in Nat /\ DOMAIN cs = 1..Len(cs) /\ i \in 1..Len(cs)
        /\ DOMAIN bs = 1..(Len(cs) - 1)
        /\ \A m \in 1..(Len(cs) - 1) : bs[m] = IF m < i THEN cs[m] ELSE cs[m + 1]
    BY <1>1, Removed
  <2> HIDE DEF bs, cs
  <2>2. j \in DOMAIN cs
    BY DEF cs
  <2>3. CASE j < i
    <3>1. j \in DOMAIN bs /\ bs[j] = cs[j]
      BY <2>1, <2>2, <2>3
    <3> QED BY <3>1
  <2>4. CASE j > i
    <3>1. j - 1 \in DOMAIN bs /\ ~(j - 1 < i) /\ (j - 1) + 1 = j
      BY <2>1, <2>2, <2>4
    <3>2. bs[j - 1] = cs[j]
      BY <2>1, <3>1
    <3> QED BY <3>1, <3>2
  <2> QED BY <1>4, <2>1, <2>2, <2>3, <2>4
<1>5. CASE Forgotten(p, i, s) /\ j # i
  <2>1. casts'[p] = bs
    BY <1>5 DEF Forgotten, Types
  <2> HIDE DEF bs
  <2> QED BY <1>4, <1>5, <2>1
<1>6. CASE (\E e \in Events : ResyncGoesOn(p, i, s, e)) /\ j # i
  <2> PICK e \in Events : ResyncGoesOn(p, i, s, e)
    BY <1>6
  <2>1. casts'[p] = Append(bs, Resent(p, s, e))
    BY DEF ResyncGoesOn, Types
  <2>2. bs \in Seq(Sends) /\ Resent(p, s, e) \in Sends
    BY <1>1, Removed, ResentTyped
  <2> HIDE DEF bs
  <2>3. \A l \in DOMAIN bs : l \in DOMAIN casts'[p] /\ casts'[p][l] = bs[l]
    BY <2>1, <2>2, Appended
  <2> QED BY <1>4, <1>6, <2>3
<1> QED BY <1>2, <1>3, <1>5, <1>6

LEMMA SentAgreed ==
  ASSUME HomesAreProcesses, Types, Types', Routed, Agreed,
         NEW p \in Process, NEW i \in DOMAIN casts[p], NEW s \in Socket, NEW failed \in BOOLEAN,
         Sent(p, i, s, failed)
  PROVE  Agreed'
<1> SUFFICES ASSUME NEW k \in Item, k \notin disturbed'
             PROVE  OneValue(k)' /\ \A q \in Process : Arrives(q, k)'
  BY DEF Agreed
<1>1. /\ UNCHANGED <<version, buffer, latest, redis, subscribed>>
      /\ casts[p][i] \in Sends /\ s \in casts[p][i].to
      /\ \/ SentMore(p, i, s, failed) \/ SentToAll(p, i, s)
         \/ ResyncEnds(p, i, s) \/ ResyncRaises(p, i, s)
         \/ \E e \in Events : ResyncGoesOn(p, i, s, e)
  BY SentCases
<1> DEFINE items == casts[p][i].items
<1>2. \/ UNCHANGED <<inbox, disturbed>> /\ (casts[p][i].publish => SentMore(p, i, s, failed))
      \/ Publish(p, items) /\ disturbed' = disturbed \cup Lost(p, items)
  <2>1. ASSUME casts[p][i].for = s PROVE ~casts[p][i].publish
    BY <2>1 DEF Routed, HomesAreProcesses
  <2> QED BY <1>1, <2>1 DEF SentMore, SentToAll, ResyncEnds, ResyncRaises, ResyncGoesOn
<1>3. items \in Messages
  BY <1>1 DEF Sends
<1>4. OneValue(k) /\ \A q \in Process : Arrives(q, k)
  BY <1>2 DEF Agreed
<1> HIDE DEF items
<1>5. \A q \in Process : \A j \in DOMAIN casts'[q] :
             \/ \E l \in DOMAIN casts[q] :
                    /\ casts'[q][j].items = casts[q][l].items
                    /\ casts'[q][j].for = casts[q][l].for
                    /\ casts'[q][j].publish = casts[q][l].publish
                    /\ casts'[q][j].to \subseteq casts[q][l].to
             \/ /\ q = Home[s] /\ casts'[q][j].to = {s} /\ casts'[q][j].for = s
                /\ casts'[q][j].publish = FALSE
                /\ \A m \in Item : casts'[q][j].items[m] > 0 => latest[q][m] > 0
  BY SentUnderWay
<1>6. \A q \in Process : \A j \in DOMAIN casts'[q] :
         casts'[q][j].publish /\ casts'[q][j].items[k] > 0 =>
             \E l \in DOMAIN casts[q] :
                 casts[q][l].publish /\ casts[q][l].items = casts'[q][j].items
  BY <1>5
<1>7. \A q \in Process : q # p => casts'[q] = casts[q]
  BY <1>1 DEF SentMore, SentToAll, ResyncEnds, ResyncRaises, ResyncGoesOn, Forgotten, Types
<1>8. \A q \in Process :
         /\ \A j \in DOMAIN inbox[q] : j \in DOMAIN inbox'[q] /\ inbox'[q][j] = inbox[q][j]
         /\ \A j \in DOMAIN inbox'[q] :
                \/ j \in DOMAIN inbox[q] /\ inbox'[q][j] = inbox[q][j]
                \/ inbox'[q][j] = items /\ casts[p][i].publish
  <2>1. CASE UNCHANGED inbox
    <3>1. \A q \in Process : inbox'[q] = inbox[q]
      BY <2>1
    <3> SUFFICES ASSUME NEW q \in Process
                 PROVE  /\ \A j \in DOMAIN inbox[q] : j \in DOMAIN inbox'[q] /\ inbox'[q][j] = inbox[q][j]
                        /\ \A j \in DOMAIN inbox'[q] :
                               \/ j \in DOMAIN inbox[q] /\ inbox'[q][j] = inbox[q][j]
                               \/ inbox'[q][j] = items /\ casts[p][i].publish
      OBVIOUS
    <3>2. inbox'[q] = inbox[q]
      BY <3>1
    <3>3. \A j \in DOMAIN inbox[q] : j \in DOMAIN inbox'[q] /\ inbox'[q][j] = inbox[q][j]
      BY <3>2
    <3>4. ASSUME NEW j \in DOMAIN inbox'[q]
          PROVE  \/ j \in DOMAIN inbox[q] /\ inbox'[q][j] = inbox[q][j]
                 \/ inbox'[q][j] = items /\ casts[p][i].publish
      <4>1. j \in DOMAIN inbox[q] /\ inbox'[q][j] = inbox[q][j]
        BY <3>2
      <4> QED BY <4>1
    <3> QED BY <3>3, <3>4
  <2>2. CASE Publish(p, items) /\ casts[p][i].publish
    BY <1>3, <2>2, PublishAdds
  <2>3. UNCHANGED inbox \/ (Publish(p, items) /\ casts[p][i].publish)
    BY <1>1 DEF SentMore, SentToAll, ResyncEnds, ResyncRaises, ResyncGoesOn, items
  <2> QED BY <2>1, <2>2, <2>3
<1>9. \A q \in Process : \A j \in DOMAIN inbox'[q] :
         inbox'[q][j][k] > 0 => \/ inbox'[q][j][k] = version[k]
                                \/ \E l \in DOMAIN inbox[q] : inbox'[q][j] = inbox[q][l]
  <2>1. casts[p][i].publish /\ items[k] > 0 => items[k] = version[k]
    BY <1>4 DEF OneValue, items
  <2> QED BY <1>8, <2>1
<1>10. \A q \in Process : Waiting(q, k) => Waiting(q, k)'
  BY <1>8 DEF Waiting
<1>11. ASSUME NEW r \in Process, Published(r, k)
       PROVE  Published(r, k)' \/ \A q \in Process \ {r} : Waiting(q, k)'
  <2>1. CASE r # p
    BY <1>7, <1>11, <2>1 DEF Published
  <2>2. CASE r = p
    <3> PICK j \in DOMAIN casts[p] : casts[p][j].publish /\ casts[p][j].items[k] > 0
      BY <1>11, <2>2 DEF Published
    <3>1. CASE j # i \/ SentMore(p, i, s, failed)
      <4>1. \E l \in DOMAIN casts'[p] :
               casts'[p][l].items = casts[p][j].items
               /\ casts'[p][l].publish = casts[p][j].publish
        BY <3>1, SentForgets
      <4>2. Published(p, k)'
        BY <4>1 DEF Published
      <4> QED BY <2>2, <4>2
    <3>2. CASE j = i /\ ~SentMore(p, i, s, failed)
      <4>1. items[k] > 0 /\ Publish(p, items) /\ k \notin Lost(p, items)
        BY <1>2, <3>2 DEF items
      <4>2. redis /\ Process \ {p} \subseteq subscribed
        BY <4>1 DEF Lost, ItemsOf
      <4>3. ASSUME NEW q \in Process \ {p} PROVE Waiting(q, k)'
        <5>1. \E l \in DOMAIN inbox'[q] : inbox'[q][l] = items
          BY <1>3, <4>1, <4>2, PublishAdds
        <5> QED BY <4>1, <5>1 DEF Waiting
      <4> QED BY <2>2, <4>3
    <3> QED BY <3>1, <3>2
  <2> QED BY <2>1, <2>2
<1> QED BY <1>1, <1>4, <1>6, <1>9, <1>10, <1>11, NotAnnounced

LEMMA AcceptedAgreed ==
  ASSUME HomesAreProcesses, Types, Types', Agreed, NEW s \in Socket, Accepted(s)
  PROVE  Agreed'
<1> SUFFICES ASSUME NEW k \in Item, k \notin disturbed'
             PROVE  OneValue(k)' /\ \A q \in Process : Arrives(q, k)'
  BY DEF Agreed
<1> DEFINE p == Home[s]
<1>1. /\ UNCHANGED <<version, disturbed, buffer, latest, inbox>>
      /\ AcceptedAlone(s) \/ \E e \in Events : AcceptedWith(s, e)
  BY AcceptedCases
<1>2. OneValue(k) /\ \A q \in Process : Arrives(q, k)
  BY <1>1 DEF Agreed
<1>3. /\ \A q \in Process : \A j \in DOMAIN casts[q] :
            j \in DOMAIN casts'[q] /\ casts'[q][j] = casts[q][j]
      /\ \A q \in Process : \A j \in DOMAIN casts'[q] :
            \/ j \in DOMAIN casts[q] /\ casts'[q][j] = casts[q][j]
            \/ casts'[q][j].publish = FALSE
  <2>1. CASE AcceptedAlone(s)
    <3>1. casts' = casts
      BY <2>1 DEF AcceptedAlone, Types
    <3> QED BY <3>1
  <2>2. CASE \E e \in Events : AcceptedWith(s, e)
    <3> PICK e \in Events : AcceptedWith(s, e)
      BY <2>2
    <3> DEFINE r == Resent(p, s, e)
    <3>1. p \in Process /\ r \in Sends /\ r.publish = FALSE /\ casts[p] \in Seq(Sends)
      BY ResentTyped DEF HomesAreProcesses, Resent, Types
    <3>2. casts'[p] = Append(casts[p], r) /\ \A q \in Process : q # p => casts'[q] = casts[q]
      BY <3>1 DEF AcceptedWith, Types
    <3> HIDE DEF r, p
    <3>3. /\ \A j \in DOMAIN casts[p] : j \in DOMAIN casts'[p] /\ casts'[p][j] = casts[p][j]
          /\ \A j \in DOMAIN casts'[p] :
                \/ j \in DOMAIN casts[p] /\ casts'[p][j] = casts[p][j]
                \/ casts'[p][j] = r
      BY <3>1, <3>2, Appended
    <3> QED BY <3>1, <3>2, <3>3
  <2> QED BY <1>1, <2>1, <2>2
<1>4. \A q \in Process : \A j \in DOMAIN casts'[q] :
         casts'[q][j].publish /\ casts'[q][j].items[k] > 0 =>
             \E l \in DOMAIN casts[q] :
                 casts[q][l].publish /\ casts[q][l].items = casts'[q][j].items
  BY <1>3
<1>5. \A q \in Process : (Published(q, k) => Published(q, k)') /\ (Waiting(q, k) => Waiting(q, k)')
  BY <1>1, <1>3 DEF Published, Waiting
<1>6. \A q \in Process : \A j \in DOMAIN inbox'[q] :
         inbox'[q][j][k] > 0 => \/ inbox'[q][j][k] = version[k]
                                \/ \E l \in DOMAIN inbox[q] : inbox'[q][j] = inbox[q][l]
  BY <1>1
<1> QED BY <1>1, <1>2, <1>4, <1>5, <1>6, NotAnnounced

\* A relay that is cut loses what it held, and nothing of an item it did not hold.
LEMMA AsideAgreed ==
  ASSUME Clients, Agreed, Aside PROVE Agreed'
<1> SUFFICES ASSUME NEW k \in Item, k \notin disturbed'
             PROVE  OneValue(k)' /\ \A q \in Process : Arrives(q, k)'
  BY DEF Agreed
<1>1. /\ UNCHANGED <<version, buffer, casts, latest>>
      /\ \/ UNCHANGED <<inbox, disturbed>>
         \/ inbox' = [p \in Process |-> <<>>]
            /\ disturbed' = disturbed \cup Undelivered(Process)
         \/ \E p \in Process : /\ inbox' = [inbox EXCEPT ![p] = <<>>]
                               /\ disturbed' = disturbed \cup Undelivered({p})
  BY AsideChanges
<1>2. OneValue(k) /\ \A q \in Process : Arrives(q, k)
  BY <1>1 DEF Agreed
<1>3. \A q \in Process : inbox'[q] = inbox[q] \/ (inbox'[q] = <<>> /\ ~Waiting(q, k))
  <2>1. CASE UNCHANGED inbox
    BY <2>1
  <2>2. CASE inbox' = [p \in Process |-> <<>>] /\ disturbed' = disturbed \cup Undelivered(Process)
    BY <2>2 DEF Undelivered, Waiting
  <2>3. CASE \E p \in Process : /\ inbox' = [inbox EXCEPT ![p] = <<>>]
                                /\ disturbed' = disturbed \cup Undelivered({p})
    <3> PICK p \in Process : /\ inbox' = [inbox EXCEPT ![p] = <<>>]
                             /\ disturbed' = disturbed \cup Undelivered({p})
      BY <2>3
    <3>1. inbox'[p] = <<>> /\ \A q \in Process : q # p => inbox'[q] = inbox[q]
      BY DEF Clients, Types
    <3>2. ~Waiting(p, k)
      BY DEF Undelivered, Waiting
    <3> QED BY <3>1, <3>2
  <2> QED BY <1>1, <2>1, <2>2, <2>3
<1>4. \A q \in Process : Waiting(q, k)' <=> Waiting(q, k)
  BY <1>3 DEF Waiting
<1>5. OneValue(k)'
  <2>1. \A q \in Process : \A j \in DOMAIN inbox'[q] :
           inbox'[q][j][k] > 0 => inbox'[q][j][k] = version[k]
    BY <1>2, <1>3 DEF OneValue
  <2> QED BY <1>1, <1>2, <2>1 DEF OneValue
<1>6. \A q \in Process : Arrives(q, k)'
  BY <1>1, <1>2, <1>4 DEF Arrives, Buffered, Published
<1> QED BY <1>5, <1>6

\* After a restart only what was never announced is sure to be known everywhere.
LEMMA RestartAgreed ==
  ASSUME Types, Types', Agreed, NEW p \in Process, Restart(p) PROVE Agreed'
<1> SUFFICES ASSUME NEW k \in Item, k \notin disturbed'
             PROVE  OneValue(k)' /\ \A q \in Process : Arrives(q, k)'
  BY DEF Agreed
<1>1. /\ buffer' = [buffer EXCEPT ![p] = Nothing] /\ latest' = [latest EXCEPT ![p] = Nothing]
      /\ casts' = [casts EXCEPT ![p] = <<>>] /\ inbox' = [inbox EXCEPT ![p] = <<>>]
      /\ disturbed' = disturbed \cup ItemsOf(version) /\ version' = version
  BY DEF Restart
<1>2. OneValue(k) /\ \A q \in Process : Arrives(q, k)
  BY <1>1 DEF Agreed
<1>3. version[k] = 0
  BY <1>1 DEF ItemsOf, Types, Messages
<1>4. /\ ~Buffered(k) /\ \A q \in Process : ~Published(q, k) /\ ~Waiting(q, k)
  BY <1>2, <1>3 DEF OneValue, Buffered, Published, Waiting
<1>5. \A q \in Process : latest[q][k] = version[k]
  BY <1>2, <1>4 DEF Arrives
<1>6. /\ \A q \in Process : buffer'[q] = (IF q = p THEN Nothing ELSE buffer[q])
      /\ \A q \in Process : latest'[q] = (IF q = p THEN Nothing ELSE latest[q])
      /\ \A q \in Process : casts'[q] = (IF q = p THEN <<>> ELSE casts[q])
      /\ \A q \in Process : inbox'[q] = (IF q = p THEN <<>> ELSE inbox[q])
  BY <1>1 DEF Types
<1>7. \A q \in Process : latest'[q][k] = version'[k]
  BY <1>1, <1>3, <1>5, <1>6, NothingValues
<1>8. OneValue(k)'
  <2>1. \A q \in Process : buffer'[q][k] > 0 => buffer'[q][k] = version'[k]
    BY <1>1, <1>2, <1>6, NothingValues DEF OneValue
  <2>2. \A q \in Process : \A i \in DOMAIN casts'[q] :
           casts'[q][i].publish /\ casts'[q][i].items[k] > 0
               => casts'[q][i].items[k] = version'[k]
    BY <1>1, <1>2, <1>6 DEF OneValue
  <2>3. \A q \in Process : \A i \in DOMAIN inbox'[q] :
           inbox'[q][i][k] > 0 => inbox'[q][i][k] = version'[k]
    BY <1>1, <1>2, <1>6 DEF OneValue
  <2> QED BY <2>1, <2>2, <2>3 DEF OneValue
<1> QED BY <1>7, <1>8 DEF Arrives

LEMMA ScheduledStep ==
  ASSUME HomesAreProcesses, Clients, Scheduled, Next PROVE Scheduled'
<1>0. Types /\ Routed
  BY DEF Clients
<1>1. ASSUME UNCHANGED <<buffer, scheduled>> PROVE Scheduled'
  BY <1>1 DEF Scheduled
<1>2. ASSUME NEW p \in Process, NEW k \in Item, Notify(p, k) PROVE Scheduled'
  <2>1. \A q \in Process, i \in Item : (q # p \/ i # k) => buffer'[q][i] = buffer[q][i]
    BY <1>0, <1>2 DEF Notify, Types, Messages
  <2>2. \A q \in Process : scheduled[q] \subseteq scheduled'[q]
    BY <1>0, <1>2 DEF Notify, Types
  <2>3. EventOf[k] \in scheduled'[p]
    BY <1>0, <1>2 DEF Notify, Types
  <2> SUFFICES ASSUME NEW q \in Process, NEW i \in Item, buffer'[q][i] > 0
               PROVE  EventOf[i] \in scheduled'[q]
    BY DEF Scheduled
  <2>4. CASE q = p /\ i = k
    BY <2>3, <2>4
  <2>5. CASE q # p \/ i # k
    <3>1. buffer[q][i] > 0
      BY <2>1, <2>5
    <3> QED BY <2>2, <3>1 DEF Scheduled
  <2> QED BY <2>4, <2>5
<1>3. ASSUME NEW p \in Process, NEW e \in Events, Flush(p, e) PROVE Scheduled'
  <2>1. \A q \in Process, i \in Item :
           buffer'[q][i] = IF q = p /\ EventOf[i] = e THEN 0 ELSE buffer[q][i]
    BY <1>0, <1>3 DEF Flush, Types, Messages
  <2>2. \A q \in Process : scheduled'[q] = IF q = p THEN scheduled[q] \ {e} ELSE scheduled[q]
    BY <1>0, <1>3 DEF Flush, Types
  <2> SUFFICES ASSUME NEW q \in Process, NEW i \in Item, buffer'[q][i] > 0
               PROVE  EventOf[i] \in scheduled'[q]
    BY DEF Scheduled
  <2>3. buffer[q][i] > 0 /\ ~(q = p /\ EventOf[i] = e)
    BY <2>1
  <2>4. EventOf[i] \in scheduled[q]
    BY <2>3 DEF Scheduled
  <2> QED BY <2>2, <2>3, <2>4
<1>4. ASSUME NEW p \in Process, Restart(p) PROVE Scheduled'
  <2>1. \A q \in Process : /\ buffer'[q] = (IF q = p THEN Nothing ELSE buffer[q])
                           /\ q # p => scheduled'[q] = scheduled[q]
    BY <1>0, <1>4 DEF Restart, Types
  <2> QED BY <2>1, NothingValues DEF Scheduled
<1>5. ASSUME \/ \E e \in Events : Tick(e)
             \/ \E p \in Process : Relayed(p)
      PROVE  UNCHANGED <<buffer, scheduled>>
  BY <1>5 DEF Tick, Relayed
<1>6. ASSUME NEW p \in Process, NEW i \in DOMAIN casts[p], NEW s \in Socket,
             NEW failed \in BOOLEAN, Sent(p, i, s, failed)
      PROVE  UNCHANGED <<buffer, scheduled>>
  BY <1>6 DEF Sent, hub
<1>7. ASSUME NEW s \in Socket, Accepted(s) PROVE UNCHANGED <<buffer, scheduled>>
  BY <1>7 DEF Accepted, hub
<1>8. ASSUME Aside PROVE UNCHANGED <<buffer, scheduled>>
  BY <1>8, AsideChanges
<1> QED BY <1>0, <1>1, <1>2, <1>3, <1>4, <1>5, <1>6, <1>7, <1>8, NextCases

LEMMA HubsStep ==
  ASSUME HomesAreProcesses, Hubs, Next PROVE Hubs'
<1>0. Clients /\ Agreed /\ Types /\ Routed
  BY DEF Hubs, Clients
<1>1. Clients' /\ Types'
  BY <1>0, ClientsStep DEF Clients
<1>2. Scheduled'
  BY <1>0, ScheduledStep DEF Hubs
<1>3. Agreed'
  <2>1. ASSUME NEW p \in Process, NEW k \in Item, Notify(p, k) PROVE Agreed'
    BY <1>0, <1>1, <2>1, NotifyAgreed
  <2>2. ASSUME NEW p \in Process, NEW e \in Events, Flush(p, e) PROVE Agreed'
    BY <1>0, <1>1, <2>2, FlushAgreed
  <2>3. ASSUME NEW e \in Events, Tick(e) PROVE Agreed'
    BY <1>0, <1>1, <2>3, TickAgreed
  <2>4. ASSUME NEW p \in Process, Relayed(p) PROVE Agreed'
    BY <1>0, <1>1, <2>4, RelayedAgreed
  <2>5. ASSUME NEW p \in Process, NEW i \in DOMAIN casts[p], NEW s \in Socket,
               NEW failed \in BOOLEAN, Sent(p, i, s, failed)
        PROVE  Agreed'
    BY <1>0, <1>1, <2>5, SentAgreed
  <2>6. ASSUME NEW s \in Socket, Accepted(s) PROVE Agreed'
    BY <1>0, <1>1, <2>6, AcceptedAgreed
  <2>7. ASSUME NEW p \in Process, Restart(p) PROVE Agreed'
    BY <1>0, <1>1, <2>7, RestartAgreed
  <2>8. ASSUME Aside PROVE Agreed'
    BY <1>0, <2>8, AsideAgreed
  <2> QED BY <1>0, <2>1, <2>2, <2>3, <2>4, <2>5, <2>6, <2>7, <2>8, NextCases
<1> QED BY <1>1, <1>2, <1>3 DEF Hubs

LEMMA HubsStutter ==
  ASSUME Hubs, UNCHANGED vars PROVE Hubs'
<1>1. UNCHANGED <<version, disturbed, buffer, scheduled, latest, casts, inbox>>
  BY DEF vars, hub, relay
<1>2. Clients'
  BY ClientsStutter DEF Hubs
<1>3. Agreed' /\ Scheduled'
  BY <1>1 DEF Hubs, Agreed, Scheduled, OneValue, Arrives, Buffered, Published, Waiting
<1> QED BY <1>2, <1>3 DEF Hubs

\* The value that was announced last is known, or on its way, to every process, and no
\* other value of its item is: for each item whose last announcement crossed no older
\* one and was not lost.
THEOREM LastAnnouncedArrives == Spec => []Hubs
<1>1. Init => Hubs
  BY HubsInit, SocketsAssumption
<1>2. Hubs /\ [Next]_vars => Hubs'
  BY HubsStep, HubsStutter, SocketsAssumption
<1> QED BY <1>1, <1>2, PTL DEF Spec

\* Once nothing is left to flush, send or relay, every process remembers what was
\* announced last (ProcessesAgree): the relay forgets and reverses nothing that was
\* announced one after the other.
THEOREM ProcessesAlwaysAgree == Spec => []ProcessesAgree
<1>1. Hubs => ProcessesAgree
  <2> SUFFICES ASSUME Hubs, Quiet, NEW k \in Item \ disturbed, NEW q \in Process
               PROVE  latest[q][k] = version[k]
    BY DEF ProcessesAgree
  <2>1. Arrives(q, k)
    BY DEF Hubs, Agreed
  <2>2. \A p \in Process : scheduled[p] = {} /\ casts[p] = <<>> /\ inbox[p] = <<>>
    BY DEF Quiet
  <2>3. ~Buffered(k)
    BY <2>2 DEF Hubs, Scheduled, Buffered
  <2>4. \A p \in Process : ~Published(p, k) /\ ~Waiting(p, k)
    BY <2>2 DEF Published, Waiting
  <2> QED BY <2>1, <2>3, <2>4 DEF Arrives
<1>2. Spec => []Hubs
  BY LastAnnouncedArrives
<1> QED BY <1>1, <1>2, PTL
=============================================================================
